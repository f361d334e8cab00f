----------------------------- MODULE McpProofs ------------------------------
(***************************************************************************)
(* Theorems about Mcp for every number of calls, every store and request.  *)
(***************************************************************************)
EXTENDS McpRefinement, FiniteSetTheorems, SequenceTheorems, TLAPS

-----------------------------------------------------------------------------
(***************************************************************************)
(* Type correctness.                                                       *)
(***************************************************************************)
LEMMA Bounds == MaxDeploys \in Nat /\ MaxTime \in Nat
  BY McpAssumption

LEMMA StoreType ==
    ASSUME stores \in Seq(Stores), Len(stores) \in 1..(MaxDeploys + 1)
    PROVE  Len(stores) \in Nat \ {0} /\ Store \in Stores /\ \A v \in 1..Len(stores) : stores[v] \in Stores
  <1>1. Len(stores) \in Nat \ {0} /\ \A v \in 1..Len(stores) : stores[v] \in Stores
    BY Bounds, ElementOfSeq
  <1> QED
    BY <1>1 DEF Store

\* What the configuration says of the tool a call asks for.
LEMMA ActionType ==
    ASSUME NEW s \in Stores, NEW r \in Requests
    PROVE  s.servers[r.server][r.tool] \in Actions \union {Unlisted}
  <1>1. s.servers \in [Servers -> [Tools -> Actions \union {Unlisted}]] /\ r.server \in Servers /\ r.tool \in Tools
    BY McpAssumption
  <1> QED
    BY <1>1

\* What the configuration demands of a resource, and when it demands a profile.
LEMMA DemandType ==
    ASSUME NEW s \in Stores
    PROVE  /\ \A a \in Actions : Demanded(s.auth.actions, a) \in Accesses
           /\ \A m \in Servers : Demanded(s.auth.mcps, m) \in Accesses
           /\ Profiles \subseteq Accesses /\ Unlisted \in Accesses
  <1>1. s.auth.actions.of \in [Actions -> Accesses] /\ s.auth.mcps.of \in [Servers -> Accesses]
    BY McpAssumption
  <1>2. Profiles \subseteq Accesses /\ Unlisted \in Accesses
    BY DEF Accesses
  <1> QED
    BY <1>1, <1>2, Zenon DEF Demanded

\* What auth's first read comes to.
LEMMA LoadAccessIs ==
    ASSUME NEW c \in Calls, NEW demanded, LoadAccess(c, demanded)
    PROVE  \/ demanded = Public /\ Passes(c) /\ UNCHANGED access
           \/ /\ NeedsProfile(demanded, request[c].token)
              /\ Goes(c, "checking") /\ access' = [access EXCEPT ![c] = demanded] /\ UNCHANGED wire
           \/ Refuses(c) /\ UNCHANGED access
  BY Zenon DEF LoadAccess

LEMMA InitType == ASSUME Init PROVE TypeOK
  <1>1. PICK s \in Stores : stores = <<s>>
    BY DEF Init
  <1>2. stores \in Seq(Stores) /\ Len(stores) = 1
    BY <1>1
  <1>3. executed = <<>> /\ executed \in Seq([call : Calls, action : Actions, input : Arguments \union {"null"}])
    BY DEF Init
  <1> QED
    BY <1>2, <1>3, Bounds DEF Init, TypeOK, Phases, Wires, Responses, Answers, Accesses

LEMMA EnvironmentType ==
    ASSUME TypeOK, (\E s \in Stores : Deploy(s)) \/ Tick
    PROVE  TypeOK'
  <1>1. CASE \E s \in Stores : Deploy(s)
    <2> PICK s \in Stores : Deploy(s)
      BY <1>1
    <2>1. stores \in Seq(Stores) /\ stores' = Append(stores, s) /\ Len(stores) \in 1..MaxDeploys
      BY Bounds DEF TypeOK, Deploy
    <2>2. stores' \in Seq(Stores) /\ Len(stores') = Len(stores) + 1
      BY <2>1, AppendProperties
    <2> QED
      BY <2>1, <2>2, Bounds DEF TypeOK, Deploy, gateway
  <1>2. CASE Tick
    BY <1>2, Bounds DEF TypeOK, Tick, gateway
  <1> QED
    BY <1>1, <1>2

LEMMA GatewayType ==
    ASSUME TypeOK, NEW c \in Calls, Gateway(c)
    PROVE  TypeOK'
  <1> USE DEF outside, Goes, Returns, Phases, Answers
  <1>1. CASE HandleMcpRequest(c)
    <2>1. Len(stores) \in 1..(MaxDeploys + 1) /\ now \in 0..MaxTime
      BY DEF TypeOK
    <2>2. began' \in [Calls -> [version : 1..(MaxDeploys + 1), at : 0..MaxTime]]
      BY <1>1, <2>1 DEF TypeOK, HandleMcpRequest
    <2>3. phase' \in [Calls -> Phases] /\ answer' \in [Calls -> Answers]
      BY <1>1 DEF TypeOK, HandleMcpRequest
    <2>4. \A d \in Calls : phase'[d] \in {"listing", "calling", "checking", "sent"} => phase[d] = phase'[d]
      BY <1>1 DEF TypeOK, HandleMcpRequest
    <2> QED
      BY <1>1, <2>2, <2>3, <2>4 DEF TypeOK, HandleMcpRequest
  <1>2. CASE ProcessRpc(c)
    <2>1. phase' \in [Calls -> Phases] /\ answer' \in [Calls -> Answers]
      BY <1>2 DEF TypeOK, ProcessRpc
    <2>2. \A d \in Calls : phase'[d] \in {"listing", "calling", "checking", "sent"} => phase[d] = phase'[d]
      BY <1>2 DEF TypeOK, ProcessRpc
    <2> QED
      BY <1>2, <2>1, <2>2 DEF TypeOK, ProcessRpc
  <1>3. CASE LoadServerConfig(c)
    <2> DEFINE action == Store.servers[request[c].server][request[c].tool]
    <2>1. action \in Actions \union {Unlisted}
      BY StoreType, ActionType DEF TypeOK
    <2>2. UNCHANGED <<outside, began, access, wire>>
      BY <1>3 DEF LoadServerConfig
    <2>3. \/ Returns(c, "rejected") /\ UNCHANGED found
          \/ Goes(c, "listing") /\ UNCHANGED found /\ request[c].method # "tools/call"
          \/ Goes(c, "calling") /\ found' = [found EXCEPT ![c] = action] /\ action \in Actions
      <3>1. \/ Returns(c, "rejected") /\ UNCHANGED found
            \/ Goes(c, "listing") /\ UNCHANGED found /\ request[c].method \in {"initialize", "tools/list"}
            \/ Goes(c, "calling") /\ found' = [found EXCEPT ![c] = action] /\ ToolFound(action)
        BY <1>3, Zenon DEF LoadServerConfig
      <3>2. request[c].method \in {"initialize", "tools/list"} => request[c].method # "tools/call"
        OBVIOUS
      <3> QED
        BY <2>1, <3>1, <3>2, Zenon DEF ToolFound
    <2> HIDE DEF action
    <2>4. phase' \in [Calls -> Phases] /\ answer' \in [Calls -> Answers]
      BY <2>3 DEF TypeOK
    <2>5. found' \in [Calls -> Actions \union {Unlisted}]
      BY <2>1, <2>3 DEF TypeOK
    <2>6. \A d \in Calls :
            /\ phase'[d] = "listing" => request[d].method # "tools/call"
            /\ \/ phase'[d] \in {"calling", "sent"}
               \/ phase'[d] = "checking" /\ request[d].method = "tools/call"
               => found'[d] \in Actions
      BY <2>3 DEF TypeOK
    <2> QED
      BY <2>2, <2>4, <2>5, <2>6 DEF TypeOK
  <1>4. ASSUME phase[c] \in {"listing", "calling", "checking"}, UNCHANGED <<outside, began, found>>,
               Passes(c) \/ Refuses(c), access' = access
        PROVE  TypeOK'
    <2>1. phase' \in [Calls -> Phases] /\ answer' \in [Calls -> Answers] /\ wire' \in [Calls -> Wires]
      BY <1>4 DEF Passes, Refuses, TypeOK, Wires
    <2>2. \A d \in Calls :
            /\ phase'[d] \in {"listing", "calling", "checking"} => phase'[d] = phase[d]
            /\ phase'[d] = "sent" => phase[d] = "sent" \/ (d = c /\ request[c].method = "tools/call")
      BY <1>4 DEF Passes, Refuses, TypeOK
    <2>3. request[c].method = "tools/call" => found[c] \in Actions
      BY <1>4 DEF TypeOK
    <2> QED
      BY <1>4, <2>1, <2>2, <2>3 DEF TypeOK
  <1>5. ASSUME phase[c] \in {"listing", "calling"}, UNCHANGED <<outside, began, found>>,
               NEW demanded \in Accesses, LoadAccess(c, demanded)
        PROVE  TypeOK'
    <2>1. CASE NeedsProfile(demanded, request[c].token) /\ Goes(c, "checking")
               /\ access' = [access EXCEPT ![c] = demanded] /\ UNCHANGED wire
      <3>1. access' \in [Calls -> Accesses]
        BY <1>5, <2>1 DEF TypeOK
      <3>2. phase' \in [Calls -> Phases]
        BY <2>1 DEF TypeOK
      <3>3. request[c].method = "tools/call" => found[c] \in Actions
        BY <1>5 DEF TypeOK
      <3>4. \A d \in Calls :
            /\ phase'[d] = "listing" => request[d].method # "tools/call"
            /\ \/ phase'[d] \in {"calling", "sent"}
               \/ phase'[d] = "checking" /\ request[d].method = "tools/call"
               => found[d] \in Actions
        BY <2>1, <3>3 DEF TypeOK
      <3> QED
        BY <1>5, <2>1, <3>1, <3>2, <3>4 DEF TypeOK
    <2> QED
      BY <1>4, <1>5, <2>1, LoadAccessIs
  <1>6. CASE HandleList(c)
    <2>1. request[c].server \in Servers
      BY McpAssumption DEF TypeOK
    <2>2. Demanded(Store.auth.mcps, request[c].server) \in Accesses
      BY <2>1, StoreType, DemandType DEF TypeOK
    <2> QED
      BY <1>5, <1>6, <2>2 DEF HandleList
  <1>7. CASE HandleCallTool(c)
    <2>1. Demanded(Store.auth.actions, found[c]) \in Accesses
      BY <1>7, StoreType, DemandType DEF TypeOK, HandleCallTool
    <2> QED
      BY <1>5, <1>7, <2>1 DEF HandleCallTool
  <1>8. CASE CheckProfile(c)
    BY <1>4, <1>8 DEF CheckProfile
  <1>9. CASE ReceiveResponse(c)
    BY <1>9 DEF ReceiveResponse, TypeOK
  <1>10. CASE SendTimesOut(c)
    BY <1>10 DEF SendTimesOut, TypeOK
  <1> QED
    BY <1>1, <1>2, <1>3, <1>6, <1>7, <1>8, <1>9, <1>10 DEF Gateway

LEMMA InputType ==
    ASSUME TypeOK, NEW c \in Calls
    PROVE  Input(c) \in Arguments \union {"null"}
  <1>1. request[c] \in Requests
    BY DEF TypeOK
  <1>2. request[c].arguments \in Arguments
    BY <1>1, McpAssumption
  <1> QED
    BY <1>2 DEF Input

\* The run of an action that RunAction adds.
RunOf(c) == [call |-> c, action |-> found[c], input |-> Input(c)]

LEMMA WrapperType ==
    ASSUME TypeOK, NEW c \in Calls, wire[c] = "running" => found[c] \in Actions, Wrapper(c)
    PROVE  TypeOK'
  <1> USE DEF Responds, Responses, Wires, gateway
  <1>1. CASE InnerHandle(c)
    <2>1. wire' \in [Calls -> Wires] /\ response' \in [Calls -> Responses]
      BY <1>1 DEF InnerHandle, TypeOK
    <2> QED
      BY <1>1, <2>1 DEF InnerHandle, TypeOK
  <1>2. CASE RunAction(c)
    <2>1. wire' \in [Calls -> Wires] /\ response' \in [Calls -> Responses]
      BY <1>2 DEF RunAction, TypeOK
    <2>2. RunOf(c) \in [call : Calls, action : Actions, input : Arguments \union {"null"}]
      BY <1>2, InputType DEF RunAction, RunOf
    <2>3. executed' = Append(executed, RunOf(c)) \/ UNCHANGED executed
      BY <1>2 DEF RunAction, RunOf
    <2>4. executed' \in Seq([call : Calls, action : Actions, input : Arguments \union {"null"}])
      <3> DEFINE AllRuns == [call : Calls, action : Actions, input : Arguments \union {"null"}]
      <3>1. executed \in Seq(AllRuns) /\ RunOf(c) \in AllRuns
        BY <2>2 DEF TypeOK
      <3> HIDE DEF AllRuns
      <3>2. executed' \in Seq(AllRuns)
        BY <2>3, <3>1, AppendProperties
      <3> QED
        BY <3>2 DEF AllRuns
    <2> QED
      BY <1>2, <2>1, <2>4 DEF RunAction, TypeOK
  <1> QED
    BY <1>1, <1>2 DEF Wrapper

-----------------------------------------------------------------------------
(***************************************************************************)
(* The order of request, run and answer.                                   *)
(***************************************************************************)
\* What is on its way was sent for an action.
SentFound == \A c \in Calls : wire[c] # "none" => found[c] \in Actions

OrderInv == TypeOK /\ SentFound /\ Ordered

LEMMA InitOrder == ASSUME Init PROVE OrderInv
  BY InitType DEF Init, OrderInv, SentFound, Ordered, InOrder, Ran

LEMMA EnvironmentOrder ==
    ASSUME OrderInv, (\E s \in Stores : Deploy(s)) \/ Tick
    PROVE  OrderInv'
  <1>1. UNCHANGED <<gateway, wire, response, answer, executed>>
    BY DEF Deploy, Tick
  <1>2. SentFound'
    BY <1>1 DEF gateway, OrderInv, SentFound
  <1>3. ASSUME NEW c \in Calls PROVE InOrder(c)'
    <2>1. InOrder(c)
      BY DEF OrderInv, Ordered
    <2>2. /\ phase' = phase /\ wire' = wire /\ response' = response
          /\ answer' = answer /\ executed' = executed
      BY <1>1 DEF gateway
    <2> QED
      BY <2>1, <2>2, Zenon DEF InOrder, Ran
  <1>4. Ordered'
    BY <1>1, <1>3 DEF OrderInv, Ordered
  <1> QED
    BY <1>2, <1>4, EnvironmentType DEF OrderInv

\* What http-mcp does for one call leaves the others as they are.
LEMMA OneCall ==
    ASSUME TypeOK, NEW c \in Calls, Gateway(c)
    PROVE  /\ UNCHANGED <<stores, now, request, response, executed>>
           /\ \A d \in Calls \ {c} : /\ phase'[d] = phase[d] /\ answer'[d] = answer[d] /\ wire'[d] = wire[d]
                                      /\ found'[d] = found[d] /\ access'[d] = access[d] /\ began'[d] = began[d]
  <1> USE DEF outside, Goes, Returns, TypeOK
  <1>0. ASSUME UNCHANGED outside, NEW demanded, LoadAccess(c, demanded)
        PROVE  /\ UNCHANGED <<stores, now, request, response, executed>>
               /\ \A d \in Calls \ {c} : /\ phase'[d] = phase[d] /\ answer'[d] = answer[d]
                                          /\ wire'[d] = wire[d] /\ access'[d] = access[d]
    BY <1>0, LoadAccessIs DEF Passes, Refuses
  <1>1. CASE HandleMcpRequest(c)
    BY <1>1 DEF HandleMcpRequest
  <1>2. CASE ProcessRpc(c)
    BY <1>2 DEF ProcessRpc
  <1>3. CASE LoadServerConfig(c)
    BY <1>3 DEF LoadServerConfig
  <1>4. CASE HandleList(c)
    BY <1>0, <1>4 DEF HandleList
  <1>5. CASE HandleCallTool(c)
    BY <1>0, <1>5 DEF HandleCallTool
  <1>5a. CASE CheckProfile(c)
    BY <1>5a DEF CheckProfile, Passes, Refuses
  <1>6. CASE ReceiveResponse(c)
    BY <1>6 DEF ReceiveResponse
  <1>7. CASE SendTimesOut(c)
    BY <1>7 DEF SendTimesOut
  <1> QED
    BY <1>1, <1>2, <1>3, <1>4, <1>5, <1>5a, <1>6, <1>7 DEF Gateway

LEMMA GatewayOrder ==
    ASSUME OrderInv, NEW c \in Calls, Gateway(c)
    PROVE  OrderInv'
  <1>1. TypeOK /\ SentFound /\ Ordered
    BY DEF OrderInv
  <1>2. TypeOK'
    BY <1>1, GatewayType
  <1>3. UNCHANGED executed /\ \A d \in Calls : Ran(d)' <=> Ran(d)
    BY <1>1, OneCall DEF Ran
  <1>4. \A d \in Calls \ {c} : InOrder(d)' /\ (wire'[d] # "none" => found'[d] \in Actions)
    <2> SUFFICES ASSUME NEW d \in Calls \ {c}
                 PROVE  InOrder(d)' /\ (wire'[d] # "none" => found'[d] \in Actions)
      OBVIOUS
    <2>1. InOrder(d) /\ (wire[d] # "none" => found[d] \in Actions)
      BY <1>1 DEF Ordered, SentFound
    <2>2. /\ phase'[d] = phase[d] /\ answer'[d] = answer[d] /\ wire'[d] = wire[d]
          /\ found'[d] = found[d] /\ response'[d] = response[d]
      BY <1>1, OneCall
    <2>3. Ran(d)' <=> Ran(d)
      BY <1>3
    <2> QED
      BY <2>1, <2>2, <2>3 DEF InOrder
  <1>5. InOrder(c)' /\ (wire'[c] # "none" => found'[c] \in Actions)
    <2> USE <1>1, <1>3 DEF outside, Goes, Returns, TypeOK, Ordered, InOrder, SentFound
    <2>1. CASE HandleMcpRequest(c)
      BY <2>1 DEF HandleMcpRequest
    <2>2. CASE ProcessRpc(c)
      BY <2>2 DEF ProcessRpc
    <2>3. CASE LoadServerConfig(c)
      BY <2>3 DEF LoadServerConfig
    <2>4. CASE HandleList(c)
      BY <2>4, LoadAccessIs DEF HandleList, Passes, Refuses
    <2>5. CASE HandleCallTool(c)
      BY <2>5, LoadAccessIs DEF HandleCallTool, Passes, Refuses
    <2>5a. CASE CheckProfile(c)
      BY <2>5a DEF CheckProfile, Passes, Refuses
    <2>6. CASE ReceiveResponse(c)
      BY <2>6 DEF ReceiveResponse
    <2>7. CASE SendTimesOut(c)
      BY <2>7 DEF SendTimesOut
    <2> QED
      BY <2>1, <2>2, <2>3, <2>4, <2>5, <2>5a, <2>6, <2>7 DEF Gateway
  <1> QED
    BY <1>1, <1>2, <1>3, <1>4, <1>5 DEF OrderInv, SentFound, Ordered

LEMMA WrapperOrder ==
    ASSUME OrderInv, NEW c \in Calls, Wrapper(c)
    PROVE  OrderInv'
  <1>1. TypeOK /\ SentFound /\ Ordered
    BY DEF OrderInv
  <1>2. TypeOK'
    BY <1>1, WrapperType DEF SentFound
  <1>3. SentFound'
    BY <1>1 DEF TypeOK, SentFound, Wrapper, InnerHandle, RunAction, Responds, gateway
  <1>4. CASE Wrapper(c) /\ UNCHANGED executed
    <2>1. \A d \in Calls : Ran(d)' <=> Ran(d)
      BY <1>4 DEF Ran
    <2>2. \A d \in Calls : InOrder(d)'
      <3> SUFFICES ASSUME NEW d \in Calls PROVE InOrder(d)'
        OBVIOUS
      <3>1. InOrder(d) /\ (Ran(d)' <=> Ran(d))
        BY <1>1, <2>1 DEF Ordered
      <3>2. phase'[d] = phase[d] /\ answer'[d] = answer[d]
        BY <1>4 DEF Wrapper, InnerHandle, RunAction, gateway
      <3>3. \/ wire'[d] = wire[d] /\ response'[d] = response[d]
            \/ /\ wire[d] \in {"sent", "running"} /\ wire'[d] # "none"
               /\ wire'[d] # "done" => response'[d] = response[d]
               /\ wire'[d] = "done" => response'[d] \notin {"output", "bare", "text"}
        <4>1. CASE InnerHandle(c)
          BY <1>1, <4>1 DEF TypeOK, InnerHandle, Responds
        <4>2. CASE RunAction(c)
          <5>1. UNCHANGED executed /\ executed' # Append(executed, RunOf(c))
            <6>1. Len(Append(executed, RunOf(c))) = Len(executed) + 1 /\ Len(executed) \in Nat
              BY <1>1 DEF TypeOK
            <6> QED
              BY <1>4, <6>1
          <5>2. Responds(c, "forbidden") /\ wire[c] = "running"
            BY <4>2, <5>1 DEF RunAction, RunOf
          <5> QED
            BY <1>1, <5>2 DEF TypeOK, Responds
        <4> QED
          BY <1>4, <4>1, <4>2 DEF Wrapper
      <3>4. wire[d] \in Wires
        BY <1>1 DEF TypeOK
      <3> QED
        BY <3>1, <3>2, <3>3, <3>4 DEF InOrder, Wires
    <2>3. Ordered'
      BY <1>1, <1>4, <2>2 DEF Ordered
    <2> QED
      BY <1>2, <1>3, <2>3 DEF OrderInv
  <1>6. CASE RunAction(c) /\ executed' = Append(executed, RunOf(c))
    <2>1. /\ DOMAIN executed' = 1..(Len(executed) + 1) /\ Len(executed) \in Nat
          /\ DOMAIN executed = 1..Len(executed)
          /\ executed'[Len(executed) + 1] = RunOf(c)
          /\ \A i \in DOMAIN executed : executed'[i] = executed[i]
      BY <1>1, <1>6 DEF TypeOK
    <2>2. ~Ran(c)
      BY <1>1, <1>6 DEF RunAction, Ordered, InOrder
    <2>3. \A i, j \in DOMAIN executed' : executed'[i].call = executed'[j].call => i = j
      BY <1>1, <2>1, <2>2 DEF Ran, RunOf, Ordered
    <2>4. Ran(c)' /\ \A d \in Calls \ {c} : Ran(d)' <=> Ran(d)
      BY <2>1 DEF Ran, RunOf
    <2>5. \A d \in Calls : InOrder(d)'
      BY <1>1, <1>6, <2>4 DEF TypeOK, Ordered, InOrder, RunAction, Responds, gateway
    <2> QED
      BY <1>2, <1>3, <2>3, <2>5 DEF OrderInv, Ordered
  <1> QED
    BY <1>4, <1>6 DEF Wrapper, InnerHandle, RunAction, RunOf, gateway

LEMMA OrderStep == OrderInv /\ [Next]_vars => OrderInv'
  <1> SUFFICES ASSUME OrderInv, [Next]_vars PROVE OrderInv'
    OBVIOUS
  <1>1. CASE (\E s \in Stores : Deploy(s)) \/ Tick
    BY <1>1, EnvironmentOrder
  <1>2. CASE \E c \in Calls : Gateway(c)
    BY <1>2, GatewayOrder
  <1>3. CASE \E c \in Calls : Wrapper(c)
    BY <1>3, WrapperOrder
  <1>4. CASE UNCHANGED vars
    BY <1>4 DEF vars, OrderInv, TypeOK, SentFound, Ordered, InOrder, Ran
  <1> QED
    BY <1>1, <1>2, <1>3, <1>4 DEF Next

\* Every variable keeps its type, and only what is mapped to an action is ever
\* called or sent.
THEOREM TypeCorrect == Spec => []TypeOK
  <1>1. OrderInv => TypeOK
    BY DEF OrderInv
  <1> QED
    BY <1>1, InitOrder, OrderStep, PTL DEF Spec

\* Who is refused has not run anything and never will.
THEOREM Rejected == Spec => []RejectedNeverRuns
  <1>1. OrderInv => RejectedNeverRuns
    BY DEF OrderInv, Ordered, InOrder, Ran, RejectedNeverRuns, Runs
  <1> QED
    BY <1>1, InitOrder, OrderStep, PTL DEF Spec

\* A call runs its action at most once, however late requests and answers come.
THEOREM Once == Spec => []RunsAtMostOnce
  <1>1. OrderInv => RunsAtMostOnce
    <2> SUFFICES ASSUME OrderInv, NEW c \in Calls PROVE Cardinality(Runs(c)) <= 1
      BY DEF RunsAtMostOnce
    <2>1. Runs(c) = {} \/ \E i : Runs(c) = {i}
      BY DEF OrderInv, Ordered, Runs
    <2>2. Cardinality(Runs(c)) = 0 \/ Cardinality(Runs(c)) = 1
      BY <2>1, FS_EmptySet, FS_Singleton
    <2> QED
      BY <2>2
  <1> QED
    BY <1>1, InitOrder, OrderStep, PTL DEF Spec

\* Who is told of success has had its action run.
THEOREM Success == Spec => []SuccessMeansRan
  <1>1. OrderInv => SuccessMeansRan
    BY DEF OrderInv, Ordered, InOrder, Ran, SuccessMeansRan, Runs
  <1> QED
    BY <1>1, InitOrder, OrderStep, PTL DEF Spec

-----------------------------------------------------------------------------
(***************************************************************************)
(* Nothing runs that was not granted.                                      *)
(***************************************************************************)
GrantInv == OrderInv /\ GrantedFirst

\* The check of a token against a profile, in the terms of Entitled: it lets pass
\* who is entitled, no more and no fewer.
LEMMA CheckIsExact ==
    ASSUME NEW token \in Credentials, NEW demanded \in Profiles, NEW profiles, NEW t \in Int,
           profiles.of \in [Profiles -> Secrets \union {Unlisted}]
    PROVE  CheckProfileAuthorization(token, demanded, profiles, t) <=>
             /\ profiles.readable /\ token.profile = demanded
             /\ token.alg = "HS256" /\ ~token.aud
             /\ token.key.text = profiles.of[token.profile]
             /\ token.key.decoded <=> token.key.text \in Encoded
             /\ t \in (token.nbf - Leeway)..(token.exp + Leeway)
  <1> DEFINE secret == profiles.of[token.profile]
             Signed == token.key.text = secret /\ (token.key.decoded <=> token.key.text \in Encoded)
             InTime == t \in (token.nbf - Leeway)..(token.exp + Leeway)
  <1>1. /\ Leeway \in Nat /\ token.exp \in Int /\ token.nbf \in Int
        /\ token.profile \in Profiles /\ token.key \in [text : Secrets, decoded : BOOLEAN]
        /\ Unlisted \notin Profiles \union Secrets
    BY AuthAssumption DEF Credentials
  <1>2. token.key = Key(secret) <=> Signed
    <2> DEFINE key == token.key
    <2>1. key = [text |-> key.text, decoded |-> key.decoded] /\ key.decoded \in BOOLEAN
      BY <1>1
    <2> HIDE DEF key, secret
    <2>2. ASSUME key = Key(secret) PROVE key.text = secret /\ (key.decoded <=> key.text \in Encoded)
      <3>1. key.text = secret
        BY <2>2 DEF Key
      <3>2. key.decoded = (secret \in Encoded)
        BY <2>2 DEF Key
      <3> QED
        BY <3>1, <3>2, Zenon
    <2>3. ASSUME key.text = secret, key.decoded <=> key.text \in Encoded PROVE key = Key(secret)
      <3> DEFINE coded == secret \in Encoded
      <3>1. key.decoded = TRUE \/ key.decoded = FALSE
        BY <2>1
      <3>2. (coded = TRUE \/ coded = FALSE) /\ (key.decoded <=> coded)
        BY <2>3
      <3>3. key.decoded = coded
        BY <3>1, <3>2
      <3> QED
        BY <2>1, <2>3, <3>3, Zenon DEF Key
    <2> QED
      BY <2>2, <2>3 DEF key
  <1>3. InTime <=> token.exp + Leeway >= t /\ token.nbf <= t + Leeway
    BY <1>1
  <1>4. ValidateJwt(token, secret, t) <=> token.alg = "HS256" /\ ~token.aud /\ Signed /\ InTime
    BY <1>2, <1>3, Zenon DEF ValidateJwt
  <1>5. Signed => secret # Unlisted
    BY <1>1
  <1> HIDE DEF secret, Signed, InTime
  <1>6. CheckProfileAuthorization(token, demanded, profiles, t) <=>
          /\ profiles.readable /\ secret # Unlisted /\ ValidateJwt(token, secret, t)
          /\ token.profile = demanded
    BY Zenon DEF CheckProfileAuthorization, FetchValidatedProfile, secret
  <1>7. CheckProfileAuthorization(token, demanded, profiles, t) <=>
          /\ profiles.readable /\ token.profile = demanded
          /\ token.alg = "HS256" /\ ~token.aud /\ Signed /\ InTime
    BY <1>4, <1>5, <1>6, Zenon
  <1> QED
    BY <1>7, Zenon DEF secret, Signed, InTime

\* Whoever auth lets pass is entitled, by what its two reads found.
LEMMA PublicIsEntitled ==
    ASSUME NEW asked, NEW read, NEW a, NEW token, NEW t, Demanded(asked.actions, a) = Public
    PROVE  Entitled(asked, read, a, token, t)
  <1>1. Public # Unlisted
    BY AuthAssumption
  <1>2. asked.actions.readable /\ asked.actions.of[a] = Public
    BY <1>1, Zenon DEF Demanded
  <1> QED
    BY <1>2, Zenon DEF Entitled

LEMMA CheckedIsEntitled ==
    ASSUME NEW asked, NEW s \in Stores, NEW a \in Actions, NEW r \in Requests, NEW t \in Int,
           asked.actions.readable, asked.actions.of[a] \in Profiles, r.token.well_formed,
           CheckProfileAuthorization(r.token, asked.actions.of[a], s.auth.profiles, t)
    PROVE  Entitled(asked, s.auth, a, r.token, t)
  <1>1. s.auth.profiles.of \in [Profiles -> Secrets \union {Unlisted}] /\ r.token \in Credentials
    BY McpAssumption
  <1>2. /\ s.auth.profiles.readable /\ r.token.profile = asked.actions.of[a]
        /\ r.token.alg = "HS256" /\ ~r.token.aud
        /\ r.token.key.text = s.auth.profiles.of[r.token.profile]
        /\ r.token.key.decoded <=> r.token.key.text \in Encoded
        /\ t \in (r.token.nbf - Leeway)..(r.token.exp + Leeway)
    BY <1>1, CheckIsExact, Zenon
  <1> QED
    BY <1>2, Zenon DEF Entitled

\* What was granted stays granted, whatever is deployed afterwards.
LEMMA GrantStays ==
    ASSUME TypeOK, NEW c \in Calls, NEW action,
           Len(stores) \in Nat, Len(stores') \in Nat, Len(stores) <= Len(stores'),
           \A v \in 1..Len(stores) : stores'[v] = stores[v],
           now' \in Nat, now <= now',
           request'[c] = request[c], began'[c] = began[c]
    PROVE  /\ Granted(c, action) => Granted(c, action)'
           /\ \A v \in 1..Len(stores) : Mapped(c, action, v) => Mapped(c, action, v)'
           /\ access'[c] = access[c] => \A v, w \in 1..Len(stores) :
                DemandedBy(c, action, v, w) => DemandedBy(c, action, v, w)'
  <1>1. began[c].version \in Nat \ {0} /\ began[c].at \in Nat /\ now \in Nat
    BY Bounds DEF TypeOK
  <1>2. \A v \in 1..Len(stores) : Mapped(c, action, v) => Mapped(c, action, v)'
    BY <1>1 DEF Mapped, Conforms, Validated
  <1>3. access'[c] = access[c] => \A v, w \in 1..Len(stores) :
            DemandedBy(c, action, v, w) => DemandedBy(c, action, v, w)'
    BY <1>1 DEF DemandedBy
  <1>4. ASSUME Granted(c, action) PROVE Granted(c, action)'
    <2>1. PICK v, w, t, x :
            /\ v \in began[c].version..Len(stores) /\ w \in v..Len(stores) /\ t \in began[c].at..now
            /\ x \in w..Len(stores)
            /\ stores[v].servers[request[c].server][request[c].tool] = action
            /\ Conforms(stores[v], request[c].tool, Validated(c))
            /\ Entitled(stores[w].auth, stores[x].auth, action, request[c].token, t)
      BY <1>4, Zenon DEF Granted
    <2>2. v \in 1..Len(stores) /\ w \in 1..Len(stores) /\ x \in 1..Len(stores)
      BY <1>1, <2>1
    <2>3. /\ v \in began'[c].version..Len(stores') /\ w \in v..Len(stores') /\ t \in began'[c].at..now'
          /\ x \in w..Len(stores')
      BY <1>1, <2>1, <2>2
    <2>4. stores'[v] = stores[v] /\ stores'[w] = stores[w] /\ stores'[x] = stores[x]
      BY <2>2
    <2>5. request'[c].method = "tools/call" /\ Validated(c)' = Validated(c)
      BY <1>4 DEF Granted, Validated
    <2>6. /\ stores'[v].servers[request'[c].server][request'[c].tool] = action
          /\ Conforms(stores'[v], request'[c].tool, Validated(c)')
          /\ Entitled(stores'[w].auth, stores'[x].auth, action, request'[c].token, t)
      BY <2>1, <2>4, <2>5 DEF Conforms
    <2> QED
      BY <2>3, <2>5, <2>6, Zenon DEF Granted
  <1> QED
    BY <1>2, <1>3, <1>4

LEMMA RunType ==
    ASSUME TypeOK, NEW i \in DOMAIN executed
    PROVE  executed[i].call \in Calls
  <1> DEFINE AllRuns == [call : Calls, action : Actions, input : Arguments \union {"null"}]
  <1>1. executed \in Seq(AllRuns) /\ \A run \in AllRuns : run.call \in Calls
    BY DEF TypeOK
  <1> HIDE DEF AllRuns
  <1>2. executed[i] \in AllRuns
    BY <1>1
  <1> QED
    BY <1>1, <1>2

LEMMA InitGrant == ASSUME Init PROVE GrantInv
  <1>1. Len(stores) = 1 /\ executed = <<>> /\ DOMAIN executed = {}
    BY DEF Init
  <1>2. \A c \in Calls : Checked(c)
    BY <1>1 DEF Init, Checked
  <1> QED
    BY <1>1, <1>2, InitOrder DEF GrantInv, GrantedFirst

LEMMA EnvironmentGrant ==
    ASSUME GrantInv, (\E s \in Stores : Deploy(s)) \/ Tick
    PROVE  GrantInv'
  <1>1. TypeOK /\ TypeOK' /\ OrderInv' /\ GrantedFirst
    BY EnvironmentOrder DEF GrantInv, OrderInv
  <1>2. UNCHANGED <<phase, request, found, access, began, wire, executed>>
    BY DEF Deploy, Tick, gateway
  <1>3. /\ Len(stores) \in Nat /\ Len(stores') \in Nat /\ Len(stores) <= Len(stores')
        /\ \A v \in 1..Len(stores) : stores'[v] = stores[v]
        /\ now \in Nat /\ now' \in Nat /\ now <= now'
    <2>1. stores \in Seq(Stores) /\ Len(stores) \in Nat /\ Len(stores') \in Nat /\ now \in Nat /\ now' \in Nat
      BY <1>1, Bounds DEF TypeOK
    <2>2. CASE \E s \in Stores : Deploy(s)
      <3>1. PICK s \in Stores : stores' = Append(stores, s) /\ now' = now
        BY <2>2 DEF Deploy
      <3> QED
        BY <2>1, <3>1
    <2>3. CASE Tick
      BY <2>1, <2>3 DEF Tick
    <2> QED
      BY <2>1, <2>2, <2>3
  <1>4. \A c \in Calls : Checked(c)'
    <2> SUFFICES ASSUME NEW c \in Calls PROVE Checked(c)'
      OBVIOUS
    <2>1. Checked(c)
      BY <1>1 DEF GrantedFirst
    <2>2. began[c].version \in Nat /\ began[c].at \in Nat
      BY <1>1, Bounds DEF TypeOK
    <2>3. PICK action : action = found[c] /\ action = found'[c]
      BY <1>2
    <2>4. /\ Granted(c, action) => Granted(c, action)'
          /\ \A v \in 1..Len(stores) : Mapped(c, action, v) => Mapped(c, action, v)'
          /\ \A v, w \in 1..Len(stores) : DemandedBy(c, action, v, w) => DemandedBy(c, action, v, w)'
      BY <1>1, <1>2, <1>3, GrantStays
    <2>5. 1..Len(stores) \subseteq 1..Len(stores')
      BY <1>3
    <2>6. began[c].version <= Len(stores') /\ began[c].at <= now'
      BY <1>3, <2>1, <2>2 DEF Checked
    <2>7. wire'[c] # "none" => Granted(c, action)'
      BY <1>2, <2>1, <2>3, <2>4, Zenon DEF Checked
    <2>8. phase'[c] = "calling" =>
            request'[c].method = "tools/call" /\ \E v \in 1..Len(stores') : Mapped(c, action, v)'
      BY <1>2, <2>1, <2>3, <2>4, <2>5, Zenon DEF Checked
    <2>9. phase'[c] = "checking" /\ request'[c].method = "tools/call" =>
            \E v \in 1..Len(stores') :
                Mapped(c, action, v)' /\ \E w \in 1..Len(stores') : DemandedBy(c, action, v, w)'
      BY <1>2, <2>1, <2>3, <2>4, <2>5, Zenon DEF Checked
    <2>10. /\ phase'[c] = "loading" => request'[c].method # "notification"
           /\ phase'[c] = "checking" => access'[c] \in Profiles /\ request'[c].token.well_formed
      BY <1>2, <2>1, Zenon DEF Checked
    <2> QED
      BY <1>2, <2>3, <2>6, <2>7, <2>8, <2>9, <2>10, Zenon DEF Checked
  <1>5. ASSUME NEW i \in DOMAIN executed'
        PROVE  (executed[i].input = Input(executed[i].call) /\ Granted(executed[i].call, executed[i].action))'
    <2>1. PICK c, action : c = executed[i].call /\ action = executed[i].action
      BY Zenon
    <2>2. executed' = executed /\ i \in DOMAIN executed /\ c \in Calls /\ request' = request
      BY <1>1, <1>2, <1>5, <2>1, RunType
    <2>3. Granted(c, action)
      BY <1>1, <2>1, <2>2 DEF GrantedFirst
    <2>4. Granted(c, action)'
      BY <1>1, <1>2, <1>3, <2>2, <2>3, GrantStays
    <2>5. executed[i].input = Input(c) /\ Input(c)' = Input(c)
      BY <1>1, <2>1, <2>2 DEF GrantedFirst, Input
    <2> QED
      BY <2>1, <2>2, <2>4, <2>5
  <1> QED
    BY <1>1, <1>4, <1>5 DEF GrantInv, GrantedFirst

\* What is granted depends on the configurations, the time and the request.
LEMMA GrantKept ==
    ASSUME UNCHANGED <<stores, now, request, began>>, NEW c, NEW action
    PROVE  /\ Granted(c, action)' <=> Granted(c, action)
           /\ Input(c)' = Input(c)
           /\ \A v : Mapped(c, action, v)' <=> Mapped(c, action, v)
  <1>1. Input(c)' = Input(c)
    BY DEF Input
  <1>2. Granted(c, action)' <=> Granted(c, action)
    BY DEF Granted, Conforms, Validated
  <1>3. \A v : Mapped(c, action, v)' <=> Mapped(c, action, v)
    BY DEF Mapped, Conforms, Validated
  <1> QED
    BY <1>1, <1>2, <1>3

LEMMA GatewayGrant ==
    ASSUME GrantInv, NEW c \in Calls, Gateway(c)
    PROVE  GrantInv'
  <1>1. TypeOK /\ TypeOK' /\ OrderInv' /\ GrantedFirst /\ Ordered
    BY GatewayOrder DEF GrantInv, OrderInv
  <1>2. /\ UNCHANGED <<stores, now, request, response, executed>>
        /\ \A d \in Calls \ {c} : /\ phase'[d] = phase[d] /\ wire'[d] = wire[d]
                                   /\ found'[d] = found[d] /\ began'[d] = began[d]
                                   /\ access'[d] = access[d]
    BY <1>1, OneCall
  <1>3. Len(stores) \in Nat \ {0} /\ now \in Nat /\ Store \in Stores
    BY <1>1, Bounds, StoreType, SMTT(30) DEF TypeOK
  <1>4. \A d \in Calls \ {c} : Checked(d)'
    BY <1>1, <1>2 DEF GrantedFirst, Checked, Granted, Mapped, DemandedBy, Conforms, Validated
  <1>5. phase[c] = "new" \/ began'[c] = began[c]
    BY <1>1 DEF Gateway, HandleMcpRequest, ProcessRpc, LoadServerConfig, HandleList, HandleCallTool,
                CheckProfile, ReceiveResponse, SendTimesOut, outside
  <1>6. Checked(c)'
    <2> USE DEF outside, Goes, Returns, TypeOK
    <2>0. Checked(c) /\ InOrder(c)
      BY <1>1 DEF GrantedFirst, Ordered
    <2>1. CASE HandleMcpRequest(c)
      <3>1. began'[c].version = Len(stores) /\ began'[c].at = now
        BY <1>1, <2>1 DEF HandleMcpRequest
      <3>2. phase'[c] \in {"reading", "answered"} /\ wire'[c] = "none"
        BY <1>1, <2>0, <2>1 DEF HandleMcpRequest, InOrder
      <3> QED
        BY <1>2, <1>3, <3>1, <3>2 DEF Checked
    <2>2. CASE ProcessRpc(c)
      <3>1. request[c].body \in {"ok", "large", "unreadable", "not rpc"}
        BY <1>1, McpAssumption
      <3>2. phase'[c] = "loading" => request[c].method # "notification"
        BY <1>1, <2>2, <3>1 DEF ProcessRpc
      <3>3. phase'[c] \in {"loading", "answered"} /\ wire'[c] = "none"
        BY <1>1, <2>0, <2>2 DEF ProcessRpc, InOrder
      <3> QED
        BY <1>2, <2>0, <2>2, <3>2, <3>3 DEF ProcessRpc, Checked
    <2>3. CASE LoadServerConfig(c)
      <3>1. wire'[c] = "none" /\ phase'[c] \notin {"loading", "checking"}
        BY <1>1, <2>0, <2>3 DEF LoadServerConfig, InOrder
      <3>2. request[c].method \in Methods \ {"notification"}
        <4>1. request[c].method \in Methods
          BY <1>1, McpAssumption
        <4> QED
          BY <2>0, <2>3, <4>1 DEF LoadServerConfig, Checked
      <3>3. ASSUME phase'[c] = "calling"
            PROVE  /\ request[c].method = "tools/call"
                   /\ found'[c] = Store.servers[request[c].server][request[c].tool]
                   /\ Conforms(Store, request[c].tool, Validated(c))
        <4>1. request[c].method = "tools/call" /\ ValidateArguments(request[c])
          BY <1>1, <2>3, <3>2, <3>3 DEF LoadServerConfig, Methods
        <4>2. found'[c] = Store.servers[request[c].server][request[c].tool]
          BY <1>1, <2>3, <3>2, <3>3 DEF LoadServerConfig, Methods
        <4>3. Conforms(Store, request[c].tool, Validated(c))
          BY <4>1 DEF ValidateArguments, Conforms, Validated
        <4> QED
          BY <4>1, <4>2, <4>3
      <3>4. began[c].version \in 1..Len(stores) /\ began[c].at <= now /\ UNCHANGED <<stores, now, began, request>>
        <4>1. UNCHANGED <<stores, now, began, request>>
          BY <1>2, <2>3 DEF LoadServerConfig
        <4>2. began[c].version \in Nat \ {0} /\ began[c].version <= Len(stores) /\ began[c].at <= now
          BY <1>1, <2>0, Bounds, SMTT(30) DEF Checked
        <4> QED
          BY <1>3, <4>1, <4>2
      <3>5. phase'[c] = "calling" => \E v \in 1..Len(stores) : Mapped(c, found[c], v)'
        BY <1>3, <3>3, <3>4 DEF Mapped, Store, Conforms, Validated
      <3> QED
        BY <3>1, <3>3, <3>4, <3>5 DEF Checked
    <2>4. CASE HandleList(c)
      <3>1. wire[c] = "none" /\ request[c].method # "tools/call"
        BY <1>1, <2>0, <2>4 DEF HandleList, InOrder
      <3>2. PICK demanded : LoadAccess(c, demanded)
        BY <2>4 DEF HandleList
      <3>3. UNCHANGED <<stores, now, began, request, found>>
        BY <2>4 DEF HandleList
      <3>4. /\ phase'[c] \in {"checking", "answered"} /\ wire'[c] = "none"
            /\ phase'[c] = "checking" => access'[c] \in Profiles /\ request[c].token.well_formed
        BY <1>1, <3>1, <3>2, LoadAccessIs DEF Passes, Refuses, NeedsProfile
      <3> QED
        BY <2>0, <3>1, <3>3, <3>4, Zenon DEF Checked
    <2>5. CASE HandleCallTool(c)
      <3> DEFINE demanded == Demanded(Store.auth.actions, found[c])
      <3>1. /\ UNCHANGED <<stores, now, began, request, found>> /\ LoadAccess(c, demanded)
            /\ found[c] \in Actions /\ wire[c] = "none"
        BY <1>1, <2>0, <2>5 DEF HandleCallTool, InOrder
      <3>2. PICK v \in 1..Len(stores) : Mapped(c, found[c], v) /\ request[c].method = "tools/call"
        BY <2>0, <2>5 DEF HandleCallTool, Checked
      <3>3. v \in began[c].version..Len(stores) /\ Len(stores) \in v..Len(stores) /\ now \in began[c].at..now
        BY <1>1, <1>3, <2>0, <3>2, Bounds DEF Mapped, Checked
      <3>4. ASSUME demanded = Public PROVE Granted(c, found[c])
        <4>1. Entitled(Store.auth, Store.auth, found[c], request[c].token, now)
          BY <3>4, PublicIsEntitled
        <4>2. stores[v].servers[request[c].server][request[c].tool] = found[c]
              /\ Conforms(stores[v], request[c].tool, Validated(c))
          BY <3>2 DEF Mapped
        <4>3. Len(stores) \in Len(stores)..Len(stores)
          BY <1>3
        <4>4. Entitled(stores[Len(stores)].auth, stores[Len(stores)].auth, found[c], request[c].token, now)
          BY <4>1 DEF Store
        <4> QED
          BY <3>2, <3>3, <4>2, <4>3, <4>4, Zenon DEF Granted
      <3>5. ASSUME NEW p \in Profiles, demanded = p, access'[c] = p
            PROVE  DemandedBy(c, found[c], v, Len(stores))'
        <4>1. p # Unlisted
          BY AuthAssumption
        <4>2. Store.auth.actions.readable /\ Store.auth.actions.of[found[c]] = p
          BY <3>5, <4>1, Zenon DEF Demanded
        <4> QED
          BY <3>1, <3>3, <3>5, <4>2, Zenon DEF DemandedBy, Store
      <3>6. \/ demanded = Public /\ phase'[c] = "sent" /\ wire'[c] = "sent"
            \/ /\ NeedsProfile(demanded, request[c].token)
               /\ phase'[c] = "checking" /\ access'[c] = demanded /\ wire'[c] = "none"
            \/ phase'[c] = "answered" /\ wire'[c] = "none"
        <4>1. \/ demanded = Public /\ Passes(c)
              \/ /\ NeedsProfile(demanded, request[c].token)
                 /\ Goes(c, "checking") /\ access' = [access EXCEPT ![c] = demanded] /\ UNCHANGED wire
              \/ Refuses(c)
          BY <3>1, LoadAccessIs
        <4> HIDE DEF demanded
        <4> QED
          BY <1>1, <3>1, <3>2, <4>1 DEF Passes, Refuses
      <3> HIDE DEF demanded
      <3>7. PICK action : action = found[c]
        OBVIOUS
      <3>7a. /\ Granted(c, action)' <=> Granted(c, action)
             /\ \A u : Mapped(c, action, u)' <=> Mapped(c, action, u)
        BY <3>1, GrantKept
      <3>8. wire'[c] # "none" => Granted(c, action)'
        BY <3>4, <3>6, <3>7, <3>7a
      <3>9. phase'[c] = "checking" =>
              /\ access'[c] \in Profiles /\ request'[c].token.well_formed
              /\ Mapped(c, action, v)' /\ DemandedBy(c, action, v, Len(stores))'
        <4>1. SUFFICES ASSUME phase'[c] = "checking"
                       PROVE  /\ access'[c] \in Profiles /\ request'[c].token.well_formed
                              /\ Mapped(c, action, v)' /\ DemandedBy(c, action, v, Len(stores))'
          OBVIOUS
        <4>2. demanded \in Profiles /\ access'[c] = demanded /\ request[c].token.well_formed
          BY <3>6, <4>1 DEF NeedsProfile
        <4>3. DemandedBy(c, found[c], v, Len(stores))'
          BY <3>5, <4>2
        <4>4. DemandedBy(c, action, v, Len(stores))'
          BY <3>1, <3>7, <4>3 DEF DemandedBy
        <4> QED
          BY <3>1, <3>2, <3>7, <3>7a, <4>2, <4>4
      <3>10. v \in 1..Len(stores') /\ Len(stores) \in 1..Len(stores')
        BY <1>3, <3>1
      <3>11. phase'[c] # "loading" /\ phase'[c] # "calling" /\ action = found'[c]
             /\ began'[c].version <= Len(stores') /\ began'[c].at <= now'
        BY <2>0, <3>1, <3>6, <3>7 DEF Checked
      <3>12. phase'[c] = "checking" =>
               \E u \in 1..Len(stores') :
                  Mapped(c, action, u)' /\ \E w \in 1..Len(stores') : DemandedBy(c, action, u, w)'
        <4>1. PICK n : n = Len(stores)
          OBVIOUS
        <4>2. phase'[c] = "checking" => DemandedBy(c, action, v, n)'
          BY <3>1, <3>9, <4>1 DEF DemandedBy
        <4> QED
          BY <3>9, <3>10, <4>1, <4>2, Zenon
      <3> QED
        BY <3>8, <3>9, <3>11, <3>12, Zenon DEF Checked
    <2>5a. CASE CheckProfile(c)
      <3>1. UNCHANGED <<stores, now, began, request, found>> /\ wire[c] = "none"
        BY <1>1, <2>0, <2>5a DEF CheckProfile, InOrder
      <3>2. /\ phase'[c] \in {"sent", "answered"}
            /\ wire'[c] # "none" =>
                 /\ request[c].method = "tools/call"
                 /\ CheckProfileAuthorization(request[c].token, access[c], Store.auth.profiles, now)
        BY <1>1, <2>5a, <3>1 DEF CheckProfile, Passes, Refuses
      <3>3. ASSUME request[c].method = "tools/call",
                   CheckProfileAuthorization(request[c].token, access[c], Store.auth.profiles, now)
            PROVE  Granted(c, found[c])
        <4>1. /\ found[c] \in Actions /\ request[c] \in Requests /\ now \in Int
              /\ access[c] \in Profiles /\ request[c].token.well_formed
          BY <1>1, <1>3, <2>0, <2>5a, <3>3 DEF CheckProfile, Checked
        <4>2. PICK v \in 1..Len(stores), w \in 1..Len(stores) : Mapped(c, found[c], v) /\ DemandedBy(c, found[c], v, w)
          BY <2>0, <2>5a, <3>3, Zenon DEF CheckProfile, Checked
        <4>4. Entitled(stores[w].auth, Store.auth, found[c], request[c].token, now)
          BY <1>3, <3>3, <4>1, <4>2, CheckedIsEntitled DEF DemandedBy
        <4>5. /\ v \in began[c].version..Len(stores) /\ w \in v..Len(stores) /\ now \in began[c].at..now
              /\ Len(stores) \in w..Len(stores)
          BY <1>1, <1>3, <2>0, <4>2, Bounds DEF Mapped, DemandedBy, Checked
        <4>6. /\ stores[v].servers[request[c].server][request[c].tool] = found[c]
              /\ Conforms(stores[v], request[c].tool, Validated(c))
              /\ Entitled(stores[w].auth, stores[Len(stores)].auth, found[c], request[c].token, now)
          BY <4>2, <4>4, Zenon DEF Mapped, Store
        <4> QED
          BY <3>3, <4>5, <4>6, Zenon DEF Granted
      <3>4. PICK action : action = found[c]
        OBVIOUS
      <3>5. Granted(c, action)' <=> Granted(c, action)
        BY <3>1, GrantKept
      <3>6. wire'[c] # "none" => Granted(c, action)'
        BY <3>2, <3>3, <3>4, <3>5
      <3>7. phase'[c] # "loading" /\ phase'[c] # "calling" /\ phase'[c] # "checking" /\ action = found'[c]
            /\ began'[c].version <= Len(stores') /\ began'[c].at <= now'
        BY <2>0, <3>1, <3>2, <3>4 DEF Checked
      <3> QED
        BY <3>6, <3>7, Zenon DEF Checked
    <2>6. CASE ReceiveResponse(c) \/ SendTimesOut(c)
      <3>1. /\ UNCHANGED <<stores, now, began, request, found, wire>>
            /\ phase'[c] # "loading" /\ phase'[c] # "calling" /\ phase'[c] # "checking"
        BY <1>1, <2>6 DEF ReceiveResponse, SendTimesOut
      <3>2. PICK action : action = found[c] /\ action = found'[c]
        BY <3>1
      <3>3. wire'[c] # "none" => Granted(c, action)'
        BY <2>0, <3>1, <3>2, GrantKept DEF Checked
      <3>4. began'[c].version <= Len(stores') /\ began'[c].at <= now'
        BY <2>0, <3>1 DEF Checked
      <3> QED
        BY <3>1, <3>2, <3>3, <3>4, Zenon DEF Checked
    <2> QED
      BY <2>1, <2>2, <2>3, <2>4, <2>5, <2>5a, <2>6 DEF Gateway
  <1>7. ASSUME NEW i \in DOMAIN executed
        PROVE  (executed[i].input = Input(executed[i].call) /\ Granted(executed[i].call, executed[i].action))'
    <2>1. PICK d, action : d = executed[i].call /\ action = executed[i].action
      BY Zenon
    <2>2. d \in Calls /\ Ran(d)
      BY <1>1, <2>1, RunType DEF Ran
    <2>3. began'[d] = began[d]
      <3>1. phase[d] # "new"
        BY <1>1, <2>2 DEF Ordered, InOrder
      <3> QED
        BY <1>2, <1>5, <2>2, <3>1
    <2>4. Granted(d, action)
      BY <1>1, <2>1 DEF GrantedFirst
    <2>5. Granted(d, action)'
      BY <1>2, <2>3, <2>4 DEF Granted, Conforms, Validated
    <2>6. executed[i].input = Input(d) /\ Input(d)' = Input(d)
      BY <1>1, <1>2, <2>1 DEF GrantedFirst, Input
    <2> QED
      BY <1>2, <2>1, <2>5, <2>6
  <1> QED
    BY <1>1, <1>2, <1>4, <1>6, <1>7 DEF GrantInv, GrantedFirst

LEMMA WrapperGrant ==
    ASSUME GrantInv, NEW c \in Calls, Wrapper(c)
    PROVE  GrantInv'
  <1>1. TypeOK /\ OrderInv' /\ GrantedFirst
    BY WrapperOrder DEF GrantInv, OrderInv
  <1>2. UNCHANGED <<stores, now, phase, request, found, access, began>>
    BY DEF Wrapper, InnerHandle, RunAction, gateway
  <1>3. wire[c] # "none" /\ \A d \in Calls \ {c} : wire'[d] = wire[d]
    BY <1>1 DEF Wrapper, InnerHandle, RunAction, Responds, TypeOK
  <1>4. ASSUME NEW d \in Calls PROVE Checked(d)'
    <2>1. Checked(d) /\ (wire'[d] # "none" => wire[d] # "none")
      BY <1>1, <1>3 DEF GrantedFirst
    <2>2. PICK action : action = found[d]
      OBVIOUS
    <2>3. /\ Granted(d, action)' <=> Granted(d, action)
          /\ \A v : Mapped(d, action, v)' <=> Mapped(d, action, v)
      BY <1>2, GrantKept
    <2>4. \A v, w : DemandedBy(d, action, v, w)' <=> DemandedBy(d, action, v, w)
      BY <1>2 DEF DemandedBy
    <2> QED
      BY <1>2, <2>1, <2>2, <2>3, <2>4 DEF Checked
  <1>5. CASE UNCHANGED executed
    <2>1. ASSUME NEW i \in DOMAIN executed
          PROVE  (executed[i].input = Input(executed[i].call) /\ Granted(executed[i].call, executed[i].action))'
      <3>1. PICK d, action : d = executed[i].call /\ action = executed[i].action
        OBVIOUS
      <3>2. executed[i].input = Input(d) /\ Granted(d, action)
        BY <1>1, <3>1 DEF GrantedFirst
      <3> QED
        BY <1>2, <1>5, <3>1, <3>2, GrantKept
    <2> QED
      BY <1>1, <1>4, <1>5, <2>1 DEF GrantInv, GrantedFirst
  <1>6. CASE RunAction(c) /\ executed' = Append(executed, RunOf(c))
    <2>1. /\ DOMAIN executed' = 1..(Len(executed) + 1) /\ Len(executed) \in Nat
          /\ DOMAIN executed = 1..Len(executed)
          /\ executed'[Len(executed) + 1] = RunOf(c)
          /\ \A i \in DOMAIN executed : executed'[i] = executed[i]
      BY <1>1, <1>6, SMTT(30) DEF TypeOK
    <2>2. Granted(c, found[c])
      BY <1>1, <1>3 DEF GrantedFirst, Checked
    <2>3. ASSUME NEW i \in DOMAIN executed'
          PROVE  (executed[i].input = Input(executed[i].call) /\ Granted(executed[i].call, executed[i].action))'
      <3>1. CASE i \in DOMAIN executed
        <4>1. PICK d, action : d = executed[i].call /\ action = executed[i].action
          OBVIOUS
        <4>2. executed[i].input = Input(d) /\ Granted(d, action)
          BY <1>1, <3>1, <4>1 DEF GrantedFirst
        <4>3. executed'[i] = executed[i]
          BY <2>1, <3>1
        <4> QED
          BY <1>2, <4>1, <4>2, <4>3, GrantKept
      <3>2. CASE i = Len(executed) + 1
        <4>1. executed'[i].call = c /\ executed'[i].action = found[c] /\ executed'[i].input = Input(c)'
          BY <1>2, <2>1, <3>2 DEF RunOf, Input
        <4>2. PICK action : action = found[c]
          OBVIOUS
        <4>3. Granted(c, action)'
          BY <1>2, <2>2, <4>2, GrantKept
        <4> QED
          BY <4>1, <4>2, <4>3
      <3> QED
        BY <2>1, <3>1, <3>2
    <2> QED
      BY <1>1, <1>4, <2>3 DEF GrantInv, GrantedFirst
  <1> QED
    BY <1>5, <1>6 DEF Wrapper, InnerHandle, RunAction, RunOf, gateway

LEMMA GrantStep == GrantInv /\ [Next]_vars => GrantInv'
  <1> SUFFICES ASSUME GrantInv, [Next]_vars PROVE GrantInv'
    OBVIOUS
  <1>1. CASE (\E s \in Stores : Deploy(s)) \/ Tick
    BY <1>1, EnvironmentGrant
  <1>2. CASE \E c \in Calls : Gateway(c)
    BY <1>2, GatewayGrant
  <1>3. CASE \E c \in Calls : Wrapper(c)
    BY <1>3, WrapperGrant
  <1>4. CASE UNCHANGED vars
    <2>1. OrderInv'
      BY <1>4, OrderStep DEF GrantInv
    <2>2. GrantedFirst'
      BY <1>4 DEF vars, GrantInv, GrantedFirst, Checked, Mapped, DemandedBy, Granted, Conforms, Validated, Input
    <2> QED
      BY <2>1, <2>2 DEF GrantInv
  <1> QED
    BY <1>1, <1>2, <1>3, <1>4 DEF Next

\* Whatever is deployed while a call is under way, an action runs only for a
\* tool mapped to it and a token entitled to it since the call came in.
THEOREM Allowed == Spec => []ExecutedOnlyIfAllowed
  <1>1. GrantInv => ExecutedOnlyIfAllowed
    BY DEF GrantInv, GrantedFirst, Granted, ExecutedOnlyIfAllowed
  <1> QED
    BY <1>1, InitGrant, GrantStep, PTL DEF Spec

\* No action is given an input that the schema beside it did not accept.
THEOREM InputsValidated == Spec => []InputValidated
  <1>1. GrantInv => InputValidated
    BY DEF GrantInv, GrantedFirst, Granted, InputValidated, Validated, Input
  <1> QED
    BY <1>1, InitGrant, GrantStep, PTL DEF Spec

-----------------------------------------------------------------------------
(***************************************************************************)
(* The refinement of ToolCalls.                                            *)
(***************************************************************************)
LEMMA InitPromise == ASSUME Init PROVE Promise!Init
  <1>1. /\ executed = <<>> /\ \A c \in Calls : phase[c] = "new" /\ wire[c] = "none" /\ answer[c] = "none"
    BY DEF Init
  <1>2. RunsMade = <<>>
    BY <1>1 DEF RunsMade
  <1>3. Attempts = {} /\ Underway = {}
    BY <1>1 DEF Attempts, Underway
  <1>4. \A c \in Calls : AllowedSoFar(c) = {} /\ Told(c) = "nothing"
    BY <1>1 DEF AllowedSoFar, Told
  <1> QED
    BY <1>2, <1>3, <1>4 DEF Promise!Init

LEMMA RunsAre ==
    ASSUME TypeOK
    PROVE  Len(executed) \in Nat /\ DOMAIN executed = 1..Len(executed)
  <1>1. PICK S : executed \in Seq(S)
    BY DEF TypeOK
  <1> QED
    BY <1>1

\* What the service of the promise sees of one step of the others.
LEMMA Unseen ==
    ASSUME UNCHANGED <<executed, response>>,
           \A c \in Calls : wire'[c] = wire[c] /\ (wire[c] # "none" => found'[c] = found[c])
    PROVE  UNCHANGED <<Attempts, Underway, RunsMade>>
  BY DEF Attempts, Underway, RunsMade, Outcome

\* A call keeps what it was entitled to.
LEMMA AllowedGrows ==
    ASSUME GrantInv, [Next]_vars
    PROVE  Promise!Grows
  <1>1. TypeOK /\ TypeOK' /\ Ordered
    BY GrantStep DEF GrantInv, OrderInv
  <1>2. /\ Len(stores) \in Nat /\ Len(stores') \in Nat /\ Len(stores) <= Len(stores')
        /\ \A v \in 1..Len(stores) : stores'[v] = stores[v]
        /\ now' \in Nat /\ now <= now' /\ request' = request
    <2>1. stores \in Seq(Stores) /\ Len(stores) \in Nat /\ Len(stores') \in Nat /\ now \in Nat /\ now' \in Nat
      BY <1>1, Bounds DEF TypeOK
    <2>2. CASE \E s \in Stores : Deploy(s)
      <3>1. PICK s \in Stores : stores' = Append(stores, s) /\ now' = now /\ request' = request
        BY <2>2 DEF Deploy, gateway
      <3> QED
        BY <2>1, <3>1
    <2>3. CASE Tick
      BY <2>1, <2>3 DEF Tick, gateway
    <2>4. CASE \E c \in Calls : Gateway(c)
      BY <1>1, <2>1, <2>4, OneCall
    <2>5. CASE \E c \in Calls : Wrapper(c)
      <3>1. PICK c \in Calls : Wrapper(c)
        BY <2>5
      <3>2. UNCHANGED <<stores, now, request>>
        BY <3>1 DEF Wrapper, InnerHandle, RunAction, gateway
      <3> QED
        BY <2>1, <3>2
    <2>6. CASE UNCHANGED vars
      BY <2>1, <2>6 DEF vars
    <2> QED
      BY <2>2, <2>3, <2>4, <2>5, <2>6 DEF Next
  <1>3. ASSUME NEW c \in Calls, phase[c] # "new"
        PROVE  phase'[c] # "new" /\ began'[c] = began[c]
    <2>1. CASE (\E s \in Stores : Deploy(s)) \/ Tick \/ (\E d \in Calls : Wrapper(d)) \/ UNCHANGED vars
      BY <1>3, <2>1 DEF Deploy, Tick, Wrapper, InnerHandle, RunAction, gateway, vars
    <2>2. ASSUME NEW d \in Calls \ {c}, Gateway(d) PROVE phase'[c] = phase[c] /\ began'[c] = began[c]
      BY <1>1, <2>2, OneCall
    <2>3. ASSUME Gateway(c) PROVE phase'[c] # "new" /\ began'[c] = began[c]
      BY <1>1, <1>3, <2>3 DEF Gateway, HandleMcpRequest, ProcessRpc, LoadServerConfig, HandleList, HandleCallTool,
            CheckProfile, LoadAccess, Passes, Refuses, ReceiveResponse, SendTimesOut, Goes, Returns, TypeOK
    <2> QED
      BY <1>3, <2>1, <2>2, <2>3 DEF Next
  <1>4. ASSUME NEW c \in Calls PROVE AllowedSoFar(c) \subseteq AllowedSoFar(c)'
    <2>1. CASE phase[c] = "new"
      BY <2>1 DEF AllowedSoFar
    <2>2. CASE phase[c] # "new"
      <3>1. \A a \in Actions : Granted(c, a) => Granted(c, a)'
        BY <1>1, <1>2, <1>3, <2>2, GrantStays
      <3>2. phase'[c] # "new"
        BY <1>3, <2>2
      <3> QED
        BY <2>2, <3>1, <3>2 DEF AllowedSoFar
    <2> QED
      BY <2>1, <2>2
  <1> QED
    BY <1>4 DEF Promise!Grows

\* An answer tells once, and the truth.
LEMMA AnswerTells ==
    ASSUME GrantInv, NEW c \in Calls, Gateway(c), NEW a \in Answers \ {"none"}, Returns(c, a),
           UNCHANGED <<wire, found>>,
           a = "failed" => wire[c] # "none",
           a = "success" => response[c] = "output",
           a = "empty" => response[c] = "bare",
           a = "error result" => response[c] = "text",
           a \in {"http error", "no content", "rejected", "list"} => wire[c] = "none",
           phase[c] # "answered"
    PROVE  Promise!Tell(c)
  <1>1. TypeOK /\ Ordered /\ InOrder(c) /\ UNCHANGED <<executed, response>>
    BY OneCall DEF GrantInv, OrderInv, Ordered
  <1>2. answer[c] = "none" /\ answer' = [answer EXCEPT ![c] = a] /\ answer \in [Calls -> Answers]
    BY <1>1 DEF InOrder, Returns, TypeOK
  <1>3. UNCHANGED <<Attempts, Underway, RunsMade>>
    BY <1>1, Unseen
  <1> DEFINE t == CASE a = "success" -> "output" [] a \in {"empty", "error result"} -> "no output"
                    [] a = "failed" -> "unsure" [] OTHER -> "not run"
             was == [d \in Calls |-> Told(d)]
  <1>4. was[c] = "nothing"
    BY <1>2 DEF Told
  <1>5. was' = [was EXCEPT ![c] = t]
    <2>1. Told(c)' = t
      BY <1>2 DEF Told, Answers
    <2>2. \A d \in Calls \ {c} : Told(d)' = Told(d)
      BY <1>2 DEF Told
    <2> HIDE DEF t
    <2> QED
      BY <2>1, <2>2
  <1>6. t = "not run" <=> c \notin Attempts
    <2>1. t = "not run" <=> wire[c] = "none"
      <3>1. response[c] \in {"output", "bare", "text"} => wire[c] # "none"
        BY <1>1 DEF InOrder
      <3> QED
        BY <3>1 DEF Answers
    <2> QED
      BY <2>1 DEF Attempts
  <1>7. t \in {"output", "no output"} => \E i \in DOMAIN RunsMade : RunsMade[i][1] = c /\ RunsMade[i][3] = t
    <2>1. SUFFICES ASSUME t \in {"output", "no output"}
                   PROVE  \E i \in DOMAIN RunsMade : RunsMade[i][1] = c /\ RunsMade[i][3] = t
      OBVIOUS
    <2>2. PICK i \in DOMAIN executed : executed[i].call = c
      BY <1>1, <2>1 DEF InOrder, Ran
    <2>3. DOMAIN executed = 1..Len(executed)
      BY <1>1, RunsAre
    <2>4. Outcome(c) = t
      BY <2>1 DEF Outcome
    <2> HIDE DEF t
    <2> QED
      BY <2>2, <2>3, <2>4 DEF RunsMade
  <1>8. t \in {"not run", "output", "no output", "unsure"}
    OBVIOUS
  <1> HIDE DEF t
  <1> QED
    BY <1>3, <1>4, <1>5, <1>6, <1>7, <1>8 DEF Promise!Tell

\* The parts of the promise that http-mcp changes, a call at a time.
PromiseUnseen == UNCHANGED <<Attempts, Underway, RunsMade, [c \in Calls |-> Told(c)]>>

LEMMA GatewayKeeps ==
    ASSUME GrantInv, NEW c \in Calls, Gateway(c)
    PROVE  Promise!Tell(c) \/ (\E a \in Actions : Promise!Attempt(c, a)) \/ PromiseUnseen
  <1>1. TypeOK /\ Ordered /\ InOrder(c) /\ UNCHANGED <<executed, response>>
    BY OneCall DEF GrantInv, OrderInv, Ordered
  <1>2. ASSUME UNCHANGED <<answer, wire>>, wire[c] = "none" PROVE PromiseUnseen
    <2>1. UNCHANGED <<Attempts, Underway, RunsMade>>
      BY <1>1, <1>2, OneCall, Unseen
    <2> QED
      BY <1>2, <2>1 DEF PromiseUnseen, Told
  <1>3. phase[c] \notin {"sent", "answered"} => wire[c] = "none"
    BY <1>1 DEF InOrder
  <1>4. CASE HandleMcpRequest(c)
    <2>1. phase[c] = "new" /\ UNCHANGED <<wire, found>> /\ (UNCHANGED answer \/ Returns(c, "http error"))
      BY <1>4 DEF HandleMcpRequest, Goes
    <2> QED
      BY <1>2, <1>3, <2>1, AnswerTells DEF Answers
  <1>5. CASE ProcessRpc(c)
    <2>1. /\ phase[c] = "reading" /\ UNCHANGED <<wire, found>>
          /\ UNCHANGED answer \/ Returns(c, "http error") \/ Returns(c, "rejected") \/ Returns(c, "no content")
      BY <1>5 DEF ProcessRpc, Goes
    <2> QED
      BY <1>2, <1>3, <2>1, AnswerTells DEF Answers
  <1>6. CASE LoadServerConfig(c)
    <2>1. /\ phase[c] = "loading" /\ UNCHANGED wire
          /\ UNCHANGED answer \/ (Returns(c, "rejected") /\ UNCHANGED found)
      BY <1>6, Zenon DEF LoadServerConfig, Goes
    <2> QED
      BY <1>2, <1>3, <2>1, AnswerTells DEF Answers
  <1>7. ASSUME phase[c] \in {"listing", "calling", "checking"}, UNCHANGED <<outside, began, found>>,
               Passes(c) \/ Refuses(c)
        PROVE  Promise!Tell(c) \/ \E a \in Actions : Promise!Attempt(c, a)
    <2>1. CASE (Returns(c, "list") \/ Returns(c, "rejected")) /\ UNCHANGED wire
      BY <1>3, <1>7, <2>1, AnswerTells DEF Answers
    <2>2. CASE request[c].method = "tools/call" /\ Goes(c, "sent") /\ wire' = [wire EXCEPT ![c] = "sent"]
      <3>1. wire[c] = "none" /\ answer[c] = "none" /\ UNCHANGED <<answer, found>>
        BY <1>1, <1>7, <2>2 DEF Goes, InOrder
      <3>2. found[c] \in Actions
        BY <1>1, <1>7, <2>2 DEF TypeOK
      <3>3. found[c] \in AllowedSoFar(c)
        <4>1. wire'[c] = "sent" /\ UNCHANGED <<stores, now, began, request, found>>
          BY <1>1, <1>7, <2>2 DEF TypeOK, outside
        <4>2. Checked(c)'
          BY GatewayGrant DEF GrantInv, GrantedFirst
        <4>3. PICK action : action = found[c] /\ action = found'[c]
          BY <4>1
        <4>4. Granted(c, action)'
          BY <4>1, <4>2, <4>3, Zenon DEF Checked
        <4>5. Granted(c, action)
          BY <4>1, <4>4, GrantKept
        <4> QED
          BY <1>7, <3>2, <4>3, <4>5 DEF AllowedSoFar
      <3>4. Attempts' = Attempts \union {c} /\ c \notin Attempts
        BY <1>1, <2>2, <3>1 DEF Attempts, TypeOK
      <3>5. Underway' = Underway \union {<<c, found[c]>>}
        BY <1>1, <2>2, <3>1 DEF Underway, TypeOK
      <3>6. /\ UNCHANGED <<RunsMade, [d \in Calls |-> Told(d)]>>
            /\ Told(c) = "nothing"
        BY <1>1, <3>1 DEF RunsMade, Outcome, Told
      <3> QED
        BY <3>2, <3>3, <3>4, <3>5, <3>6 DEF Promise!Attempt
    <2> QED
      BY <1>7, <2>1, <2>2, Zenon DEF Passes, Refuses
  <1>8. ASSUME phase[c] \in {"listing", "calling"}, UNCHANGED <<outside, began, found>>,
               NEW demanded, LoadAccess(c, demanded)
        PROVE  Promise!Tell(c) \/ (\E a \in Actions : Promise!Attempt(c, a)) \/ PromiseUnseen
    <2>1. CASE Goes(c, "checking") /\ UNCHANGED wire
      BY <1>2, <1>3, <1>8, <2>1 DEF Goes
    <2> QED
      BY <1>7, <1>8, <2>1, LoadAccessIs
  <1>8a. CASE HandleList(c) \/ HandleCallTool(c)
    BY <1>8, <1>8a DEF HandleList, HandleCallTool
  <1>8b. CASE CheckProfile(c)
    BY <1>7, <1>8b DEF CheckProfile
  <1>9. CASE ReceiveResponse(c)
    <2>1. /\ phase[c] = "sent" /\ wire[c] = "done" /\ UNCHANGED <<wire, found>>
          /\ \/ Returns(c, "success") /\ response[c] = "output"
             \/ Returns(c, "empty") /\ response[c] = "bare"
             \/ Returns(c, "error result") /\ response[c] = "text"
             \/ Returns(c, "failed")
      BY <1>9 DEF ReceiveResponse
    <2> QED
      BY <2>1, AnswerTells DEF Answers
  <1>10. CASE SendTimesOut(c)
    <2>1. phase[c] = "sent" /\ Returns(c, "failed") /\ UNCHANGED <<wire, found>>
      BY <1>10 DEF SendTimesOut
    <2>2. wire[c] # "none"
      BY <1>1, <2>1 DEF InOrder
    <2> QED
      BY <2>1, <2>2, AnswerTells DEF Answers
  <1> QED
    BY <1>4, <1>5, <1>6, <1>8a, <1>8b, <1>9, <1>10 DEF Gateway

LEMMA WrapperKeeps ==
    ASSUME GrantInv, NEW c \in Calls, Wrapper(c)
    PROVE  PromiseUnseen \/ \E a \in Actions : Promise!Run(c, a) \/ Promise!Lose(c, a)
  <1>1. TypeOK /\ found[c] \in Actions /\ wire[c] \in {"sent", "running"}
    BY DEF GrantInv, OrderInv, SentFound, Wrapper, InnerHandle, RunAction
  <1>2. UNCHANGED <<found, answer>> /\ wire' = [wire EXCEPT ![c] = wire'[c]] /\ wire'[c] \in {"running", "done"}
    BY <1>1 DEF Wrapper, InnerHandle, RunAction, Responds, gateway, TypeOK
  <1>3. UNCHANGED [d \in Calls |-> Told(d)] /\ Attempts' = Attempts
    BY <1>1, <1>2 DEF Told, Attempts, TypeOK
  <1>4. <<c, found[c]>> \in Underway
    BY <1>1 DEF Underway
  <1>4a. \A i \in 1..Len(executed) : response'[executed[i].call] = response[executed[i].call]
    <2>1. DOMAIN executed = 1..Len(executed) /\ \A i \in 1..Len(executed) : executed[i].call \in Calls \ {c}
      <3>1. DOMAIN executed = 1..Len(executed) /\ ~Ran(c)
        BY <1>1, RunsAre DEF GrantInv, OrderInv, Ordered, InOrder
      <3> QED
        BY <1>1, <3>1, RunType DEF Ran
    <2>2. \A d \in Calls \ {c} : response'[d] = response[d]
      BY <1>1 DEF Wrapper, InnerHandle, RunAction, Responds, TypeOK
    <2> QED
      BY <2>1, <2>2
  <1>5. wire'[c] = "running" => UNCHANGED <<Underway, executed>>
    BY <1>1, <1>2 DEF Underway, TypeOK, Wrapper, InnerHandle, RunAction, Responds
  <1>6. wire'[c] = "done" => Underway' = Underway \ {<<c, found[c]>>}
    BY <1>1, <1>2 DEF Underway, TypeOK
  <1>7. ASSUME executed' = Append(executed, RunOf(c))
        PROVE  \E outcome \in {"output", "no output"} : RunsMade' = Append(RunsMade, <<c, found[c], outcome>>)
    <2>1. /\ Len(executed) \in Nat /\ Len(executed') = Len(executed) + 1
          /\ executed'[Len(executed) + 1] = RunOf(c)
          /\ \A i \in 1..Len(executed) : executed'[i] = executed[i]
      BY <1>1, <1>7 DEF TypeOK
    <2>2. Len(RunsMade) = Len(executed) /\ DOMAIN RunsMade = 1..Len(executed)
      BY <2>1 DEF RunsMade
    <2>3. PICK outcome : outcome = IF response'[c] = "output" THEN "output" ELSE "no output"
      BY Zenon
    <2>4. ASSUME NEW i \in 1..Len(executed) PROVE RunsMade'[i] = RunsMade[i]
      <3>1. PICK d, a : d = executed[i].call /\ a = executed[i].action
        BY Zenon
      <3>2. PICK o : o = IF response[d] = "output" THEN "output" ELSE "no output"
        BY Zenon
      <3>3. RunsMade[i] = <<d, a, o>>
        BY <3>1, <3>2, Zenon DEF RunsMade, Outcome
      <3>4. i \in 1..Len(executed') /\ executed'[i] = executed[i] /\ response'[d] = response[d]
        BY <1>4a, <2>1, <3>1
      <3>5. RunsMade'[i] = <<d, a, o>>
        BY <3>1, <3>2, <3>4, Zenon DEF RunsMade, Outcome
      <3> QED
        BY <3>3, <3>5
    <2>5. RunsMade'[Len(executed) + 1] = <<c, found[c], outcome>>
      <3>1. PICK n : n = Len(executed) + 1 /\ n \in 1..Len(executed') /\ executed'[n] = RunOf(c)
        BY <2>1
      <3>2. RunOf(c).call = c /\ RunOf(c).action = found[c]
        BY DEF RunOf
      <3>3. RunsMade'[n] = <<c, found[c], outcome>>
        BY <2>3, <3>1, <3>2, Zenon DEF RunsMade, Outcome
      <3> QED
        BY <3>1, <3>3
    <2>6. RunsMade' = [i \in 1..(Len(executed) + 1) |-> RunsMade'[i]]
      BY <2>1 DEF RunsMade
    <2> HIDE DEF RunsMade
    <2>7. RunsMade' = Append(RunsMade, <<c, found[c], outcome>>)
      BY <2>1, <2>2, <2>4, <2>5, <2>6
    <2>8. outcome \in {"output", "no output"}
      BY <2>3
    <2> QED
      BY <2>7, <2>8, Zenon
  <1>8. UNCHANGED executed => UNCHANGED RunsMade
    BY <1>4a DEF RunsMade, Outcome
  <1>9. CASE wire'[c] = "running"
    BY <1>3, <1>5, <1>8, <1>9 DEF PromiseUnseen
  <1>10. CASE wire'[c] = "done" /\ UNCHANGED executed
    BY <1>1, <1>3, <1>4, <1>6, <1>8, <1>10 DEF Promise!Lose
  <1>11. CASE wire'[c] = "done" /\ executed' = Append(executed, RunOf(c))
    BY <1>1, <1>3, <1>4, <1>6, <1>7, <1>11 DEF Promise!Run
  <1>12. UNCHANGED executed \/ executed' = Append(executed, RunOf(c))
    BY DEF Wrapper, InnerHandle, RunAction, RunOf
  <1> QED
    BY <1>2, <1>9, <1>10, <1>11, <1>12

LEMMA StepKeeps == ASSUME GrantInv, [Next]_vars PROVE [Promise!Next]_(Promise!vars)
  <1>1. Promise!Grows
    BY AllowedGrows
  <1>2. ASSUME UNCHANGED <<wire, found, answer, response, executed>> PROVE PromiseUnseen
    BY <1>2 DEF PromiseUnseen, Attempts, Underway, RunsMade, Outcome, Told
  <1>3. CASE (\E s \in Stores : Deploy(s)) \/ Tick \/ UNCHANGED vars
    BY <1>1, <1>2, <1>3 DEF Deploy, Tick, gateway, vars, PromiseUnseen, Promise!Next
  <1>4. CASE \E c \in Calls : Gateway(c)
    BY <1>1, <1>4, GatewayKeeps DEF PromiseUnseen, Promise!Next
  <1>5. CASE \E c \in Calls : Wrapper(c)
    BY <1>1, <1>5, WrapperKeeps DEF PromiseUnseen, Promise!Next
  <1> QED
    BY <1>3, <1>4, <1>5 DEF Next

\* http-mcp and the wrapper implement the promise of ToolCalls, whatever the
\* configuration, the clock and the network do.
THEOREM Promised == Spec => PromiseKept
  <1>1. Init => Promise!Init
    BY InitPromise
  <1>2. GrantInv /\ [Next]_vars => [Promise!Next]_(Promise!vars)
    BY StepKeeps
  <1> QED
    BY <1>1, <1>2, InitGrant, GrantStep, PTL DEF Spec, PromiseKept, Promise!Spec
=============================================================================
