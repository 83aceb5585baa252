-------------------------- MODULE IamBreach_proofs --------------------------
(***************************************************************************)
(* Proofs about the IAM module under callers in several threads, and under *)
(* the breach simulation.                                                  *)
(***************************************************************************)
EXTENDS IamBreach, FiniteSetTheorems, TLAPS

Requests ==
  {NoRequest} \cup {q.request : q \in ServiceRequests}
    \cup UNION {{Scenarios[s][i].request : i \in 1 .. Len(Scenarios[s])} :
                  s \in 1 .. Len(Scenarios)}

DecisionType ==
  [allowed : BOOLEAN,
   reason : {"none", "node_not_registered", "policy_not_found", "policy_allow",
             "policy_deny"}]

HeldPairs == {<<i.role, i.policy>> : i \in IdentityType}

Pcs == {"idle", "check", "lookup", "decided", "alert", "write"}

CallType ==
  [pc : Pcs, node : NodeIds \cup {None}, request : Requests,
   decision : DecisionType, held : SUBSET HeldPairs]

EventType == [node : NodeIds, allowed : BOOLEAN]
AlertType == [node : NodeIds, at : Nat]

(* The shape of what the checks and the auditor keep, and of the script's  *)
(* position.                                                               *)
IamTypeOK ==
  /\ nodes \in [NodeIds -> IdentityType \cup {None}]
  /\ call \in [Threads -> CallType]
  /\ \A t \in Threads : call[t].pc # "idle" => call[t].node \in NodeIds
  /\ events \in Seq(EventType)
  /\ consecutive \in [NodeIds -> Nat]
  /\ alerts \in Seq(AlertType)
  /\ scenario \in Nat \ {0} /\ attempt \in Nat \ {0}

(* Thread t's call becomes what is given, and no other thread's changes.   *)
Calls(t, pc, node, request, decision, held) ==
  /\ call' \in [Threads -> CallType]
  /\ call'[t].pc = pc /\ call'[t].node = node /\ call'[t].request = request
  /\ call'[t].decision = decision /\ call'[t].held = held
  /\ \A u \in Threads : u # t => call'[u] = call[u]

(* The identity pairs a thread starts its check with.                      *)
HeldAt(n) == {<<i.role, i.policy>> : i \in {j \in {nodes[n]} \ {None} : j.active}}

(* An identity as registration makes it.                                   *)
LEMMA IdentityShape ==
  /\ \A role \in Roles : Identity(role, None) \in IdentityType
  /\ \A n \in DOMAIN ConfigNodes :
       Identity(ConfigNodes[n].role, ConfigNodes[n].policy) \in IdentityType
BY DEF Identity, IdentityType

(* Idle is a call in progress nowhere.                                     *)
LEMMA IdleShape ==
  /\ Idle \in CallType
  /\ Idle.pc = "idle" /\ Idle.node = None /\ Idle.held = {}
  /\ Idle.request = NoRequest /\ Idle.decision = NoDecision
<1>1. NoDecision \in DecisionType
  BY DEF NoDecision, DecisionType
<1>2. NoRequest \in Requests
  BY DEF Requests
<1>3. QED
  BY <1>1, <1>2 DEF Idle, CallType, Pcs

(* What a request carries is typed.                                        *)
LEMMA HeldShape ==
  ASSUME IamTypeOK, NEW n \in NodeIds
  PROVE  /\ HeldAt(n) \in SUBSET HeldPairs
         /\ nodes[n] # None /\ nodes[n].active =>
              <<nodes[n].role, nodes[n].policy>> \in HeldAt(n)
BY DEF IamTypeOK, HeldAt, HeldPairs

(* Entering check().                                                       *)
LEMMA RequestMoves ==
  ASSUME IamTypeOK, NEW t \in Threads, NEW n \in NodeIds, NEW r \in Requests,
         Request(t, n, r)
  PROVE  Calls(t, "check", n, r, NoDecision, HeldAt(n))
<1> DEFINE c == [pc |-> "check", node |-> n, request |-> r,
                 decision |-> NoDecision, held |-> HeldAt(n)]
<1>2. call' = [call EXCEPT ![t] = c]
  BY DEF Request, HeldAt
<1>3. c \in CallType
  <2>1. HeldAt(n) \in SUBSET HeldPairs
    BY HeldShape
  <2>2. NoDecision \in DecisionType
    BY DEF NoDecision, DecisionType
  <2>3. QED
    BY <2>1, <2>2 DEF CallType, Pcs
<1>4. c.pc = "check" /\ c.node = n /\ c.request = r /\ c.decision = NoDecision
      /\ c.held = HeldAt(n)
  OBVIOUS
<1> HIDE DEF c
<1>5. call \in [Threads -> CallType]
  BY DEF IamTypeOK
<1>6. /\ call' \in [Threads -> CallType] /\ call'[t] = c
      /\ \A u \in Threads : u # t => call'[u] = call[u]
  BY <1>2, <1>3, <1>5
<1>7. QED
  BY <1>4, <1>6 DEF Calls

(* The end of check().                                                     *)
LEMMA DecideMoves ==
  ASSUME IamTypeOK, NEW t \in Threads, NEW d \in DecisionType, Decide(t, d)
  PROVE  Calls(t, "decided", call[t].node, call[t].request, d, call[t].held)
<1> DEFINE pc == "decided"
<1>1. call \in [Threads -> CallType]
  BY DEF IamTypeOK
<1>2. call' = [call EXCEPT ![t].pc = pc, ![t].decision = d]
  BY DEF Decide
<1>3. pc \in Pcs
  BY DEF Pcs
<1> HIDE DEF pc
<1>4. Calls(t, pc, call[t].node, call[t].request, d, call[t].held)
  BY <1>1, <1>2, <1>3 DEF Calls, CallType
<1>5. QED
  BY <1>4 DEF pc

(* The steps of a call that move its program counter only, and those that  *)
(* end it.                                                                 *)
LEMMA CallMoves ==
  ASSUME IamTypeOK, NEW t \in Threads
  PROVE  LET c == call[t]
         IN  /\ PassIdentity(t) => Calls(t, "lookup", c.node, c.request, c.decision, c.held)
             /\ Audit(t) => Calls(t, "alert", c.node, c.request, c.decision, c.held)
             /\ CheckAlert(t, TRUE) =>
                  Calls(t, "write", c.node, c.request, c.decision, c.held)
             /\ CheckAlert(t, FALSE) \/ Return(t) \/ Write(t) =>
                  Calls(t, "idle", None, NoRequest, NoDecision, {})
<1> DEFINE c == call[t]
<1>0. call \in [Threads -> CallType]
  BY DEF IamTypeOK
<1>1. ASSUME PassIdentity(t)
      PROVE  Calls(t, "lookup", c.node, c.request, c.decision, c.held)
  <2> DEFINE pc == "lookup"
  <2>1. call' = [call EXCEPT ![t].pc = pc] /\ pc \in Pcs
    BY <1>1 DEF PassIdentity, Pcs
  <2> HIDE DEF pc
  <2>2. Calls(t, pc, c.node, c.request, c.decision, c.held)
    BY <1>0, <2>1 DEF Calls, CallType
  <2>3. QED
    BY <2>2 DEF pc
<1>2. ASSUME Audit(t)
      PROVE  Calls(t, "alert", c.node, c.request, c.decision, c.held)
  <2> DEFINE pc == "alert"
  <2>1. call' = [call EXCEPT ![t].pc = pc] /\ pc \in Pcs
    BY <1>2 DEF Audit, Pcs
  <2> HIDE DEF pc
  <2>2. Calls(t, pc, c.node, c.request, c.decision, c.held)
    BY <1>0, <2>1 DEF Calls, CallType
  <2>3. QED
    BY <2>2 DEF pc
<1>3. ASSUME CheckAlert(t, TRUE)
      PROVE  Calls(t, "write", c.node, c.request, c.decision, c.held)
  <2> DEFINE pc == "write"
  <2>1. call' = [call EXCEPT ![t] = [@ EXCEPT !.pc = pc]] /\ pc \in Pcs
    BY <1>3 DEF CheckAlert, Pcs
  <2> HIDE DEF pc
  <2>2. call' = [call EXCEPT ![t].pc = pc]
    BY <2>1
  <2>3. Calls(t, pc, c.node, c.request, c.decision, c.held)
    BY <1>0, <2>1, <2>2 DEF Calls, CallType
  <2>4. QED
    BY <2>3 DEF pc
<1>4. ASSUME CheckAlert(t, FALSE) \/ Return(t) \/ Write(t)
      PROVE  Calls(t, "idle", None, NoRequest, NoDecision, {})
  <2>1. call' = [call EXCEPT ![t] = Idle]
    BY <1>4 DEF CheckAlert, Return, Write
  <2>2. /\ call' \in [Threads -> CallType] /\ call'[t] = Idle
        /\ \A u \in Threads : u # t => call'[u] = call[u]
    BY <1>0, <2>1, IdleShape
  <2>3. QED
    BY <2>2, IdleShape DEF Calls
<1>5. QED
  BY <1>1, <1>2, <1>3, <1>4

(* Registering a node adds to what the checks of that node have seen.      *)
LEMMA RegisterMoves ==
  ASSUME IamTypeOK, NEW n \in NodeIds, NEW role \in Roles, Register(n, role, None)
  PROVE  /\ call' \in [Threads -> CallType]
         /\ \A t \in Threads :
              /\ call'[t].pc = call[t].pc /\ call'[t].node = call[t].node
              /\ call'[t].request = call[t].request
              /\ call'[t].decision = call[t].decision
              /\ call'[t].held = IF call[t].node = n
                                 THEN call[t].held \cup {<<role, None>>}
                                 ELSE call[t].held
<1>0. call \in [Threads -> CallType]
  BY DEF IamTypeOK
<1>1. <<role, None>> \in HeldPairs
  <2> DEFINE i == Identity(role, None)
  <2>1. i \in IdentityType
    BY IdentityShape
  <2>2. i.role = role /\ i.policy = None
    BY DEF Identity
  <2>3. <<i.role, i.policy>> \in HeldPairs
    BY <2>1 DEF HeldPairs
  <2>4. QED
    BY <2>2, <2>3
<1>2. ASSUME NEW t \in Threads
      PROVE  /\ call'[t] \in CallType
             /\ call'[t].pc = call[t].pc /\ call'[t].node = call[t].node
             /\ call'[t].request = call[t].request
             /\ call'[t].decision = call[t].decision
             /\ call'[t].held = IF call[t].node = n
                                THEN call[t].held \cup {<<role, None>>}
                                ELSE call[t].held
  <2> DEFINE h == call[t].held \cup {<<role, None>>}
  <2>1. call[t] \in CallType /\ h \in SUBSET HeldPairs
    BY <1>0, <1>1 DEF CallType
  <2>2. call'[t] = IF call[t].node = n THEN [call[t] EXCEPT !.held = h] ELSE call[t]
    BY DEF Register
  <2> HIDE DEF h
  <2>3. CASE call[t].node = n
    <3>1. call'[t] = [call[t] EXCEPT !.held = h]
      BY <2>2, <2>3
    <3>2. [call[t] EXCEPT !.held = h] =
            [pc |-> call[t].pc, node |-> call[t].node, request |-> call[t].request,
             decision |-> call[t].decision, held |-> h]
      BY <2>1 DEF CallType
    <3>3. QED
      BY <2>1, <2>3, <3>1, <3>2 DEF CallType, h
  <2>4. CASE call[t].node # n
    BY <2>1, <2>2, <2>4
  <2>5. QED
    BY <2>3, <2>4
<1>3. call' = [t \in Threads |-> call'[t]]
  BY DEF Register
<1>4. QED
  BY <1>2, <1>3

-----------------------------------------------------------------------------
(* The steps of the IAM module, whoever calls it.                          *)
IamStep ==
  \/ \E n \in NodeIds, role \in Roles : Register(n, role, None)
  \/ \E n \in NodeIds : Deregister(n) \/ RegisterPublicKey(n)
  \/ \E t \in Threads, n \in NodeIds, r \in Requests : Request(t, n, r)
  \/ \E t \in Threads : DenyUnknown(t) \/ PassIdentity(t) \/ DecideByPolicy(t)
                          \/ Audit(t) \/ Return(t) \/ Write(t)
  \/ \E t \in Threads, toFile \in BOOLEAN : CheckAlert(t, toFile)
  \/ UNCHANGED iamVars

(* The script and the service take no others.                              *)
LEMMA StepIsIamStep ==
  ASSUME IamTypeOK, [Next]_vars
  PROVE  IamStep /\ scenario' \in Nat \ {0} /\ attempt' \in Nat \ {0}
<1>0. scenario \in Nat \ {0} /\ attempt \in Nat \ {0}
  BY DEF IamTypeOK
<1>1. CASE UNCHANGED vars
  BY <1>0, <1>1 DEF vars, simVars, IamStep
<1>2. CASE SimNext
  <2>1. CASE SimRequest
    <3> DEFINE a == Scenarios[scenario][attempt]
    <3>1. /\ scenario \in 1 .. Len(Scenarios) /\ attempt \in 1 .. Len(Scenarios[scenario])
          /\ Request(Sim, a.node, a.request)
          /\ scenario' = scenario /\ attempt' = attempt
      BY <1>0, <2>1 DEF SimRequest, Attempt, simVars
    <3>2. a.node \in NodeIds /\ Sim \in Threads
      BY <3>1, BreachAssumption
    <3>3. a.request \in Requests
      BY <3>1 DEF Requests
    <3> HIDE DEF a
    <3>4. QED
      BY <1>0, <3>1, <3>2, <3>3 DEF IamStep
  <2>2. CASE SimStep \/ SimRecord
    BY <1>0, <2>2, BreachAssumption DEF SimStep, SimRecord, simVars, IamStep
  <2>3. CASE SimNextAttempt
    <3>1. CheckAlert(Sim, FALSE) /\ attempt' = attempt + 1 /\ scenario' = scenario
      BY <2>3 DEF SimNextAttempt
    <3>2. \E t \in Threads, toFile \in BOOLEAN : CheckAlert(t, toFile)
      <4>1. Sim \in Threads /\ FALSE \in BOOLEAN
        BY BreachAssumption
      <4>2. QED
        BY <3>1, <4>1, Zenon
    <3>3. IamStep
      BY <3>2, Zenon DEF IamStep
    <3>4. QED
      BY <1>0, <3>1, <3>3
  <2>4. CASE SimReport
    BY <1>0, <2>4 DEF SimReport, IamStep
  <2>5. QED
    BY <1>2, <2>1, <2>2, <2>3, <2>4 DEF SimNext
<1>3. CASE ServiceNext
  <2>1. \A q \in ServiceRequests : q.node \in NodeIds /\ q.request \in Requests
    BY BreachAssumption DEF Requests
  <2>2. scenario' = scenario /\ attempt' = attempt
    BY <1>3 DEF ServiceNext, simVars
  <2>3. IamStep
    BY <1>3, <2>1, IamAssumption DEF ServiceNext, CallStep, IamStep
  <2>4. QED
    BY <1>0, <2>2, <2>3
<1>4. QED
  BY <1>1, <1>2, <1>3 DEF Next

(* What a decision of check() is.                                          *)
LEMMA EvaluateType ==
  ASSUME NEW identity, NEW r
  PROVE  Evaluate(identity, r) \in DecisionType
BY DEF Evaluate, DecisionType

(* The store's own changes keep it well typed.                             *)
LEMMA StoreType ==
  ASSUME IamTypeOK, NEW n \in NodeIds
  PROVE  /\ \A role \in Roles : Register(n, role, None) =>
              nodes' \in [NodeIds -> IdentityType \cup {None}]
         /\ Deregister(n) => nodes' \in [NodeIds -> IdentityType \cup {None}]
         /\ RegisterPublicKey(n) => nodes' \in [NodeIds -> IdentityType \cup {None}]
<1>0. nodes \in [NodeIds -> IdentityType \cup {None}]
  BY DEF IamTypeOK
<1>1. ASSUME NEW role \in Roles, Register(n, role, None)
      PROVE  nodes' \in [NodeIds -> IdentityType \cup {None}]
  BY <1>0, <1>1, IdentityShape DEF Register
<1>2. ASSUME Deregister(n) PROVE nodes' \in [NodeIds -> IdentityType \cup {None}]
  <2>1. nodes' = [nodes EXCEPT ![n].active = FALSE] /\ nodes[n] \in IdentityType
    BY <1>0, <1>2 DEF Deregister
  <2>2. [nodes[n] EXCEPT !.active = FALSE] \in IdentityType
    BY <2>1 DEF IdentityType
  <2>3. QED
    BY <1>0, <2>1, <2>2
<1>3. ASSUME RegisterPublicKey(n) PROVE nodes' \in [NodeIds -> IdentityType \cup {None}]
  <2>1. nodes' = [nodes EXCEPT ![n].key = TRUE] /\ nodes[n] \in IdentityType
    BY <1>0, <1>3 DEF RegisterPublicKey
  <2>2. [nodes[n] EXCEPT !.key = TRUE] \in IdentityType
    BY <2>1 DEF IdentityType
  <2>3. QED
    BY <1>0, <2>1, <2>2
<1>4. QED
  BY <1>1, <1>2, <1>3

-----------------------------------------------------------------------------
(* A denial or a decision by policy is the end of check() with a decision  *)
(* of the right shape, reached from the state the step requires.           *)
LEMMA DecisionSteps ==
  ASSUME IamTypeOK, NEW t \in Threads, DenyUnknown(t) \/ DecideByPolicy(t)
  PROVE  \E d \in DecisionType :
           /\ Decide(t, d)
           /\ Calls(t, "decided", call[t].node, call[t].request, d, call[t].held)
           /\ call[t].pc \in {"check", "lookup"}
           /\ d.allowed => /\ call[t].pc = "lookup"
                           /\ d = Evaluate(nodes[call[t].node], call[t].request)
<1>1. CASE DenyUnknown(t)
  <2> DEFINE d == [allowed |-> FALSE, reason |-> "node_not_registered"]
  <2>1. d \in DecisionType /\ ~ d.allowed
    BY DEF DecisionType
  <2>2. Decide(t, d) /\ call[t].pc = "check"
    BY <1>1 DEF DenyUnknown
  <2> HIDE DEF d
  <2>3. Calls(t, "decided", call[t].node, call[t].request, d, call[t].held)
    BY <2>1, <2>2, DecideMoves
  <2>4. QED
    BY <2>1, <2>2, <2>3
<1>2. CASE DecideByPolicy(t)
  <2> DEFINE d == Evaluate(nodes[call[t].node], call[t].request)
  <2>1. d \in DecisionType
    BY EvaluateType
  <2>2. Decide(t, d) /\ call[t].pc = "lookup"
    BY <1>2 DEF DecideByPolicy
  <2> HIDE DEF d
  <2>3. Calls(t, "decided", call[t].node, call[t].request, d, call[t].held)
    BY <2>1, <2>2, DecideMoves
  <2>4. QED
    BY <2>1, <2>2, <2>3 DEF d
<1>3. QED
  BY <1>1, <1>2

(* The part of a call that a step of its own may change.                   *)
CallsKept ==
  /\ call' \in [Threads -> CallType]
  /\ \A t \in Threads : call'[t].pc # "idle" => call'[t].node \in NodeIds

(* A step that moves one call on keeps the calls well typed.               *)
LEMMA MovedCallTyped ==
  ASSUME IamTypeOK, NEW t \in Threads, NEW pc, NEW n, NEW r, NEW d, NEW h,
         Calls(t, pc, n, r, d, h), pc = "idle" \/ n \in NodeIds
  PROVE  CallsKept
BY DEF Calls, CallsKept, IamTypeOK

(* Every step of the IAM module keeps the calls well typed.                *)
LEMMA CallTypeStep ==
  ASSUME IamTypeOK, IamStep
  PROVE  CallsKept
<1>0. \A t \in Threads : call[t].pc # "idle" => call[t].node \in NodeIds
  BY DEF IamTypeOK
<1>1. ASSUME NEW n \in NodeIds, NEW role \in Roles, Register(n, role, None)
      PROVE  CallsKept
  BY <1>0, <1>1, RegisterMoves DEF CallsKept
<1>2. ASSUME NEW n \in NodeIds, Deregister(n) \/ RegisterPublicKey(n)
      PROVE  CallsKept
  BY <1>2 DEF Deregister, RegisterPublicKey, CallsKept, IamTypeOK
<1>3. ASSUME NEW t \in Threads, NEW n \in NodeIds, NEW r \in Requests, Request(t, n, r)
      PROVE  CallsKept
  BY <1>3, RequestMoves, MovedCallTyped
<1>4. ASSUME NEW t \in Threads, DenyUnknown(t) \/ DecideByPolicy(t)
      PROVE  CallsKept
  <2>1. PICK d \in DecisionType :
          /\ Calls(t, "decided", call[t].node, call[t].request, d, call[t].held)
          /\ call[t].pc \in {"check", "lookup"}
    BY <1>4, DecisionSteps
  <2>2. call[t].node \in NodeIds
    BY <1>0, <2>1
  <2>3. QED
    BY <2>1, <2>2, MovedCallTyped
<1>5. ASSUME NEW t \in Threads, PassIdentity(t) \/ Audit(t)
      PROVE  CallsKept
  <2>1. call[t].node \in NodeIds
    BY <1>0, <1>5 DEF PassIdentity, Audit
  <2>2. \/ Calls(t, "lookup", call[t].node, call[t].request, call[t].decision, call[t].held)
        \/ Calls(t, "alert", call[t].node, call[t].request, call[t].decision, call[t].held)
    BY <1>5, CallMoves
  <2>3. QED
    BY <2>1, <2>2, MovedCallTyped
<1>6. ASSUME NEW t \in Threads, Return(t) \/ Write(t) \/ CheckAlert(t, FALSE)
      PROVE  CallsKept
  BY <1>6, CallMoves, MovedCallTyped
<1>7. ASSUME NEW t \in Threads, CheckAlert(t, TRUE)
      PROVE  CallsKept
  <2>1. call[t].node \in NodeIds
    BY <1>0, <1>7 DEF CheckAlert
  <2>2. QED
    BY <1>7, <2>1, CallMoves, MovedCallTyped
<1>8. CASE UNCHANGED iamVars
  BY <1>8 DEF iamVars, CallsKept, IamTypeOK
<1>9. QED
  BY <1>1, <1>2, <1>3, <1>4, <1>5, <1>6, <1>7, <1>8 DEF IamStep

(* What the auditor keeps, after a step: one audited event at the end of   *)
(* the trail, one alert, or what there was.                                *)
LEMMA TrailMoves ==
  ASSUME IamTypeOK, IamStep
  PROVE  \/ \E t \in Threads :
              /\ Audit(t) /\ call[t].node \in NodeIds
              /\ call[t].decision.allowed \in BOOLEAN
         \/ \E t \in Threads, toFile \in BOOLEAN :
              CheckAlert(t, toFile) /\ call[t].node \in NodeIds
         \/ UNCHANGED <<events, consecutive, alerts>>
<1>0. /\ \A t \in Threads : call[t].pc # "idle" => call[t].node \in NodeIds
      /\ \A t \in Threads : call[t].decision.allowed \in BOOLEAN
  BY DEF IamTypeOK, CallType, DecisionType
<1>1. \A t \in Threads, toFile \in BOOLEAN :
        Audit(t) \/ CheckAlert(t, toFile) => call[t].node \in NodeIds
  BY <1>0 DEF Audit, CheckAlert
<1>2. CASE \/ \E n \in NodeIds, role \in Roles : Register(n, role, None)
           \/ \E n \in NodeIds : Deregister(n) \/ RegisterPublicKey(n)
           \/ \E t \in Threads, n \in NodeIds, r \in Requests : Request(t, n, r)
           \/ UNCHANGED iamVars
  BY <1>2 DEF Register, Deregister, RegisterPublicKey, Request, iamVars
<1>3. CASE \E t \in Threads : DenyUnknown(t) \/ PassIdentity(t) \/ DecideByPolicy(t)
                                \/ Return(t) \/ Write(t)
  BY <1>3 DEF DenyUnknown, PassIdentity, DecideByPolicy, Decide, Return, Write
<1>4. CASE \E t \in Threads : Audit(t)
  BY <1>0, <1>1, <1>4, Zenon
<1>5. CASE \E t \in Threads, toFile \in BOOLEAN : CheckAlert(t, toFile)
  BY <1>1, <1>5, Zenon
<1>6. QED
  BY <1>2, <1>3, <1>4, <1>5, Zenon DEF IamStep

(* The trail, the streaks and the alerts keep their shape.                 *)
LEMMA TrailTypeStep ==
  ASSUME IamTypeOK, IamStep
  PROVE  /\ events' \in Seq(EventType)
         /\ consecutive' \in [NodeIds -> Nat]
         /\ alerts' \in Seq(AlertType)
<1>0. /\ events \in Seq(EventType) /\ consecutive \in [NodeIds -> Nat]
      /\ alerts \in Seq(AlertType)
  BY DEF IamTypeOK
<1>1. ASSUME NEW t \in Threads, Audit(t), call[t].node \in NodeIds,
             call[t].decision.allowed \in BOOLEAN
      PROVE  /\ events' \in Seq(EventType) /\ consecutive' \in [NodeIds -> Nat]
             /\ alerts' = alerts
  <2> DEFINE e == [node |-> call[t].node, allowed |-> call[t].decision.allowed]
             k == Streak(call[t].node, call[t].decision.allowed)
  <2>1. e \in EventType
    BY <1>1 DEF EventType
  <2>2. k \in Nat
    BY <1>0, <1>1 DEF Streak
  <2>3. /\ events' = Append(events, e) /\ alerts' = alerts
        /\ consecutive' = [consecutive EXCEPT ![call[t].node] = k]
    BY <1>1 DEF Audit
  <2> HIDE DEF e, k
  <2>4. QED
    BY <1>0, <1>1, <2>1, <2>2, <2>3
<1>2. ASSUME NEW t \in Threads, NEW toFile \in BOOLEAN, CheckAlert(t, toFile),
             call[t].node \in NodeIds
      PROVE  /\ alerts' \in Seq(AlertType) /\ UNCHANGED <<events, consecutive>>
  <2> DEFINE a == [node |-> call[t].node, at |-> Len(events)]
  <2>1. a \in AlertType
    BY <1>0, <1>2 DEF AlertType
  <2>2. /\ alerts' = Append(alerts, a) \/ alerts' = alerts
        /\ UNCHANGED <<events, consecutive>>
    BY <1>2 DEF CheckAlert
  <2> HIDE DEF a
  <2>3. QED
    BY <1>0, <2>1, <2>2
<1>3. CASE UNCHANGED <<events, consecutive, alerts>>
  BY <1>0, <1>3
<1>4. QED
  BY <1>0, <1>1, <1>2, <1>3, TrailMoves

(* So does the store.                                                      *)
LEMMA StoreTypeStep ==
  ASSUME IamTypeOK, IamStep
  PROVE  nodes' \in [NodeIds -> IdentityType \cup {None}]
<1>0. nodes \in [NodeIds -> IdentityType \cup {None}]
  BY DEF IamTypeOK
<1>1. CASE \/ \E n \in NodeIds, role \in Roles : Register(n, role, None)
           \/ \E n \in NodeIds : Deregister(n) \/ RegisterPublicKey(n)
  BY <1>1, StoreType
<1>2. CASE \/ \E t \in Threads, n \in NodeIds, r \in Requests : Request(t, n, r)
           \/ \E t \in Threads : DenyUnknown(t) \/ PassIdentity(t) \/ DecideByPolicy(t)
                                   \/ Audit(t) \/ Return(t) \/ Write(t)
           \/ UNCHANGED iamVars
  BY <1>0, <1>2 DEF Request, DenyUnknown, PassIdentity, DecideByPolicy, Decide, Audit,
                    Return, Write, iamVars
<1>3. CASE \E t \in Threads, toFile \in BOOLEAN : CheckAlert(t, toFile)
  BY <1>0, <1>3 DEF CheckAlert
<1>4. QED
  BY <1>1, <1>2, <1>3, Zenon DEF IamStep

(* The first state.                                                        *)
LEMMA IamTypeInit ==
  ASSUME Init
  PROVE  IamTypeOK
<1>1. nodes \in [NodeIds -> IdentityType \cup {None}]
  <2>1. \A n \in NodeIds :
          (IF n \in DOMAIN ConfigNodes
           THEN Identity(ConfigNodes[n].role, ConfigNodes[n].policy) ELSE None)
            \in IdentityType \cup {None}
    BY IdentityShape
  <2>2. QED
    BY <2>1 DEF Init, IamInit
<1>2. call \in [Threads -> CallType] /\ \A t \in Threads : call[t].pc = "idle"
  BY IdleShape DEF Init, IamInit
<1>3. /\ events = <<>> /\ alerts = <<>> /\ consecutive = [n \in NodeIds |-> 0]
      /\ scenario = 1 /\ attempt = 1
  BY DEF Init, IamInit
<1>4. QED
  BY <1>1, <1>2, <1>3 DEF IamTypeOK

(* Every step keeps the types.                                             *)
LEMMA IamTypeStep ==
  ASSUME IamTypeOK, [Next]_vars
  PROVE  IamTypeOK'
<1>1. IamStep /\ scenario' \in Nat \ {0} /\ attempt' \in Nat \ {0}
  BY StepIsIamStep
<1>2. CallsKept
  BY <1>1, CallTypeStep
<1>3. QED
  BY <1>1, <1>2, TrailTypeStep, StoreTypeStep DEF IamTypeOK, CallsKept

(* Store, calls, trail, streaks and alerts keep their shape in every       *)
(* behaviour, whatever the callers, the configuration and the policies.    *)
THEOREM IamTypeCorrect == Spec => []IamTypeOK
<1>1. Init => IamTypeOK
  BY IamTypeInit
<1>2. IamTypeOK /\ [Next]_vars => IamTypeOK'
  BY IamTypeStep
<1>3. QED
  BY <1>1, <1>2, PTL DEF Spec

-----------------------------------------------------------------------------
(* What the policy named by a pair of role and policy says of a request.   *)
Permits(h, r) ==
  LET name == PolicyName([role |-> h[1], policy |-> h[2]])
  IN  /\ name \in DOMAIN Policies
      /\ \E rule \in Policies[name].allow : Matches(rule, r)
      /\ \A rule \in Policies[name].deny : ~ Matches(rule, r)

(* The pair of a node's present identity.                                  *)
Pair(n) == <<nodes[n].role, nodes[n].policy>>

(* What check() needs to keep between its two reads of the store: a node   *)
(* that is active when it is first looked at has its pair among those the  *)
(* check has seen, and from then on the pair the second read will find is  *)
(* among them, active or not.                                              *)
SeenOK(t) ==
  /\ call[t].pc = "check" /\ IsRegistered(call[t].node) => Pair(call[t].node) \in call[t].held
  /\ call[t].pc = "lookup" =>
       nodes[call[t].node] # None /\ Pair(call[t].node) \in call[t].held
  /\ call[t].pc = "decided" /\ call[t].decision.allowed =>
       \E h \in call[t].held : Permits(h, call[t].request)

SeenInv == \A t \in Threads : SeenOK(t)

(* An identity that is allowed something has a policy that permits it: the *)
(* policy is found from the role and the named policy alone.               *)
LEMMA AllowedMeansPermitted ==
  ASSUME NEW i \in IdentityType, NEW r, Evaluate(i, r).allowed
  PROVE  Permits(<<i.role, i.policy>>, r)
<1> DEFINE j == [role |-> <<i.role, i.policy>>[1], policy |-> <<i.role, i.policy>>[2]]
<1>1. PolicyName(j) = PolicyName(i)
  <2>1. j.role = i.role /\ j.policy = i.policy
    OBVIOUS
  <2> HIDE DEF j
  <2>2. QED
    BY <2>1 DEF PolicyName
<1>2. PolicyName(i) \in DOMAIN Policies /\ IsAllowed(Policies[PolicyName(i)], r)
  BY DEF Evaluate
<1> HIDE DEF j
<1>3. QED
  BY <1>1, <1>2 DEF Permits, IsAllowed, j

(* A call that did not move keeps what it has seen as long as its node's   *)
(* identity did not.                                                       *)
LEMMA SeenStill ==
  ASSUME IamTypeOK, SeenInv, NEW t \in Threads, call'[t] = call[t], nodes' = nodes
  PROVE  SeenOK(t)'
BY DEF SeenInv, SeenOK, Pair, IsRegistered, Permits

(* Removing a node or giving it a key leaves its role and its policy.      *)
LEMMA IdentityEdited ==
  ASSUME NEW i \in IdentityType, NEW b
  PROVE  /\ [i EXCEPT !.active = b].role = i.role
         /\ [i EXCEPT !.active = b].policy = i.policy
         /\ [i EXCEPT !.active = b].active = b
         /\ [i EXCEPT !.key = b].role = i.role
         /\ [i EXCEPT !.key = b].policy = i.policy
         /\ [i EXCEPT !.key = b].active = i.active
BY DEF IdentityType

(* The store's changes: a new identity is seen by every check of its node, *)
(* and a removed or completed one keeps its role and policy.               *)
LEMMA SeenAfterStore ==
  ASSUME IamTypeOK, SeenInv, NEW n \in NodeIds,
         \/ \E role \in Roles : Register(n, role, None)
         \/ Deregister(n) \/ RegisterPublicKey(n)
  PROVE  SeenInv'
<1> SUFFICES ASSUME NEW t \in Threads PROVE SeenOK(t)'
  BY DEF SeenInv
<1>0. /\ nodes \in [NodeIds -> IdentityType \cup {None}] /\ SeenOK(t)
      /\ call[t].pc # "idle" => call[t].node \in NodeIds
  BY DEF IamTypeOK, SeenInv
<1>1. ASSUME NEW role \in Roles, Register(n, role, None)
      PROVE  SeenOK(t)'
  <2>1. /\ call'[t].pc = call[t].pc /\ call'[t].node = call[t].node
        /\ call'[t].request = call[t].request
        /\ call'[t].decision = call[t].decision
        /\ call[t].held \subseteq call'[t].held
        /\ call[t].node = n => <<role, None>> \in call'[t].held
    BY <1>1, RegisterMoves
  <2>2. nodes' = [nodes EXCEPT ![n] = Identity(role, None)]
    BY <1>1 DEF Register
  <2>3. Identity(role, None).role = role /\ Identity(role, None).policy = None
    BY DEF Identity
  <2>4. /\ \A m \in NodeIds \ {n} : nodes'[m] = nodes[m]
        /\ nodes'[n].role = role /\ nodes'[n].policy = None
    BY <1>0, <2>2, <2>3
  <2>5. Identity(role, None) # None
    BY IdentityShape, IamAssumption
  <2>6. nodes'[n] # None
    BY <1>0, <2>2, <2>5
  <2>7. QED
    BY <1>0, <2>1, <2>4, <2>6 DEF SeenOK, Pair, IsRegistered, Permits
<1>2. ASSUME Deregister(n) \/ RegisterPublicKey(n)
      PROVE  SeenOK(t)'
  <2>1. call' = call /\ nodes[n] \in IdentityType
    BY <1>0, <1>2 DEF Deregister, RegisterPublicKey
  <2>2. /\ nodes' \in [NodeIds -> IdentityType \cup {None}]
    BY <1>2, StoreType
  <2>3. /\ \A m \in NodeIds \ {n} : nodes'[m] = nodes[m]
        /\ nodes'[n].role = nodes[n].role /\ nodes'[n].policy = nodes[n].policy
        /\ nodes'[n].active => nodes[n].active
        /\ nodes'[n] # None
    <3>1. CASE Deregister(n)
      <4>1. nodes' = [nodes EXCEPT ![n].active = FALSE]
        BY <3>1 DEF Deregister
      <4>2. nodes'[n] = [nodes[n] EXCEPT !.active = FALSE]
        BY <1>0, <4>1
      <4>3. /\ nodes'[n].role = nodes[n].role /\ nodes'[n].policy = nodes[n].policy
            /\ nodes'[n].active = FALSE
        BY <2>1, <4>2, IdentityEdited
      <4>4. \A m \in NodeIds \ {n} : nodes'[m] = nodes[m]
        BY <1>0, <4>1
      <4>5. nodes'[n] # None
        BY <2>1, <4>2, IamAssumption DEF IdentityType
      <4>6. QED
        BY <4>3, <4>4, <4>5, Zenon
    <3>2. CASE RegisterPublicKey(n)
      <4>1. nodes' = [nodes EXCEPT ![n].key = TRUE]
        BY <3>2 DEF RegisterPublicKey
      <4>2. nodes'[n] = [nodes[n] EXCEPT !.key = TRUE]
        BY <1>0, <4>1
      <4>3. /\ nodes'[n].role = nodes[n].role /\ nodes'[n].policy = nodes[n].policy
            /\ nodes'[n].active = nodes[n].active
        BY <2>1, <4>2, IdentityEdited
      <4>4. \A m \in NodeIds \ {n} : nodes'[m] = nodes[m]
        BY <1>0, <4>1
      <4>5. nodes'[n] # None
        BY <2>1, <4>2, IamAssumption DEF IdentityType
      <4>6. QED
        BY <4>3, <4>4, <4>5, Zenon
    <3>3. QED
      BY <1>2, <3>1, <3>2
  <2>4. QED
    BY <1>0, <2>1, <2>3, IamAssumption DEF SeenOK, Pair, IsRegistered, Permits
<1>3. QED
  BY <1>1, <1>2

(* Every step keeps SeenInv: the two reads of the store are joined by it.  *)
LEMMA SeenStep ==
  ASSUME IamTypeOK, SeenInv, IamStep
  PROVE  SeenInv'
<1>0. \A u \in Threads : SeenOK(u)
  BY DEF SeenInv
<1>1. ASSUME NEW t \in Threads, NEW n \in NodeIds, NEW r \in Requests, Request(t, n, r)
      PROVE  SeenInv'
  <2>1. Calls(t, "check", n, r, NoDecision, HeldAt(n)) /\ nodes' = nodes
    BY <1>1, RequestMoves DEF Request
  <2>2. IsRegistered(n) => Pair(n) \in HeldAt(n)
    BY HeldShape DEF IsRegistered, Pair
  <2>3. SeenOK(t)'
    BY <2>1, <2>2 DEF SeenOK, Calls, Pair, IsRegistered
  <2>4. QED
    BY <2>1, <2>3, SeenStill DEF SeenInv, Calls
<1>2. ASSUME NEW t \in Threads, DenyUnknown(t) \/ DecideByPolicy(t)
      PROVE  SeenInv'
  <2>1. PICK d \in DecisionType :
          /\ Decide(t, d)
          /\ Calls(t, "decided", call[t].node, call[t].request, d, call[t].held)
          /\ d.allowed => /\ call[t].pc = "lookup"
                          /\ d = Evaluate(nodes[call[t].node], call[t].request)
    BY <1>2, DecisionSteps
  <2>2. nodes' = nodes
    BY <2>1 DEF Decide
  <2>3. ASSUME d.allowed
        PROVE  \E h \in call[t].held : Permits(h, call[t].request)
    <3>1. call[t].pc = "lookup"
      BY <2>1, <2>3
    <3>2. Pair(call[t].node) \in call[t].held /\ nodes[call[t].node] # None
      BY <1>0, <3>1 DEF SeenOK
    <3>3. call[t].node \in NodeIds
      BY <3>1 DEF IamTypeOK
    <3>4. nodes[call[t].node] \in IdentityType
      BY <3>2, <3>3 DEF IamTypeOK
    <3>5. Permits(Pair(call[t].node), call[t].request)
      BY <2>1, <2>3, <3>4, AllowedMeansPermitted DEF Pair
    <3>6. QED
      BY <3>2, <3>5
  <2>4. SeenOK(t)'
    BY <2>1, <2>3 DEF SeenOK, Calls, Permits
  <2>5. QED
    BY <2>1, <2>2, <2>4, SeenStill DEF SeenInv, Calls
<1>3. ASSUME NEW t \in Threads, PassIdentity(t)
      PROVE  SeenInv'
  <2>1. /\ Calls(t, "lookup", call[t].node, call[t].request, call[t].decision, call[t].held)
        /\ nodes' = nodes /\ IsRegistered(call[t].node) /\ call[t].pc = "check"
    BY <1>3, CallMoves DEF PassIdentity
  <2>2. SeenOK(t)'
    BY <1>0, <2>1 DEF SeenOK, Calls, Pair, IsRegistered
  <2>3. QED
    BY <2>1, <2>2, SeenStill DEF SeenInv, Calls
<1>4. ASSUME NEW t \in Threads,
             \/ Audit(t) \/ Return(t) \/ Write(t)
             \/ CheckAlert(t, TRUE) \/ CheckAlert(t, FALSE)
      PROVE  SeenInv'
  <2>1. \/ Calls(t, "alert", call[t].node, call[t].request, call[t].decision, call[t].held)
        \/ Calls(t, "write", call[t].node, call[t].request, call[t].decision, call[t].held)
        \/ Calls(t, "idle", None, NoRequest, NoDecision, {})
    BY <1>4, CallMoves
  <2>2. nodes' = nodes
    BY <1>4 DEF Audit, Return, Write, CheckAlert
  <2>3. SeenOK(t)' /\ \A u \in Threads : u # t => call'[u] = call[u]
    BY <2>1 DEF SeenOK, Calls
  <2>4. QED
    BY <2>2, <2>3, SeenStill DEF SeenInv
<1>5. CASE UNCHANGED iamVars
  BY <1>5, SeenStill DEF SeenInv, iamVars
<1>6. CASE \E t \in Threads, toFile \in BOOLEAN : CheckAlert(t, toFile)
  <2>1. PICK t \in Threads, toFile \in BOOLEAN : CheckAlert(t, toFile)
    BY <1>6
  <2>2. CheckAlert(t, TRUE) \/ CheckAlert(t, FALSE)
    BY <2>1
  <2>3. QED
    BY <1>4, <2>2
<1>7. QED
  BY <1>1, <1>2, <1>3, <1>4, <1>5, <1>6, SeenAfterStore DEF IamStep

(* A check that answers "allowed" decided on an identity its node held,    *)
(* active, during the check, and whose policy permits the request: for any *)
(* number of threads, and for any interleaving of checks with              *)
(* registrations, replacements and removals between RBACEngine.check's two *)
(* reads of the store.                                                     *)
THEOREM AllowedOnlyWhileActive == Spec => []AllowedWhileActive
<1>1. Init => SeenInv
  BY IdleShape DEF Init, IamInit, SeenInv, SeenOK
<1>2. IamTypeOK /\ SeenInv /\ [Next]_vars => SeenInv'
  BY StepIsIamStep, SeenStep
<1>3. SeenInv => AllowedWhileActive
  BY DEF SeenInv, SeenOK, AllowedWhileActive, Permits
<1>4. QED
  BY <1>1, <1>2, <1>3, IamTypeCorrect, PTL DEF Spec

-----------------------------------------------------------------------------
(* DenialRun of any trail.                                                 *)
RunOf(s, n, k) ==
  {i \in 1 .. k : s[i].node = n /\ \A j \in i .. k : s[j].node = n => ~ s[j].allowed}

(* A run of denials is a finite set of positions of the trail.             *)
LEMMA RunFinite ==
  ASSUME NEW s, NEW n, NEW k \in Nat
  PROVE  IsFiniteSet(RunOf(s, n, k)) /\ Cardinality(RunOf(s, n, k)) \in Nat
<1>1. IsFiniteSet(1 .. k)
  BY FS_Interval
<1>2. RunOf(s, n, k) \subseteq 1 .. k
  BY DEF RunOf
<1>3. IsFiniteSet(RunOf(s, n, k))
  BY <1>1, <1>2, FS_Subset
<1>4. QED
  BY <1>3, FS_CardinalityType

(* What one more event does to the runs: those of the past stay, the       *)
(* other nodes' runs go on, an allowed request ends its node's run and a   *)
(* denied one extends it.                                                  *)
LEMMA RunAfterEvent ==
  ASSUME NEW s \in Seq(EventType), NEW e \in EventType, NEW n
  PROVE  LET L == Len(s)
             u == Append(s, e)
         IN  /\ \A k \in 0 .. L : RunOf(u, n, k) = RunOf(s, n, k)
             /\ e.node # n => RunOf(u, n, L + 1) = RunOf(s, n, L)
             /\ e.node = n /\ e.allowed => RunOf(u, n, L + 1) = {}
             /\ e.node = n /\ ~ e.allowed =>
                  RunOf(u, n, L + 1) = RunOf(s, n, L) \cup {L + 1}
<1> DEFINE L == Len(s)
           u == Append(s, e)
<1>1. L \in Nat /\ Len(u) = L + 1 /\ u[L + 1] = e /\ \A i \in 1 .. L : u[i] = s[i]
  OBVIOUS
<1> HIDE DEF L, u
<1>2. \A k \in 0 .. L : RunOf(u, n, k) = RunOf(s, n, k)
  BY <1>1 DEF RunOf
<1>3. ASSUME e.node # n PROVE RunOf(u, n, L + 1) = RunOf(s, n, L)
  BY <1>1, <1>3 DEF RunOf
<1>4. ASSUME e.node = n, e.allowed PROVE RunOf(u, n, L + 1) = {}
  BY <1>1, <1>4 DEF RunOf
<1>5. ASSUME e.node = n, ~ e.allowed
      PROVE  RunOf(u, n, L + 1) = RunOf(s, n, L) \cup {L + 1}
  BY <1>1, <1>5 DEF RunOf
<1>6. QED
  BY <1>2, <1>3, <1>4, <1>5 DEF L, u

(* The streak counted for a node is the run of denials its trail ends      *)
(* with, and an alert was raised at a length the trail has had, for a run  *)
(* long enough then.                                                       *)
RunInv ==
  /\ \A n \in NodeIds : consecutive[n] = Cardinality(RunOf(events, n, Len(events)))
  /\ \A i \in 1 .. Len(alerts) :
       /\ alerts[i].at \in 0 .. Len(events)
       /\ Cardinality(RunOf(events, alerts[i].node, alerts[i].at)) >= AlertThreshold

(* Recording a decision under the lock keeps RunInv.                       *)
LEMMA RunAfterAudit ==
  ASSUME IamTypeOK, RunInv, NEW t \in Threads, Audit(t), call[t].node \in NodeIds,
         call[t].decision.allowed \in BOOLEAN
  PROVE  RunInv'
<1> DEFINE m == call[t].node
           ok == call[t].decision.allowed
           e == [node |-> m, allowed |-> ok]
           L == Len(events)
<1>0. /\ events \in Seq(EventType) /\ consecutive \in [NodeIds -> Nat]
      /\ alerts \in Seq(AlertType) /\ L \in Nat
  BY DEF IamTypeOK
<1>1. e \in EventType /\ e.node = m /\ e.allowed = ok /\ m \in NodeIds /\ ok \in BOOLEAN
  BY DEF EventType
<1>2. /\ events' = Append(events, e) /\ alerts' = alerts
      /\ consecutive' = [consecutive EXCEPT ![m] = IF ok THEN 0 ELSE consecutive[m] + 1]
  BY DEF Audit, Streak
<1> HIDE DEF m, ok, e
<1>3. Len(events') = L + 1
  BY <1>0, <1>1, <1>2
<1>4. ASSUME NEW n \in NodeIds
      PROVE  consecutive'[n] = Cardinality(RunOf(events', n, L + 1))
  <2>1. consecutive[n] = Cardinality(RunOf(events, n, L))
    BY DEF RunInv
  <2>2. CASE n # m
    BY <1>0, <1>1, <1>2, <2>1, <2>2, RunAfterEvent
  <2>3. CASE n = m /\ ok
    <3>1. RunOf(events', n, L + 1) = {}
      BY <1>0, <1>1, <1>2, <2>3, RunAfterEvent
    <3>2. consecutive'[n] = 0
      BY <1>0, <1>1, <1>2, <2>3
    <3>3. QED
      BY <3>1, <3>2, FS_EmptySet
  <2>4. CASE n = m /\ ~ ok
    <3>1. RunOf(events', n, L + 1) = RunOf(events, n, L) \cup {L + 1}
      BY <1>0, <1>1, <1>2, <2>4, RunAfterEvent
    <3>2. L + 1 \notin RunOf(events, n, L)
      BY <1>0 DEF RunOf
    <3>3. IsFiniteSet(RunOf(events, n, L))
      BY <1>0, RunFinite
    <3>4. Cardinality(RunOf(events', n, L + 1)) = Cardinality(RunOf(events, n, L)) + 1
      BY <3>1, <3>2, <3>3, FS_AddElement
    <3>5. consecutive'[n] = consecutive[n] + 1
      BY <1>0, <1>1, <1>2, <2>4
    <3>6. QED
      BY <2>1, <3>4, <3>5
  <2>5. QED
    BY <1>1, <2>2, <2>3, <2>4, Zenon
<1>5. ASSUME NEW i \in 1 .. Len(alerts)
      PROVE  /\ alerts[i].at \in 0 .. L + 1
             /\ Cardinality(RunOf(events', alerts[i].node, alerts[i].at)) >= AlertThreshold
  <2>1. /\ alerts[i].at \in 0 .. L
        /\ Cardinality(RunOf(events, alerts[i].node, alerts[i].at)) >= AlertThreshold
    BY DEF RunInv
  <2>2. RunOf(events', alerts[i].node, alerts[i].at) = RunOf(events, alerts[i].node, alerts[i].at)
    <3> DEFINE n == alerts[i].node
               k == alerts[i].at
    <3>1. k \in 0 .. Len(events)
      BY <2>1
    <3> HIDE DEF n, k
    <3>2. RunOf(Append(events, e), n, k) = RunOf(events, n, k)
      BY <1>0, <1>1, <3>1, RunAfterEvent
    <3>3. QED
      BY <1>2, <3>2 DEF n, k
  <2>3. QED
    BY <1>0, <2>1, <2>2
<1>6. QED
  BY <1>2, <1>3, <1>4, <1>5 DEF RunInv, L

(* The alert test keeps it, whoever's streak it reads.                     *)
LEMMA RunAfterCheck ==
  ASSUME IamTypeOK, RunInv, NEW t \in Threads, NEW toFile, CheckAlert(t, toFile),
         call[t].node \in NodeIds
  PROVE  RunInv'
<1> DEFINE a == [node |-> call[t].node, at |-> Len(events)]
<1>0. /\ events \in Seq(EventType) /\ Len(events) \in Nat /\ alerts \in Seq(AlertType)
      /\ a \in AlertType /\ a.node = call[t].node /\ a.at = Len(events)
  BY DEF IamTypeOK, AlertType
<1>1. UNCHANGED <<events, consecutive>>
  BY DEF CheckAlert
<1>2. CASE alerts' = alerts
  BY <1>1, <1>2 DEF RunInv
<1>3. CASE AlertDue(call[t].node) /\ alerts' = Append(alerts, a)
  <2>1. Cardinality(RunOf(events, a.node, a.at)) >= AlertThreshold
    BY <1>0, <1>3 DEF RunInv, AlertDue
  <2> HIDE DEF a
  <2>2. /\ Len(alerts') = Len(alerts) + 1 /\ alerts'[Len(alerts) + 1] = a
        /\ \A i \in 1 .. Len(alerts) : alerts'[i] = alerts[i]
    BY <1>0, <1>3
  <2>3. ASSUME NEW i \in 1 .. Len(alerts')
        PROVE  /\ alerts'[i].at \in 0 .. Len(events)
               /\ Cardinality(RunOf(events, alerts'[i].node, alerts'[i].at)) >= AlertThreshold
    <3>1. CASE i = Len(alerts) + 1
      BY <1>0, <2>1, <2>2, <3>1
    <3>2. CASE i \in 1 .. Len(alerts)
      BY <2>2, <3>2 DEF RunInv
    <3>3. QED
      BY <1>0, <2>2, <3>1, <3>2
  <2>4. QED
    BY <1>1, <2>3 DEF RunInv
<1>4. QED
  BY <1>2, <1>3 DEF CheckAlert

(* An alert is raised about a node only while the last events recorded     *)
(* about it are at least the threshold of denials in a row, although       *)
(* AccessAuditor tests the streak after releasing its lock: for any number *)
(* of threads and any threshold.                                           *)
THEOREM AlertsAlwaysJustified == Spec => []AlertsJustified
<1>1. Init => RunInv
  <2> SUFFICES ASSUME Init PROVE RunInv
    OBVIOUS
  <2>1. /\ events = <<>> /\ alerts = <<>> /\ consecutive = [n \in NodeIds |-> 0]
    BY DEF Init, IamInit
  <2>2. \A n \in NodeIds : RunOf(events, n, Len(events)) = {}
    BY <2>1 DEF RunOf
  <2>3. QED
    BY <2>1, <2>2, FS_EmptySet DEF RunInv
<1>2. IamTypeOK /\ RunInv /\ [Next]_vars => RunInv'
  <2> SUFFICES ASSUME IamTypeOK, RunInv, [Next]_vars PROVE RunInv'
    OBVIOUS
  <2>1. IamStep
    BY StepIsIamStep
  <2>2. CASE UNCHANGED <<events, consecutive, alerts>>
    BY <2>2 DEF RunInv
  <2>3. QED
    BY <2>1, <2>2, TrailMoves, RunAfterAudit, RunAfterCheck
<1>3. RunInv => AlertsJustified
  BY DEF RunInv, AlertsJustified, RunOf, DenialRun
<1>4. QED
  BY <1>1, <1>2, <1>3, IamTypeCorrect, PTL DEF Spec

-----------------------------------------------------------------------------
(* Node n's present streak has been alerted about, in that very streak.    *)
Alerted(n) ==
  \E i \in 1 .. Len(alerts) :
    /\ alerts[i].node = n
    /\ \A j \in alerts[i].at + 1 .. Len(events) :
         events[j].node = n => ~ events[j].allowed

(* Some thread has recorded an event of node n and has yet to test it.     *)
Testing(n) == \E t \in Threads : call[t].pc = "alert" /\ call[t].node = n

(* Leaving "alert" is what CheckAlert alone does.                          *)
LEMMA TestingStays ==
  ASSUME IamTypeOK, IamStep, NEW u \in Threads, call[u].pc = "alert",
         ~ \E toFile \in BOOLEAN : CheckAlert(u, toFile)
  PROVE  call'[u].pc = "alert" /\ call'[u].node = call[u].node
<1>1. ASSUME NEW n \in NodeIds, NEW role \in Roles, Register(n, role, None)
      PROVE  call'[u].pc = "alert" /\ call'[u].node = call[u].node
  BY <1>1, RegisterMoves
<1>2. CASE \/ \E n \in NodeIds : Deregister(n) \/ RegisterPublicKey(n)
           \/ UNCHANGED iamVars
  BY <1>2 DEF Deregister, RegisterPublicKey, iamVars
<1>3. ASSUME NEW t \in Threads, NEW n \in NodeIds, NEW r \in Requests, Request(t, n, r)
      PROVE  call'[u].pc = "alert" /\ call'[u].node = call[u].node
  <2>1. call[t].pc = "idle"
    BY <1>3 DEF Request
  <2>2. QED
    BY <1>3, <2>1, RequestMoves DEF Calls
<1>4. ASSUME NEW t \in Threads, DenyUnknown(t) \/ DecideByPolicy(t)
      PROVE  call'[u].pc = "alert" /\ call'[u].node = call[u].node
  BY <1>4, DecisionSteps DEF Calls
<1>5. ASSUME NEW t \in Threads, PassIdentity(t) \/ Audit(t) \/ Return(t) \/ Write(t)
      PROVE  call'[u].pc = "alert" /\ call'[u].node = call[u].node
  <2>1. call[t].pc # "alert"
    BY <1>5 DEF PassIdentity, Audit, Return, Write
  <2>2. QED
    BY <1>5, <2>1, CallMoves DEF Calls
<1>6. ASSUME NEW t \in Threads, NEW toFile \in BOOLEAN, CheckAlert(t, toFile)
      PROVE  call'[u].pc = "alert" /\ call'[u].node = call[u].node
  <2>1. t # u
    BY <1>6
  <2>2. CheckAlert(t, TRUE) \/ CheckAlert(t, FALSE)
    BY <1>6
  <2>3. QED
    BY <2>1, <2>2, CallMoves DEF Calls
<1>7. QED
  BY <1>1, <1>2, <1>3, <1>4, <1>5, <1>6 DEF IamStep

(* An alert about a streak stays one while the streak goes on: only an     *)
(* allowed event of the node itself breaks it.                             *)
LEMMA AlertedStays ==
  ASSUME IamTypeOK, NEW n \in NodeIds, Alerted(n), NEW e \in EventType,
         events' = Append(events, e), alerts' = alerts, e.node = n => ~ e.allowed
  PROVE  Alerted(n)'
<1>0. events \in Seq(EventType) /\ alerts \in Seq(AlertType)
  BY DEF IamTypeOK
<1>1. PICK i \in 1 .. Len(alerts) :
        /\ alerts[i].node = n
        /\ \A j \in alerts[i].at + 1 .. Len(events) :
             events[j].node = n => ~ events[j].allowed
  BY DEF Alerted
<1>2. alerts[i].at \in Nat
  <2>1. alerts[i] \in AlertType
    BY <1>0, <1>1
  <2>2. QED
    BY <2>1 DEF AlertType
<1>3. /\ Len(events') = Len(events) + 1 /\ events'[Len(events) + 1] = e
      /\ \A j \in 1 .. Len(events) : events'[j] = events[j]
  BY <1>0
<1>4. Len(events) \in Nat
  BY <1>0
<1>5. ASSUME NEW j \in alerts[i].at + 1 .. Len(events'), events'[j].node = n
      PROVE  ~ events'[j].allowed
  <2>1. CASE j = Len(events) + 1
    BY <1>3, <1>5, <2>1
  <2>2. CASE j # Len(events) + 1
    <3>1. j \in 1 .. Len(events) /\ j \in alerts[i].at + 1 .. Len(events)
      BY <1>2, <1>3, <1>4, <2>2
    <3>2. QED
      BY <1>1, <1>3, <1>5, <3>1
  <2>3. QED
    BY <2>1, <2>2
<1>6. QED
  BY <1>1, <1>5 DEF Alerted

(* The step of the property: what each of the auditor's steps does to a    *)
(* node's streak and its alert.                                            *)
LEMMA StreaksStep ==
  ASSUME IamTypeOK, StreaksAlerted, IamStep
  PROVE  StreaksAlerted'
<1>0. /\ events \in Seq(EventType) /\ consecutive \in [NodeIds -> Nat]
      /\ alerts \in Seq(AlertType) /\ call \in [Threads -> CallType]
      /\ AlertThreshold \in Nat \ {0}
  BY IamAssumption DEF IamTypeOK
<1> SUFFICES ASSUME NEW n \in NodeIds, consecutive'[n] >= AlertThreshold, ~ Testing(n)'
             PROVE  Alerted(n)'
  BY DEF StreaksAlerted, Alerted, Testing
<1>1. consecutive[n] >= AlertThreshold /\ ~ Testing(n) => Alerted(n)
  BY DEF StreaksAlerted, Alerted, Testing
<1>2. ASSUME NEW t \in Threads, Audit(t), call[t].node \in NodeIds,
             call[t].decision.allowed \in BOOLEAN
      PROVE  Alerted(n)'
  <2> DEFINE m == call[t].node
             e == [node |-> m, allowed |-> call[t].decision.allowed]
  <2>1. /\ events' = Append(events, e) /\ alerts' = alerts /\ e \in EventType
        /\ e.node = m /\ m \in NodeIds
        /\ consecutive' = [consecutive EXCEPT ![m] = Streak(m, call[t].decision.allowed)]
    BY <1>2 DEF Audit, EventType
  <2>2. /\ call'[t].pc = "alert" /\ call'[t].node = m
        /\ \A u \in Threads : u # t => call'[u] = call[u]
    BY <1>2, CallMoves DEF Calls
  <2> HIDE DEF m, e
  <2>3. n # m
    BY <2>2 DEF Testing
  <2>4. consecutive'[n] = consecutive[n]
    BY <1>0, <2>1, <2>3
  <2>5. ~ Testing(n)
    <3> SUFFICES ASSUME NEW u \in Threads, call[u].pc = "alert", call[u].node = n
                 PROVE  FALSE
      BY DEF Testing
    <3>1. u # t
      BY <2>3 DEF m
    <3>2. QED
      BY <2>2, <3>1 DEF Testing
  <2>6. Alerted(n)
    BY <1>1, <2>4, <2>5
  <2>7. QED
    BY <2>1, <2>3, <2>6, AlertedStays
<1>3. ASSUME NEW t \in Threads, NEW toFile \in BOOLEAN, CheckAlert(t, toFile),
             call[t].node \in NodeIds
      PROVE  Alerted(n)'
  <2> DEFINE a == [node |-> call[t].node, at |-> Len(events)]
  <2>1. /\ events' = events /\ consecutive' = consecutive
        /\ alerts' = IF AlertDue(call[t].node) THEN Append(alerts, a) ELSE alerts
    BY <1>3 DEF CheckAlert
  <2>2. a \in AlertType /\ a.node = call[t].node /\ a.at = Len(events)
    BY <1>0, <1>3 DEF AlertType
  <2> HIDE DEF a
  <2>3. CASE call[t].node = n
    <3>1. alerts' = Append(alerts, a)
      BY <2>1, <2>3 DEF AlertDue
    <3>2. /\ Len(alerts') = Len(alerts) + 1 /\ alerts'[Len(alerts) + 1] = a
          /\ Len(alerts) \in Nat /\ Len(events) \in Nat
      BY <1>0, <2>2, <3>1
    <3>3. Len(alerts) + 1 \in 1 .. Len(alerts')
      BY <3>2
    <3>4. \A j \in a.at + 1 .. Len(events') : FALSE
      BY <2>1, <2>2, <3>2
    <3>5. QED
      BY <2>2, <2>3, <3>2, <3>3, <3>4 DEF Alerted
  <2>4. CASE call[t].node # n
    <3>1. \A u \in Threads : u # t => call'[u] = call[u]
      <4>1. CheckAlert(t, TRUE) \/ CheckAlert(t, FALSE)
        BY <1>3
      <4>2. QED
        BY <4>1, CallMoves DEF Calls
    <3>2. ~ Testing(n)
      BY <2>4, <3>1 DEF Testing
    <3>3. PICK i \in 1 .. Len(alerts) :
            /\ alerts[i].node = n
            /\ \A j \in alerts[i].at + 1 .. Len(events) :
                 events[j].node = n => ~ events[j].allowed
      BY <1>1, <2>1, <3>2 DEF Alerted
    <3>4. i \in 1 .. Len(alerts') /\ alerts'[i] = alerts[i]
      BY <1>0, <2>1, <2>2
    <3>5. QED
      BY <2>1, <3>3, <3>4 DEF Alerted
  <2>5. QED
    BY <2>3, <2>4
<1>4. ASSUME UNCHANGED <<events, consecutive, alerts>>,
             ~ \E u \in Threads, toFile \in BOOLEAN : CheckAlert(u, toFile)
      PROVE  Alerted(n)'
  <2>1. ~ Testing(n)
    BY <1>4, TestingStays DEF Testing
  <2>2. QED
    BY <1>1, <1>4, <2>1 DEF Alerted
<1>5. QED
  <2>1. \A u \in Threads, toFile \in BOOLEAN : CheckAlert(u, toFile) => call[u].node \in NodeIds
    BY DEF CheckAlert, IamTypeOK
  <2>2. QED
    BY <1>2, <1>3, <1>4, <2>1, TrailMoves, Zenon

(* A streak of denials that reaches the threshold is alerted about, in     *)
(* that very streak, as soon as no thread is between record()'s lock and   *)
(* its test: denials spread over any number of threads cannot slip past.   *)
THEOREM StreaksAlwaysAlerted == Spec => []StreaksAlerted
<1>1. Init => StreaksAlerted
  BY IamAssumption DEF Init, IamInit, StreaksAlerted
<1>2. IamTypeOK /\ StreaksAlerted /\ [Next]_vars => StreaksAlerted'
  BY StepIsIamStep, StreaksStep
<1>3. QED
  BY <1>1, <1>2, IamTypeCorrect, PTL DEF Spec

-----------------------------------------------------------------------------
(* The breach simulation: one thread, the configured store, and a script.  *)

ConfiguredNodes ==
  [n \in NodeIds |-> IF n \in DOMAIN ConfigNodes
                     THEN Identity(ConfigNodes[n].role, ConfigNodes[n].policy)
                     ELSE None]

Attacker == DenialStorm[1].node

(* What check() answers to attempt a as long as the store is as configured. *)
Permitted(a) ==
  /\ a.node \in DOMAIN ConfigNodes
  /\ Evaluate(Identity(ConfigNodes[a.node].role, ConfigNodes[a.node].policy),
              a.request).allowed

(* Where the script is, and the call it makes there.                       *)
ScriptPlace ==
  /\ nodes = ConfiguredNodes
  /\ scenario \in 1 .. Storm + 1
  /\ scenario <= Storm => attempt \in 1 .. Len(Scenarios[scenario]) + 1
  /\ \A t \in Threads \ {Sim} : call[t].pc = "idle"
  /\ call[Sim].pc # "write"
  /\ call[Sim].pc # "idle" =>
       /\ scenario <= Storm /\ attempt <= Len(Scenarios[scenario])
       /\ call[Sim].node = Attempt.node /\ call[Sim].request = Attempt.request
  /\ call[Sim].pc = "lookup" => Attempt.node \in DOMAIN ConfigNodes
  /\ call[Sim].pc = "decided" => (call[Sim].decision.allowed <=> Permitted(Attempt))

(* The answers of the scenario under way are those to its attempts so far; *)
(* in the storm each of them has lengthened the attacker's streak.         *)
ScriptAnswers ==
  /\ results \in Seq(BOOLEAN)
  /\ Len(results) = IF call[Sim].pc = "alert" THEN attempt ELSE attempt - 1
  /\ scenario <= Storm =>
       \A i \in 1 .. Len(results) : results[i] <=> Permitted(Scenarios[scenario][i])
  /\ scenario = Storm => consecutive[Attacker] >= Len(results)

ScriptVerdicts ==
  /\ report \in Seq([blocked : Nat, defended : BOOLEAN])
  /\ Len(report) = scenario - 1
  /\ VerdictsEarned

SimInv ==
  /\ mode \in {"simulation", "service"}
  /\ mode = "service" => report = <<>>
  /\ mode = "simulation" => ScriptPlace /\ ScriptAnswers /\ ScriptVerdicts

(* The script: seven scenarios, the last one of eight probes of one node.  *)
LEMMA ScenarioFacts ==
  /\ Len(Scenarios) = 7 /\ Storm = 7
  /\ \A s \in 1 .. 7 : Len(Scenarios[s]) \in Nat
  /\ Scenarios[7] = DenialStorm /\ Len(DenialStorm) = 8
  /\ \A i \in 1 .. 8 : DenialStorm[i].node = Attacker
<1>1. Len(Scenarios) = 7 /\ Storm = 7 /\ Scenarios[7] = DenialStorm
  BY DEF Scenarios, Storm
<1>2. Len(DenialStorm) = 8
  BY DEF DenialStorm
<1>3. \A i \in 1 .. 8 : DenialStorm[i].node = "probing_attacker"
  BY DEF DenialStorm, A
<1>4. \A i \in 1 .. 8 : DenialStorm[i].node = Attacker
  BY <1>3 DEF Attacker
<1>5. \A s \in 1 .. 7 : Len(Scenarios[s]) \in Nat
  <2> SUFFICES ASSUME NEW s \in 1 .. 7 PROVE Len(Scenarios[s]) \in Nat
    OBVIOUS
  <2>1. CASE s = 1
    BY <2>1 DEF Scenarios, UnknownNode
  <2>2. CASE s = 2
    BY <2>2 DEF Scenarios, CrossTeamAccess
  <2>3. CASE s = 3
    BY <2>3 DEF Scenarios, CarValidatorBypass
  <2>4. CASE s = 4
    BY <2>4 DEF Scenarios, RelayImpersonation
  <2>5. CASE s = 5
    BY <2>5 DEF Scenarios, PrivilegeEscalation
  <2>6. CASE s = 6
    BY <2>6 DEF Scenarios, AuditLogTampering
  <2>7. CASE s = 7
    BY <2>7 DEF Scenarios, DenialStorm
  <2> QED
    BY <2>1, <2>2, <2>3, <2>4, <2>5, <2>6, <2>7
<1> QED
  BY <1>1, <1>2, <1>4, <1>5

(* A probe of the storm is never permitted.                                *)
LEMMA ProbesDenied ==
  ASSUME NEW i \in 1 .. Len(Scenarios[Storm])
  PROVE  /\ Scenarios[Storm][i].node = Attacker
         /\ ~ Permitted(Scenarios[Storm][i])
BY ScenarioFacts, StormAssumption DEF Permitted, Attacker

(* The attacker is a name a request may come from.                         *)
LEMMA AttackerKnown == Attacker \in NodeIds
<1>1. 7 \in 1 .. Len(Scenarios) /\ 1 \in 1 .. Len(Scenarios[7]) /\ Scenarios[7][1] = DenialStorm[1]
  BY ScenarioFacts
<1> QED
  BY <1>1, BreachAssumption DEF Attacker

(* An attempt that is not permitted is one no rule of the policy of the    *)
(* node's configured role allows.                                          *)
LEMMA DeniedByPolicy ==
  ASSUME NEW a, ~ Permitted(a), a.node \in DOMAIN ConfigNodes, NEW p \in DOMAIN Policies,
         p = PolicyName(ConfigNodes[a.node])
  PROVE  ~ \E rule \in Policies[p].allow :
             /\ Matches(rule, a.request)
             /\ \A d \in Policies[p].deny : ~ Matches(d, a.request)
<1> DEFINE i == Identity(ConfigNodes[a.node].role, ConfigNodes[a.node].policy)
<1>1. i.role = ConfigNodes[a.node].role /\ i.policy = ConfigNodes[a.node].policy
  BY DEF Identity
<1>2. PolicyName(i) = p
  BY <1>1 DEF PolicyName
<1>3. ~ Evaluate(i, a.request).allowed
  BY DEF Permitted
<1> HIDE DEF i
<1>4. ~ IsAllowed(Policies[p], a.request)
  <2> SUFFICES ASSUME IsAllowed(Policies[p], a.request) PROVE FALSE
    OBVIOUS
  <2>1. Evaluate(i, a.request) = [allowed |-> TRUE, reason |-> "policy_allow"]
    BY <1>2 DEF Evaluate
  <2> QED
    BY <1>3, <2>1
<1> QED
  BY <1>4 DEF IsAllowed

(* Nothing has been attempted yet.                                         *)
LEMMA SimInvInit == Init => SimInv
<1> SUFFICES ASSUME Init PROVE SimInv
  OBVIOUS
<1>1. /\ nodes = ConfiguredNodes /\ call = [t \in Threads |-> Idle]
      /\ scenario = 1 /\ attempt = 1 /\ results = <<>> /\ report = <<>>
      /\ mode \in {"simulation", "service"}
      /\ Sim \in Threads
  BY BreachAssumption DEF Init, IamInit, ConfiguredNodes
<1>2. \A t \in Threads : call[t].pc = "idle"
  BY <1>1, IdleShape
<1>3. ScriptPlace
  <2>1. scenario \in 1 .. Storm + 1 /\ attempt \in 1 .. Len(Scenarios[scenario]) + 1
    BY <1>1, ScenarioFacts
  <2> QED
    BY <1>1, <1>2, <2>1 DEF ScriptPlace
<1>4. ScriptAnswers
  <2>1. results \in Seq(BOOLEAN) /\ Len(results) = 0 /\ scenario # Storm
    BY <1>1, ScenarioFacts
  <2> QED
    BY <1>1, <1>2, <2>1 DEF ScriptAnswers
<1>5. ScriptVerdicts
  <2>1. report \in Seq([blocked : Nat, defended : BOOLEAN]) /\ Len(report) = 0
    BY <1>1
  <2> QED
    BY <1>1, <2>1 DEF ScriptVerdicts, VerdictsEarned
<1> QED
  BY <1>1, <1>3, <1>4, <1>5 DEF SimInv

(* Verdicts that have been printed stay earned: alerts are never removed.  *)
LEMMA VerdictsStay ==
  ASSUME VerdictsEarned, alerts \in Seq(AlertType), report' = report,
         alerts' = alerts \/ \E a \in AlertType : alerts' = Append(alerts, a)
  PROVE  VerdictsEarned'
<1>1. \A i \in 1 .. Len(alerts) : i \in 1 .. Len(alerts') /\ alerts'[i] = alerts[i]
  <2>1. CASE alerts' = alerts
    BY <2>1
  <2>2. CASE \E a \in AlertType : alerts' = Append(alerts, a)
    BY <2>2
  <2> QED
    BY <2>1, <2>2
<1>2. ASSUME NEW s, \E i \in 1 .. Len(alerts) : alerts[i].node = Scenarios[s][1].node
      PROVE  \E i \in 1 .. Len(alerts') : alerts'[i].node = Scenarios[s][1].node
  BY <1>1, <1>2
<1> QED
  BY <1>2 DEF VerdictsEarned

(* The request of the next attempt.                                        *)
LEMMA SimRequestKeeps ==
  ASSUME IamTypeOK, ScriptPlace, ScriptAnswers, ScriptVerdicts, SimRequest
  PROVE  ScriptPlace' /\ ScriptAnswers' /\ ScriptVerdicts'
<1>0. Sim \in Threads /\ scenario \in 1 .. Len(Scenarios)
  BY BreachAssumption, ScenarioFacts DEF SimRequest, ScriptPlace
<1>1. /\ scenario <= Storm /\ attempt <= Len(Scenarios[scenario])
      /\ Len(results) = attempt - 1
      /\ Request(Sim, Attempt.node, Attempt.request)
      /\ UNCHANGED <<mode, scenario, attempt, results, report>>
  BY DEF SimRequest, simVars, Storm
<1>2. Attempt.node \in NodeIds /\ Attempt.request \in Requests
  <2>1. attempt \in 1 .. Len(Scenarios[scenario])
    BY <1>0, <1>1, ScenarioFacts DEF IamTypeOK
  <2> QED
    BY <1>0, <2>1, BreachAssumption DEF Attempt, Requests
<1>3. Calls(Sim, "check", Attempt.node, Attempt.request, NoDecision, HeldAt(Attempt.node))
  BY <1>0, <1>1, <1>2, RequestMoves
<1>4. UNCHANGED <<nodes, consecutive, alerts>> /\ Attempt' = Attempt
  BY <1>1 DEF Request, Attempt
<1>5. /\ call'[Sim].pc = "check" /\ call'[Sim].node = Attempt.node
      /\ call'[Sim].request = Attempt.request
      /\ \A u \in Threads : u # Sim => call'[u] = call[u]
  BY <1>3 DEF Calls
<1>6. ScriptPlace'
  BY <1>1, <1>4, <1>5 DEF ScriptPlace
<1>7. ScriptAnswers'
  BY <1>1, <1>4, <1>5 DEF ScriptAnswers
<1>8. ScriptVerdicts'
  BY <1>1, <1>4 DEF ScriptVerdicts, VerdictsEarned
<1> QED
  BY <1>6, <1>7, <1>8

(* Inside check(): the store is as configured, so the answer is the        *)
(* configured one.                                                         *)
LEMMA SimStepKeeps ==
  ASSUME IamTypeOK, ScriptPlace, ScriptAnswers, ScriptVerdicts, SimStep
  PROVE  ScriptPlace' /\ ScriptAnswers' /\ ScriptVerdicts'
<1>0. Sim \in Threads
  BY BreachAssumption
<1>1. UNCHANGED <<mode, scenario, attempt, results, report>> /\ Attempt' = Attempt
  BY DEF SimStep, simVars, Attempt
<1>2. UNCHANGED <<nodes, consecutive, alerts>>
  BY DEF SimStep, DenyUnknown, PassIdentity, DecideByPolicy, Decide
<1>3. ScriptVerdicts'
  BY <1>1, <1>2 DEF ScriptVerdicts, VerdictsEarned
<1>4. /\ call[Sim].pc \in {"check", "lookup"} /\ scenario <= Storm
      /\ attempt <= Len(Scenarios[scenario])
      /\ call[Sim].node = Attempt.node /\ call[Sim].request = Attempt.request
      /\ Attempt.node \in NodeIds
  BY <1>0 DEF ScriptPlace, SimStep, DenyUnknown, PassIdentity, DecideByPolicy, IamTypeOK
<1>5. nodes[Attempt.node] = IF Attempt.node \in DOMAIN ConfigNodes
        THEN Identity(ConfigNodes[Attempt.node].role, ConfigNodes[Attempt.node].policy)
        ELSE None
  BY <1>4 DEF ScriptPlace, ConfiguredNodes
<1>6. IsRegistered(Attempt.node) <=> Attempt.node \in DOMAIN ConfigNodes
  <2>1. CASE Attempt.node \in DOMAIN ConfigNodes
    <3>1. nodes[Attempt.node] \in IdentityType /\ nodes[Attempt.node].active = TRUE
      BY <1>5, <2>1, IdentityShape DEF Identity
    <3> QED
      BY <2>1, <3>1, IamAssumption DEF IsRegistered
  <2>2. CASE Attempt.node \notin DOMAIN ConfigNodes
    BY <1>5, <2>2 DEF IsRegistered
  <2> QED
    BY <2>1, <2>2
<1>7. CASE PassIdentity(Sim)
  <2>1. /\ call'[Sim].pc = "lookup" /\ call'[Sim].node = call[Sim].node
        /\ call'[Sim].request = call[Sim].request
        /\ \A u \in Threads : u # Sim => call'[u] = call[u]
    BY <1>0, <1>7, CallMoves DEF Calls
  <2>2. Attempt.node \in DOMAIN ConfigNodes
    BY <1>4, <1>6, <1>7 DEF PassIdentity
  <2>3. ScriptPlace'
    BY <1>1, <1>2, <1>4, <2>1, <2>2 DEF ScriptPlace
  <2>4. ScriptAnswers'
    BY <1>1, <1>2, <1>4, <2>1 DEF ScriptAnswers
  <2> QED
    BY <1>3, <2>3, <2>4
<1>8. CASE DenyUnknown(Sim) \/ DecideByPolicy(Sim)
  <2>1. PICK d \in DecisionType :
          /\ Decide(Sim, d)
          /\ Calls(Sim, "decided", call[Sim].node, call[Sim].request, d, call[Sim].held)
    BY <1>0, <1>8, DecisionSteps
  <2>2. /\ call'[Sim].pc = "decided" /\ call'[Sim].node = call[Sim].node
        /\ call'[Sim].request = call[Sim].request /\ call'[Sim].decision = d
        /\ \A u \in Threads : u # Sim => call'[u] = call[u]
    BY <2>1 DEF Calls
  <2>3. d.allowed <=> Permitted(Attempt)
    <3>1. CASE DenyUnknown(Sim)
      <4>1. call'[Sim].decision = [allowed |-> FALSE, reason |-> "node_not_registered"]
        <5> DEFINE e == [allowed |-> FALSE, reason |-> "node_not_registered"]
        <5>1. e \in DecisionType
          BY DEF DecisionType
        <5>2. Decide(Sim, e)
          BY <3>1 DEF DenyUnknown
        <5> HIDE DEF e
        <5>3. Calls(Sim, "decided", call[Sim].node, call[Sim].request, e, call[Sim].held)
          BY <1>0, <5>1, <5>2, DecideMoves
        <5> QED
          BY <5>3 DEF Calls, e
      <4>2. ~ Permitted(Attempt)
        BY <1>4, <1>6, <3>1 DEF DenyUnknown, Permitted
      <4> QED
        BY <2>2, <4>1, <4>2
    <3>2. CASE DecideByPolicy(Sim)
      <4> DEFINE e == Evaluate(nodes[call[Sim].node], call[Sim].request)
      <4>1. e \in DecisionType /\ Decide(Sim, e)
        BY <3>2, EvaluateType DEF DecideByPolicy
      <4>2. Attempt.node \in DOMAIN ConfigNodes
        BY <3>2 DEF DecideByPolicy, ScriptPlace
      <4>3. e.allowed <=> Permitted(Attempt)
        BY <1>4, <1>5, <4>2 DEF Permitted
      <4> HIDE DEF e
      <4>4. Calls(Sim, "decided", call[Sim].node, call[Sim].request, e, call[Sim].held)
        BY <1>0, <4>1, DecideMoves
      <4>5. call'[Sim].decision = e
        BY <4>4 DEF Calls
      <4> QED
        BY <2>2, <4>3, <4>5
    <3> QED
      BY <1>8, <3>1, <3>2
  <2>4. ScriptPlace'
    <3>1. Permitted(Attempt)' <=> Permitted(Attempt)
      BY <1>1 DEF Permitted
    <3> QED
      BY <1>1, <1>2, <1>4, <2>2, <2>3, <3>1 DEF ScriptPlace
  <2>5. ScriptAnswers'
    BY <1>1, <1>2, <1>4, <2>2 DEF ScriptAnswers
  <2> QED
    BY <1>3, <2>4, <2>5
<1> QED
  BY <1>7, <1>8 DEF SimStep

(* record() and the answer kept: in the storm, one more denial of the      *)
(* attacker.                                                               *)
LEMMA SimRecordKeeps ==
  ASSUME IamTypeOK, ScriptPlace, ScriptAnswers, ScriptVerdicts, SimRecord
  PROVE  ScriptPlace' /\ ScriptAnswers' /\ ScriptVerdicts'
<1> DEFINE allowed == call[Sim].decision.allowed
<1>0. Sim \in Threads
  BY BreachAssumption
<1>1. /\ Audit(Sim) /\ results' = Append(results, allowed) /\ Attempt' = Attempt
      /\ UNCHANGED <<mode, scenario, attempt, report>>
  BY DEF SimRecord, Attempt
<1>2. /\ call[Sim].pc = "decided" /\ UNCHANGED <<nodes, alerts>>
      /\ consecutive' = [consecutive EXCEPT ![call[Sim].node] =
                           Streak(call[Sim].node, allowed)]
  BY <1>1 DEF Audit
<1>3. /\ call'[Sim].pc = "alert" /\ call'[Sim].node = call[Sim].node
      /\ call'[Sim].request = call[Sim].request
      /\ \A u \in Threads : u # Sim => call'[u] = call[u]
  BY <1>0, <1>1, CallMoves DEF Calls
<1>4. allowed \in BOOLEAN
  BY <1>0 DEF IamTypeOK, CallType, DecisionType
<1>5. /\ scenario <= Storm /\ attempt <= Len(Scenarios[scenario])
      /\ call[Sim].node = Attempt.node /\ call[Sim].request = Attempt.request
      /\ allowed <=> Permitted(Attempt)
  BY <1>2 DEF ScriptPlace
<1>6. ScriptVerdicts'
  BY <1>1, <1>2 DEF ScriptVerdicts, VerdictsEarned
<1>7. ScriptPlace'
  BY <1>1, <1>2, <1>3, <1>5 DEF ScriptPlace
<1>8. results \in Seq(BOOLEAN) /\ Len(results) = attempt - 1 /\ attempt \in Nat \ {0}
  BY <1>2 DEF ScriptAnswers, IamTypeOK
<1> HIDE DEF allowed
<1>9. /\ results' \in Seq(BOOLEAN) /\ Len(results') = attempt
      /\ results'[attempt] = allowed
      /\ \A i \in 1 .. attempt - 1 : results'[i] = results[i]
  BY <1>1, <1>4, <1>8
<1>10. ASSUME NEW i \in 1 .. attempt
       PROVE  results'[i] <=> Permitted(Scenarios[scenario][i])
  <2>1. CASE i = attempt
    BY <1>5, <1>9, <2>1 DEF Attempt
  <2>2. CASE i # attempt
    <3>1. i \in 1 .. attempt - 1
      BY <1>8, <2>2
    <3> QED
      BY <1>5, <1>8, <1>9, <3>1 DEF ScriptAnswers
  <2> QED
    BY <2>1, <2>2
<1>11. ASSUME scenario = Storm PROVE consecutive'[Attacker] >= attempt
  <2>1. attempt \in 1 .. Len(Scenarios[Storm])
    BY <1>5, <1>8, <1>11, ScenarioFacts
  <2>2. Attempt.node = Attacker /\ ~ allowed
    BY <1>5, <1>11, <2>1, ProbesDenied DEF Attempt
  <2>3. consecutive \in [NodeIds -> Nat] /\ consecutive[Attacker] \in Nat
    BY AttackerKnown DEF IamTypeOK
  <2>4. consecutive'[Attacker] = consecutive[Attacker] + 1
    BY <1>2, <1>5, <2>2, <2>3, AttackerKnown DEF Streak
  <2>5. consecutive[Attacker] >= attempt - 1
    BY <1>8, <1>11 DEF ScriptAnswers
  <2> QED
    BY <1>8, <2>3, <2>4, <2>5
<1>12. ScriptAnswers'
  BY <1>1, <1>3, <1>9, <1>10, <1>11 DEF ScriptAnswers
<1> QED
  BY <1>6, <1>7, <1>12

(* The alert test, after which the script goes on to its next attempt.     *)
LEMMA SimNextAttemptKeeps ==
  ASSUME IamTypeOK, ScriptPlace, ScriptAnswers, ScriptVerdicts, SimNextAttempt
  PROVE  ScriptPlace' /\ ScriptAnswers' /\ ScriptVerdicts'
<1>0. Sim \in Threads
  BY BreachAssumption
<1>1. /\ CheckAlert(Sim, FALSE) /\ attempt' = attempt + 1
      /\ UNCHANGED <<mode, scenario, results, report>>
  BY DEF SimNextAttempt
<1>2. /\ call[Sim].pc = "alert" /\ UNCHANGED <<nodes, consecutive>>
      /\ alerts' = IF AlertDue(call[Sim].node)
                   THEN Append(alerts, [node |-> call[Sim].node, at |-> Len(events)])
                   ELSE alerts
  BY <1>1 DEF CheckAlert
<1>3. call'[Sim].pc = "idle" /\ \A u \in Threads : u # Sim => call'[u] = call[u]
  BY <1>0, <1>1, CallMoves DEF Calls
<1>4. scenario <= Storm /\ attempt <= Len(Scenarios[scenario]) /\ Len(results) = attempt
  BY <1>2 DEF ScriptPlace, ScriptAnswers
<1>5. attempt \in Nat \ {0} /\ Len(Scenarios[scenario]) \in Nat
  BY <1>4, ScenarioFacts DEF IamTypeOK, ScriptPlace
<1>6. ScriptPlace'
  <2>1. attempt' \in 1 .. Len(Scenarios[scenario']) + 1
    BY <1>1, <1>4, <1>5
  <2> QED
    BY <1>1, <1>2, <1>3, <2>1 DEF ScriptPlace
<1>7. ScriptAnswers'
  <2>1. Len(results') = attempt' - 1
    BY <1>1, <1>4, <1>5
  <2> QED
    BY <1>1, <1>2, <1>3, <2>1 DEF ScriptAnswers
<1>8. ScriptVerdicts'
  <2> DEFINE a == [node |-> call[Sim].node, at |-> Len(events)]
  <2>1. a \in AlertType /\ alerts \in Seq(AlertType)
    BY <1>0, <1>2 DEF IamTypeOK, AlertType
  <2> HIDE DEF a
  <2>2. alerts' = alerts \/ alerts' = Append(alerts, a)
    BY <1>2 DEF a
  <2>3. VerdictsEarned'
    BY <1>1, <2>1, <2>2, VerdictsStay DEF ScriptVerdicts
  <2> QED
    BY <1>1, <2>3 DEF ScriptVerdicts
<1> QED
  BY <1>6, <1>7, <1>8

(* The verdict of a scenario: of the answers to all of its attempts, or in *)
(* the storm of the attacker's streak, which has reached the threshold and *)
(* must have been alerted about.                                           *)
LEMMA SimReportKeeps ==
  ASSUME IamTypeOK, StreaksAlerted, ScriptPlace, ScriptAnswers, ScriptVerdicts, SimReport
  PROVE  ScriptPlace' /\ ScriptAnswers' /\ ScriptVerdicts'
<1> DEFINE blocked == Cardinality({i \in DOMAIN results : ~ results[i]})
           defended == IF scenario = Storm THEN Len(alerts) > 0
                       ELSE \A i \in DOMAIN results : ~ results[i]
           v == [blocked |-> blocked, defended |-> defended]
           n == Len(Scenarios[scenario])
<1>0. Sim \in Threads /\ scenario \in 1 .. 7 /\ scenario <= Storm /\ n \in Nat
  BY BreachAssumption, ScenarioFacts DEF SimReport, ScriptPlace
<1>1. /\ attempt > n /\ report' = Append(report, v)
      /\ scenario' = scenario + 1 /\ attempt' = 1 /\ results' = <<>>
      /\ UNCHANGED <<mode, nodes, call, consecutive, alerts>>
  BY DEF SimReport, iamVars
<1>2. attempt = n + 1
  BY <1>0, <1>1 DEF ScriptPlace
<1>3. \A t \in Threads : call[t].pc = "idle"
  <2>1. call[Sim].pc = "idle"
    BY <1>0, <1>2 DEF ScriptPlace
  <2> QED
    BY <2>1 DEF ScriptPlace
<1>4. /\ results \in Seq(BOOLEAN) /\ Len(results) = n /\ DOMAIN results = 1 .. n
      /\ \A i \in 1 .. n : results[i] <=> Permitted(Scenarios[scenario][i])
      /\ scenario = Storm => consecutive[Attacker] >= n
  <2>1. results \in Seq(BOOLEAN) /\ Len(results) = n
    BY <1>0, <1>2, <1>3 DEF ScriptAnswers
  <2> HIDE DEF n
  <2> QED
    BY <1>0, <2>1 DEF ScriptAnswers
<1>5. v \in [blocked : Nat, defended : BOOLEAN]
  <2> DEFINE B == {i \in DOMAIN results : ~ results[i]}
  <2>1. B \subseteq 1 .. n /\ IsFiniteSet(1 .. n)
    BY <1>0, <1>4, FS_Interval
  <2>2. Cardinality(B) \in Nat
    BY <2>1, FS_Subset, FS_CardinalityType
  <2>3. defended \in BOOLEAN
    <3>1. CASE scenario = Storm
      <4>1. Len(alerts) \in Nat
        BY DEF IamTypeOK
      <4> QED
        BY <3>1, <4>1
    <3>2. CASE scenario # Storm
      BY <3>2
    <3> QED
      BY <3>1, <3>2
  <2> HIDE DEF defended
  <2> QED
    BY <2>2, <2>3
<1>6. ScriptPlace'
  <2>1. scenario' \in 1 .. Storm + 1 /\ (scenario' <= Storm => Len(Scenarios[scenario']) \in Nat)
    BY <1>0, <1>1, ScenarioFacts
  <2>2. scenario' <= Storm => attempt' \in 1 .. Len(Scenarios[scenario']) + 1
    BY <1>1, <2>1
  <2> QED
    BY <1>0, <1>1, <1>3, <2>1, <2>2 DEF ScriptPlace
<1>7. ScriptAnswers'
  <2>1. results' \in Seq(BOOLEAN) /\ Len(results') = 0 /\ attempt' - 1 = 0
    BY <1>1
  <2>2. consecutive'[Attacker] \in Nat
    BY <1>1, AttackerKnown DEF IamTypeOK
  <2> QED
    BY <1>0, <1>1, <1>3, <2>1, <2>2 DEF ScriptAnswers
<1>8. defended =>
        IF scenario = Storm
        THEN \E i \in 1 .. Len(alerts) : alerts[i].node = Scenarios[scenario][1].node
        ELSE \A i \in 1 .. n : ~ Permitted(Scenarios[scenario][i])
  <2>1. CASE scenario = Storm
    <3>1. consecutive[Attacker] >= AlertThreshold
      <4>1. n = 8 /\ Len(DenialStorm) = 8
        BY <2>1, ScenarioFacts
      <4>2. consecutive[Attacker] \in Nat /\ AlertThreshold \in Nat
        BY AttackerKnown, IamAssumption DEF IamTypeOK
      <4> HIDE DEF n
      <4> QED
        BY <1>4, <2>1, <4>1, <4>2, StormAssumption
    <3>2. \A t \in Threads : ~ (call[t].pc = "alert" /\ call[t].node = Attacker)
      BY <1>3
    <3>3. \E i \in 1 .. Len(alerts) : alerts[i].node = Attacker
      BY <3>1, <3>2, AttackerKnown DEF StreaksAlerted
    <3>4. Scenarios[scenario][1].node = Attacker
      BY <2>1, ScenarioFacts
    <3> QED
      BY <2>1, <3>3, <3>4
  <2>2. CASE scenario # Storm
    BY <1>4, <2>2
  <2> QED
    BY <2>1, <2>2
<1> HIDE DEF v, n, defended, blocked
<1>9. /\ report \in Seq([blocked : Nat, defended : BOOLEAN]) /\ Len(report) = scenario - 1
      /\ VerdictsEarned
  BY DEF ScriptVerdicts
<1>10. /\ report' \in Seq([blocked : Nat, defended : BOOLEAN]) /\ Len(report') = scenario
       /\ report'[scenario] = v
       /\ \A s \in 1 .. scenario - 1 : report'[s] = report[s]
  BY <1>0, <1>1, <1>5, <1>9
<1>11. VerdictsEarned'
  <2> SUFFICES ASSUME NEW s \in 1 .. scenario, report'[s].defended
               PROVE  IF s = Storm
                      THEN \E i \in 1 .. Len(alerts) : alerts[i].node = Scenarios[s][1].node
                      ELSE \A i \in 1 .. Len(Scenarios[s]) :
                             LET a == Scenarios[s][i]
                             IN  a.node \in DOMAIN ConfigNodes =>
                                   \A p \in DOMAIN Policies :
                                     p = PolicyName(ConfigNodes[a.node]) =>
                                       ~ \E rule \in Policies[p].allow :
                                           /\ Matches(rule, a.request)
                                           /\ \A d \in Policies[p].deny :
                                                ~ Matches(d, a.request)
    BY <1>1, <1>10 DEF VerdictsEarned
  <2>1. CASE s = scenario
    <3>1. defended
      BY <1>10, <2>1 DEF v
    <3>2. CASE scenario = Storm
      BY <1>8, <2>1, <3>1, <3>2
    <3>3. CASE scenario # Storm
      <4>1. \A i \in 1 .. Len(Scenarios[s]) : ~ Permitted(Scenarios[s][i])
        BY <1>8, <2>1, <3>1, <3>3 DEF n
      <4> QED
        BY <2>1, <3>3, <4>1, DeniedByPolicy
    <3> QED
      BY <3>2, <3>3
  <2>2. CASE s # scenario
    <3>1. s \in 1 .. scenario - 1 /\ s \in 1 .. Len(report) /\ report[s].defended
      BY <1>0, <1>9, <1>10, <2>2
    <3> QED
      BY <1>9, <3>1 DEF VerdictsEarned
  <2> QED
    BY <2>1, <2>2
<1>12. ScriptVerdicts'
  <2>1. Len(report') = scenario' - 1
    BY <1>0, <1>1, <1>10
  <2> QED
    BY <1>10, <1>11, <2>1 DEF ScriptVerdicts
<1> QED
  BY <1>6, <1>7, <1>12

(* The script's steps keep it; the service prints no verdicts.             *)
LEMMA SimInvStep ==
  ASSUME IamTypeOK, StreaksAlerted, SimInv, [Next]_vars
  PROVE  SimInv'
<1>1. CASE mode = "simulation" /\ SimNext
  <2>1. ScriptPlace /\ ScriptAnswers /\ ScriptVerdicts
    BY <1>1 DEF SimInv
  <2>2. mode' = mode
    BY <1>1 DEF SimNext, SimRequest, SimStep, SimRecord, SimNextAttempt, SimReport, simVars
  <2>3. ScriptPlace' /\ ScriptAnswers' /\ ScriptVerdicts'
    BY <1>1, <2>1, SimRequestKeeps, SimStepKeeps, SimRecordKeeps, SimNextAttemptKeeps,
       SimReportKeeps DEF SimNext
  <2> QED
    BY <1>1, <2>2, <2>3 DEF SimInv
<1>2. CASE mode = "service" /\ ServiceNext
  BY <1>2 DEF SimInv, ServiceNext, simVars
<1>3. CASE UNCHANGED vars
  BY <1>3 DEF vars, simVars, iamVars, SimInv, ScriptPlace, ScriptAnswers, ScriptVerdicts,
              VerdictsEarned, Attempt, Permitted
<1> QED
  BY <1>1, <1>2, <1>3 DEF Next

(* A scenario of iam_breach_sim.py is reported defended only when the      *)
(* policy of the configured role permits none of its attempts, and the     *)
(* denial storm only when an alert is about the probing node itself,       *)
(* although the script reads a counter that earlier scenarios share: for   *)
(* any configuration and any policies, as long as the probing node is not  *)
(* configured and the storm is no shorter than the alert threshold.        *)
THEOREM VerdictsAlwaysEarned == Spec => []VerdictsEarned
<1>1. SimInv => VerdictsEarned
  <2> SUFFICES ASSUME SimInv, mode = "service" PROVE VerdictsEarned
    BY DEF SimInv, ScriptVerdicts
  <2>1. report = <<>> /\ Len(report) = 0
    BY DEF SimInv
  <2> QED
    BY <2>1 DEF VerdictsEarned
<1>2. IamTypeOK /\ StreaksAlerted /\ SimInv /\ [Next]_vars => SimInv'
  BY SimInvStep
<1> QED
  BY <1>1, <1>2, SimInvInit, IamTypeCorrect, StreaksAlwaysAlerted, PTL DEF Spec
=============================================================================
