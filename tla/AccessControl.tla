---------------------------- MODULE AccessControl ----------------------------
(***************************************************************************)
(* iam-module/src: IdentityStore, PolicyLoader, RBACEngine and             *)
(* AccessAuditor under callers in several threads.  A caller asks check()  *)
(* and may hand the decision to record().  check() reads the store twice,  *)
(* without a lock; record() holds its lock for the trail and the streaks   *)
(* only, so the alert test and the write are steps of their own.           *)
(***************************************************************************)
EXTENDS Naturals, Sequences, FiniteSets, FiniteSetsExt

CONSTANTS
  NodeIds,          (* names a request may come from *)
  Roles,            (* roles a node may be registered with *)
  ConfigNodes,      (* iam.yaml: node -> [role, policy] *)
  PolicyFiles,      (* the files of policies/ in sorted order *)
  DefaultPolicy,    (* role -> policy name *)
  None,             (* no policy named, no identity *)
  Threads, AlertThreshold, LogToFile,
  MaxEvents, MaxRegistryChanges

(* What the store may hold about a node.                                   *)
IdentityType ==
  [role : Roles \cup {ConfigNodes[n].role : n \in DOMAIN ConfigNodes},
   policy : {None} \cup {ConfigNodes[n].policy : n \in DOMAIN ConfigNodes},
   active : BOOLEAN, key : BOOLEAN]

ASSUME IamAssumption ==
  /\ DOMAIN ConfigNodes \subseteq NodeIds
  /\ None \notin NodeIds /\ None \notin IdentityType
  /\ AlertThreshold \in Nat \ {0} /\ LogToFile \in BOOLEAN
  /\ MaxEvents \in Nat /\ MaxRegistryChanges \in Nat

VARIABLES
  nodes,            (* IdentityStore._nodes *)
  changes,          (* bound: how often the store has been changed *)
  call,             (* per thread: the request it is working on *)
  decisions,        (* RBACEngine._decisions *)
  events,           (* AccessAuditor._events *)
  consecutive,      (* _consecutive_denials *)
  alerts,           (* _alert_count, as the sequence of what it counted: the
                       node, and the length of the trail at that moment *)
  file              (* number of lines in the log file *)

iamVars == <<nodes, changes, call, decisions, events, consecutive, alerts, file>>

-----------------------------------------------------------------------------
(* PolicyLoader: a file that cannot be loaded is skipped, a later one with *)
(* the same policy name replaces an earlier one.                           *)
LoadAll(files) ==
  LET good == {i \in DOMAIN files : files[i].loads}
  IN  [name \in {files[i].name : i \in good} |->
         files[Max({i \in good : files[i].name = name})]]

Policies == LoadAll(PolicyFiles)

Matches(rule, r) ==
  /\ rule.action \in {r.action, "*", "any"}
  /\ rule.resource \in {r.resource, "*", "any"}

(* Policy.is_allowed: a deny rule wins, nothing is allowed by default.     *)
IsAllowed(policy, r) ==
  /\ ~ \E rule \in policy.deny : Matches(rule, r)
  /\ \E rule \in policy.allow : Matches(rule, r)

PolicyName(identity) ==
  IF identity.policy # None THEN identity.policy
  ELSE IF identity.role \in DOMAIN DefaultPolicy THEN DefaultPolicy[identity.role]
  ELSE "unknown_policy"

(* RBACEngine.check from the policy lookup on.                             *)
Evaluate(identity, r) ==
  LET name == PolicyName(identity)
  IN  IF name \notin DOMAIN Policies
      THEN [allowed |-> FALSE, reason |-> "policy_not_found"]
      ELSE IF IsAllowed(Policies[name], r)
      THEN [allowed |-> TRUE, reason |-> "policy_allow"]
      ELSE [allowed |-> FALSE, reason |-> "policy_deny"]

-----------------------------------------------------------------------------
Identity(role, policy) ==
  [role |-> role, policy |-> policy, active |-> TRUE, key |-> FALSE]

(* Faulty variant: deregistered nodes still count as registered.           *)
IsRegisteredEver(n) == nodes[n] # None

IsRegistered(n) == nodes[n] # None /\ nodes[n].active

NoRequest == [action |-> "none", resource |-> "none"]
NoDecision == [allowed |-> FALSE, reason |-> "none"]
Idle == [pc |-> "idle", node |-> None, request |-> NoRequest,
         decision |-> NoDecision, held |-> {}]

IamInit ==
  /\ nodes = [n \in NodeIds |->
                IF n \in DOMAIN ConfigNodes
                THEN Identity(ConfigNodes[n].role, ConfigNodes[n].policy)
                ELSE None]
  /\ changes = 0
  /\ call = [t \in Threads |-> Idle]
  /\ decisions = <<>> /\ events = <<>>
  /\ consecutive = [n \in NodeIds |-> 0]
  /\ alerts = <<>>
  /\ file = 0

Changed == changes < MaxRegistryChanges /\ changes' = changes + 1

(* register replaces whatever identity the node had, its key included.     *)
(* held is history: the identities a node had, active, while it was being  *)
(* checked.                                                                *)
Register(n, role, policy) ==
  /\ Changed
  /\ nodes' = [nodes EXCEPT ![n] = Identity(role, policy)]
  /\ call' = [t \in Threads |->
                IF call[t].node = n
                THEN [call[t] EXCEPT !.held = @ \cup {<<role, policy>>}]
                ELSE call[t]]
  /\ UNCHANGED <<decisions, events, consecutive, alerts, file>>

(* deregister keeps the entry.                                             *)
Deregister(n) ==
  /\ nodes[n] # None
  /\ Changed
  /\ nodes' = [nodes EXCEPT ![n].active = FALSE]
  /\ UNCHANGED <<call, decisions, events, consecutive, alerts, file>>

RegisterPublicKey(n) ==
  /\ nodes[n] # None
  /\ Changed
  /\ nodes' = [nodes EXCEPT ![n].key = TRUE]
  /\ UNCHANGED <<call, decisions, events, consecutive, alerts, file>>

-----------------------------------------------------------------------------
(* A thread enters check().                                                *)
Request(t, n, r) ==
  /\ call[t].pc = "idle"
  /\ call' = [call EXCEPT ![t] =
                [pc |-> "check", node |-> n, request |-> r, decision |-> NoDecision,
                 held |-> {<<i.role, i.policy>> :
                             i \in {j \in {nodes[n]} \ {None} : j.active}}]]
  /\ UNCHANGED <<nodes, changes, decisions, events, consecutive, alerts, file>>

(* RBACEngine._record, and the decision returned to the caller.            *)
Decide(t, d) ==
  /\ call' = [call EXCEPT ![t].pc = "decided", ![t].decision = d]
  /\ decisions' = Append(decisions, [node |-> call[t].node, allowed |-> d.allowed])
  /\ UNCHANGED <<nodes, changes, events, consecutive, alerts, file>>

DenyUnknown(t) ==
  /\ call[t].pc = "check"
  /\ ~ IsRegistered(call[t].node)
  /\ Decide(t, [allowed |-> FALSE, reason |-> "node_not_registered"])

PassIdentity(t) ==
  /\ call[t].pc = "check"
  /\ IsRegistered(call[t].node)
  /\ call' = [call EXCEPT ![t].pc = "lookup"]
  /\ UNCHANGED <<nodes, changes, decisions, events, consecutive, alerts, file>>

(* The identity is read a second time: it may have been replaced or        *)
(* deactivated since.                                                      *)
DecideByPolicy(t) ==
  /\ call[t].pc = "lookup"
  /\ Decide(t, Evaluate(nodes[call[t].node], call[t].request))

(* enforce(), and callers that do not audit, end here.                     *)
Return(t) ==
  /\ call[t].pc = "decided"
  /\ call' = [call EXCEPT ![t] = Idle]
  /\ UNCHANGED <<nodes, changes, decisions, events, consecutive, alerts, file>>

(* Faulty variant: an allowed request does not end the streak.             *)
StreakNoReset(n, allowed) == IF allowed THEN consecutive[n] ELSE consecutive[n] + 1

Streak(n, allowed) == IF allowed THEN 0 ELSE consecutive[n] + 1

(* AccessAuditor.record, the part under the lock.                          *)
Audit(t) ==
  LET n == call[t].node
      allowed == call[t].decision.allowed
  IN  /\ call[t].pc = "decided"
      /\ events' = Append(events, [node |-> n, allowed |-> allowed])
      /\ consecutive' = [consecutive EXCEPT ![n] = Streak(n, allowed)]
      /\ call' = [call EXCEPT ![t].pc = "alert"]
      /\ UNCHANGED <<nodes, changes, decisions, alerts, file>>

(* Faulty variants: the threshold is missed by one; only registered nodes  *)
(* are alerted about.                                                      *)
AlertDueLate(n) == consecutive[n] > AlertThreshold
AlertDueKnown(n) == consecutive[n] >= AlertThreshold /\ nodes[n] # None

AlertDue(n) == consecutive[n] >= AlertThreshold

(* _check_alert, after the lock has been released: the streak it reads may *)
(* be another thread's.                                                    *)
CheckAlert(t, toFile) ==
  LET n == call[t].node
  IN  /\ call[t].pc = "alert"
      /\ alerts' = IF AlertDue(n) THEN Append(alerts, [node |-> n, at |-> Len(events)])
                   ELSE alerts
      /\ call' = [call EXCEPT ![t] = IF toFile THEN [@ EXCEPT !.pc = "write"]
                                     ELSE Idle]
      /\ UNCHANGED <<nodes, changes, decisions, events, consecutive, file>>

Write(t) ==
  /\ call[t].pc = "write"
  /\ file' \in {file, file + 1}     (* a failing write is only logged *)
  /\ call' = [call EXCEPT ![t] = Idle]
  /\ UNCHANGED <<nodes, changes, decisions, events, consecutive, alerts>>

CallStep(t) ==
  DenyUnknown(t) \/ PassIdentity(t) \/ DecideByPolicy(t) \/ Audit(t)
    \/ CheckAlert(t, LogToFile) \/ Write(t)

-----------------------------------------------------------------------------
(* A thread that has been told "allowed" asked about a node that was       *)
(* registered and active at some moment of its check, and the identity     *)
(* decided on is one the node held, active, during the check: removing or  *)
(* replacing an identity between the two reads of the store can delay its  *)
(* effect by one check, never grant what no identity had.                  *)
AllowedWhileActive ==
  \A t \in Threads :
    call[t].pc = "decided" /\ call[t].decision.allowed =>
      \E h \in call[t].held :
        LET name == PolicyName([role |-> h[1], policy |-> h[2]])
        IN  /\ name \in DOMAIN Policies
            /\ \E rule \in Policies[name].allow : Matches(rule, call[t].request)
            /\ \A rule \in Policies[name].deny : ~ Matches(rule, call[t].request)

(* The run of denials that the first k events of the trail end with, for a *)
(* node: the positions of its denials after its last allowed request.      *)
DenialRun(n, k) ==
  {i \in 1 .. k : /\ events[i].node = n
                  /\ \A j \in i .. k : events[j].node = n => ~ events[j].allowed}

(* An alert is raised about a node only while its last events on the trail *)
(* are as many denials in a row, although the test runs after the lock has *)
(* been released and may see what other threads recorded.                  *)
AlertsJustified ==
  \A i \in 1 .. Len(alerts) :
    Cardinality(DenialRun(alerts[i].node, alerts[i].at)) >= AlertThreshold

(* A streak of denials that has reached the threshold and is not broken    *)
(* has been alerted about, in that very streak, once no thread is between  *)
(* recording and testing: denials spread over threads cannot slip past.    *)
StreaksAlerted ==
  \A n \in NodeIds :
    /\ consecutive[n] >= AlertThreshold
    /\ \A t \in Threads : ~ (call[t].pc = "alert" /\ call[t].node = n)
    => \E i \in 1 .. Len(alerts) :
         /\ alerts[i].node = n
         /\ \A j \in alerts[i].at + 1 .. Len(events) :
              events[j].node = n => ~ events[j].allowed
=============================================================================
