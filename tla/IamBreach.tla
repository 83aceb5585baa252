------------------------------ MODULE IamBreach ------------------------------
(***************************************************************************)
(* simulations/iam_breach_sim.py, and the IAM module as a service.  In     *)
(* mode "simulation" one thread runs the script: scenario by scenario,     *)
(* each attempt is checked and then recorded, and the scenario is judged   *)
(* from the answers.  The last scenario, the denial storm, is judged by    *)
(* the auditor's alert counter, which the earlier scenarios share.  In     *)
(* mode "service" several threads ask while nodes are registered, replaced *)
(* and removed.                                                            *)
(***************************************************************************)
EXTENDS AccessControl

CONSTANTS
  Sim,              (* the script's thread *)
  ServiceRequests   (* the [node, request] that the service's threads make *)

VARIABLES
  mode,
  scenario, attempt,  (* where the script is *)
  results,            (* answers of the current scenario *)
  report              (* one entry per finished scenario *)

simVars == <<mode, scenario, attempt, results, report>>
vars == <<iamVars, simVars>>

(* The attempts of the script, in its order.                               *)
A(node, action, resource) ==
  [node |-> node, request |-> [action |-> action, resource |-> resource]]

UnknownNode ==
  <<A("unknown_attacker", "telemetry.read", "all_telemetry"),
    A("rouge_car_99", "network.transmit", "validator_node"),
    A("mystery_node", "audit.read", "audit_log"),
    A("fake_relay", "telemetry.decrypt", "car_packets")>>

CrossTeamAccess ==
  <<A("mercedes_car", "telemetry.read", "other_team_telemetry"),
    A("redbull_car", "telemetry.read", "other_team_telemetry"),
    A("mercedes_car", "key.read", "other_node_keys"),
    A("redbull_car", "key.read", "other_node_keys")>>

CarValidatorBypass ==
  <<A("mercedes_car", "network.transmit", "validator_node"),
    A("redbull_car", "network.transmit", "validator_node"),
    A("mercedes_car", "signature.verify", "all_packets"),
    A("mercedes_car", "audit.write", "audit_log")>>

RelayImpersonation ==
  <<A("mercedes_car", "telemetry.reencrypt", "validator_packets"),
    A("mercedes_car", "telemetry.forward", "validator_node"),
    A("mercedes_car", "anomaly.filter", "telemetry_values"),
    A("mercedes_car", "integrity.check", "packet_sequence")>>

PrivilegeEscalation ==
  <<A("mercedes_car", "signature.verify", "all_packets"),
    A("mercedes_car", "zkp.verify", "all_packets"),
    A("mercedes_car", "packet.accept", "verified_packets"),
    A("mercedes_car", "packet.reject", "invalid_packets"),
    A("relay_01", "signature.verify", "all_packets"),
    A("relay_01", "zkp.verify", "all_packets"),
    A("relay_01", "audit.write", "audit_log"),
    A("relay_01", "node.register", "car_nodes")>>

AuditLogTampering ==
  <<A("relay_01", "audit.read", "audit_log"),
    A("relay_01", "audit.write", "audit_log"),
    A("relay_01", "audit.export", "audit_log"),
    A("mercedes_car", "audit.read", "audit_log"),
    A("mercedes_car", "audit.write", "audit_log"),
    A("redbull_car", "audit.read", "audit_log")>>

DenialStorm ==
  <<A("probing_attacker", "telemetry.read", "any"),
    A("probing_attacker", "telemetry.write", "any"),
    A("probing_attacker", "audit.read", "any"),
    A("probing_attacker", "key.read", "any"),
    A("probing_attacker", "network.transmit", "any"),
    A("probing_attacker", "signature.forge", "any"),
    A("probing_attacker", "packet.inject", "any"),
    A("probing_attacker", "session.hijack", "any")>>

Scenarios ==
  <<UnknownNode, CrossTeamAccess, CarValidatorBypass, RelayImpersonation,
    PrivilegeEscalation, AuditLogTampering, DenialStorm>>

Storm == Len(Scenarios)

(* The names the script and the service use are names a request may come   *)
(* from.                                                                   *)
ASSUME BreachAssumption ==
  /\ Sim \in Threads
  /\ \A q \in ServiceRequests : q.node \in NodeIds
  /\ \A s \in 1 .. Len(Scenarios) : \A i \in 1 .. Len(Scenarios[s]) :
       Scenarios[s][i].node \in NodeIds

(* iam.yaml does not know the probing node, and the storm is long enough   *)
(* to be noticed: eight probes, where ALERT_THRESHOLD is 3.                *)
ASSUME StormAssumption ==
  /\ DenialStorm[1].node \notin DOMAIN ConfigNodes
  /\ AlertThreshold <= Len(DenialStorm)

Init ==
  /\ IamInit
  /\ mode \in {"simulation", "service"}
  /\ scenario = 1 /\ attempt = 1
  /\ results = <<>> /\ report = <<>>

-----------------------------------------------------------------------------
Attempt == Scenarios[scenario][attempt]

(* for node_id, action, resource in attempts: check ...                    *)
SimRequest ==
  /\ scenario <= Len(Scenarios) /\ attempt <= Len(Scenarios[scenario])
  /\ Len(results) = attempt - 1
  /\ Request(Sim, Attempt.node, Attempt.request)
  /\ UNCHANGED simVars

(* ... record(auditor, d), and the answer is kept.                         *)
SimRecord ==
  /\ Audit(Sim)
  /\ results' = Append(results, call[Sim].decision.allowed)
  /\ UNCHANGED <<mode, scenario, attempt, report>>

SimStep ==
  /\ DenyUnknown(Sim) \/ PassIdentity(Sim) \/ DecideByPolicy(Sim)
  /\ UNCHANGED simVars

SimNextAttempt ==
  /\ CheckAlert(Sim, FALSE)
  /\ attempt' = attempt + 1
  /\ UNCHANGED <<mode, scenario, results, report>>

(* The verdict of a scenario.                                              *)
SimReport ==
  /\ scenario <= Len(Scenarios) /\ attempt > Len(Scenarios[scenario])
  /\ report' = Append(report,
       [blocked  |-> Cardinality({i \in DOMAIN results : ~ results[i]}),
        defended |-> IF scenario = Storm THEN Len(alerts) > 0
                     ELSE \A i \in DOMAIN results : ~ results[i]])
  /\ scenario' = scenario + 1 /\ attempt' = 1 /\ results' = <<>>
  /\ UNCHANGED <<mode, iamVars>>

SimNext == SimRequest \/ SimStep \/ SimRecord \/ SimNextAttempt \/ SimReport

ServiceNext ==
  /\ \/ \E q \in ServiceRequests :
          \/ \E role \in Roles : Register(q.node, role, None)
          \/ Deregister(q.node)
          \/ RegisterPublicKey(q.node)
     \/ \E t \in Threads \ {Sim} :
          \/ /\ Len(decisions) < MaxEvents
             /\ \E q \in ServiceRequests : Request(t, q.node, q.request)
          \/ CallStep(t)
          \/ Return(t)
  /\ UNCHANGED simVars

Next ==
  \/ mode = "simulation" /\ SimNext
  \/ mode = "service" /\ ServiceNext

Spec == Init /\ [][Next]_vars

-----------------------------------------------------------------------------
(* The script's verdicts are about the scenarios they are printed for: a   *)
(* scenario is reported defended only when none of its attempts is         *)
(* permitted by the policy of its node's configured role, and the denial   *)
(* storm only when the auditor raised an alert about the probing node      *)
(* itself, although the script looks at a counter that earlier scenarios   *)
(* have already raised.                                                    *)
VerdictsEarned ==
  \A s \in 1 .. Len(report) :
    report[s].defended =>
      IF s = Storm
      THEN \E i \in 1 .. Len(alerts) : alerts[i].node = Scenarios[s][1].node
      ELSE \A i \in 1 .. Len(Scenarios[s]) :
             LET a == Scenarios[s][i]
             IN  a.node \in DOMAIN ConfigNodes =>
                   \A p \in DOMAIN Policies :
                     p = PolicyName(ConfigNodes[a.node]) =>
                       ~ \E rule \in Policies[p].allow :
                           /\ Matches(rule, a.request)
                           /\ \A d \in Policies[p].deny : ~ Matches(d, a.request)
=============================================================================
