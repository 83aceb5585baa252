---------------------------- MODULE MCIamBreach ----------------------------
(***************************************************************************)
(* TLC instance of IamBreach: the nodes of iam-module/config/iam.yaml, the *)
(* rules of iam-module/policies/*.yaml, and two service threads that ask   *)
(* for something a car may do and something it may not.                    *)
(***************************************************************************)
EXTENDS IamBreach, SequencesExt

CONSTANTS sim, t1, t2

ThreadSymmetry == Permutations({t1, t2})

R(action, resource) == [action |-> action, resource |-> resource]

CarRules ==
  [name |-> "car_node_policy", loads |-> TRUE,
   allow |-> {R("telemetry.produce", "own_telemetry"),
             R("telemetry.sign", "own_packets"),
             R("telemetry.encrypt", "own_packets"),
             R("key.exchange", "relay_node"),
             R("key.rotate", "own_session"),
             R("network.transmit", "relay_node")},
   deny |-> {R("telemetry.read", "other_team_telemetry"),
            R("network.transmit", "validator_node"),
            R("relay.configure", "relay_node"),
            R("audit.read", "audit_log"),
            R("key.read", "other_node_keys")}]

RelayRules ==
  [name |-> "relay_node_policy", loads |-> TRUE,
   allow |-> {R("telemetry.receive", "car_nodes"),
             R("telemetry.decrypt", "car_packets"),
             R("telemetry.reencrypt", "validator_packets"),
             R("telemetry.forward", "validator_node"),
             R("anomaly.filter", "telemetry_values"),
             R("integrity.check", "packet_sequence"),
             R("key.exchange", "car_nodes"),
             R("key.exchange", "validator_node"),
             R("key.rotate", "own_sessions")},
   deny |-> {R("telemetry.store", "plaintext_data"),
            R("telemetry.sign", "any_packets"),
            R("audit.read", "audit_log"),
            R("key.read", "validator_keys"),
            R("telemetry.modify", "packet_payload")}]

ValidatorRules ==
  [name |-> "validator_node_policy", loads |-> TRUE,
   allow |-> {R("telemetry.receive", "relay_node"),
             R("telemetry.decrypt", "relay_packets"),
             R("signature.verify", "all_packets"),
             R("sequence.verify", "all_packets"),
             R("zkp.verify", "all_packets"),
             R("packet.accept", "verified_packets"),
             R("packet.reject", "invalid_packets"),
             R("audit.write", "audit_log"),
             R("audit.read", "audit_log"),
             R("audit.export", "audit_log"),
             R("key.exchange", "relay_node"),
             R("node.register", "car_nodes")},
   deny |-> {R("telemetry.produce", "any"),
            R("telemetry.modify", "any_packets"),
            R("network.transmit", "car_nodes")}]

MCPolicyFiles == <<CarRules, RelayRules, ValidatorRules>>

MCDefaultPolicy ==
  [car_producer |-> "car_node_policy", relay |-> "relay_node_policy",
   fia_validator |-> "validator_node_policy"]

MCConfigNodes ==
  [n \in {"mercedes_car", "redbull_car", "relay_01"} |->
     [role |-> IF n = "relay_01" THEN "relay" ELSE "car_producer",
      policy |-> IF n = "relay_01" THEN "relay_node_policy" ELSE "car_node_policy"]]

MCNodeIds ==
  UNION {{sc[i].node : i \in DOMAIN sc} : sc \in ToSet(Scenarios)}

MCServiceRequests ==
  {A("mercedes_car", "network.transmit", "relay_node"),
   A("mercedes_car", "network.transmit", "validator_node")}
=============================================================================
