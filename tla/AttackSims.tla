----------------------------- MODULE AttackSims -----------------------------
(***************************************************************************)
(* simulations/replay_attack_sim.py and tampering_sim.py, which exercise   *)
(* the pipeline's defences with repeated and altered packets.  An attack   *)
(* is a fixed script of deliveries, and what the script says it expects:   *)
(* the stage that must refuse each altered or repeated packet.  All        *)
(* attacks of one program share its relay and validator checkers.          *)
(***************************************************************************)
EXTENDS JitterSim

CONSTANTS
  BatchSize,        (* packets captured by sim_3_batch_replay: 5 *)
  NewerPackets,     (* packets sent before a delayed replay: 3 *)
  SequenceJump      (* what sim_5 adds to the sequence number: 1000 *)

ASSUME AttackAssumption ==
  BatchSize \in Nat /\ NewerPackets \in Nat /\ SequenceJump \in Nat

(* A packet on its ordinary way: relay, then validator.                    *)
Legitimate(i) ==
  <<Delivery(i, "legitimate", "relay", "intact"),
    Delivery(i, "legitimate", "validator", "intact")>>

(* A sequence of pairs as one sequence.                                    *)
FlattenPairs(pairs) ==
  [k \in 1 .. 2 * Len(pairs) |-> pairs[(k + 1) \div 2][2 - (k % 2)]]

AtRelay(i) == Delivery(i, "attack", "relay", "intact")
AtValidator(i, form) == Delivery(i, "attack", "validator", form)
AtDecryptor(i, form) == Delivery(i, "attack", "decryptor", form)

Attack(name, packets, script, expected) ==
  [name |-> name, packets |-> packets, script |-> script, expected |-> expected]

Sim1SimpleReplay ==
  Attack("simple_replay", 1,
         Legitimate(1) \o <<AtRelay(1), AtValidator(1, "intact")>>,
         <<"integrity_failed", "sequence_failed">>)

Sim2SequenceManipulation ==
  Attack("sequence_manipulation", 1,
         Legitimate(1) \o <<AtValidator(1, "intact")>>, <<"sequence_failed">>)

Sim3BatchReplay ==
  Attack("batch_replay", BatchSize,
         FlattenPairs([i \in 1 .. BatchSize |-> Legitimate(i)])
           \o FlattenPairs([i \in 1 .. BatchSize |->
                              <<AtRelay(i), AtValidator(i, "intact")>>]),
         FlattenPairs([i \in 1 .. BatchSize |->
                         <<"integrity_failed", "sequence_failed">>]))

Sim4DelayedReplay ==
  Attack("delayed_replay", 1 + NewerPackets,
         FlattenPairs([i \in 1 .. 1 + NewerPackets |-> Legitimate(i)])
           \o <<AtValidator(1, "intact")>>,
         <<"sequence_failed">>)

(* The sequence number is raised in the signed header and in the packet.   *)
Sim5SequenceIncrement ==
  Attack("sequence_increment", 1,
         Legitimate(1) \o <<AtValidator(1 + SequenceJump, "header")>>,
         <<"signature_failed">>)

ReplayAttacks ==
  <<Sim1SimpleReplay, Sim2SequenceManipulation, Sim3BatchReplay,
    Sim4DelayedReplay, Sim5SequenceIncrement>>

-----------------------------------------------------------------------------
(* tampering_sim.py.  The packet is altered after it was built and never   *)
(* delivered unaltered, but for the number that sim_4 registers.           *)
Sim1PayloadBitFlip ==
  Attack("payload_bit_flip", 1, <<AtDecryptor(1, "ciphertext")>>, <<"aead_failed">>)

Sim2SpeedValueInjection ==
  Attack("speed_injection", 1, <<AtValidator(1, "payload")>>, <<"signature_failed">>)

Sim3SignatureStripping ==
  Attack("signature_stripping", 1, <<AtValidator(1, "unsigned")>>, <<"signature_failed">>)

Sim4ZkpCommitmentTamper ==
  Attack("zkp_commitment_tamper", 1,
         <<Delivery(1, "legitimate", "sequence", "intact"),
           Delivery(1, "attack", "zkp", "commitment")>>,
         <<"zkp_failed">>)

Sim5HeaderAeadTamper ==
  Attack("header_aead_tamper", 1, <<AtDecryptor(1, "header")>>, <<"aead_failed">>)

Sim6WrongSignature ==
  Attack("wrong_signature", 1, <<AtValidator(1, "wrong signature")>>,
         <<"signature_failed">>)

(* The validator is tried only when the relay has missed it.               *)
Sim7MultiLayerTamper ==
  Attack("multi_layer_tamper", 1,
         <<AtDecryptor(1, "ciphertext"),
           Delivery(1, "attack", "second layer", "unsigned")>>,
         <<"aead_failed">>)

TamperingAttacks ==
  <<Sim1PayloadBitFlip, Sim2SpeedValueInjection, Sim3SignatureStripping,
    Sim4ZkpCommitmentTamper, Sim5HeaderAeadTamper, Sim6WrongSignature,
    Sim7MultiLayerTamper>>

-----------------------------------------------------------------------------
(* One delivery of an attack script, given the program's two checkers and  *)
(* what has been refused so far: the checkers afterwards and the verdict,  *)
(* "skipped" where the script makes no call.                               *)
Outcome(relay, val, p, refused) ==
  CASE p.at = "relay" ->
         LET r == ProcessAtRelay(relay, p)
         IN  [relay |-> r.checker, val |-> val, reason |-> r.reason]
    [] p.at = "validator" \/ (p.at = "second layer" /\ refused = <<>>) ->
         LET r == ProcessAtValidator(val, p)
         IN  [relay |-> relay, val |-> r.checker, reason |-> r.reason]
    [] p.at = "second layer" /\ refused # <<>> ->
         [relay |-> relay, val |-> val, reason |-> "skipped"]
    [] p.at = "sequence" ->
         [relay |-> relay, val |-> Checked(val, p.seq),
          reason |-> IF InSequence(val, p.seq) THEN "accepted" ELSE "sequence_failed"]
    [] p.at = "zkp" ->
         [relay |-> relay, val |-> val,
          reason |-> IF Committed(p) THEN "accepted" ELSE "zkp_failed"]
    [] p.at = "decryptor" ->
         [relay |-> relay, val |-> val,
          reason |-> IF Decrypts(p) THEN "accepted" ELSE "aead_failed"]
=============================================================================
