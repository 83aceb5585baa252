------------------------------ MODULE Pipeline ------------------------------
(***************************************************************************)
(* The three nodes in a row: a car's packets travel to the relay, and what *)
(* the relay returns travels to the validator.  The relay and the          *)
(* validator are the whole RelayNode and ValidatorNode; of the car only    *)
(* what it puts on the wire is kept, which CarProducer's SentInOrder       *)
(* describes: its packets carry increasing numbers.                        *)
(*                                                                         *)
(* The networks are external.  A leg is the set of packets ever put on it: *)
(* any of them may arrive at any time, any number of times, or never, and  *)
(* on the first leg it may arrive damaged.                                 *)
(***************************************************************************)
EXTENDS Integers, Sequences, FiniteSets

CONSTANTS
  Nodes, Seqs, SignKeys, NoKey, Pending,
  SignerOf,         (* car -> its Ed25519 key *)
  CheckSignatures, StrictOrdering, MaxSequenceGap, Window,
  Channels, PhysicalLimits, Thresholds, RocLimits, Readings,
  Frames,           (* payloads a car may read from its sensors *)
  MaxSeq,           (* bound on the packets a car sends *)
  MaxAtRelay, MaxAtValidator,   (* bounds on the packets that arrive *)
  MaxResets, MaxSetups          (* bounds on resets and on handshakes *)

(* Every handshake derives a key of its own.                               *)
SessionKeys == 1 .. MaxSetups

(* Both configuration files switch timestamp checks off.                   *)
Times == {0}
CheckTimestamps == FALSE
MaxTimestampAge == 0
FutureSlack == 0
MaxReceived == 0
MaxChecks == 0
RawPackets == {}
Packets == {}

VARIABLES
  carSeq,           (* per car: PacketBuilder._sequence *)
  carKey,           (* per car: the key of its engine, NoKey when it has none *)
  leg1, leg2,       (* packets put on the way to the relay, to the validator *)
  setups,           (* how many handshakes were begun *)
  now,
  (* the relay *)
  sessions, valSession, lastSequence, seenSequences, integrityCounts,
  lastValues, anomalyCounts, decryptCounts, reencryptCounts, parsedCount,
  relayStats, resets, trail,
  (* the validator *)
  lastSeq, seenSeqs, seqCounts, passedLog, valEngine, registry,
  validatorStats, sigCounts, zkpCounts, audit

relayVars == <<sessions, valSession, lastSequence, seenSequences, integrityCounts,
               lastValues, anomalyCounts, decryptCounts, reencryptCounts,
               parsedCount, relayStats, resets, trail>>
validatorVars == <<lastSeq, seenSeqs, seqCounts, passedLog, valEngine, registry,
                   validatorStats, sigCounts, zkpCounts, audit>>
vars == <<carSeq, carKey, leg1, leg2, setups, now, relayVars, validatorVars>>

Relay == INSTANCE RelayNode WITH stats <- relayStats
Validator == INSTANCE ValidatorNode WITH stats <- validatorStats

Init ==
  /\ carSeq = [n \in Nodes |-> 0]
  /\ carKey = [n \in Nodes |-> NoKey]
  /\ leg1 = {} /\ leg2 = {}
  /\ setups = 0
  /\ Relay!Init
  /\ Validator!Init

-----------------------------------------------------------------------------
(* One pass of _build_and_encrypt and _send_packet.                        *)
CarSend(n, frame) ==
  /\ carKey[n] # NoKey
  /\ carSeq[n] < MaxSeq
  /\ carSeq' = [carSeq EXCEPT ![n] = @ + 1]
  /\ leg1' = leg1 \cup
       {[form |-> "ok", node |-> n, key |-> carKey[n], intact |-> TRUE,
         json |-> TRUE, sig |-> "present", signer |-> SignerOf[n],
         header |-> carSeq[n] + 1, seq |-> carSeq[n] + 1, ts |-> 0,
         payload |-> frame]}
  /\ UNCHANGED <<carKey, leg2, setups, now, relayVars, validatorVars>>

FreshKey ==
  /\ setups < MaxSetups
  /\ setups' = setups + 1

(* A handshake with a car: the relay's half, then the car's.               *)
SetupCarSession(n) ==
  /\ FreshKey
  /\ Relay!SetupCarSession(n, setups')
  /\ UNCHANGED <<carSeq, carKey, leg1, leg2, validatorVars>>

CompleteCarSession(n) ==
  /\ carKey[n] # sessions[n]
  /\ carKey' = [carKey EXCEPT ![n] = sessions[n]]
  /\ UNCHANGED <<carSeq, leg1, leg2, setups, now, relayVars, validatorVars>>

(* A handshake between relay and validator: the relay's half, then the     *)
(* validator's.                                                            *)
SetupValidatorSession ==
  /\ FreshKey
  /\ Relay!SetupValidatorSession(setups')
  /\ UNCHANGED <<carSeq, carKey, leg1, leg2, validatorVars>>

SetupRelaySession ==
  /\ valSession # NoKey /\ valEngine # valSession
  /\ Validator!SetupRelaySession(valSession)
  /\ UNCHANGED <<carSeq, carKey, leg1, leg2, setups, relayVars>>

RegisterCarNode(n) ==
  /\ registry[n] # SignerOf[n]
  /\ Validator!RegisterCarNode(n, SignerOf[n])
  /\ UNCHANGED <<carSeq, carKey, leg1, leg2, setups, relayVars>>

RelayResetNode(n) ==
  /\ Relay!ResetNode(n)
  /\ UNCHANGED <<carSeq, carKey, leg1, leg2, setups, validatorVars>>

-----------------------------------------------------------------------------
Damaged(p) == [p EXCEPT !.intact = FALSE]

RelayForwards(p) ==
  /\ Relay!Forward(p)
  /\ leg2' = leg2 \cup {Relay!Reencrypted(p)}

RelayDrops(p) ==
  /\ \/ Relay!DropUndecrypted(p)
     \/ Relay!DropIntegrity(p)
     \/ Relay!DropAnomalous(p)
     \/ Relay!DropUnencryptable(p)
  /\ UNCHANGED leg2

RelayReceive(p) ==
  /\ relayStats["received"] < MaxAtRelay
  /\ RelayForwards(p) \/ RelayDrops(p)
  /\ UNCHANGED <<carSeq, carKey, leg1, setups, validatorVars>>

ValidatorReceive(p) ==
  /\ validatorStats["received"] < MaxAtValidator
  /\ Validator!ProcessPacket(p)
  /\ UNCHANGED <<carSeq, carKey, leg1, leg2, setups, relayVars>>

Next ==
  \/ \E n \in Nodes, frame \in Frames : CarSend(n, frame)
  \/ \E n \in Nodes : SetupCarSession(n)
  \/ \E n \in Nodes : CompleteCarSession(n)
  \/ SetupValidatorSession
  \/ SetupRelaySession
  \/ \E n \in Nodes : RegisterCarNode(n)
  \/ \E n \in Nodes : RelayResetNode(n)
  \/ \E p \in leg1 : RelayReceive(p) \/ RelayReceive(Damaged(p))
  \/ \E p \in leg2 : ValidatorReceive(p)

Spec == Init /\ [][Next]_vars

-----------------------------------------------------------------------------
(* The audit trail as the readers of the log see it.                       *)
Kept(i) == audit[i].decision # "REJECT"

AsRecorded ==
  [i \in 1 .. Len(audit) |->
     [node |-> audit[i].node, seq |-> audit[i].seq, kept |-> Kept(i)]]

Log == INSTANCE TelemetryLog WITH emitted <- carSeq, recorded <- AsRecorded

(* The pipeline implements the telemetry log: whatever the networks lose,  *)
(* repeat, reorder or damage, whenever sessions are renewed and whenever   *)
(* the relay forgets a car's sequence state, the packets of a car that the *)
(* validator's audit trail shows as accepted or flagged are a strictly     *)
(* increasing selection of the numbers the car has sent, and nothing else  *)
(* of the trail ever changes.                                              *)
ImplementsLog == Log!Spec

Forwarded(n, s) ==
  \E j \in 1 .. Len(trail) : /\ trail[j].fate = "forwarded"
                             /\ trail[j].packet.node = n /\ trail[j].packet.seq = s

UsedUp(n, s) ==
  \E j \in 1 .. Len(trail) : /\ trail[j].fate # "forwarded"
                             /\ trail[j].packet.node = n /\ trail[j].packet.seq = s

(* Every number on the validator's record was forwarded by the relay, and  *)
(* so was the validator's last number of a car.  While the relay has not   *)
(* reset the car, a packet it dropped after the integrity check, for its   *)
(* values or for want of a validator session, has used its number up and   *)
(* stays out of the record for good.                                       *)
RecordedWereForwarded ==
  /\ \A i \in 1 .. Len(audit) : Kept(i) =>
       /\ Forwarded(audit[i].node, audit[i].seq)
       /\ resets[audit[i].node] = 0 => ~ UsedUp(audit[i].node, audit[i].seq)
  /\ \A n \in Nodes : lastSeq[n] # 0 => Forwarded(n, lastSeq[n])
=============================================================================
