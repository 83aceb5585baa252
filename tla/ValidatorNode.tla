---------------------------- MODULE ValidatorNode ----------------------------
(***************************************************************************)
(* validator-node/src/main.py: ValidatorNode, the last stage of the        *)
(* pipeline, with the parts its process_packet drives: the relay-to-       *)
(* validator CryptoEngine, ValidatorSignatureVerifier, the sequence        *)
(* checker, ZKPVerifier and AuditLogger.  process_packet runs to           *)
(* completion before the next packet is taken, so each of its exits is one *)
(* action.                                                                 *)
(***************************************************************************)
EXTENDS SequenceChecker

CONSTANTS
  SessionKeys,  (* keys an ECDH handshake with the relay may derive *)
  SignKeys,     (* Ed25519 keys *)
  NoKey,        (* no session, no registered key, no usable signature *)
  Packets,      (* the packets the relay may hand over *)
  MaxReceived   (* bound on the packets one behaviour processes *)

(* A packet as process_packet sees it.                                     *)
(*   key, intact - the session key it was encrypted with, and whether      *)
(*                 nonce, ciphertext and header arrived as they were sent  *)
(*   signer      - the Ed25519 key whose signature over header and payload *)
(*                 it carries, NoKey when there is no such signature       *)
(*   header      - the sequence number inside the header, 0 when the       *)
(*                 header cannot be parsed                                 *)
(*   seq, ts     - the metadata fields sequence_no and timestamp           *)
(*   zkp         - what its commitment and nonce amount to                 *)
PacketType ==
  [node : Nodes, key : SessionKeys, intact : BOOLEAN,
   signer : SignKeys \cup {NoKey}, header : Seqs, seq : Seqs, ts : Times,
   zkp : {"absent", "valid", "invalid"}]

ASSUME PacketsAssumption ==
  /\ Packets \subseteq PacketType
  /\ NoKey \notin SessionKeys \cup SignKeys
  /\ 0 \in Seqs
  /\ MaxReceived \in Nat

VARIABLES
  valEngine,    (* the session key of _val_engine, NoKey when None *)
  registry,     (* sig_verifier._registry *)
  stats,        (* _stats *)
  sigCounts,    (* the signature verifier's counters *)
  zkpCounts,    (* the commitment verifier's counters *)
  audit         (* audit._events *)

nodeVars == <<valEngine, registry, stats, sigCounts, zkpCounts, audit>>
vars == <<seqVars, nodeVars>>

Zero(fields) == [f \in fields |-> 0]
Bump(counts, fields) ==
  [f \in DOMAIN counts |-> counts[f] + CountIf(f \in fields)]

StatFields == {"received", "accepted", "rejected", "flagged",
               "sig_failed", "seq_failed", "zkp_failed"}
SigFields == {"verified", "rejected", "unknown"}
ZkpFields == {"verified", "failed", "skipped"}

Init ==
  /\ SeqInit
  /\ valEngine = NoKey
  /\ registry = [n \in Nodes |-> NoKey]
  /\ stats = Zero(StatFields)
  /\ sigCounts = Zero(SigFields)
  /\ zkpCounts = Zero(ZkpFields)
  /\ audit = <<>>

-----------------------------------------------------------------------------
(* register_car_node replaces whatever key the car had; deregister_node    *)
(* removes it.  Neither touches the car's sequence state.                  *)
RegisterCarNode(n, k) ==
  /\ registry' = [registry EXCEPT ![n] = k]
  /\ UNCHANGED <<seqVars, valEngine, stats, sigCounts, zkpCounts, audit>>

DeregisterNode(n) ==
  /\ registry[n] # NoKey
  /\ registry' = [registry EXCEPT ![n] = NoKey]
  /\ UNCHANGED <<seqVars, valEngine, stats, sigCounts, zkpCounts, audit>>

(* setup_relay_session: a new engine, handshake completed at once.         *)
SetupRelaySession(k) ==
  /\ valEngine' = k
  /\ UNCHANGED <<seqVars, registry, stats, sigCounts, zkpCounts, audit>>

-----------------------------------------------------------------------------
Event(decision, reason, p) ==
  [decision |-> decision, reason |-> reason, node |-> p.node, seq |-> p.seq]

(* Faulty variant: the rejection is counted but not logged.                *)
RejectUnlogged(p, reason, stageCounter) ==
  /\ stats' = Bump(stats, {"received", "rejected"} \cup stageCounter)
  /\ UNCHANGED <<valEngine, registry, audit>>

(* _reject, with the stage's own failure counter where it has one.         *)
Reject(p, reason, stageCounter) ==
  /\ stats' = Bump(stats, {"received", "rejected"} \cup stageCounter)
  /\ audit' = Append(audit, Event("REJECT", reason, p))
  /\ UNCHANGED <<valEngine, registry>>

Decrypts(p) == valEngine = p.key /\ p.intact

Verifies(p) == registry[p.node] # NoKey /\ p.signer = registry[p.node]

CountVerify(p) ==
  sigCounts' = Bump(sigCounts,
                    IF Verifies(p) THEN {"verified"}
                    ELSE {"rejected"} \cup
                         {f \in {"unknown"} : registry[p.node] = NoKey})

HeaderAgrees(p) == p.header # 0 /\ p.seq = p.header

(* Faulty variant: a packet without a commitment is not counted.           *)
CountZkpPresent(p) ==
  zkpCounts' = Bump(zkpCounts, CASE p.zkp = "absent"  -> {}
                                 [] p.zkp = "valid"   -> {"verified"}
                                 [] p.zkp = "invalid" -> {"failed"})

CountZkp(p) ==
  zkpCounts' = Bump(zkpCounts, CASE p.zkp = "absent"  -> {"skipped"}
                                 [] p.zkp = "valid"   -> {"verified"}
                                 [] p.zkp = "invalid" -> {"failed"})

RejectNoSession(p) ==
  /\ valEngine = NoKey
  /\ Reject(p, "no_session", {})
  /\ UNCHANGED <<seqVars, sigCounts, zkpCounts>>

RejectDecryption(p) ==
  /\ valEngine # NoKey /\ ~ Decrypts(p)
  /\ Reject(p, "decryption_failed", {})
  /\ UNCHANGED <<seqVars, sigCounts, zkpCounts>>

RejectSignature(p) ==
  /\ Decrypts(p) /\ ~ Verifies(p)
  /\ CountVerify(p)
  /\ Reject(p, "signature_invalid", {"sig_failed"})
  /\ UNCHANGED <<seqVars, zkpCounts>>

RejectHeader(p) ==
  /\ Decrypts(p) /\ Verifies(p) /\ ~ HeaderAgrees(p)
  /\ CountVerify(p)
  /\ Reject(p, IF p.header = 0 THEN "invalid_packet_header"
               ELSE "header_metadata_mismatch", {})
  /\ UNCHANGED <<seqVars, zkpCounts>>

RejectSequence(p) ==
  /\ Decrypts(p) /\ Verifies(p) /\ HeaderAgrees(p)
  /\ CountVerify(p)
  /\ FailPacket(p.node, p.seq, p.ts)
  /\ Reject(p, "sequence_invalid", {"seq_failed"})
  /\ UNCHANGED zkpCounts

(* The sequence checker has already recorded the number when the           *)
(* commitment is found invalid.                                            *)
RejectZkp(p) ==
  /\ Decrypts(p) /\ Verifies(p) /\ HeaderAgrees(p)
  /\ CountVerify(p)
  /\ PassPacket(p.node, p.seq, p.ts)
  /\ p.zkp = "invalid"
  /\ CountZkp(p)
  /\ Reject(p, "zkp_invalid", {"zkp_failed"})

Accept(p) ==
  LET flagged == SeqWarning(p.node, p.seq, p.ts)
  IN  /\ Decrypts(p) /\ Verifies(p) /\ HeaderAgrees(p)
      /\ CountVerify(p)
      /\ PassPacket(p.node, p.seq, p.ts)
      /\ p.zkp # "invalid"
      /\ CountZkp(p)
      /\ stats' = Bump(stats, {"received", IF flagged THEN "flagged" ELSE "accepted"})
      /\ audit' = Append(audit, IF flagged
                                THEN Event("FLAG", "sequence_warnings", p)
                                ELSE Event("ACCEPT", "all_checks_passed", p))
      /\ UNCHANGED <<valEngine, registry>>

ProcessPacket(p) ==
  \/ RejectNoSession(p)
  \/ RejectDecryption(p)
  \/ RejectSignature(p)
  \/ RejectHeader(p)
  \/ RejectSequence(p)
  \/ RejectZkp(p)
  \/ Accept(p)

Next ==
  \/ \E n \in Nodes, k \in SignKeys : RegisterCarNode(n, k)
  \/ \E n \in Nodes : DeregisterNode(n)
  \/ \E k \in SessionKeys : SetupRelaySession(k)
  \/ stats.received < MaxReceived /\ \E p \in Packets : ProcessPacket(p)
  \/ Tick /\ UNCHANGED nodeVars

Spec == Init /\ [][Next]_vars

-----------------------------------------------------------------------------
Decisions == {"ACCEPT", "REJECT", "FLAG"}
Reasons == {"no_session", "decryption_failed", "signature_invalid",
            "invalid_packet_header", "header_metadata_mismatch",
            "sequence_invalid", "zkp_invalid", "sequence_warnings",
            "all_checks_passed"}
EventType == [decision : Decisions, reason : Reasons, node : Nodes, seq : Seqs]

(* Every field of the node and of its verifiers has the shape the code     *)
(* gives it.                                                               *)
TypeOK ==
  /\ SeqTypeOK
  /\ valEngine \in SessionKeys \cup {NoKey}
  /\ registry \in [Nodes -> SignKeys \cup {NoKey}]
  /\ stats \in [StatFields -> Nat]
  /\ sigCounts \in [SigFields -> Nat]
  /\ zkpCounts \in [ZkpFields -> Nat]
  /\ audit \in Seq(EventType)

(* A packet got past the sequence check when it was accepted, flagged, or  *)
(* only then rejected for its commitment.                                  *)
Sequenced(e) == e.decision # "REJECT" \/ e.reason = "zkp_invalid"

(* The audit trail never shows a car's numbers going back or repeating     *)
(* among the packets that got past the sequence check, across session      *)
(* setups, key registrations and removals of the car.  In particular no    *)
(* packet is accepted twice, and a number whose packet was rejected for    *)
(* its commitment is never accepted later: a corrected retransmission is   *)
(* refused.                                                                *)
NumbersUsedOnce ==
  StrictOrdering =>
    \A i, j \in 1 .. Len(audit) :
      /\ i < j
      /\ Sequenced(audit[i]) /\ Sequenced(audit[j])
      /\ audit[i].node = audit[j].node
      => audit[i].seq < audit[j].seq

(* "Every packet decision is logged to the audit trail": process_packet    *)
(* logs exactly one decision per packet received, and the node's counters  *)
(* agree with the trail decision by decision.                              *)
AuditAgreesWithStats ==
  LET Logged(d) == Cardinality({i \in 1 .. Len(audit) : audit[i].decision = d})
  IN  /\ Len(audit) = stats["received"]
      /\ Logged("ACCEPT") = stats["accepted"]
      /\ Logged("FLAG") = stats["flagged"]
      /\ Logged("REJECT") = stats["rejected"]

(* The counters of the verifiers account for every packet that reached     *)
(* them: what one stage lets through is what the next one examines.        *)
StagesAgree ==
  /\ stats["received"] = stats["accepted"] + stats["flagged"] + stats["rejected"]
  /\ sigCounts["rejected"] = stats["sig_failed"]
  /\ sigCounts["unknown"] <= sigCounts["rejected"]
  /\ seqCounts.checked <= sigCounts["verified"]
  /\ seqCounts.failed = stats["seq_failed"]
  /\ seqCounts.passed = zkpCounts["verified"] + zkpCounts["failed"] + zkpCounts["skipped"]
  /\ zkpCounts["failed"] = stats["zkp_failed"]
  /\ zkpCounts["verified"] + zkpCounts["skipped"] = stats["accepted"] + stats["flagged"]

(* A packet accepted without a flag is at most max_sequence_gap ahead of   *)
(* the last packet of its car that got past the sequence check: a larger   *)
(* loss always leaves a FLAG in the trail.                                 *)
GapsAreFlagged ==
  \A i, j \in 1 .. Len(audit) :
    /\ i < j
    /\ audit[j].decision = "ACCEPT"
    /\ Sequenced(audit[i]) /\ audit[i].node = audit[j].node
    /\ \A k \in i + 1 .. j - 1 :
         ~ (Sequenced(audit[k]) /\ audit[k].node = audit[i].node)
    => audit[j].seq - audit[i].seq <= MaxSequenceGap

(* Only a packet that decrypts, verifies and agrees with its header can    *)
(* move a car's sequence state: every rejection except the one for an      *)
(* invalid commitment leaves the last number and the window as they were,  *)
(* so a packet refused for another reason can be sent again.               *)
RejectionsLeaveNoTrace ==
  [][\A i \in 1 .. Len(audit') :
       i > Len(audit) /\ ~ Sequenced(audit'[i])
         => UNCHANGED <<lastSeq, seenSeqs>>]_vars
=============================================================================
