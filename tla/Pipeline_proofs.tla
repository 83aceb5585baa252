--------------------------- MODULE Pipeline_proofs ---------------------------
(***************************************************************************)
(* Proofs about the three nodes in a row: for any cars, frames, handshakes *)
(* and networks, the pipeline implements the telemetry log, provided the   *)
(* validator orders strictly as its configuration file has it, and what    *)
(* the validator keeps the relay has forwarded.                            *)
(***************************************************************************)
EXTENDS Pipeline, SequenceTheorems, TLAPS

EventShape ==
  [decision : {"ACCEPT", "REJECT", "FLAG"},
   reason : {"no_session", "decryption_failed", "signature_invalid",
             "invalid_packet_header", "header_metadata_mismatch",
             "sequence_invalid", "zkp_invalid", "sequence_warnings",
             "all_checks_passed"},
   node : Nodes, seq : Nat]

(* What the refinement needs to know of a state: packets under way carry   *)
(* numbers their car has given out, and the validator's last number of a   *)
(* car bounds every number it has kept.                                    *)
NumbersOK ==
  /\ carSeq \in [Nodes -> Nat]
  /\ \A p \in leg1 \cup leg2 : p.node \in Nodes /\ p.seq \in 1 .. carSeq[p.node]
  /\ lastSeq \in [Nodes -> Nat]
  /\ audit \in Seq(EventShape)
  /\ StrictOrdering =>
       \A i \in 1 .. Len(audit) :
         Kept(i) => 0 < audit[i].seq /\ audit[i].seq <= lastSeq[audit[i].node]

(* What process_packet of the validator does to the trail and to the last  *)
(* numbers: it logs the packet, and either refuses it or has made its      *)
(* number the car's last.                                                  *)
Logged(p, e) ==
  /\ e \in EventShape /\ e.node = p.node /\ e.seq = p.seq
  /\ audit' = Append(audit, e)

MovesOn(p) ==
  /\ lastSeq' = [lastSeq EXCEPT ![p.node] = p.seq]
  /\ StrictOrdering /\ lastSeq[p.node] > 0 => p.seq > lastSeq[p.node]

(* Every outcome of process_packet does one or the other.                  *)
LEMMA ValidatorLogs ==
  ASSUME NumbersOK, NEW p, p.node \in Nodes, p.seq \in Nat \ {0},
         Validator!ProcessPacket(p)
  PROVE  \E e : /\ Logged(p, e)
                /\ \/ e.decision = "REJECT" /\ lastSeq' = lastSeq
                   \/ MovesOn(p)
<1>1. \A d \in {"ACCEPT", "REJECT", "FLAG"} :
        \A r \in {"no_session", "decryption_failed", "signature_invalid",
                  "invalid_packet_header", "header_metadata_mismatch",
                  "sequence_invalid", "zkp_invalid", "sequence_warnings",
                  "all_checks_passed"} :
          /\ Validator!Event(d, r, p) \in EventShape
          /\ Validator!Event(d, r, p).node = p.node
          /\ Validator!Event(d, r, p).seq = p.seq
          /\ Validator!Event(d, r, p).decision = d
  BY DEF Validator!Event, EventShape
<1>2. ASSUME Validator!PassPacket(p.node, p.seq, p.ts) PROVE MovesOn(p)
  <2>1. lastSeq[p.node] \in Nat
    BY DEF NumbersOK
  <2>2. QED
    BY <1>2, <2>1 DEF Validator!PassPacket, Validator!SeqError, Validator!OutOfOrder, MovesOn
<1>3. CASE Validator!RejectNoSession(p)
  BY <1>1, <1>3 DEF Validator!RejectNoSession, Validator!Reject, Validator!seqVars, Logged
<1>4. CASE Validator!RejectDecryption(p)
  BY <1>1, <1>4 DEF Validator!RejectDecryption, Validator!Reject, Validator!seqVars, Logged
<1>5. CASE Validator!RejectSignature(p)
  BY <1>1, <1>5 DEF Validator!RejectSignature, Validator!Reject, Validator!seqVars, Logged
<1>6. CASE Validator!RejectHeader(p)
  BY <1>1, <1>6 DEF Validator!RejectHeader, Validator!Reject, Validator!seqVars, Logged
<1>7. CASE Validator!RejectSequence(p)
  BY <1>1, <1>7 DEF Validator!RejectSequence, Validator!FailPacket, Validator!Reject, Logged
<1>8. CASE Validator!RejectZkp(p)
  BY <1>1, <1>2, <1>8 DEF Validator!RejectZkp, Validator!Reject, Logged
<1>9. CASE Validator!Accept(p)
  BY <1>1, <1>2, <1>9 DEF Validator!Accept, Logged
<1>10. QED
  BY <1>3, <1>4, <1>5, <1>6, <1>7, <1>8, <1>9 DEF Validator!ProcessPacket

-----------------------------------------------------------------------------
(* The kinds of steps, as far as numbers and trail are concerned.          *)
Sends ==
  \E n \in Nodes :
    /\ carSeq' = [carSeq EXCEPT ![n] = @ + 1]
    /\ \E q : q.node = n /\ q.seq = carSeq[n] + 1 /\ leg1' = leg1 \cup {q}
    /\ UNCHANGED <<leg2, audit, lastSeq>>

Relays ==
  /\ \/ leg2' = leg2
     \/ \E p \in leg1 : \E q :
          q.node = p.node /\ q.seq = p.seq /\ leg2' = leg2 \cup {q}
  /\ UNCHANGED <<carSeq, leg1, audit, lastSeq>>

Validates ==
  \E p \in leg2 : Validator!ProcessPacket(p) /\ UNCHANGED <<carSeq, leg1, leg2>>

(* A damaged packet keeps the numbers it carries.                          *)
LEMMA DamagedKeeps ==
  ASSUME NEW p
  PROVE  Damaged(p).node = p.node /\ Damaged(p).seq = p.seq
BY DEF Damaged

(* What the relay passes on carries the numbers it received.               *)
LEMMA ReencryptedKeeps ==
  ASSUME NEW p
  PROVE  Relay!Reencrypted(p).node = p.node /\ Relay!Reencrypted(p).seq = p.seq
BY DEF Relay!Reencrypted

(* Every step is of one of the three kinds.                                *)
LEMMA PipelineKinds ==
  ASSUME [Next]_vars
  PROVE  Sends \/ Relays \/ Validates
<1>1. ASSUME NEW n \in Nodes, NEW frame \in Frames, CarSend(n, frame)
      PROVE  Sends
  <2> DEFINE q == [form |-> "ok", node |-> n, key |-> carKey[n], intact |-> TRUE,
                   json |-> TRUE, sig |-> "present", signer |-> SignerOf[n],
                   header |-> carSeq[n] + 1, seq |-> carSeq[n] + 1, ts |-> 0,
                   payload |-> frame]
  <2>1. q.node = n /\ q.seq = carSeq[n] + 1
    OBVIOUS
  <2>2. /\ carSeq' = [carSeq EXCEPT ![n] = @ + 1]
        /\ leg1' = leg1 \cup {q}
        /\ UNCHANGED <<leg2, audit, lastSeq>>
    BY <1>1 DEF CarSend, validatorVars
  <2> HIDE DEF q
  <2>3. QED
    BY <2>1, <2>2 DEF Sends
<1>2. CASE \/ \E n \in Nodes : SetupCarSession(n) \/ CompleteCarSession(n)
           \/ SetupValidatorSession
           \/ \E n \in Nodes : RelayResetNode(n)
  BY <1>2 DEF SetupCarSession, CompleteCarSession, SetupValidatorSession,
              RelayResetNode, validatorVars, Relays
<1>3. CASE SetupRelaySession \/ \E n \in Nodes : RegisterCarNode(n)
  BY <1>3 DEF SetupRelaySession, RegisterCarNode, Validator!SetupRelaySession,
              Validator!RegisterCarNode, Validator!seqVars, Relays
<1>4. ASSUME NEW p \in leg1, RelayReceive(p) \/ RelayReceive(Damaged(p))
      PROVE  Relays
  <2>1. PICK d : d.node = p.node /\ d.seq = p.seq /\ RelayReceive(d)
    BY <1>4, DamagedKeeps
  <2>2. /\ UNCHANGED <<carSeq, leg1, audit, lastSeq>>
        /\ leg2' = leg2 \/ leg2' = leg2 \cup {Relay!Reencrypted(d)}
    BY <2>1 DEF RelayReceive, RelayForwards, RelayDrops, validatorVars
  <2>3. Relay!Reencrypted(d).node = p.node /\ Relay!Reencrypted(d).seq = p.seq
    BY <2>1, ReencryptedKeeps
  <2>4. QED
    BY <2>2, <2>3 DEF Relays
<1>5. CASE \E p \in leg2 : ValidatorReceive(p)
  BY <1>5 DEF ValidatorReceive, Validates
<1>6. CASE UNCHANGED vars
  BY <1>6 DEF vars, validatorVars, Relays
<1>7. QED
  BY <1>1, <1>2, <1>3, <1>4, <1>5, <1>6 DEF Next

(* What a packet that is under way looks like to the validator.            *)
LEMMA LegNumbers ==
  ASSUME NumbersOK, NEW p \in leg1 \cup leg2
  PROVE  p.node \in Nodes /\ p.seq \in Nat \ {0} /\ p.seq \in 1 .. carSeq[p.node]
BY DEF NumbersOK

(* Every step keeps the numbers in order.                                  *)
LEMMA NumbersStep ==
  ASSUME NumbersOK, [Next]_vars
  PROVE  NumbersOK'
<1>0. /\ carSeq \in [Nodes -> Nat] /\ lastSeq \in [Nodes -> Nat]
      /\ audit \in Seq(EventShape)
      /\ \A p \in leg1 \cup leg2 : p.node \in Nodes /\ p.seq \in 1 .. carSeq[p.node]
  BY DEF NumbersOK
<1>1. CASE Sends
  <2>0. PICK n \in Nodes :
          /\ carSeq' = [carSeq EXCEPT ![n] = @ + 1]
          /\ \E q : q.node = n /\ q.seq = carSeq[n] + 1 /\ leg1' = leg1 \cup {q}
          /\ UNCHANGED <<leg2, audit, lastSeq>>
    BY <1>1 DEF Sends
  <2>1. PICK q :
          /\ carSeq' = [carSeq EXCEPT ![n] = @ + 1]
          /\ q.node = n /\ q.seq = carSeq[n] + 1 /\ leg1' = leg1 \cup {q}
          /\ UNCHANGED <<leg2, audit, lastSeq>>
    BY <2>0
  <2>2. carSeq' \in [Nodes -> Nat] /\ \A m \in Nodes : carSeq[m] <= carSeq'[m]
    BY <1>0, <2>1
  <2>3. q.seq \in 1 .. carSeq'[q.node]
    BY <1>0, <2>1
  <2>4. ASSUME NEW p \in leg1' \cup leg2'
        PROVE  p.node \in Nodes /\ p.seq \in 1 .. carSeq'[p.node]
    <3>1. CASE p = q
      BY <2>1, <2>3, <3>1
    <3>2. CASE p \in leg1 \cup leg2
      BY <1>0, <2>2, <3>2
    <3>3. QED
      BY <2>1, <3>1, <3>2
  <2>5. QED
    BY <2>1, <2>2, <2>4 DEF NumbersOK, Kept
<1>2. CASE Relays
  <2>1. ASSUME NEW p \in leg1' \cup leg2'
        PROVE  p.node \in Nodes /\ p.seq \in 1 .. carSeq[p.node]
    BY <1>0, <1>2 DEF Relays
  <2>2. QED
    BY <1>2, <2>1 DEF Relays, NumbersOK, Kept
<1>3. CASE Validates
  <2>1. PICK p \in leg2 : Validator!ProcessPacket(p) /\ UNCHANGED <<carSeq, leg1, leg2>>
    BY <1>3 DEF Validates
  <2>2. p.node \in Nodes /\ p.seq \in Nat \ {0}
    BY LegNumbers
  <2>3. PICK e : /\ Logged(p, e)
                 /\ (e.decision = "REJECT" /\ lastSeq' = lastSeq) \/ MovesOn(p)
    BY <2>1, <2>2, ValidatorLogs
  <2>4. /\ audit' \in Seq(EventShape) /\ Len(audit) \in Nat /\ Len(audit') = Len(audit) + 1
        /\ audit'[Len(audit) + 1] = e
        /\ \A i \in 1 .. Len(audit) : audit'[i] = audit[i]
        /\ e.node = p.node /\ e.seq = p.seq
    BY <1>0, <2>3 DEF Logged
  <2>5. \A i \in 1 .. Len(audit) : audit[i].node \in Nodes /\ audit[i].seq \in Nat
    <3>1. \A i \in 1 .. Len(audit) : audit[i] \in EventShape
      BY <1>0
    <3>2. QED
      BY <3>1 DEF EventShape
  <2>6. lastSeq' \in [Nodes -> Nat]
    BY <1>0, <2>2, <2>3 DEF MovesOn
  <2>7. ASSUME StrictOrdering, NEW i \in 1 .. Len(audit'), audit'[i].decision # "REJECT"
        PROVE  0 < audit'[i].seq /\ audit'[i].seq <= lastSeq'[audit'[i].node]
    <3>1. CASE i \in 1 .. Len(audit)
      <4>1. 0 < audit[i].seq /\ audit[i].seq <= lastSeq[audit[i].node]
        BY <2>4, <2>7, <3>1 DEF NumbersOK, Kept
      <4>2. lastSeq[audit[i].node] <= lastSeq'[audit[i].node]
        <5>1. ASSUME NEW m \in Nodes PROVE lastSeq[m] <= lastSeq'[m]
          <6>1. lastSeq[m] \in Nat /\ lastSeq[p.node] \in Nat
            BY <1>0, <2>2
          <6>2. CASE MovesOn(p) /\ m = p.node
            <7>1. lastSeq'[m] = p.seq
              BY <1>0, <2>2, <6>2 DEF MovesOn
            <7>2. QED
              BY <2>2, <2>7, <6>1, <6>2, <7>1 DEF MovesOn
          <6>3. CASE MovesOn(p) /\ m # p.node
            BY <1>0, <6>1, <6>3 DEF MovesOn
          <6>4. CASE lastSeq' = lastSeq
            BY <6>1, <6>4
          <6>5. QED
            BY <2>3, <6>2, <6>3, <6>4
        <5>2. QED
          BY <2>5, <3>1, <5>1
      <4>3. audit[i].seq <= lastSeq'[audit[i].node]
        BY <1>0, <2>5, <2>6, <3>1, <4>1, <4>2
      <4>4. QED
        BY <2>4, <3>1, <4>1, <4>3
    <3>2. CASE i = Len(audit) + 1
      <4>1. audit'[i] = e /\ MovesOn(p)
        BY <2>3, <2>4, <2>7, <3>2
      <4>2. lastSeq'[p.node] = p.seq
        BY <1>0, <2>2, <4>1 DEF MovesOn
      <4>3. QED
        BY <2>2, <2>4, <4>1, <4>2
    <3>3. QED
      BY <2>4, <3>1, <3>2
  <2>8. QED
    BY <1>0, <2>1, <2>4, <2>6, <2>7 DEF NumbersOK, Kept
<1>4. QED
  BY <1>1, <1>2, <1>3, PipelineKinds

(* The first state.                                                        *)
LEMMA NumbersInit == Init => NumbersOK
BY DEF Init, Validator!Init, Validator!SeqInit, NumbersOK

-----------------------------------------------------------------------------
(* One more event in the trail is one more entry of the log.               *)
LEMMA AsRecordedGrows ==
  ASSUME NumbersOK, NEW e \in EventShape, audit' = Append(audit, e)
  PROVE  AsRecorded' = Append(AsRecorded, [node |-> e.node, seq |-> e.seq,
                                           kept |-> e.decision # "REJECT"])
<1> DEFINE x == [node |-> e.node, seq |-> e.seq, kept |-> e.decision # "REJECT"]
           L == Len(audit)
           R(i) == [node |-> audit[i].node, seq |-> audit[i].seq, kept |-> Kept(i)]
<1>1. /\ L \in Nat /\ Len(audit') = L + 1 /\ audit'[L + 1] = e
      /\ \A i \in 1 .. L : audit'[i] = audit[i]
  BY DEF NumbersOK
<1>2. AsRecorded = [i \in 1 .. L |-> R(i)]
  BY DEF AsRecorded
<1>3. AsRecorded' = [i \in 1 .. L + 1 |-> IF i = L + 1 THEN x ELSE R(i)]
  <2>1. \A i \in 1 .. L + 1 :
          [node |-> audit'[i].node, seq |-> audit'[i].seq,
           kept |-> audit'[i].decision # "REJECT"] = IF i = L + 1 THEN x ELSE R(i)
    BY <1>1 DEF Kept
  <2>2. AsRecorded' = [i \in 1 .. L + 1 |->
                         [node |-> audit'[i].node, seq |-> audit'[i].seq,
                          kept |-> audit'[i].decision # "REJECT"]]
    BY <1>1 DEF AsRecorded, Kept
  <2> HIDE DEF x, R, L
  <2>3. QED
    BY <2>1, <2>2
<1> HIDE DEF x, R, L
<1>4. Append([i \in 1 .. L |-> R(i)], x) = [i \in 1 .. L + 1 |-> IF i = L + 1 THEN x ELSE R(i)]
  BY <1>1
<1>5. QED
  BY <1>2, <1>3, <1>4 DEF x

(* Every step of the pipeline is a step of the log or none.                *)
LEMMA LogStep ==
  ASSUME StrictOrdering, NumbersOK, [Next]_vars
  PROVE  Log!Next \/ UNCHANGED <<carSeq, AsRecorded>>
<1>1. CASE Sends
  <2>1. PICK n \in Nodes : /\ carSeq' = [carSeq EXCEPT ![n] = @ + 1]
                           /\ audit' = audit
    BY <1>1 DEF Sends
  <2>2. AsRecorded' = AsRecorded
    BY <2>1 DEF AsRecorded, Kept
  <2>3. Log!Emit(n)
    BY <2>1, <2>2 DEF Log!Emit
  <2>4. QED
    BY <2>3 DEF Log!Next
<1>2. CASE Relays
  BY <1>2 DEF Relays, AsRecorded, Kept
<1>3. CASE Validates
  <2>1. PICK p \in leg2 : Validator!ProcessPacket(p) /\ UNCHANGED <<carSeq, leg1, leg2>>
    BY <1>3 DEF Validates
  <2>2. p.node \in Nodes /\ p.seq \in Nat \ {0} /\ p.seq \in 1 .. carSeq[p.node]
    BY LegNumbers
  <2>3. PICK e : /\ Logged(p, e)
                 /\ (e.decision = "REJECT" /\ lastSeq' = lastSeq) \/ MovesOn(p)
    BY <2>1, <2>2, ValidatorLogs
  <2>4. AsRecorded' = Append(AsRecorded, [node |-> p.node, seq |-> p.seq,
                                          kept |-> e.decision # "REJECT"])
    BY <2>3, AsRecordedGrows DEF Logged
  <2>5. CASE e.decision = "REJECT"
    <3>1. (e.decision # "REJECT") = FALSE
      BY <2>5
    <3>2. Log!Refuse(p.node, p.seq)
      BY <2>1, <2>4, <3>1 DEF Log!Refuse
    <3>3. QED
      BY <2>2, <3>2 DEF Log!Next
  <2>6. CASE e.decision # "REJECT"
    <3>1. (e.decision # "REJECT") = TRUE
      BY <2>6
    <3>2. Log!Follows(p.node, p.seq)
      <4>1. /\ Len(AsRecorded) = Len(audit)
            /\ \A i \in 1 .. Len(audit) : /\ AsRecorded[i].node = audit[i].node
                                          /\ AsRecorded[i].seq = audit[i].seq
                                          /\ AsRecorded[i].kept = Kept(i)
        BY DEF AsRecorded, NumbersOK
      <4>2. ASSUME NEW i \in 1 .. Len(audit), Kept(i), audit[i].node = p.node
            PROVE  audit[i].seq < p.seq
        <5>1. audit[i] \in EventShape
          BY DEF NumbersOK
        <5>2. audit[i].seq \in Nat /\ lastSeq[p.node] \in Nat
          BY <2>2, <5>1 DEF NumbersOK, EventShape
        <5>3. 0 < audit[i].seq /\ audit[i].seq <= lastSeq[p.node]
          BY <4>2 DEF NumbersOK
        <5>4. lastSeq[p.node] > 0 => p.seq > lastSeq[p.node]
          BY <2>3, <2>6 DEF MovesOn
        <5>5. QED
          BY <2>2, <5>2, <5>3, <5>4
      <4>3. QED
        BY <4>1, <4>2 DEF Log!Follows
    <3>3. Log!Record(p.node, p.seq)
      BY <2>1, <2>4, <3>1, <3>2 DEF Log!Record
    <3>4. QED
      BY <2>2, <3>3 DEF Log!Next
  <2>7. QED
    BY <2>5, <2>6
<1>4. QED
  BY <1>1, <1>2, <1>3, PipelineKinds

(* The pipeline implements the telemetry log, for any cars, frames and     *)
(* windows, any number of handshakes and relay resets, and networks that   *)
(* lose, repeat, reorder and damage packets at will: what the validator's  *)
(* trail shows as accepted or flagged for a car is a strictly increasing   *)
(* selection of the numbers the car has sent.                              *)
THEOREM PipelineImplementsLog ==
  ASSUME StrictOrdering
  PROVE  Spec => ImplementsLog
<1>1. Init => Log!Init
  BY DEF Init, Validator!Init, Log!Init, AsRecorded
<1>2. Init => NumbersOK
  BY NumbersInit
<1>3. NumbersOK /\ [Next]_vars => NumbersOK'
  BY NumbersStep
<1>4. NumbersOK /\ [Next]_vars => [Log!Next]_<<carSeq, AsRecorded>>
  BY LogStep
<1>5. QED
  BY <1>1, <1>2, <1>3, <1>4, PTL DEF Spec, ImplementsLog, Log!Spec

-----------------------------------------------------------------------------
(* A sequence of something.                                                *)
IsSeq(s) == \E S : s \in Seq(S)

(* What anything appended to a sequence gives.                             *)
LEMMA SeqGrows ==
  ASSUME NEW s, IsSeq(s), NEW x
  PROVE  LET u == Append(s, x)
         IN  /\ IsSeq(u) /\ Len(s) \in Nat /\ Len(u) = Len(s) + 1
             /\ u[Len(s) + 1] = x /\ \A i \in 1 .. Len(s) : u[i] = s[i]
<1>1. PICK S : s \in Seq(S)
  BY DEF IsSeq
<1> DEFINE T == S \cup {x}
<1>2. Len(s) \in Nat /\ s \in [1 .. Len(s) -> S]
  BY <1>1
<1>3. s \in [1 .. Len(s) -> T]
  BY <1>2
<1>4. s \in Seq(T)
  BY <1>2, <1>3, SeqDef
<1>5. x \in T
  OBVIOUS
<1> HIDE DEF T
<1>6. Append(s, x) \in Seq(T)
  BY <1>4, <1>5
<1>7. QED
  BY <1>4, <1>5, <1>6 DEF IsSeq

(* What the relay and the validator owe each other.  The relay's trail is  *)
(* in order for a car it never reset; everything on the way to the         *)
(* validator, and everything the validator holds on to, was forwarded.     *)
TrailEntries ==
  /\ IsSeq(trail)
  /\ lastSequence \in [Nodes -> Nat] /\ resets \in [Nodes -> Nat]
  /\ \A i \in 1 .. Len(trail) :
       trail[i].packet.node \in Nodes /\ trail[i].packet.seq \in Nat \ {0}

TrailOrdered ==
  /\ \A i \in 1 .. Len(trail) :
       resets[trail[i].packet.node] = 0 =>
         trail[i].packet.seq <= lastSequence[trail[i].packet.node]
  /\ \A i, j \in 1 .. Len(trail) :
       /\ i < j /\ trail[i].packet.node = trail[j].packet.node
       /\ resets[trail[i].packet.node] = 0
       => trail[i].packet.seq < trail[j].packet.seq

AllForwarded ==
  /\ \A q \in leg2 : Forwarded(q.node, q.seq)
  /\ \A n \in Nodes : lastSeq[n] # 0 => Forwarded(n, lastSeq[n])
  /\ \A i \in 1 .. Len(audit) : Kept(i) => Forwarded(audit[i].node, audit[i].seq)

(* What a step does to the relay's side of it.                             *)
RelayStill == UNCHANGED <<trail, lastSequence, resets, leg2>>

RelayForgets ==
  \E n \in Nodes : /\ lastSequence' = [lastSequence EXCEPT ![n] = 0]
                   /\ resets' = [resets EXCEPT ![n] = @ + 1]
                   /\ UNCHANGED <<trail, leg2>>

RelayPasses(n, s) ==
  \E x : /\ trail' = Append(trail, x)
         /\ x.packet.node = n /\ x.packet.seq = s
         /\ lastSequence' = [lastSequence EXCEPT ![n] = s]
         /\ lastSequence[n] > 0 => s > lastSequence[n]
         /\ resets' = resets
         /\ \/ leg2' = leg2
            \/ /\ x.fate = "forwarded"
               /\ \E q : q.node = n /\ q.seq = s /\ leg2' = leg2 \cup {q}

(* process_packet of the relay either leaves the order alone or passes the *)
(* packet's number.                                                        *)
LEMMA RelayReceiveMoves ==
  ASSUME TrailEntries, NEW d, d.node \in Nodes, d.seq \in Nat \ {0}, RelayReceive(d)
  PROVE  RelayStill \/ RelayPasses(d.node, d.seq)
<1>1. ASSUME NEW fate, Relay!Passed(d, fate)
      PROVE  \E x : /\ trail' = Append(trail, x) /\ x.fate = fate
                    /\ x.packet.node = d.node /\ x.packet.seq = d.seq
                    /\ lastSequence' = [lastSequence EXCEPT ![d.node] = d.seq]
                    /\ lastSequence[d.node] > 0 => d.seq > lastSequence[d.node]
                    /\ resets' = resets
  <2> DEFINE x == [fate |-> fate, era |-> resets[d.node], payload |-> d.payload,
                   packet |-> Relay!Reencrypted(d)]
  <2>1. x.fate = fate /\ x.packet.node = d.node /\ x.packet.seq = d.seq
    BY ReencryptedKeeps
  <2>2. trail' = Append(trail, x) /\ resets' = resets /\ Relay!Integrity!IntegrityPass(d)
    BY <1>1 DEF Relay!Passed
  <2> HIDE DEF x
  <2>3. lastSequence[d.node] \in Nat
    BY DEF TrailEntries
  <2>4. /\ lastSequence' = [lastSequence EXCEPT ![d.node] = d.seq]
        /\ lastSequence[d.node] > 0 => d.seq > lastSequence[d.node]
    BY <2>2, <2>3 DEF Relay!Integrity!IntegrityPass, Relay!Integrity!IntegrityError,
                      Relay!Integrity!OutOfOrder
  <2>5. QED
    BY <2>1, <2>2, <2>4
<1>2. CASE RelayForwards(d)
  <2>1. Relay!Passed(d, "forwarded") /\ leg2' = leg2 \cup {Relay!Reencrypted(d)}
    BY <1>2 DEF RelayForwards, Relay!Forward
  <2>2. QED
    BY <1>1, <2>1, ReencryptedKeeps DEF RelayPasses
<1>3. CASE RelayDrops(d) /\ (Relay!DropAnomalous(d) \/ Relay!DropUnencryptable(d))
  <2>1. /\ Relay!Passed(d, "anomaly_rejected") \/ Relay!Passed(d, "reencryption_failed")
        /\ leg2' = leg2
    BY <1>3 DEF RelayDrops, Relay!DropAnomalous, Relay!DropUnencryptable
  <2>2. QED
    BY <1>1, <2>1 DEF RelayPasses
<1>4. CASE RelayDrops(d) /\ (Relay!DropUndecrypted(d) \/ Relay!DropIntegrity(d))
  BY <1>4 DEF RelayDrops, Relay!DropUndecrypted, Relay!DropIntegrity,
              Relay!Integrity!IntegrityFail, Relay!integrityVars, RelayStill
<1>5. QED
  BY <1>2, <1>3, <1>4 DEF RelayReceive, RelayDrops

(* A step of the pipeline is one of the validator, or leaves the validator *)
(* alone and does one of those things to the relay.                        *)
LEMMA RelayKinds ==
  ASSUME NumbersOK, TrailEntries, [Next]_vars
  PROVE  \/ Validates /\ RelayStill
         \/ /\ UNCHANGED <<audit, lastSeq>>
            /\ \/ RelayStill
               \/ RelayForgets
               \/ \E n \in Nodes, s \in Nat \ {0} : RelayPasses(n, s)
<1>1. CASE \/ \E n \in Nodes, frame \in Frames : CarSend(n, frame)
           \/ \E n \in Nodes : CompleteCarSession(n)
           \/ UNCHANGED vars
  BY <1>1 DEF CarSend, CompleteCarSession, vars, relayVars, validatorVars, RelayStill
<1>2. CASE SetupValidatorSession \/ \E n \in Nodes : SetupCarSession(n)
  BY <1>2 DEF SetupValidatorSession, SetupCarSession, Relay!SetupValidatorSession,
              Relay!SetupCarSession, Relay!integrityVars, validatorVars, RelayStill
<1>3. CASE SetupRelaySession \/ \E n \in Nodes : RegisterCarNode(n)
  BY <1>3 DEF SetupRelaySession, RegisterCarNode, Validator!SetupRelaySession,
              Validator!RegisterCarNode, Validator!seqVars, relayVars, RelayStill
<1>4. CASE \E n \in Nodes : RelayResetNode(n)
  BY <1>4 DEF RelayResetNode, Relay!ResetNode, Relay!Integrity!ResetNode,
              validatorVars, RelayForgets
<1>5. ASSUME NEW p \in leg1, RelayReceive(p) \/ RelayReceive(Damaged(p))
      PROVE  /\ UNCHANGED <<audit, lastSeq>>
             /\ RelayStill \/ RelayPasses(p.node, p.seq)
  <2>1. PICK d : d.node = p.node /\ d.seq = p.seq /\ RelayReceive(d)
    BY <1>5, DamagedKeeps
  <2>2. d.node \in Nodes /\ d.seq \in Nat \ {0}
    BY <2>1, LegNumbers
  <2>3. RelayStill \/ RelayPasses(d.node, d.seq)
    BY <2>1, <2>2, RelayReceiveMoves
  <2>4. UNCHANGED <<audit, lastSeq>>
    BY <2>1 DEF RelayReceive, validatorVars
  <2>5. QED
    BY <2>1, <2>3, <2>4
<1>6. CASE \E p \in leg2 : ValidatorReceive(p)
  BY <1>6 DEF ValidatorReceive, Validates, relayVars, RelayStill
<1>7. QED
  BY <1>1, <1>2, <1>3, <1>4, <1>5, <1>6, LegNumbers DEF Next

(* What a number passed does to the trail: it grows, and what was          *)
(* forwarded before still is.                                              *)
LEMMA ForwardedStays ==
  ASSUME TrailEntries, NEW x, trail' = Append(trail, x), NEW n, NEW s
  PROVE  /\ Forwarded(n, s) => Forwarded(n, s)'
         /\ x.fate = "forwarded" /\ x.packet.node = n /\ x.packet.seq = s
            => Forwarded(n, s)'
<1>1. /\ Len(trail) \in Nat /\ Len(trail') = Len(trail) + 1
      /\ trail'[Len(trail) + 1] = x /\ \A i \in 1 .. Len(trail) : trail'[i] = trail[i]
  BY SeqGrows DEF TrailEntries
<1>2. QED
  BY <1>1 DEF Forwarded

(* The order of the relay's trail survives a step.                         *)
LEMMA TrailStep ==
  ASSUME NumbersOK, TrailEntries, TrailOrdered, [Next]_vars
  PROVE  TrailEntries' /\ TrailOrdered'
<1>0. /\ lastSequence \in [Nodes -> Nat] /\ resets \in [Nodes -> Nat]
      /\ \A i \in 1 .. Len(trail) :
           trail[i].packet.node \in Nodes /\ trail[i].packet.seq \in Nat \ {0}
  BY DEF TrailEntries
<1>1. CASE RelayStill
  BY <1>1 DEF RelayStill, TrailEntries, TrailOrdered
<1>2. CASE RelayForgets
  <2>1. PICK n \in Nodes : /\ lastSequence' = [lastSequence EXCEPT ![n] = 0]
                           /\ resets' = [resets EXCEPT ![n] = @ + 1]
                           /\ trail' = trail
    BY <1>2 DEF RelayForgets
  <2>2. /\ lastSequence' \in [Nodes -> Nat] /\ resets' \in [Nodes -> Nat]
        /\ \A m \in Nodes : resets'[m] = 0 => m # n /\ resets[m] = 0
        /\ \A m \in Nodes : m # n => lastSequence'[m] = lastSequence[m]
    BY <1>0, <2>1
  <2>3. TrailEntries'
    BY <2>1, <2>2 DEF TrailEntries
  <2>4. QED
    BY <1>0, <2>1, <2>2, <2>3 DEF TrailOrdered
<1>3. ASSUME NEW n \in Nodes, NEW s \in Nat \ {0}, RelayPasses(n, s)
      PROVE  TrailEntries' /\ TrailOrdered'
  <2>1. PICK x : /\ trail' = Append(trail, x)
                 /\ x.packet.node = n /\ x.packet.seq = s
                 /\ lastSequence' = [lastSequence EXCEPT ![n] = s]
                 /\ lastSequence[n] > 0 => s > lastSequence[n]
                 /\ resets' = resets
    BY <1>3 DEF RelayPasses
  <2>2. /\ IsSeq(trail') /\ Len(trail) \in Nat /\ Len(trail') = Len(trail) + 1
        /\ trail'[Len(trail) + 1] = x /\ \A i \in 1 .. Len(trail) : trail'[i] = trail[i]
    BY <2>1, SeqGrows DEF TrailEntries
  <2>3. /\ lastSequence' \in [Nodes -> Nat] /\ lastSequence'[n] = s
        /\ \A m \in Nodes : m # n => lastSequence'[m] = lastSequence[m]
    BY <1>0, <2>1
  <2>4. IsSeq(trail)'
    BY <2>2 DEF IsSeq
  <2>5. TrailEntries'
    BY <1>0, <2>1, <2>2, <2>3, <2>4 DEF TrailEntries
  <2>6. ASSUME NEW i \in 1 .. Len(trail), trail[i].packet.node = n, resets[n] = 0
        PROVE  trail[i].packet.seq < s
    <3>1. trail[i].packet.seq <= lastSequence[n] /\ trail[i].packet.seq \in Nat \ {0}
      BY <1>0, <2>6 DEF TrailOrdered
    <3>2. lastSequence[n] \in Nat
      BY <1>0
    <3>3. QED
      BY <2>1, <3>1, <3>2
  <2>7. ASSUME NEW i \in 1 .. Len(trail'), resets[trail'[i].packet.node] = 0
        PROVE  trail'[i].packet.seq <= lastSequence'[trail'[i].packet.node]
    <3>1. CASE i \in 1 .. Len(trail) /\ trail[i].packet.node = n
      BY <1>0, <2>2, <2>3, <2>6, <2>7, <3>1
    <3>2. CASE i \in 1 .. Len(trail) /\ trail[i].packet.node # n
      BY <1>0, <2>2, <2>3, <2>7, <3>2 DEF TrailOrdered
    <3>3. CASE i = Len(trail) + 1
      BY <2>1, <2>2, <2>3, <3>3
    <3>4. QED
      BY <2>2, <3>1, <3>2, <3>3
  <2>8. ASSUME NEW i \in 1 .. Len(trail'), NEW j \in 1 .. Len(trail'), i < j,
               trail'[i].packet.node = trail'[j].packet.node,
               resets[trail'[i].packet.node] = 0
        PROVE  trail'[i].packet.seq < trail'[j].packet.seq
    <3>1. i \in 1 .. Len(trail) /\ trail'[i] = trail[i]
      BY <2>2, <2>8
    <3>2. CASE j \in 1 .. Len(trail)
      <4>1. trail'[j] = trail[j]
        BY <2>2, <3>2
      <4>2. QED
        BY <2>8, <3>1, <3>2, <4>1 DEF TrailOrdered
    <3>3. CASE j = Len(trail) + 1
      <4>1. trail'[j] = x
        BY <2>2, <3>3
      <4>2. QED
        BY <2>1, <2>6, <2>8, <3>1, <4>1
    <3>4. QED
      BY <2>2, <3>2, <3>3
  <2>9. QED
    BY <2>1, <2>5, <2>7, <2>8 DEF TrailOrdered
<1>4. QED
  BY <1>1, <1>2, <1>3, RelayKinds

(* So does the debt of the validator to the relay.                         *)
LEMMA ForwardedStep ==
  ASSUME NumbersOK, TrailEntries, AllForwarded, [Next]_vars
  PROVE  AllForwarded'
<1>1. CASE UNCHANGED <<audit, lastSeq>> /\ (RelayStill \/ RelayForgets)
  <2>1. UNCHANGED <<audit, lastSeq, leg2, trail>>
    BY <1>1 DEF RelayStill, RelayForgets
  <2>2. QED
    BY <2>1 DEF AllForwarded, Forwarded, Kept
<1>2. ASSUME UNCHANGED <<audit, lastSeq>>,
             NEW n \in Nodes, NEW s \in Nat \ {0}, RelayPasses(n, s)
      PROVE  AllForwarded'
  <2>1. PICK x : /\ trail' = Append(trail, x)
                 /\ x.packet.node = n /\ x.packet.seq = s
                 /\ \/ leg2' = leg2
                    \/ /\ x.fate = "forwarded"
                       /\ \E q : q.node = n /\ q.seq = s /\ leg2' = leg2 \cup {q}
    BY <1>2 DEF RelayPasses
  <2>2. /\ \A m, r : Forwarded(m, r) => Forwarded(m, r)'
        /\ x.fate = "forwarded" => Forwarded(n, s)'
    BY <2>1, ForwardedStays
  <2>3. ASSUME NEW q \in leg2' PROVE Forwarded(q.node, q.seq)'
    BY <2>1, <2>2 DEF AllForwarded
  <2>4. ASSUME NEW m \in Nodes, lastSeq'[m] # 0 PROVE Forwarded(m, lastSeq[m])'
    BY <1>2, <2>2, <2>4 DEF AllForwarded
  <2>5. ASSUME NEW i \in 1 .. Len(audit'), audit'[i].decision # "REJECT"
        PROVE  Forwarded(audit[i].node, audit[i].seq)'
    BY <1>2, <2>2, <2>5 DEF AllForwarded, Kept
  <2>6. QED
    BY <2>3, <2>4, <2>5 DEF AllForwarded, Kept
<1>3. CASE Validates /\ RelayStill
  <2>1. PICK p \in leg2 : Validator!ProcessPacket(p) /\ UNCHANGED <<carSeq, leg1, leg2>>
    BY <1>3 DEF Validates
  <2>2. p.node \in Nodes /\ p.seq \in Nat \ {0} /\ Forwarded(p.node, p.seq)
    BY LegNumbers DEF AllForwarded
  <2>3. PICK e : /\ Logged(p, e)
                 /\ (e.decision = "REJECT" /\ lastSeq' = lastSeq) \/ MovesOn(p)
    BY <2>1, <2>2, ValidatorLogs
  <2>4. \A m, r : Forwarded(m, r)' <=> Forwarded(m, r)
    BY <1>3 DEF RelayStill, Forwarded
  <2>5. /\ Len(audit) \in Nat /\ Len(audit') = Len(audit) + 1
        /\ audit'[Len(audit) + 1] = e
        /\ \A i \in 1 .. Len(audit) : audit'[i] = audit[i]
        /\ e.node = p.node /\ e.seq = p.seq
    BY <2>3 DEF Logged, NumbersOK
  <2>6. ASSUME NEW m \in Nodes, lastSeq'[m] # 0 PROVE Forwarded(m, lastSeq'[m])
    BY <2>2, <2>3, <2>6 DEF AllForwarded, MovesOn, NumbersOK
  <2>7. ASSUME NEW i \in 1 .. Len(audit'), audit'[i].decision # "REJECT"
        PROVE  Forwarded(audit'[i].node, audit'[i].seq)
    BY <2>2, <2>5, <2>7 DEF AllForwarded, Kept
  <2>8. /\ \A m \in Nodes : lastSeq'[m] # 0 => Forwarded(m, lastSeq[m])'
        /\ \A i \in 1 .. Len(audit') :
             audit'[i].decision # "REJECT" => Forwarded(audit[i].node, audit[i].seq)'
        /\ \A q \in leg2' : Forwarded(q.node, q.seq)'
    BY <1>3, <2>1, <2>6, <2>7 DEF RelayStill, Forwarded, AllForwarded
  <2>9. QED
    BY <2>8 DEF AllForwarded, Kept
<1>4. QED
  BY <1>1, <1>2, <1>3, RelayKinds

(* Two entries of a trail in order cannot carry the same number.           *)
LEMMA InOrderMeansOnce ==
  ASSUME NumbersOK, TrailEntries, TrailOrdered, AllForwarded
  PROVE  RecordedWereForwarded
<1>1. ASSUME NEW n \in Nodes, NEW s, resets[n] = 0, Forwarded(n, s), UsedUp(n, s)
      PROVE  FALSE
  <2>1. PICK i \in 1 .. Len(trail), j \in 1 .. Len(trail) :
          /\ trail[i].fate = "forwarded" /\ trail[j].fate # "forwarded"
          /\ trail[i].packet.node = n /\ trail[i].packet.seq = s
          /\ trail[j].packet.node = n /\ trail[j].packet.seq = s
    BY <1>1 DEF Forwarded, UsedUp
  <2>2. Len(trail) \in Nat
    BY SeqGrows DEF TrailEntries
  <2>3. i < j \/ j < i
    BY <2>1, <2>2
  <2>4. s < s /\ s \in Nat
    BY <1>1, <2>1, <2>3 DEF TrailOrdered, TrailEntries
  <2>5. QED
    BY <2>4
<1>2. \A i \in 1 .. Len(audit) : audit[i].node \in Nodes
  <2>1. \A i \in 1 .. Len(audit) : audit[i] \in EventShape
    BY DEF NumbersOK
  <2>2. QED
    BY <2>1 DEF EventShape
<1>3. QED
  BY <1>1, <1>2 DEF AllForwarded, RecordedWereForwarded

(* What the validator keeps the relay has forwarded, and while the relay   *)
(* has not reset a car, a number the relay dropped after its integrity     *)
(* check never reaches the record: for any cars, bounds and networks, and  *)
(* whether or not the validator orders strictly.                           *)
THEOREM RecordedAlwaysForwarded == Spec => []RecordedWereForwarded
<1> DEFINE Inv == NumbersOK /\ TrailEntries /\ TrailOrdered /\ AllForwarded
<1>1. Init => Inv
  <2>1. Init => TrailEntries /\ TrailOrdered /\ AllForwarded
    <3>1. <<>> \in Seq({})
      OBVIOUS
    <3>2. IsSeq(<<>>)
      BY <3>1 DEF IsSeq
    <3>3. QED
      BY <3>2 DEF Init, Relay!Init, Relay!Integrity!IntegrityInit, Validator!Init,
                  Validator!SeqInit, TrailEntries, TrailOrdered, AllForwarded
  <2>2. QED
    BY <2>1, NumbersInit
<1>2. Inv /\ [Next]_vars => Inv'
  BY NumbersStep, TrailStep, ForwardedStep
<1>3. Inv => RecordedWereForwarded
  BY InOrderMeansOnce
<1>4. QED
  BY <1>1, <1>2, <1>3, PTL DEF Spec
=============================================================================
