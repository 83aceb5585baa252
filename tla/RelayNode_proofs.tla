-------------------------- MODULE RelayNode_proofs --------------------------
(***************************************************************************)
(* Proofs about the relay node, for any cars, keys, packets and limits.    *)
(***************************************************************************)
EXTENDS RelayNode, TLAPS

Fates == {"anomaly_rejected", "reencryption_failed", "forwarded"}

IntegrityCounts == [checked : Nat, passed : Nat, failed : Nat,
                    replay : Nat, outOfOrder : Nat]
AnomalyCounts == [checked : Nat, flagged : Nat, rejected : Nat]
DecryptCounts == [decrypted : Nat, failed : Nat, tampered : Nat]
ReencryptCounts == [reencrypted : Nat, failed : Nat]

(* The three things a step can do to what the trail theorems are about:    *)
(* nothing, forget a car's sequence state, or let a packet past the        *)
(* integrity check.                                                        *)
RelayQuiet == UNCHANGED <<trail, lastSequence, seenSequences, resets, lastValues>>

PassedOn(p) ==
  \E fate \in Fates :
    /\ Passed(p, fate)
    /\ fate = "forwarded" => Anomaly!Severity(p.node, p.payload) # "REJECT"

-----------------------------------------------------------------------------
(* The fields of a packet that the node reads have their types.            *)
LEMMA RawPacketFields ==
  ASSUME NEW p \in RawPackets
  PROVE  /\ p.node \in Nodes /\ p.key \in SessionKeys
         /\ p.seq \in Seqs /\ p.header \in Seqs /\ p.ts \in Times
         /\ p.signer \in SignKeys \cup {NoKey}
         /\ p.payload \in Payloads
BY RawPacketsAssumption DEF RawPacketType

(* Sequence numbers can be compared.                                       *)
LEMMA SeqsInt == Seqs \cup {0} \subseteq Int
BY RelayAssumption

(* A baseline updated from a payload is a payload again.                   *)
LEMMA BaselineType ==
  ASSUME NEW a \in Payloads, NEW b \in Payloads
  PROVE  [c \in DOMAIN a \cup DOMAIN b |-> IF c \in DOMAIN a THEN a[c] ELSE b[c]]
           \in Payloads
<1>1. PICK A \in SUBSET Channels : a \in [A -> Readings]
  BY DEF Payloads
<1>2. PICK B \in SUBSET Channels : b \in [B -> Readings]
  BY DEF Payloads
<1>3. [c \in DOMAIN a \cup DOMAIN b |-> IF c \in DOMAIN a THEN a[c] ELSE b[c]]
        \in [A \cup B -> Readings]
  BY <1>1, <1>2
<1>4. QED
  BY <1>3 DEF Payloads

(* Incrementing some of the counters leaves counters.                      *)
LEMMA BumpStats ==
  ASSUME TypeOK, NEW fields, Bump(fields)
  PROVE  /\ stats' \in [StatFields -> Nat]
         /\ \A f \in StatFields :
              stats'[f] = IF f \in fields THEN stats[f] + 1 ELSE stats[f]
BY DEF Bump, TypeOK

(* Adding to the counters of RelayDecryptor and of RelayReencryptor.       *)
LEMMA DecryptAdd ==
  ASSUME TypeOK,
         \/ decryptCounts' = [decryptCounts EXCEPT !.decrypted = @ + 1]
         \/ decryptCounts' = [decryptCounts EXCEPT !.failed = @ + 1]
         \/ decryptCounts' = [decryptCounts EXCEPT !.failed = @ + 1, !.tampered = @ + 1]
         \/ decryptCounts' = [decryptCounts EXCEPT !.decrypted = @ + 1, !.failed = @ + 1]
  PROVE  /\ decryptCounts' \in DecryptCounts
         /\ decryptCounts'.decrypted >= decryptCounts.decrypted
         /\ decryptCounts.tampered <= decryptCounts.failed =>
              decryptCounts'.tampered <= decryptCounts'.failed
<1> DEFINE r == decryptCounts
           s == decryptCounts'
<1>0. r \in DecryptCounts
  BY DEF TypeOK, DecryptCounts
<1> HIDE DEF r, s
<1>1. r.decrypted \in Nat /\ r.failed \in Nat /\ r.tampered \in Nat
  BY <1>0 DEF DecryptCounts
<1>2. CASE s = [r EXCEPT !.decrypted = @ + 1]
  <2>1. s = [decrypted |-> r.decrypted + 1, failed |-> r.failed, tampered |-> r.tampered]
    BY <1>0, <1>2 DEF DecryptCounts
  <2>2. QED
    BY <1>1, <2>1 DEF DecryptCounts, r, s
<1>3. CASE s = [r EXCEPT !.failed = @ + 1]
  <2>1. s = [decrypted |-> r.decrypted, failed |-> r.failed + 1, tampered |-> r.tampered]
    BY <1>0, <1>3 DEF DecryptCounts
  <2>2. QED
    BY <1>1, <2>1 DEF DecryptCounts, r, s
<1>4. CASE s = [r EXCEPT !.failed = @ + 1, !.tampered = @ + 1]
  <2>1. s = [decrypted |-> r.decrypted, failed |-> r.failed + 1,
             tampered |-> r.tampered + 1]
    BY <1>0, <1>4 DEF DecryptCounts
  <2>2. QED
    BY <1>1, <2>1 DEF DecryptCounts, r, s
<1>5. CASE s = [r EXCEPT !.decrypted = @ + 1, !.failed = @ + 1]
  <2>1. s = [decrypted |-> r.decrypted + 1, failed |-> r.failed + 1,
             tampered |-> r.tampered]
    BY <1>0, <1>5 DEF DecryptCounts
  <2>2. QED
    BY <1>1, <2>1 DEF DecryptCounts, r, s
<1>6. QED
  BY <1>2, <1>3, <1>4, <1>5 DEF r, s

(* A packet re-encrypted counts once.                                     *)
LEMMA ReencryptOne ==
  ASSUME TypeOK, reencryptCounts' = [reencryptCounts EXCEPT !.reencrypted = @ + 1]
  PROVE  /\ reencryptCounts' \in ReencryptCounts
         /\ reencryptCounts'.reencrypted = reencryptCounts.reencrypted + 1
         /\ reencryptCounts'.failed = reencryptCounts.failed
<1>1. reencryptCounts \in ReencryptCounts
  BY DEF TypeOK, ReencryptCounts
<1>2. reencryptCounts.reencrypted \in Nat /\ reencryptCounts.failed \in Nat
  BY <1>1 DEF ReencryptCounts
<1>3. reencryptCounts' = [reencrypted |-> reencryptCounts.reencrypted + 1,
                          failed |-> reencryptCounts.failed]
  BY <1>1 DEF ReencryptCounts
<1>4. [reencrypted |-> reencryptCounts.reencrypted + 1,
       failed |-> reencryptCounts.failed] \in ReencryptCounts
  BY <1>2 DEF ReencryptCounts
<1>5. QED
  BY <1>3, <1>4

(* One whose signature then proves not to be hexadecimal counts twice.     *)
LEMMA ReencryptBoth ==
  ASSUME TypeOK, reencryptCounts' = [reencryptCounts EXCEPT !.reencrypted = @ + 1,
                                                            !.failed = @ + 1]
  PROVE  /\ reencryptCounts' \in ReencryptCounts
         /\ reencryptCounts'.reencrypted = reencryptCounts.reencrypted + 1
         /\ reencryptCounts'.failed = reencryptCounts.failed + 1
<1>1. reencryptCounts \in ReencryptCounts
  BY DEF TypeOK, ReencryptCounts
<1>2. reencryptCounts.reencrypted \in Nat /\ reencryptCounts.failed \in Nat
  BY <1>1 DEF ReencryptCounts
<1>3. reencryptCounts' = [reencrypted |-> reencryptCounts.reencrypted + 1,
                          failed |-> reencryptCounts.failed + 1]
  BY <1>1 DEF ReencryptCounts
<1>4. QED
  BY <1>2, <1>3 DEF ReencryptCounts

(* The check counts itself, its outcome and what it found.                 *)
LEMMA IntegrityCounted ==
  ASSUME TypeOK, NEW p, Integrity!CountIntegrity(p)
  PROVE  /\ integrityCounts' \in IntegrityCounts
         /\ integrityCounts'.checked = integrityCounts.checked + 1
         /\ integrityCounts'.passed =
              integrityCounts.passed + Integrity!One(~ Integrity!IntegrityError(p))
         /\ integrityCounts'.failed =
              integrityCounts.failed + Integrity!One(Integrity!IntegrityError(p))
         /\ integrityCounts'.replay =
              integrityCounts.replay + Integrity!One(Integrity!IsReplay(p))
         /\ integrityCounts'.outOfOrder = integrityCounts.outOfOrder
              + Integrity!One(Integrity!OutOfOrder(lastSequence[p.node], p.seq))
<1> DEFINE a == Integrity!One(~ Integrity!IntegrityError(p))
           b == Integrity!One(Integrity!IntegrityError(p))
           c == Integrity!One(Integrity!IsReplay(p))
           d == Integrity!One(Integrity!OutOfOrder(lastSequence[p.node], p.seq))
<1>1. a \in Nat /\ b \in Nat /\ c \in Nat /\ d \in Nat
  BY DEF Integrity!One
<1>2. integrityCounts \in IntegrityCounts
  BY DEF TypeOK, IntegrityCounts
<1>3. integrityCounts' =
        [integrityCounts EXCEPT !.checked = @ + 1, !.passed = @ + a, !.failed = @ + b,
                                !.replay = @ + c, !.outOfOrder = @ + d]
  BY DEF Integrity!CountIntegrity
<1> HIDE DEF a, b, c, d
<1>4. /\ integrityCounts' \in IntegrityCounts
      /\ integrityCounts'.checked = integrityCounts.checked + 1
      /\ integrityCounts'.passed = integrityCounts.passed + a
      /\ integrityCounts'.failed = integrityCounts.failed + b
      /\ integrityCounts'.replay = integrityCounts.replay + c
      /\ integrityCounts'.outOfOrder = integrityCounts.outOfOrder + d
  <2>1. integrityCounts' = [checked |-> integrityCounts.checked + 1,
                            passed |-> integrityCounts.passed + a,
                            failed |-> integrityCounts.failed + b,
                            replay |-> integrityCounts.replay + c,
                            outOfOrder |-> integrityCounts.outOfOrder + d]
    BY <1>2, <1>3 DEF IntegrityCounts
  <2>2. /\ integrityCounts.checked \in Nat /\ integrityCounts.passed \in Nat
        /\ integrityCounts.failed \in Nat /\ integrityCounts.replay \in Nat
        /\ integrityCounts.outOfOrder \in Nat
    BY <1>2 DEF IntegrityCounts
  <2>3. QED
    BY <1>1, <2>1, <2>2 DEF IntegrityCounts
<1>5. QED
  BY <1>4 DEF a, b, c, d

(* The filter counts itself and the severity it found, and keeps the       *)
(* baselines well typed.                                                   *)
LEMMA AnomalyCounted ==
  ASSUME TypeOK, NEW n \in Nodes, NEW payload \in Payloads,
         Anomaly!AnomalyCheck(n, payload)
  PROVE  /\ lastValues' \in [Nodes -> Payloads]
         /\ anomalyCounts' \in AnomalyCounts
         /\ anomalyCounts'.checked = anomalyCounts.checked + 1
         /\ anomalyCounts'.flagged = anomalyCounts.flagged
              + (IF Anomaly!Severity(n, payload) = "FLAG" THEN 1 ELSE 0)
         /\ anomalyCounts'.rejected = anomalyCounts.rejected
              + (IF Anomaly!Severity(n, payload) = "REJECT" THEN 1 ELSE 0)
<1>1. [c \in DOMAIN payload \cup DOMAIN lastValues[n] |->
         IF c \in DOMAIN payload THEN payload[c] ELSE lastValues[n][c]] \in Payloads
  BY BaselineType DEF TypeOK
<1>2. lastValues' \in [Nodes -> Payloads]
  BY <1>1 DEF Anomaly!AnomalyCheck, TypeOK
<1>3. anomalyCounts \in AnomalyCounts
  BY DEF TypeOK, AnomalyCounts
<1> DEFINE a == IF Anomaly!Severity(n, payload) = "FLAG" THEN 1 ELSE 0
           b == IF Anomaly!Severity(n, payload) = "REJECT" THEN 1 ELSE 0
<1>4. anomalyCounts' =
        [anomalyCounts EXCEPT !.checked = @ + 1, !.flagged = @ + a, !.rejected = @ + b]
  BY DEF Anomaly!AnomalyCheck
<1>5. a \in Nat /\ b \in Nat
  OBVIOUS
<1> HIDE DEF a, b
<1>6. /\ anomalyCounts' \in AnomalyCounts
      /\ anomalyCounts'.checked = anomalyCounts.checked + 1
      /\ anomalyCounts'.flagged = anomalyCounts.flagged + a
      /\ anomalyCounts'.rejected = anomalyCounts.rejected + b
  <2>1. anomalyCounts' = [checked |-> anomalyCounts.checked + 1,
                          flagged |-> anomalyCounts.flagged + a,
                          rejected |-> anomalyCounts.rejected + b]
    BY <1>3, <1>4 DEF AnomalyCounts
  <2>2. /\ anomalyCounts.checked \in Nat /\ anomalyCounts.flagged \in Nat
        /\ anomalyCounts.rejected \in Nat
    BY <1>3 DEF AnomalyCounts
  <2>3. QED
    BY <1>5, <2>1, <2>2 DEF AnomalyCounts
<1>7. QED
  BY <1>2, <1>6 DEF a, b

(* The window of a car holds numbers.                                      *)
LEMMA RememberType ==
  ASSUME NEW seen \in SUBSET Seqs, NEW seq \in Seqs, NEW window
  PROVE  Integrity!Remember(seen, seq, window) \subseteq seen \cup {seq}
BY DEF Integrity!Remember

(* Letting a packet past the integrity check keeps the types.              *)
LEMMA PassedType ==
  ASSUME TypeOK, NEW p \in RawPackets, NEW fate \in Fates, Passed(p, fate)
  PROVE  /\ lastSequence' \in [Nodes -> Seqs \cup {0}]
         /\ seenSequences' \in [Nodes -> SUBSET Seqs]
         /\ integrityCounts' \in IntegrityCounts
         /\ lastValues' \in [Nodes -> Payloads]
         /\ anomalyCounts' \in AnomalyCounts
         /\ decryptCounts' \in DecryptCounts
         /\ parsedCount' \in Nat
         /\ trail' \in Seq(Entry)
         /\ UNCHANGED <<sessions, valSession, now, resets>>
<1>1. /\ Decrypted(p) /\ Integrity!IntegrityPass(p)
      /\ Anomaly!AnomalyCheck(p.node, p.payload)
      /\ UNCHANGED <<sessions, valSession, now, resets>>
  BY DEF Passed, sessionVars
<1>2. p.node \in Nodes /\ p.seq \in Seqs /\ p.payload \in Payloads
  BY RawPacketFields
<1>3. lastSequence' \in [Nodes -> Seqs \cup {0}]
  BY <1>1, <1>2 DEF Integrity!IntegrityPass, TypeOK
<1>4. seenSequences' \in [Nodes -> SUBSET Seqs]
  <2>0. seenSequences[p.node] \in SUBSET Seqs
    BY <1>2 DEF TypeOK
  <2>1. Integrity!Remember(seenSequences[p.node], p.seq, Window) \in SUBSET Seqs
    BY <1>2, <2>0, RememberType
  <2>2. QED
    BY <1>1, <2>1 DEF Integrity!IntegrityPass, TypeOK
<1>5. integrityCounts' \in IntegrityCounts
  BY <1>1, IntegrityCounted DEF Integrity!IntegrityPass
<1>6. /\ lastValues' \in [Nodes -> Payloads]
      /\ anomalyCounts' \in AnomalyCounts
  BY <1>1, <1>2, AnomalyCounted
<1>7. /\ decryptCounts' \in DecryptCounts
      /\ parsedCount' \in Nat
  <2>1. decryptCounts' \in DecryptCounts
    BY <1>1, DecryptAdd DEF Decrypted
  <2>2. QED
    BY <1>1, <2>1 DEF Decrypted, Parsed, TypeOK
<1>8. trail' \in Seq(Entry)
  <2>1. [fate |-> fate, era |-> resets[p.node], payload |-> p.payload,
         packet |-> Reencrypted(p)] \in Entry
    BY <1>2, RawPacketFields, RelayAssumption DEF Entry, Reencrypted, TypeOK, Fates
  <2>2. QED
    BY <2>1 DEF Passed, TypeOK
<1>9. QED
  BY <1>1, <1>3, <1>4, <1>5, <1>6, <1>7, <1>8

-----------------------------------------------------------------------------
(* A packet on which process_packet stops before the integrity check.      *)
LEMMA UndecryptedType ==
  ASSUME TypeOK, NEW p \in RawPackets, DropUndecrypted(p)
  PROVE  /\ decryptCounts' \in DecryptCounts
         /\ decryptCounts'.decrypted >= decryptCounts.decrypted
         /\ decryptCounts.tampered <= decryptCounts.failed =>
              decryptCounts'.tampered <= decryptCounts'.failed
<1>0. decryptCounts \in DecryptCounts
  BY DEF TypeOK, DecryptCounts
<1>1. p.node \in Nodes /\ sessions[p.node] \in SessionKeys \cup {NoKey, Pending}
  BY RawPacketFields DEF TypeOK
<1>2. CASE sessions[p.node] = NoKey
  <2>1. decryptCounts' = decryptCounts
    BY <1>2, RawPacketFields, RelayAssumption DEF DropUndecrypted, Opens
  <2>2. QED
    BY <1>0, <2>1 DEF DecryptCounts
<1>3. CASE sessions[p.node] = Pending
  BY <1>3, RelayAssumption, DecryptAdd DEF DropUndecrypted
<1>4. CASE sessions[p.node] \in SessionKeys /\ ~ Opens(p)
  BY <1>4, RelayAssumption, DecryptAdd DEF DropUndecrypted
<1>5. CASE sessions[p.node] \in SessionKeys /\ Opens(p)
  BY <1>5, RelayAssumption, DecryptAdd DEF DropUndecrypted
<1>6. QED
  BY <1>1, <1>2, <1>3, <1>4, <1>5

(* A step of the relay, of whatever kind, keeps its fields well typed.     *)
LEMMA RelayTypeStep == TypeOK /\ [Next]_vars => TypeOK'
<1> SUFFICES ASSUME TypeOK, [Next]_vars PROVE TypeOK'
  OBVIOUS
<1> USE DEF sessionVars, integrityVars, anomalyVars, countVars
<1>1. ASSUME NEW n \in Nodes, NEW k \in SessionKeys, SetupCarSession(n, k)
      PROVE  TypeOK'
  BY <1>1 DEF SetupCarSession, TypeOK
<1>2. ASSUME NEW n \in Nodes, NEW k \in SessionKeys \cup {Pending}, UpdateSession(n, k)
      PROVE  TypeOK'
  BY <1>2 DEF UpdateSession, TypeOK
<1>3. ASSUME NEW k \in SessionKeys, SetupValidatorSession(k)
      PROVE  TypeOK'
  BY <1>3 DEF SetupValidatorSession, TypeOK
<1>4. ASSUME NEW n \in Nodes, ResetNode(n)
      PROVE  TypeOK'
  <2>1. resets' \in [Nodes -> 0 .. MaxResets]
    BY <1>4, RelayAssumption DEF ResetNode, TypeOK
  <2>2. /\ lastSequence' \in [Nodes -> Seqs \cup {0}]
        /\ seenSequences' \in [Nodes -> SUBSET Seqs]
        /\ integrityCounts' = integrityCounts
    BY <1>4 DEF ResetNode, Integrity!ResetNode, TypeOK
  <2>3. QED
    BY <1>4, <2>1, <2>2 DEF ResetNode, TypeOK
<1>5. ASSUME NEW p \in RawPackets, ProcessPacket(p)
      PROVE  TypeOK'
  <2>1. CASE RaiseOnHex(p)
    BY <2>1, BumpStats DEF RaiseOnHex, TypeOK
  <2>2. CASE DropUnparsed(p)
    BY <2>2, BumpStats DEF DropUnparsed, TypeOK
  <2>3. CASE DropUndecrypted(p)
    <3>1. decryptCounts' \in DecryptCounts
      BY <2>3, UndecryptedType
    <3>2. parsedCount' \in Nat
      BY <2>3 DEF DropUndecrypted, Parsed, TypeOK
    <3>3. stats' \in [StatFields -> Nat]
      BY <2>3, BumpStats DEF DropUndecrypted
    <3>4. QED
      BY <2>3, <3>1, <3>2, <3>3 DEF DropUndecrypted, TypeOK, DecryptCounts
  <2>4. CASE DropIntegrity(p)
    <3>1. decryptCounts' \in DecryptCounts
      BY <2>4, DecryptAdd DEF DropIntegrity, Decrypted
    <3>2. parsedCount' \in Nat
      BY <2>4 DEF DropIntegrity, Decrypted, Parsed, TypeOK
    <3>5. stats' \in [StatFields -> Nat]
      BY <2>4, BumpStats DEF DropIntegrity
    <3>3. integrityCounts' \in IntegrityCounts /\ UNCHANGED <<lastSequence, seenSequences>>
      BY <2>4, IntegrityCounted DEF DropIntegrity, Integrity!IntegrityFail
    <3>4. QED
      BY <2>4, <3>1, <3>2, <3>3, <3>5
      DEF DropIntegrity, TypeOK, DecryptCounts, IntegrityCounts
  <2>5. ASSUME NEW fate \in Fates, Passed(p, fate),
               stats' \in [StatFields -> Nat], reencryptCounts' \in ReencryptCounts
        PROVE  TypeOK'
    BY <2>5, PassedType
    DEF TypeOK, DecryptCounts, IntegrityCounts, AnomalyCounts, ReencryptCounts
  <2>6. reencryptCounts \in ReencryptCounts
    BY DEF TypeOK, ReencryptCounts
  <2>7. CASE DropAnomalous(p)
    BY <2>5, <2>6, <2>7, BumpStats DEF DropAnomalous, Fates
  <2>8. CASE DropUnencryptable(p)
    <3>1. reencryptCounts' \in ReencryptCounts
      BY <2>6, <2>8, ReencryptBoth DEF DropUnencryptable
    <3>2. QED
      BY <2>5, <2>8, <3>1, BumpStats DEF DropUnencryptable, Fates
  <2>9. CASE Forward(p)
    <3>1. reencryptCounts' \in ReencryptCounts
      BY <2>6, <2>9, ReencryptOne DEF Forward
    <3>2. QED
      BY <2>5, <2>9, <3>1, BumpStats DEF Forward, Fates
  <2>10. QED
    BY <1>5, <2>1, <2>2, <2>3, <2>4, <2>7, <2>8, <2>9 DEF ProcessPacket
<1>6. CASE Tick
  BY <1>6 DEF Tick, TypeOK
<1>7. CASE UNCHANGED vars
  BY <1>7 DEF vars, TypeOK
<1>8. QED
  BY <1>1, <1>2, <1>3, <1>4, <1>5, <1>6, <1>7 DEF Next

(* Every field of the relay node and of its stages always has the shape    *)
(* the code gives it.                                                      *)
THEOREM RelayTypeCorrect == Spec => []TypeOK
<1>1. Init => TypeOK
  <2> SUFFICES ASSUME Init PROVE TypeOK
    OBVIOUS
  <2>1. <<>> \in Payloads
    <3>1. <<>> \in [{} -> Readings]
      OBVIOUS
    <3>2. QED
      BY <3>1 DEF Payloads
  <2>2. lastValues \in [Nodes -> Payloads]
    BY <2>1 DEF Init, Anomaly!AnomalyInit
  <2>3. /\ lastSequence \in [Nodes -> Seqs \cup {0}]
        /\ seenSequences \in [Nodes -> SUBSET Seqs]
        /\ integrityCounts \in IntegrityCounts
        /\ now \in Times
    BY RelayAssumption DEF Init, Integrity!IntegrityInit, IntegrityCounts
  <2>4. /\ anomalyCounts \in AnomalyCounts /\ decryptCounts \in DecryptCounts
        /\ reencryptCounts \in ReencryptCounts
    BY DEF Init, Anomaly!AnomalyInit, AnomalyCounts, DecryptCounts, ReencryptCounts
  <2>5. QED
    BY <2>2, <2>3, <2>4, RelayAssumption
    DEF Init, TypeOK, IntegrityCounts, AnomalyCounts, DecryptCounts, ReencryptCounts
<1>2. QED
  BY <1>1, RelayTypeStep, PTL DEF Spec

-----------------------------------------------------------------------------
(* Every step of the relay is of one of the three kinds.                   *)
LEMMA RelayStepKinds ==
  ASSUME [Next]_vars
  PROVE  \/ RelayQuiet
         \/ \E n \in Nodes : ResetNode(n)
         \/ \E p \in RawPackets : PassedOn(p)
<1> USE DEF sessionVars, integrityVars, anomalyVars, countVars
<1>1. ASSUME NEW p \in RawPackets, ProcessPacket(p)
      PROVE  RelayQuiet \/ PassedOn(p)
  <2>1. CASE RaiseOnHex(p) \/ DropUnparsed(p) \/ DropUndecrypted(p)
    BY <2>1 DEF RaiseOnHex, DropUnparsed, DropUndecrypted, RelayQuiet
  <2>2. CASE DropIntegrity(p)
    BY <2>2 DEF DropIntegrity, Integrity!IntegrityFail, RelayQuiet
  <2>3. CASE DropAnomalous(p)
    BY <2>3 DEF DropAnomalous, PassedOn, Fates
  <2>4. CASE DropUnencryptable(p)
    BY <2>4 DEF DropUnencryptable, PassedOn, Fates
  <2>5. CASE Forward(p)
    BY <2>5 DEF Forward, PassedOn, Fates
  <2>6. QED
    BY <1>1, <2>1, <2>2, <2>3, <2>4, <2>5 DEF ProcessPacket
<1>2. CASE UNCHANGED vars
  BY <1>2 DEF vars, RelayQuiet
<1>3. ASSUME \/ \E n \in Nodes, k \in SessionKeys : SetupCarSession(n, k)
             \/ \E n \in Nodes, k \in SessionKeys \cup {Pending} : UpdateSession(n, k)
             \/ \E k \in SessionKeys : SetupValidatorSession(k)
             \/ Tick
      PROVE  RelayQuiet
  BY <1>3 DEF SetupCarSession, UpdateSession, SetupValidatorSession, Tick, RelayQuiet
<1>4. QED
  BY <1>1, <1>2, <1>3 DEF Next

(* What a packet that gets past the integrity check leaves in the trail.   *)
LEMMA TrailGrows ==
  ASSUME TypeOK, NEW p \in RawPackets, PassedOn(p)
  PROVE  \E e \in Entry :
           /\ trail' = Append(trail, e)
           /\ e.packet.node = p.node /\ e.packet.seq = p.seq
           /\ e.era = resets[p.node] /\ e.payload = p.payload
           /\ e.fate = "forwarded" => Anomaly!Severity(p.node, p.payload) # "REJECT"
<1>1. PICK fate \in Fates :
        /\ Passed(p, fate)
        /\ fate = "forwarded" => Anomaly!Severity(p.node, p.payload) # "REJECT"
  BY DEF PassedOn
<1> DEFINE e == [fate |-> fate, era |-> resets[p.node], payload |-> p.payload,
                 packet |-> Reencrypted(p)]
<1>2. e \in Entry
  BY RawPacketFields, RelayAssumption DEF Entry, Reencrypted, TypeOK, Fates
<1>3. trail' = Append(trail, e)
  BY <1>1 DEF Passed
<1>4. /\ e.packet.node = p.node /\ e.packet.seq = p.seq
      /\ e.era = resets[p.node] /\ e.payload = p.payload /\ e.fate = fate
  BY DEF Reencrypted
<1> HIDE DEF e
<1>5. QED
  BY <1>1, <1>2, <1>3, <1>4

(* Appending an entry keeps the others and puts it last.                   *)
LEMMA TrailAppend ==
  ASSUME TypeOK, NEW e \in Entry, trail' = Append(trail, e)
  PROVE  /\ Len(trail) \in Nat /\ Len(trail') = Len(trail) + 1
         /\ trail'[Len(trail) + 1] = e
         /\ \A i \in 1 .. Len(trail) : trail'[i] = trail[i] /\ trail[i] \in Entry
         /\ \A i \in 1 .. Len(trail') : i \in 1 .. Len(trail) \/ i = Len(trail) + 1
BY DEF TypeOK

(* A packet with a physically impossible value is never forwarded: check() *)
(* only escalates, for any limits, payloads and number of channels.        *)
THEOREM ImpossibleNeverForwarded == Spec => []NoImpossibleForwarded
<1>1. Init => NoImpossibleForwarded
  BY DEF Init, NoImpossibleForwarded
<1>2. TypeOK /\ NoImpossibleForwarded /\ [Next]_vars => NoImpossibleForwarded'
  <2> SUFFICES ASSUME TypeOK, NoImpossibleForwarded, [Next]_vars
               PROVE  NoImpossibleForwarded'
    OBVIOUS
  <2>1. CASE UNCHANGED trail
    BY <2>1 DEF NoImpossibleForwarded
  <2>2. ASSUME NEW p \in RawPackets, PassedOn(p)
        PROVE  NoImpossibleForwarded'
    <3>1. PICK e \in Entry :
            /\ trail' = Append(trail, e) /\ e.payload = p.payload
            /\ e.fate = "forwarded" => Anomaly!Severity(p.node, p.payload) # "REJECT"
      BY <2>2, TrailGrows
    <3>2. e.fate = "forwarded" =>
            \A c \in DOMAIN e.payload : ~ Anomaly!Impossible(c, e.payload[c])
      BY <3>1 DEF Anomaly!Severity
    <3>3. QED
      BY <3>1, <3>2, TrailAppend DEF NoImpossibleForwarded
  <2>3. QED
    BY <2>1, <2>2, RelayStepKinds DEF RelayQuiet, ResetNode
<1>3. QED
  BY <1>1, <1>2, RelayTypeCorrect, PTL DEF Spec

(* The baseline of the rate-of-change test is the last value that passed   *)
(* the integrity check, whether or not its packet was dropped afterwards.  *)
THEOREM BaselineAlwaysLastPassed == Spec => []BaselineIsLastPassed
<1>1. Init => BaselineIsLastPassed
  BY DEF Init, BaselineIsLastPassed
<1>2. TypeOK /\ BaselineIsLastPassed /\ [Next]_vars => BaselineIsLastPassed'
  <2> SUFFICES ASSUME TypeOK, BaselineIsLastPassed, [Next]_vars
               PROVE  BaselineIsLastPassed'
    OBVIOUS
  <2>1. CASE UNCHANGED <<trail, lastValues>>
    BY <2>1 DEF BaselineIsLastPassed
  <2>2. ASSUME NEW p \in RawPackets, PassedOn(p)
        PROVE  BaselineIsLastPassed'
    <3>1. PICK e \in Entry : /\ trail' = Append(trail, e) /\ e.payload = p.payload
                             /\ e.packet.node = p.node
      BY <2>2, TrailGrows
    <3>2. p.node \in Nodes /\ p.payload \in Payloads
      BY RawPacketFields
    <3> DEFINE base == [c \in DOMAIN p.payload \cup DOMAIN lastValues[p.node] |->
                          IF c \in DOMAIN p.payload THEN p.payload[c]
                          ELSE lastValues[p.node][c]]
    <3>3. lastValues' = [lastValues EXCEPT ![p.node] = base]
      BY <2>2 DEF PassedOn, Passed, Anomaly!AnomalyCheck
    <3>4. /\ lastValues'[p.node] = base
          /\ \A n \in Nodes : n # p.node => lastValues'[n] = lastValues[n]
      BY <3>2, <3>3 DEF TypeOK
    <3>5. \A c \in DOMAIN p.payload : /\ c \in DOMAIN lastValues'[p.node]
                                      /\ lastValues'[p.node][c] = p.payload[c]
      BY <3>4
    <3>6. \A c \in DOMAIN lastValues[p.node] \ DOMAIN p.payload :
            /\ c \in DOMAIN lastValues'[p.node]
            /\ lastValues'[p.node][c] = lastValues[p.node][c]
      BY <3>4
    <3> HIDE DEF base
    <3>7. SUFFICES ASSUME NEW i \in 1 .. Len(trail'), NEW c \in DOMAIN trail'[i].payload,
                          \A j \in i + 1 .. Len(trail') :
                            ~ (/\ trail'[j].packet.node = trail'[i].packet.node
                               /\ c \in DOMAIN trail'[j].payload)
                   PROVE  LET n == trail'[i].packet.node
                          IN  /\ c \in DOMAIN lastValues'[n]
                              /\ lastValues'[n][c] = trail'[i].payload[c]
      BY DEF BaselineIsLastPassed
    <3>8. CASE i = Len(trail) + 1
      BY <3>1, <3>5, <3>7, <3>8, TrailAppend
    <3>9. CASE i \in 1 .. Len(trail)
      <4> DEFINE n == trail[i].packet.node
      <4>1. trail'[i] = trail[i] /\ n \in Nodes
        BY <3>1, <3>9, TrailAppend DEF Entry
      <4>2. \A j \in i + 1 .. Len(trail) :
              ~ (trail[j].packet.node = n /\ c \in DOMAIN trail[j].payload)
        BY <3>1, <3>7, <3>9, <4>1, TrailAppend
      <4>3. c \in DOMAIN lastValues[n] /\ lastValues[n][c] = trail[i].payload[c]
        BY <3>7, <3>9, <4>1, <4>2 DEF BaselineIsLastPassed
      <4>4. ~ (p.node = n /\ c \in DOMAIN p.payload)
        BY <3>1, <3>7, <3>9, <4>1, TrailAppend
      <4>5. QED
        BY <3>4, <3>6, <4>1, <4>3, <4>4
    <3>10. QED
      BY <3>1, <3>8, <3>9, TrailAppend
  <2>3. QED
    BY <2>1, <2>2, RelayStepKinds DEF RelayQuiet, ResetNode, anomalyVars
<1>3. QED
  BY <1>1, <1>2, RelayTypeCorrect, PTL DEF Spec

-----------------------------------------------------------------------------
(* What makes RelayNumbersUsedOnce inductive: a car's last number bounds   *)
(* every number of its current era in the trail, and no era is to come.    *)
TrailBelowLast ==
  \A i \in 1 .. Len(trail) :
    LET n == trail[i].packet.node
    IN  /\ trail[i].era <= resets[n]
        /\ trail[i].era = resets[n] =>
             0 < trail[i].packet.seq /\ trail[i].packet.seq <= lastSequence[n]

(* The numbers in the window of a car lie in (0, last].                    *)
WindowBelowLast ==
  \A n \in Nodes : \A s \in seenSequences[n] : 0 < s /\ s <= lastSequence[n]

(* A number that passes the check is positive and above the car's last.    *)
LEMMA PassedNumber ==
  ASSUME TypeOK, NEW p \in RawPackets, PassedOn(p)
  PROVE  /\ p.node \in Nodes /\ p.seq \in Int /\ p.seq > 0
         /\ lastSequence[p.node] \in Int
         /\ lastSequence[p.node] > 0 => p.seq > lastSequence[p.node]
         /\ lastSequence' = [lastSequence EXCEPT ![p.node] = p.seq]
         /\ seenSequences' = [seenSequences EXCEPT ![p.node] =
              Integrity!Remember(seenSequences[p.node], p.seq, Window)]
         /\ resets' = resets
<1>1. /\ Integrity!IntegrityPass(p) /\ resets' = resets
  BY DEF PassedOn, Passed
<1>2. p.node \in Nodes /\ p.seq \in Int /\ lastSequence[p.node] \in Int
  BY RawPacketFields, SeqsInt DEF TypeOK
<1>3. ~ (p.seq <= 0) /\ ~ Integrity!OutOfOrder(lastSequence[p.node], p.seq)
  BY <1>1 DEF Integrity!IntegrityPass, Integrity!IntegrityError
<1>4. p.seq > 0 /\ (lastSequence[p.node] > 0 => p.seq > lastSequence[p.node])
  BY <1>2, <1>3 DEF Integrity!OutOfOrder
<1>5. QED
  BY <1>1, <1>2, <1>4 DEF Integrity!IntegrityPass

(* The entries of the trail can be compared.                               *)
LEMMA TrailTypes ==
  ASSUME TypeOK, NEW i \in 1 .. Len(trail)
  PROVE  /\ trail[i] \in Entry
         /\ trail[i].packet.node \in Nodes /\ trail[i].packet.seq \in Int
         /\ trail[i].era \in Nat
<1>1. trail[i] \in Entry
  BY DEF TypeOK
<1>2. QED
  BY <1>1, SeqsInt DEF Entry

(* Letting a packet past the integrity check keeps the trail's numbers     *)
(* increasing within an era and below the car's new last number.           *)
LEMMA PassedOnKeepsTrail ==
  ASSUME TypeOK, TrailBelowLast, RelayNumbersUsedOnce, NEW p \in RawPackets, PassedOn(p)
  PROVE  TrailBelowLast' /\ RelayNumbersUsedOnce'
<1>1. PICK e \in Entry : /\ trail' = Append(trail, e)
                         /\ e.packet.node = p.node /\ e.packet.seq = p.seq
                         /\ e.era = resets[p.node]
  BY TrailGrows
<1>2. /\ Len(trail) \in Nat /\ Len(trail') = Len(trail) + 1
      /\ trail'[Len(trail) + 1] = e
      /\ \A i \in 1 .. Len(trail) : trail'[i] = trail[i]
      /\ \A i \in 1 .. Len(trail') : i \in 1 .. Len(trail) \/ i = Len(trail) + 1
  BY <1>1, TrailAppend
<1>3. /\ p.node \in Nodes /\ p.seq \in Int /\ p.seq > 0
      /\ lastSequence[p.node] > 0 => p.seq > lastSequence[p.node]
      /\ resets' = resets
      /\ lastSequence'[p.node] = p.seq
      /\ \A n \in Nodes : n # p.node => lastSequence'[n] = lastSequence[n]
      /\ \A n \in Nodes : lastSequence[n] \in Int /\ resets[n] \in Nat
  <2>1. /\ p.node \in Nodes /\ p.seq \in Int /\ p.seq > 0
        /\ lastSequence[p.node] > 0 => p.seq > lastSequence[p.node]
        /\ resets' = resets /\ lastSequence' = [lastSequence EXCEPT ![p.node] = p.seq]
    BY PassedNumber
  <2>2. \A n \in Nodes : lastSequence[n] \in Int /\ resets[n] \in Nat
    BY SeqsInt DEF TypeOK
  <2>3. DOMAIN lastSequence = Nodes
    BY DEF TypeOK
  <2>4. QED
    BY <2>1, <2>2, <2>3
<1>4. ASSUME NEW i \in 1 .. Len(trail),
             trail[i].packet.node = p.node, trail[i].era = resets[p.node]
      PROVE  trail[i].packet.seq < p.seq
  BY <1>3, <1>4, TrailTypes DEF TrailBelowLast
<1>5. TrailBelowLast'
  <2> SUFFICES ASSUME NEW i \in 1 .. Len(trail')
               PROVE  LET n == trail'[i].packet.node
                      IN  /\ trail'[i].era <= resets'[n]
                          /\ trail'[i].era = resets'[n] =>
                               /\ 0 < trail'[i].packet.seq
                               /\ trail'[i].packet.seq <= lastSequence'[n]
    BY DEF TrailBelowLast
  <2>1. CASE i = Len(trail) + 1
    BY <1>1, <1>2, <1>3, <2>1
  <2>2. CASE i \in 1 .. Len(trail) /\ trail[i].packet.node = p.node
    BY <1>2, <1>3, <1>4, <2>2, TrailTypes DEF TrailBelowLast
  <2>3. CASE i \in 1 .. Len(trail) /\ trail[i].packet.node # p.node
    BY <1>2, <1>3, <2>3, TrailTypes DEF TrailBelowLast
  <2>4. QED
    BY <1>2, <2>1, <2>2, <2>3
<1>6. RelayNumbersUsedOnce'
  <2> SUFFICES ASSUME NEW i \in 1 .. Len(trail'), NEW j \in 1 .. Len(trail'), i < j,
                      trail'[i].packet.node = trail'[j].packet.node,
                      trail'[i].era = trail'[j].era
               PROVE  trail'[i].packet.seq < trail'[j].packet.seq
    BY DEF RelayNumbersUsedOnce
  <2>1. i \in 1 .. Len(trail)
    BY <1>2
  <2>2. CASE j \in 1 .. Len(trail)
    BY <1>2, <2>1, <2>2 DEF RelayNumbersUsedOnce
  <2>3. CASE j = Len(trail) + 1
    BY <1>1, <1>2, <1>4, <2>1, <2>3
  <2>4. QED
    BY <1>2, <2>2, <2>3
<1>7. QED
  BY <1>5, <1>6

(* Between two resets of a car the relay lets no number past its integrity *)
(* check twice or out of order, whatever becomes of the packet afterwards. *)
THEOREM RelayNumbersNeverReused == Spec => []RelayNumbersUsedOnce
<1>1. Init => TrailBelowLast /\ RelayNumbersUsedOnce
  BY DEF Init, TrailBelowLast, RelayNumbersUsedOnce
<1>2. TypeOK /\ TrailBelowLast /\ RelayNumbersUsedOnce /\ [Next]_vars
        => (TrailBelowLast /\ RelayNumbersUsedOnce)'
  <2> SUFFICES ASSUME TypeOK, TrailBelowLast, RelayNumbersUsedOnce, [Next]_vars
               PROVE  (TrailBelowLast /\ RelayNumbersUsedOnce)'
    OBVIOUS
  <2>1. CASE RelayQuiet
    BY <2>1 DEF RelayQuiet, TrailBelowLast, RelayNumbersUsedOnce
  <2>2. ASSUME NEW n \in Nodes, ResetNode(n)
        PROVE  (TrailBelowLast /\ RelayNumbersUsedOnce)'
    <3>1. /\ trail' = trail
          /\ resets'[n] = resets[n] + 1
          /\ \A m \in Nodes : resets[m] \in Nat
          /\ \A m \in Nodes : m # n => /\ resets'[m] = resets[m]
                                       /\ lastSequence'[m] = lastSequence[m]
      BY <2>2 DEF ResetNode, Integrity!ResetNode, TypeOK
    <3>2. RelayNumbersUsedOnce'
      BY <3>1 DEF RelayNumbersUsedOnce
    <3>3. TrailBelowLast'
      <4> SUFFICES ASSUME NEW i \in 1 .. Len(trail)
                   PROVE  LET m == trail[i].packet.node
                          IN  /\ trail[i].era <= resets'[m]
                              /\ trail[i].era = resets'[m] =>
                                   /\ 0 < trail[i].packet.seq
                                   /\ trail[i].packet.seq <= lastSequence'[m]
        BY <3>1 DEF TrailBelowLast
      <4>1. CASE trail[i].packet.node = n
        BY <3>1, <4>1, TrailTypes DEF TrailBelowLast
      <4>2. CASE trail[i].packet.node # n
        BY <3>1, <4>2, TrailTypes DEF TrailBelowLast
      <4>3. QED
        BY <4>1, <4>2
    <3>4. QED
      BY <3>2, <3>3
  <2>3. ASSUME NEW p \in RawPackets, PassedOn(p)
        PROVE  (TrailBelowLast /\ RelayNumbersUsedOnce)'
    BY <2>3, PassedOnKeepsTrail
  <2>4. QED
    BY <2>1, <2>2, <2>3, RelayStepKinds
<1>3. QED
  BY <1>1, <1>2, RelayTypeCorrect, PTL DEF Spec

-----------------------------------------------------------------------------
(* A step keeps every window in (0, last].                                 *)
LEMMA WindowStep ==
  ASSUME TypeOK, WindowBelowLast, [Next]_vars
  PROVE  WindowBelowLast'
<1>1. CASE RelayQuiet
  BY <1>1 DEF RelayQuiet, WindowBelowLast
<1>2. ASSUME NEW n \in Nodes, ResetNode(n) PROVE WindowBelowLast'
  BY <1>2 DEF ResetNode, Integrity!ResetNode, TypeOK, WindowBelowLast
<1>3. ASSUME NEW p \in RawPackets, PassedOn(p) PROVE WindowBelowLast'
  <2>1. /\ p.node \in Nodes /\ p.seq \in Int /\ p.seq > 0 /\ p.seq \in Seqs
        /\ lastSequence[p.node] > 0 => p.seq > lastSequence[p.node]
        /\ lastSequence[p.node] \in Int
        /\ lastSequence'[p.node] = p.seq
        /\ seenSequences'[p.node] =
             Integrity!Remember(seenSequences[p.node], p.seq, Window)
        /\ \A n \in Nodes : n # p.node => /\ lastSequence'[n] = lastSequence[n]
                                          /\ seenSequences'[n] = seenSequences[n]
    BY <1>3, PassedNumber, RawPacketFields DEF TypeOK
  <2>2. seenSequences[p.node] \in SUBSET Seqs
    BY <2>1 DEF TypeOK
  <2>3. seenSequences'[p.node] \subseteq seenSequences[p.node] \cup {p.seq}
    BY <2>1, <2>2, RememberType
  <2>4. \A s \in seenSequences[p.node] :
          s \in Int /\ 0 < s /\ s <= lastSequence[p.node]
    BY <2>1, <2>2, SeqsInt DEF WindowBelowLast
  <2>5. \A s \in seenSequences'[p.node] : 0 < s /\ s <= lastSequence'[p.node]
    BY <2>1, <2>3, <2>4
  <2>6. QED
    BY <2>1, <2>5 DEF WindowBelowLast
<1>4. QED
  BY <1>1, <1>2, <1>3, RelayStepKinds

(* A check that finds a replay finds it out of order too.                  *)
LEMMA ReplayCounted ==
  ASSUME TypeOK, WindowBelowLast, NEW p \in RawPackets, Integrity!CountIntegrity(p),
         integrityCounts.replay <= integrityCounts.outOfOrder
  PROVE  integrityCounts'.replay <= integrityCounts'.outOfOrder
<1>1. p.node \in Nodes /\ p.seq \in Int /\ lastSequence[p.node] \in Int
  BY RawPacketFields, SeqsInt DEF TypeOK
<1>2. Integrity!IsReplay(p) => Integrity!OutOfOrder(lastSequence[p.node], p.seq)
  BY <1>1 DEF Integrity!IsReplay, Integrity!OutOfOrder, WindowBelowLast
<1>3. Integrity!One(Integrity!IsReplay(p))
        <= Integrity!One(Integrity!OutOfOrder(lastSequence[p.node], p.seq))
  BY <1>2 DEF Integrity!One
<1>4. /\ Integrity!One(Integrity!IsReplay(p)) \in Nat
      /\ Integrity!One(Integrity!OutOfOrder(lastSequence[p.node], p.seq)) \in Nat
  BY DEF Integrity!One
<1>5. integrityCounts.replay \in Nat /\ integrityCounts.outOfOrder \in Nat
  BY DEF TypeOK
<1>6. QED
  BY <1>3, <1>4, <1>5, IntegrityCounted

(* The ordering test alone catches every replay that the window would, so  *)
(* what the window has evicted is not let through.                         *)
THEOREM ReplaysAlwaysOutOfOrder == Spec => []ReplaysAreOutOfOrder
<1>1. Init => ReplaysAreOutOfOrder
  BY DEF Init, Integrity!IntegrityInit, ReplaysAreOutOfOrder
<1>2. TypeOK /\ ReplaysAreOutOfOrder /\ [Next]_vars => ReplaysAreOutOfOrder'
  <2> SUFFICES ASSUME TypeOK, ReplaysAreOutOfOrder, [Next]_vars
               PROVE  ReplaysAreOutOfOrder'
    OBVIOUS
  <2>1. /\ WindowBelowLast
        /\ integrityCounts.replay <= integrityCounts.outOfOrder
    BY DEF ReplaysAreOutOfOrder, WindowBelowLast
  <2>2. WindowBelowLast'
    BY <2>1, WindowStep
  <2>3. integrityCounts'.replay <= integrityCounts'.outOfOrder
    <3>1. CASE UNCHANGED integrityCounts
      BY <2>1, <3>1
    <3>2. ASSUME NEW p \in RawPackets, ProcessPacket(p)
          PROVE  UNCHANGED integrityCounts \/ Integrity!CountIntegrity(p)
      BY <3>2 DEF ProcessPacket, RaiseOnHex, DropUnparsed, DropUndecrypted,
                  DropIntegrity, Integrity!IntegrityFail, DropAnomalous,
                  DropUnencryptable, Forward, Passed, Integrity!IntegrityPass,
                  integrityVars
    <3>3. QED
      BY <2>1, <3>1, <3>2, ReplayCounted
      DEF Next, SetupCarSession, UpdateSession, SetupValidatorSession, ResetNode,
          Integrity!ResetNode, Tick, integrityVars, vars
  <2>4. QED
    BY <2>2, <2>3 DEF ReplaysAreOutOfOrder, WindowBelowLast
<1>3. QED
  BY <1>1, <1>2, RelayTypeCorrect, PTL DEF Spec

-----------------------------------------------------------------------------
(* A packet that is decrypted adds one to the decryptor's first counter.   *)
LEMMA DecryptedCounted ==
  ASSUME TypeOK, NEW p, Decrypted(p)
  PROVE  /\ decryptCounts'.decrypted = decryptCounts.decrypted + 1
         /\ decryptCounts'.failed = decryptCounts.failed
         /\ decryptCounts'.tampered = decryptCounts.tampered
BY DEF Decrypted, TypeOK

(* The counters of the node that RelayStagesAgree speaks about, one by one, *)
(* when those in fields are incremented.                                   *)
StatsStep(fields) ==
  LET Adds(f) == stats'[f] = stats[f] + (IF f \in fields THEN 1 ELSE 0)
  IN  /\ Adds("received") /\ Adds("forwarded") /\ Adds("dropped") /\ Adds("decrypted")
      /\ Adds("integrity_passed") /\ Adds("integrity_failed")
      /\ Adds("anomaly_clean") /\ Adds("anomaly_flagged") /\ Adds("anomaly_rejected")
      /\ Adds("reencrypted")

CountersAreNat ==
  /\ stats["received"] \in Nat /\ stats["forwarded"] \in Nat
  /\ stats["dropped"] \in Nat /\ stats["decrypted"] \in Nat
  /\ stats["integrity_passed"] \in Nat /\ stats["integrity_failed"] \in Nat
  /\ stats["anomaly_clean"] \in Nat /\ stats["anomaly_flagged"] \in Nat
  /\ stats["anomaly_rejected"] \in Nat /\ stats["reencrypted"] \in Nat
  /\ integrityCounts.checked \in Nat /\ integrityCounts.passed \in Nat
  /\ integrityCounts.failed \in Nat
  /\ anomalyCounts.checked \in Nat /\ anomalyCounts.flagged \in Nat
  /\ anomalyCounts.rejected \in Nat
  /\ decryptCounts.decrypted \in Nat /\ decryptCounts.failed \in Nat
  /\ decryptCounts.tampered \in Nat
  /\ reencryptCounts.reencrypted \in Nat /\ reencryptCounts.failed \in Nat
  /\ Len(trail) \in Nat

(* The type invariant says so of each of them.                             *)
LEMMA CountersNat == ASSUME TypeOK PROVE CountersAreNat
<1>1. \A f \in StatFields : stats[f] \in Nat
  BY DEF TypeOK
<1>2. QED
  BY <1>1 DEF TypeOK, CountersAreNat, StatFields

(* Bump increments exactly the counters it is given.                       *)
LEMMA BumpSteps ==
  ASSUME TypeOK, NEW fields, Bump(fields)
  PROVE  StatsStep(fields)
<1>1. \A f \in StatFields :
        stats'[f] = stats[f] + (IF f \in fields THEN 1 ELSE 0)
  BY BumpStats DEF TypeOK
<1>2. QED
  BY <1>1 DEF StatsStep, StatFields

(* One packet's effect on the counters of the node and of each stage: dr,  *)
(* fw: dropped, forwarded; pa, fa: past the integrity check, failed there; *)
(* cl, fl, rj: clean, flagged, rejected; rf: failed in re-encryption.      *)
NodeDeltas(dr, fw, pa, fa, cl, fl, rj) ==
  /\ stats'["received"] = stats["received"] + 1
  /\ stats'["dropped"] = stats["dropped"] + dr
  /\ stats'["forwarded"] = stats["forwarded"] + fw
  /\ stats'["reencrypted"] = stats["reencrypted"] + fw
  /\ stats'["decrypted"] = stats["decrypted"] + (pa + fa)
  /\ stats'["integrity_passed"] = stats["integrity_passed"] + pa
  /\ stats'["integrity_failed"] = stats["integrity_failed"] + fa
  /\ stats'["anomaly_clean"] = stats["anomaly_clean"] + cl
  /\ stats'["anomaly_flagged"] = stats["anomaly_flagged"] + fl
  /\ stats'["anomaly_rejected"] = stats["anomaly_rejected"] + rj

IntegrityDeltas(pa, fa) ==
  /\ integrityCounts'.checked = integrityCounts.checked + (pa + fa)
  /\ integrityCounts'.passed = integrityCounts.passed + pa
  /\ integrityCounts'.failed = integrityCounts.failed + fa

AnomalyDeltas(pa, fl, rj) ==
  /\ anomalyCounts'.checked = anomalyCounts.checked + pa
  /\ anomalyCounts'.flagged = anomalyCounts.flagged + fl
  /\ anomalyCounts'.rejected = anomalyCounts.rejected + rj

DecryptDeltas(n) ==
  /\ decryptCounts'.decrypted >= decryptCounts.decrypted + n
  /\ decryptCounts'.tampered <= decryptCounts'.failed
  /\ decryptCounts'.decrypted \in Nat

ReencryptDeltas(fw, rf) ==
  /\ reencryptCounts'.reencrypted = reencryptCounts.reencrypted + (fw + rf)
  /\ reencryptCounts'.failed = reencryptCounts.failed + rf

(* Counters that agree and grow together keep agreeing.                    *)
LEMMA DeltasAgree ==
  ASSUME RelayStagesAgree, CountersAreNat,
         NEW dr \in Nat, NEW fw \in Nat, NEW pa \in Nat, NEW fa \in Nat,
         NEW cl \in Nat, NEW fl \in Nat, NEW rj \in Nat, NEW rf \in Nat,
         dr + fw <= 1, cl + fl + rj = pa,
         NodeDeltas(dr, fw, pa, fa, cl, fl, rj),
         IntegrityDeltas(pa, fa), AnomalyDeltas(pa, fl, rj),
         DecryptDeltas(pa + fa), ReencryptDeltas(fw, rf),
         Len(trail') = Len(trail) + pa
  PROVE  RelayStagesAgree'
<1>1. stats'["forwarded"] + stats'["dropped"] <= stats'["received"]
  <2>1. /\ stats'["received"] = stats["received"] + 1
        /\ stats'["dropped"] = stats["dropped"] + dr
        /\ stats'["forwarded"] = stats["forwarded"] + fw
        /\ stats["received"] \in Nat /\ stats["dropped"] \in Nat
        /\ stats["forwarded"] \in Nat
        /\ stats["forwarded"] + stats["dropped"] <= stats["received"]
    BY DEF RelayStagesAgree, CountersAreNat, NodeDeltas
  <2>2. \A a, b, c \in Nat : a + b <= c => (a + fw) + (b + dr) <= c + 1
    OBVIOUS
  <2>3. (stats["forwarded"] + fw) + (stats["dropped"] + dr) <= stats["received"] + 1
    BY <2>1, <2>2
  <2>4. QED
    BY <2>1, <2>3
<1>2. /\ stats'["decrypted"] = integrityCounts'.checked
      /\ stats'["integrity_passed"] = integrityCounts'.passed
      /\ stats'["integrity_failed"] = integrityCounts'.failed
  BY DEF RelayStagesAgree, NodeDeltas, IntegrityDeltas
<1>3. /\ anomalyCounts'.checked = integrityCounts'.passed
      /\ anomalyCounts'.rejected = stats'["anomaly_rejected"]
      /\ anomalyCounts'.flagged = stats'["anomaly_flagged"]
  BY DEF RelayStagesAgree, NodeDeltas, IntegrityDeltas, AnomalyDeltas
<1>4. /\ reencryptCounts'.reencrypted = stats'["reencrypted"] + reencryptCounts'.failed
      /\ stats'["reencrypted"] = stats'["forwarded"]
  <2>1. /\ stats'["reencrypted"] = stats["reencrypted"] + fw
        /\ stats'["forwarded"] = stats["forwarded"] + fw
        /\ reencryptCounts'.reencrypted = reencryptCounts.reencrypted + (fw + rf)
        /\ reencryptCounts'.failed = reencryptCounts.failed + rf
        /\ stats["reencrypted"] \in Nat /\ reencryptCounts.failed \in Nat
        /\ reencryptCounts.reencrypted = stats["reencrypted"] + reencryptCounts.failed
        /\ stats["reencrypted"] = stats["forwarded"]
    BY DEF RelayStagesAgree, CountersAreNat, NodeDeltas, ReencryptDeltas
  <2>2. QED
    BY <2>1
<1>5. /\ decryptCounts'.tampered <= decryptCounts'.failed
      /\ stats'["decrypted"] <= decryptCounts'.decrypted
  <2>1. /\ stats'["decrypted"] = stats["decrypted"] + (pa + fa)
        /\ decryptCounts'.decrypted >= decryptCounts.decrypted + (pa + fa)
        /\ decryptCounts'.tampered <= decryptCounts'.failed
        /\ stats["decrypted"] \in Nat /\ decryptCounts.decrypted \in Nat
        /\ decryptCounts'.decrypted \in Nat
        /\ stats["decrypted"] <= decryptCounts.decrypted
    BY DEF RelayStagesAgree, CountersAreNat, NodeDeltas, DecryptDeltas
  <2>2. QED
    BY <2>1
<1>6. Len(trail') = stats'["anomaly_clean"] + stats'["anomaly_flagged"]
                      + stats'["anomaly_rejected"]
  <2> DEFINE c == stats["anomaly_clean"]
             f == stats["anomaly_flagged"]
             r == stats["anomaly_rejected"]
  <2>1. c \in Nat /\ f \in Nat /\ r \in Nat /\ Len(trail) = c + f + r
    BY DEF RelayStagesAgree, CountersAreNat
  <2>2. /\ stats'["anomaly_clean"] = c + cl /\ stats'["anomaly_flagged"] = f + fl
        /\ stats'["anomaly_rejected"] = r + rj
    BY DEF NodeDeltas
  <2> HIDE DEF c, f, r
  <2>3. (c + cl) + (f + fl) + (r + rj) = (c + f + r) + pa
    <3>1. (c + cl) + (f + fl) + (r + rj) = (c + f + r) + (cl + fl + rj)
      BY <2>1
    <3>2. QED
      BY <3>1
  <2>4. Len(trail') = (c + f + r) + pa
    BY <2>1
  <2>5. QED
    BY <2>2, <2>3, <2>4
<1>7. QED
  BY <1>1, <1>2, <1>3, <1>4, <1>5, <1>6 DEF RelayStagesAgree

(* A stage that is not reached adds nothing to its counters.               *)
LEMMA StagesStill ==
  ASSUME CountersAreNat, RelayStagesAgree
  PROVE  /\ integrityCounts' = integrityCounts => IntegrityDeltas(0, 0)
         /\ anomalyCounts' = anomalyCounts => AnomalyDeltas(0, 0, 0)
         /\ decryptCounts' = decryptCounts => DecryptDeltas(0)
         /\ reencryptCounts' = reencryptCounts => ReencryptDeltas(0, 0)
         /\ trail' = trail => Len(trail') = Len(trail) + 0
<1>1. integrityCounts' = integrityCounts => IntegrityDeltas(0, 0)
  <2>1. /\ integrityCounts.checked \in Nat /\ integrityCounts.passed \in Nat
        /\ integrityCounts.failed \in Nat
    BY DEF CountersAreNat
  <2>2. QED
    BY <2>1 DEF IntegrityDeltas
<1>2. anomalyCounts' = anomalyCounts => AnomalyDeltas(0, 0, 0)
  <2>1. /\ anomalyCounts.checked \in Nat /\ anomalyCounts.flagged \in Nat
        /\ anomalyCounts.rejected \in Nat
    BY DEF CountersAreNat
  <2>2. QED
    BY <2>1 DEF AnomalyDeltas
<1>3. decryptCounts' = decryptCounts => DecryptDeltas(0)
  <2>1. decryptCounts.decrypted \in Nat /\ decryptCounts.tampered <= decryptCounts.failed
    BY DEF CountersAreNat, RelayStagesAgree
  <2>2. QED
    BY <2>1 DEF DecryptDeltas
<1>4. reencryptCounts' = reencryptCounts => ReencryptDeltas(0, 0)
  <2>1. reencryptCounts.reencrypted \in Nat /\ reencryptCounts.failed \in Nat
    BY DEF CountersAreNat
  <2>2. QED
    BY <2>1 DEF ReencryptDeltas
<1>5. trail' = trail => Len(trail') = Len(trail) + 0
  <2>1. Len(trail) \in Nat
    BY DEF CountersAreNat
  <2>2. QED
    BY <2>1
<1>6. QED
  BY <1>1, <1>2, <1>3, <1>4, <1>5

(* What letting a packet past the integrity check does to the counters of  *)
(* the node and of the stages before re-encryption: the anomaly filter     *)
(* counts the packet under exactly one of its three verdicts.              *)
PassedCounts(dr, fw) ==
  \E cl, fl, rj \in Nat :
    /\ cl + fl + rj = 1
    /\ NodeDeltas(dr, fw, 1, 0, cl, fl, rj)
    /\ AnomalyDeltas(1, fl, rj)

(* Letting a packet past the integrity check has that effect.              *)
LEMMA PassedCounted ==
  ASSUME TypeOK, NEW p \in RawPackets, NEW fate \in Fates, Passed(p, fate),
         NEW more, Bump(Counted(p) \cup more), NEW dr, NEW fw,
         \/ more = {"dropped"} /\ dr = 1 /\ fw = 0
         \/ more = {"reencrypted", "forwarded"} /\ dr = 0 /\ fw = 1
  PROVE  PassedCounts(dr, fw)
<1>1. Anomaly!AnomalyCheck(p.node, p.payload)
  BY DEF Passed
<1>2. p.node \in Nodes /\ p.payload \in Payloads
  BY RawPacketFields
<1> DEFINE sev == Anomaly!Severity(p.node, p.payload)
           cl == IF sev = "PASS" THEN 1 ELSE 0
           fl == IF sev = "FLAG" THEN 1 ELSE 0
           rj == IF sev = "REJECT" THEN 1 ELSE 0
<1>3. sev \in {"REJECT", "FLAG", "PASS"}
  BY DEF Anomaly!Severity
<1>4. AnomalyDeltas(1, fl, rj)
  BY <1>1, <1>2, AnomalyCounted DEF AnomalyDeltas
<1>5. Counted(p) = {"received", "parsed", "decrypted", "integrity_passed",
                    CASE sev = "REJECT" -> "anomaly_rejected"
                      [] sev = "FLAG" -> "anomaly_flagged"
                      [] sev = "PASS" -> "anomaly_clean"}
  BY <1>3 DEF Counted
<1>6. StatsStep(Counted(p) \cup more)
  BY BumpSteps
<1> HIDE DEF sev
<1>7. NodeDeltas(dr, fw, 1, 0, cl, fl, rj)
  BY <1>3, <1>5, <1>6 DEF StatsStep, NodeDeltas
<1>8. cl \in Nat /\ fl \in Nat /\ rj \in Nat /\ cl + fl + rj = 1
  BY <1>3
<1>9. QED
  BY <1>4, <1>7, <1>8 DEF PassedCounts

(* Past the integrity check, the counters still agree, whichever way the   *)
(* packet leaves the relay.                                                *)
LEMMA PassedAgrees ==
  ASSUME TypeOK, RelayStagesAgree,
         NEW p \in RawPackets, NEW fate \in Fates, Passed(p, fate),
         NEW dr \in Nat, NEW fw \in Nat, dr + fw <= 1, PassedCounts(dr, fw),
         NEW rf \in Nat, ReencryptDeltas(fw, rf)
  PROVE  RelayStagesAgree'
<1>1. CountersAreNat
  BY CountersNat
<1>2. Decrypted(p) /\ Integrity!CountIntegrity(p) /\ ~ Integrity!IntegrityError(p)
  BY DEF Passed, Integrity!IntegrityPass
<1>3. IntegrityDeltas(1, 0)
  <2>1. /\ Integrity!One(~ Integrity!IntegrityError(p)) = 1
        /\ Integrity!One(Integrity!IntegrityError(p)) = 0
    BY <1>2 DEF Integrity!One
  <2>2. QED
    BY <1>2, <2>1, IntegrityCounted DEF IntegrityDeltas
<1>4. DecryptDeltas(1 + 0)
  <2>1. /\ decryptCounts.decrypted \in Nat
        /\ decryptCounts.tampered <= decryptCounts.failed
    BY <1>1 DEF CountersAreNat, RelayStagesAgree
  <2>2. QED
    BY <1>2, <2>1, DecryptedCounted DEF DecryptDeltas
<1>5. Len(trail') = Len(trail) + 1
  BY DEF Passed, TypeOK
<1>6. PICK cl \in Nat, fl \in Nat, rj \in Nat :
        /\ cl + fl + rj = 1
        /\ NodeDeltas(dr, fw, 1, 0, cl, fl, rj)
        /\ AnomalyDeltas(1, fl, rj)
  BY DEF PassedCounts
<1>7. QED
  BY <1>1, <1>3, <1>4, <1>5, <1>6, DeltasAgree

(* The counters of the relay's five stages and of the node account for     *)
(* each other on every exit of process_packet, for any number of packets.  *)
THEOREM RelayStagesAlwaysAgree == Spec => []RelayStagesAgree
<1>1. Init => RelayStagesAgree
  BY DEF Init, Integrity!IntegrityInit, Anomaly!AnomalyInit, RelayStagesAgree, StatFields
<1>2. TypeOK /\ RelayStagesAgree /\ [Next]_vars => RelayStagesAgree'
  <2> SUFFICES ASSUME TypeOK, RelayStagesAgree, [Next]_vars
               PROVE  RelayStagesAgree'
    OBVIOUS
  <2>0. CountersAreNat
    BY CountersNat
  <2>1. CASE UNCHANGED <<stats, integrityCounts, anomalyCounts, decryptCounts,
                         reencryptCounts, trail>>
    BY <2>1 DEF RelayStagesAgree
  <2>2. ASSUME NEW p \in RawPackets, ProcessPacket(p)
        PROVE  RelayStagesAgree'
    <3> USE DEF sessionVars, integrityVars, anomalyVars, countVars
    <3>1. CASE RaiseOnHex(p)
      <4>1. NodeDeltas(0, 0, 0, 0, 0, 0, 0)
        BY <3>1, BumpSteps DEF RaiseOnHex, StatsStep, NodeDeltas
      <4>2. /\ integrityCounts' = integrityCounts /\ anomalyCounts' = anomalyCounts
            /\ decryptCounts' = decryptCounts /\ reencryptCounts' = reencryptCounts
            /\ trail' = trail
        BY <3>1 DEF RaiseOnHex
      <4>3. QED
        BY <2>0, <4>1, <4>2, StagesStill, DeltasAgree
    <3>2. CASE DropUnparsed(p)
      <4>1. NodeDeltas(1, 0, 0, 0, 0, 0, 0)
        BY <3>2, BumpSteps DEF DropUnparsed, StatsStep, NodeDeltas
      <4>2. /\ integrityCounts' = integrityCounts /\ anomalyCounts' = anomalyCounts
            /\ decryptCounts' = decryptCounts /\ reencryptCounts' = reencryptCounts
            /\ trail' = trail
        BY <3>2 DEF DropUnparsed
      <4>3. QED
        BY <2>0, <4>1, <4>2, StagesStill, DeltasAgree
    <3>3. CASE DropUndecrypted(p)
      <4>1. NodeDeltas(1, 0, 0, 0, 0, 0, 0)
        BY <3>3, BumpSteps DEF DropUndecrypted, StatsStep, NodeDeltas
      <4>2. /\ decryptCounts'.decrypted >= decryptCounts.decrypted
            /\ decryptCounts'.tampered <= decryptCounts'.failed
            /\ decryptCounts'.decrypted \in Nat
        BY <3>3, UndecryptedType DEF RelayStagesAgree, DecryptCounts
      <4>3. DecryptDeltas(0)
        <5>1. decryptCounts.decrypted \in Nat
          BY <2>0 DEF CountersAreNat
        <5>2. QED
          BY <5>1, <4>2 DEF DecryptDeltas
      <4>4. /\ integrityCounts' = integrityCounts /\ anomalyCounts' = anomalyCounts
            /\ reencryptCounts' = reencryptCounts /\ trail' = trail
        BY <3>3 DEF DropUndecrypted
      <4>5. QED
        BY <2>0, <4>1, <4>3, <4>4, StagesStill, DeltasAgree
    <3>4. CASE DropIntegrity(p)
      <4>1. NodeDeltas(1, 0, 0, 1, 0, 0, 0)
        BY <3>4, BumpSteps DEF DropIntegrity, StatsStep, NodeDeltas
      <4>2. /\ Decrypted(p) /\ Integrity!CountIntegrity(p)
            /\ Integrity!IntegrityError(p)
        BY <3>4 DEF DropIntegrity, Integrity!IntegrityFail
      <4>3. IntegrityDeltas(0, 1)
        <5>1. /\ Integrity!One(~ Integrity!IntegrityError(p)) = 0
              /\ Integrity!One(Integrity!IntegrityError(p)) = 1
          BY <4>2 DEF Integrity!One
        <5>2. /\ integrityCounts'.checked = integrityCounts.checked + 1
              /\ integrityCounts'.passed = integrityCounts.passed
                   + Integrity!One(~ Integrity!IntegrityError(p))
              /\ integrityCounts'.failed = integrityCounts.failed
                   + Integrity!One(Integrity!IntegrityError(p))
          BY <4>2, IntegrityCounted
        <5>3. QED
          BY <5>1, <5>2 DEF IntegrityDeltas
      <4>4. DecryptDeltas(0 + 1)
        <5>1. /\ decryptCounts.decrypted \in Nat
              /\ decryptCounts.tampered <= decryptCounts.failed
          BY <2>0 DEF CountersAreNat, RelayStagesAgree
        <5>2. QED
          BY <4>2, <5>1, DecryptedCounted DEF DecryptDeltas
      <4>5. /\ anomalyCounts' = anomalyCounts
            /\ reencryptCounts' = reencryptCounts /\ trail' = trail
        BY <3>4 DEF DropIntegrity
      <4>6. QED
        BY <2>0, <4>1, <4>3, <4>4, <4>5, StagesStill, DeltasAgree
    <3>5. CASE DropAnomalous(p)
      <4>1. /\ Passed(p, "anomaly_rejected") /\ Bump(Counted(p) \cup {"dropped"})
            /\ reencryptCounts' = reencryptCounts
        BY <3>5 DEF DropAnomalous
      <4>2. PassedCounts(1, 0)
        BY <4>1, PassedCounted DEF Fates
      <4>3. ReencryptDeltas(0, 0)
        BY <2>0, <4>1, StagesStill
      <4>4. QED
        BY <4>1, <4>2, <4>3, PassedAgrees DEF Fates
    <3>6. CASE DropUnencryptable(p)
      <4>1. Passed(p, "reencryption_failed") /\ Bump(Counted(p) \cup {"dropped"})
        BY <3>6 DEF DropUnencryptable
      <4>2. \/ reencryptCounts' = reencryptCounts
            \/ /\ reencryptCounts'.reencrypted = reencryptCounts.reencrypted + 1
               /\ reencryptCounts'.failed = reencryptCounts.failed + 1
        BY <3>6, ReencryptBoth DEF DropUnencryptable
      <4>3. PassedCounts(1, 0)
        BY <4>1, PassedCounted DEF Fates
      <4>4. ReencryptDeltas(0, 0) \/ ReencryptDeltas(0, 1)
        BY <2>0, <4>2, StagesStill DEF ReencryptDeltas
      <4>5. QED
        BY <4>1, <4>3, <4>4, PassedAgrees DEF Fates
    <3>7. CASE Forward(p)
      <4>1. /\ Passed(p, "forwarded")
            /\ Bump(Counted(p) \cup {"reencrypted", "forwarded"})
        BY <3>7 DEF Forward
      <4>2. /\ reencryptCounts'.reencrypted = reencryptCounts.reencrypted + 1
            /\ reencryptCounts'.failed = reencryptCounts.failed
        BY <3>7, ReencryptOne DEF Forward
      <4>3. PassedCounts(0, 1)
        BY <4>1, PassedCounted DEF Fates
      <4>4. ReencryptDeltas(1, 0)
        BY <2>0, <4>2 DEF ReencryptDeltas, CountersAreNat
      <4>5. QED
        BY <4>1, <4>3, <4>4, PassedAgrees DEF Fates
    <3>8. QED
      BY <2>2, <3>1, <3>2, <3>3, <3>4, <3>5, <3>6, <3>7 DEF ProcessPacket
  <2>3. QED
    BY <2>1, <2>2
    DEF Next, SetupCarSession, UpdateSession, SetupValidatorSession, ResetNode,
        Integrity!ResetNode, Tick, integrityVars, anomalyVars, countVars, vars
<1>3. QED
  BY <1>1, <1>2, RelayTypeCorrect, PTL DEF Spec
=============================================================================
