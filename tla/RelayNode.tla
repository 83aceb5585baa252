------------------------------ MODULE RelayNode ------------------------------
(***************************************************************************)
(* relay-node/src/main.py: RelayNode, which decrypts a car's packet,       *)
(* checks it and re-encrypts it for the validator, with PacketParser,      *)
(* RelayDecryptor, IntegrityChecker, AnomalyFilter and RelayReencryptor.   *)
(* process_packet runs to completion before the next packet is taken, so   *)
(* each of its exits is one action.                                        *)
(***************************************************************************)
EXTENDS Integers, Sequences, FiniteSets

CONSTANTS
  Nodes, Seqs, Times, SessionKeys, SignKeys, NoKey,
  Pending,          (* an engine whose handshake is not complete *)
  CheckTimestamps, CheckSignatures, MaxTimestampAge, Window,
  Channels, PhysicalLimits, Thresholds, RocLimits,
  Readings,         (* the values a channel may show *)
  RawPackets,       (* what may arrive from the cars *)
  MaxReceived, MaxResets    (* bounds *)

(* What a packet carries: a value for each of some of the channels.        *)
Payloads == UNION {[C -> Readings] : C \in SUBSET Channels}

(* A packet as it arrives.                                                 *)
(*   form    - "ok"; "unparsable": not JSON or a field missing; "badhex":  *)
(*             nonce, ciphertext or header_hex is not hexadecimal;         *)
(*             "invalid": refused by validate_json_packet                  *)
(*   key, intact - the session key it was encrypted with, and whether      *)
(*             nonce, ciphertext and header arrived as they were sent      *)
(*   json    - whether the plaintext is JSON                               *)
(*   sig     - the signature field; signer: the key it verifies under      *)
(*   header  - the sequence number in the header; seq, ts: the metadata    *)
RawPacketType ==
  [form : {"ok", "unparsable", "badhex", "invalid"},
   node : Nodes, key : SessionKeys, intact : BOOLEAN, json : BOOLEAN,
   sig : {"present", "absent", "badhex"}, signer : SignKeys \cup {NoKey},
   header : Seqs, seq : Seqs, ts : Times,
   payload : Payloads]

ASSUME RelayAssumption ==
  /\ Seqs \subseteq Int /\ 0 \in Seqs
  /\ Times \subseteq Nat /\ 0 \in Times
  /\ MaxTimestampAge \in Nat /\ Window \in Nat \ {0}
  /\ CheckTimestamps \in BOOLEAN /\ CheckSignatures \in BOOLEAN
  /\ NoKey \notin SessionKeys \cup SignKeys
  /\ Pending \notin SessionKeys \cup {NoKey}
  /\ Readings \subseteq Int
  /\ MaxReceived \in Nat /\ MaxResets \in Nat

ASSUME RawPacketsAssumption == RawPackets \subseteq RawPacketType

VARIABLES
  sessions,         (* decryptor._sessions: the key of each car's engine *)
  valSession,       (* reencryptor._validator_engine *)
  lastSequence, seenSequences, integrityCounts, now,
  lastValues, anomalyCounts,
  decryptCounts, reencryptCounts, parsedCount,
  stats,            (* _stats *)
  resets,           (* history: how often each car was reset *)
  trail             (* history: the packets that passed the integrity check *)

integrityVars == <<lastSequence, seenSequences, integrityCounts>>
anomalyVars == <<lastValues, anomalyCounts>>
sessionVars == <<sessions, valSession>>
countVars == <<decryptCounts, reencryptCounts, parsedCount, stats>>
vars == <<sessionVars, integrityVars, now, anomalyVars, countVars, resets, trail>>

Integrity == INSTANCE IntegrityChecker
Anomaly == INSTANCE AnomalyFilter

StatFields == {"received", "parsed", "decrypted", "integrity_passed",
               "integrity_failed", "anomaly_clean", "anomaly_flagged",
               "anomaly_rejected", "reencrypted", "forwarded", "dropped"}

Init ==
  /\ sessions = [n \in Nodes |-> NoKey]
  /\ valSession = NoKey
  /\ Integrity!IntegrityInit
  /\ Anomaly!AnomalyInit
  /\ decryptCounts = [decrypted |-> 0, failed |-> 0, tampered |-> 0]
  /\ reencryptCounts = [reencrypted |-> 0, failed |-> 0]
  /\ parsedCount = 0
  /\ stats = [f \in StatFields |-> 0]
  /\ resets = [n \in Nodes |-> 0]
  /\ trail = <<>>

Bump(fields) ==
  stats' = [f \in StatFields |-> IF f \in fields THEN stats[f] + 1 ELSE stats[f]]

-----------------------------------------------------------------------------
(* setup_car_session completes the handshake before it registers.          *)
SetupCarSession(n, k) ==
  /\ sessions' = [sessions EXCEPT ![n] = k]
  /\ UNCHANGED <<valSession, integrityVars, now, anomalyVars, countVars, resets, trail>>

(* update_session installs an engine without asking whether it is          *)
(* established.                                                            *)
UpdateSession(n, k) ==
  /\ sessions' = [sessions EXCEPT ![n] = k]
  /\ UNCHANGED <<valSession, integrityVars, now, anomalyVars, countVars, resets, trail>>

SetupValidatorSession(k) ==
  /\ valSession' = k
  /\ UNCHANGED <<sessions, integrityVars, now, anomalyVars, countVars, resets, trail>>

(* integrity.reset_node: the sequence state goes, the rate-of-change       *)
(* baseline and all counters stay.                                         *)
ResetNode(n) ==
  /\ resets[n] < MaxResets
  /\ Integrity!ResetNode(n)
  /\ resets' = [resets EXCEPT ![n] = @ + 1]
  /\ UNCHANGED <<sessionVars, now, anomalyVars, countVars, trail>>

Tick ==
  /\ now' \in {t \in Times : t > now}
  /\ UNCHANGED <<sessionVars, integrityVars, anomalyVars, countVars, resets, trail>>

-----------------------------------------------------------------------------
(* bytes.fromhex raises a ValueError that process_packet does not catch.   *)
RaiseOnHex(p) ==
  /\ p.form = "badhex"
  /\ Bump({"received"})
  /\ UNCHANGED <<sessionVars, integrityVars, now, anomalyVars, decryptCounts,
                 reencryptCounts, parsedCount, resets, trail>>

DropUnparsed(p) ==
  /\ p.form \in {"unparsable", "invalid"}
  /\ Bump({"received", "dropped"})
  /\ parsedCount' = parsedCount + (IF p.form = "invalid" THEN 1 ELSE 0)
  /\ UNCHANGED <<sessionVars, integrityVars, now, anomalyVars, decryptCounts,
                 reencryptCounts, resets, trail>>

Parsed(p) == p.form = "ok" /\ parsedCount' = parsedCount + 1

Opens(p) == sessions[p.node] = p.key /\ p.intact

(* RelayDecryptor.decrypt: no session leaves the counters alone; a failed  *)
(* tag is a failure and a tamper; a plaintext that is not JSON has been    *)
(* counted as decrypted before it fails.                                   *)
DropUndecrypted(p) ==
  /\ Parsed(p)
  /\ ~ (Opens(p) /\ p.json)
  /\ decryptCounts' =
       CASE sessions[p.node] = NoKey -> decryptCounts
         [] sessions[p.node] = Pending -> [decryptCounts EXCEPT !.failed = @ + 1]
         [] sessions[p.node] \in SessionKeys /\ ~ Opens(p) ->
              [decryptCounts EXCEPT !.failed = @ + 1, !.tampered = @ + 1]
         [] Opens(p) -> [decryptCounts EXCEPT !.decrypted = @ + 1, !.failed = @ + 1]
  /\ Bump({"received", "parsed", "dropped"})
  /\ UNCHANGED <<sessionVars, integrityVars, now, anomalyVars, reencryptCounts,
                 resets, trail>>

Decrypted(p) ==
  /\ Parsed(p) /\ Opens(p) /\ p.json
  /\ decryptCounts' = [decryptCounts EXCEPT !.decrypted = @ + 1]

DropIntegrity(p) ==
  /\ Decrypted(p)
  /\ Integrity!IntegrityFail(p)
  /\ Bump({"received", "parsed", "decrypted", "integrity_failed", "dropped"})
  /\ UNCHANGED <<sessionVars, now, anomalyVars, reencryptCounts, resets, trail>>

(* What the validator is given: the payload under the validator session's  *)
(* key, header, signature and metadata as they came, and no commitment.    *)
Reencrypted(p) ==
  [node |-> p.node, key |-> valSession, intact |-> TRUE, signer |-> p.signer,
   header |-> p.header, seq |-> p.seq, ts |-> p.ts, zkp |-> "absent"]

Passed(p, fate) ==
  /\ Decrypted(p)
  /\ Integrity!IntegrityPass(p)
  /\ Anomaly!AnomalyCheck(p.node, p.payload)
  /\ trail' = Append(trail, [fate |-> fate, era |-> resets[p.node],
                             payload |-> p.payload, packet |-> Reencrypted(p)])
  /\ UNCHANGED <<sessionVars, now, resets>>

(* Faulty variant: flagged packets are counted as clean.                   *)
CountedClean(p) ==
  {"received", "parsed", "decrypted", "integrity_passed"} \cup
  IF Anomaly!Severity(p.node, p.payload) = "REJECT"
  THEN {"anomaly_rejected"} ELSE {"anomaly_clean"}

Counted(p) ==
  {"received", "parsed", "decrypted", "integrity_passed"} \cup
  CASE Anomaly!Severity(p.node, p.payload) = "REJECT" -> {"anomaly_rejected"}
    [] Anomaly!Severity(p.node, p.payload) = "FLAG" -> {"anomaly_flagged"}
    [] Anomaly!Severity(p.node, p.payload) = "PASS" -> {"anomaly_clean"}

DropAnomalous(p) ==
  /\ Anomaly!Severity(p.node, p.payload) = "REJECT"
  /\ Passed(p, "anomaly_rejected")
  /\ Bump(Counted(p) \cup {"dropped"})
  /\ UNCHANGED reencryptCounts

(* reencrypt fails without a validator session, or when the signature is   *)
(* not hexadecimal; in the second case it has counted the encryption.      *)
DropUnencryptable(p) ==
  /\ Anomaly!Severity(p.node, p.payload) # "REJECT"
  /\ valSession = NoKey \/ p.sig = "badhex"
  /\ Passed(p, "reencryption_failed")
  /\ reencryptCounts' = IF valSession = NoKey THEN reencryptCounts
                        ELSE [reencryptCounts EXCEPT !.reencrypted = @ + 1,
                                                     !.failed = @ + 1]
  /\ Bump(Counted(p) \cup {"dropped"})

Forward(p) ==
  /\ Anomaly!Severity(p.node, p.payload) # "REJECT"
  /\ valSession # NoKey /\ p.sig # "badhex"
  /\ Passed(p, "forwarded")
  /\ reencryptCounts' = [reencryptCounts EXCEPT !.reencrypted = @ + 1]
  /\ Bump(Counted(p) \cup {"reencrypted", "forwarded"})

ProcessPacket(p) ==
  \/ RaiseOnHex(p)
  \/ DropUnparsed(p)
  \/ DropUndecrypted(p)
  \/ DropIntegrity(p)
  \/ DropAnomalous(p)
  \/ DropUnencryptable(p)
  \/ Forward(p)

Next ==
  \/ \E n \in Nodes, k \in SessionKeys : SetupCarSession(n, k)
  \/ \E n \in Nodes, k \in SessionKeys \cup {Pending} : UpdateSession(n, k)
  \/ \E k \in SessionKeys : SetupValidatorSession(k)
  \/ \E n \in Nodes : ResetNode(n)
  \/ stats["received"] < MaxReceived /\ \E p \in RawPackets : ProcessPacket(p)
  \/ Tick

Spec == Init /\ [][Next]_vars

-----------------------------------------------------------------------------
Entry ==
  [fate : {"anomaly_rejected", "reencryption_failed", "forwarded"}, era : Nat,
   payload : Payloads,
   packet : [node : Nodes, key : SessionKeys \cup {NoKey}, intact : BOOLEAN,
             signer : SignKeys \cup {NoKey}, header : Seqs, seq : Seqs,
             ts : Times, zkp : {"absent"}]]

(* Every field of the node and of its stages has the shape the code gives  *)
(* it.                                                                     *)
TypeOK ==
  /\ sessions \in [Nodes -> SessionKeys \cup {NoKey, Pending}]
  /\ valSession \in SessionKeys \cup {NoKey}
  /\ lastSequence \in [Nodes -> Seqs \cup {0}]
  /\ seenSequences \in [Nodes -> SUBSET Seqs]
  /\ integrityCounts \in [checked : Nat, passed : Nat, failed : Nat,
                          replay : Nat, outOfOrder : Nat]
  /\ now \in Times
  /\ lastValues \in [Nodes -> Payloads]
  /\ anomalyCounts \in [checked : Nat, flagged : Nat, rejected : Nat]
  /\ decryptCounts \in [decrypted : Nat, failed : Nat, tampered : Nat]
  /\ reencryptCounts \in [reencrypted : Nat, failed : Nat]
  /\ parsedCount \in Nat
  /\ stats \in [StatFields -> Nat]
  /\ resets \in [Nodes -> 0 .. MaxResets]
  /\ trail \in Seq(Entry)

(* Between two resets of a car, the numbers that get past the integrity    *)
(* check increase strictly.  Since the check records a number before the   *)
(* anomaly filter and the re-encryption have their say, a packet dropped   *)
(* there has used its number up: no packet with it is forwarded later.     *)
RelayNumbersUsedOnce ==
  \A i, j \in 1 .. Len(trail) :
    /\ i < j
    /\ trail[i].packet.node = trail[j].packet.node
    /\ trail[i].era = trail[j].era
    => trail[i].packet.seq < trail[j].packet.seq

(* The ordering test alone catches every replay: a number in the window is *)
(* never above the car's last, so the window's eviction cannot let one     *)
(* through and the replay counter never exceeds the out-of-order counter.  *)
ReplaysAreOutOfOrder ==
  /\ \A n \in Nodes : \A s \in seenSequences[n] : 0 < s /\ s <= lastSequence[n]
  /\ integrityCounts.replay <= integrityCounts.outOfOrder

(* The counters of the five stages and of the node account for each other, *)
(* and no packet is counted as both forwarded and dropped.                 *)
RelayStagesAgree ==
  /\ stats["forwarded"] + stats["dropped"] <= stats["received"]
  /\ stats["decrypted"] = integrityCounts.checked
  /\ stats["integrity_passed"] = integrityCounts.passed
  /\ stats["integrity_failed"] = integrityCounts.failed
  /\ anomalyCounts.checked = integrityCounts.passed
  /\ anomalyCounts.rejected = stats["anomaly_rejected"]
  /\ anomalyCounts.flagged = stats["anomaly_flagged"]
  /\ reencryptCounts.reencrypted = stats["reencrypted"] + reencryptCounts.failed
  /\ stats["reencrypted"] = stats["forwarded"]
  /\ decryptCounts.tampered <= decryptCounts.failed
  /\ stats["decrypted"] <= decryptCounts.decrypted
  /\ Len(trail) = stats["anomaly_clean"] + stats["anomaly_flagged"] + stats["anomaly_rejected"]

(* A packet with a physically impossible value in any channel is never     *)
(* forwarded, whatever the other channels of the packet look like.         *)
NoImpossibleForwarded ==
  \A i \in 1 .. Len(trail) :
    trail[i].fate = "forwarded" =>
      \A c \in DOMAIN trail[i].payload : ~ Anomaly!Impossible(c, trail[i].payload[c])

(* The rate-of-change baseline of a channel is its value in the car's last *)
(* packet that carried it and passed the integrity check, whether or not   *)
(* that packet was then dropped.                                           *)
BaselineIsLastPassed ==
  \A i \in 1 .. Len(trail) : \A c \in DOMAIN trail[i].payload :
    LET n == trail[i].packet.node
    IN  (\A j \in i + 1 .. Len(trail) :
           ~ (trail[j].packet.node = n /\ c \in DOMAIN trail[j].payload))
        => c \in DOMAIN lastValues[n] /\ lastValues[n][c] = trail[i].payload[c]

(* The docstring of process_packet: a packet is returned re-encrypted, or  *)
(* None is returned "if packet was dropped".  So every packet received is  *)
(* counted as forwarded or as dropped.                                     *)
ForwardedOrDropped ==
  stats["received"] = stats["forwarded"] + stats["dropped"]
=============================================================================
