---------------------------- MODULE TelemetryFeed ----------------------------
(***************************************************************************)
(* dashboard/components/telemetry_feed.py: TelemetryFeed, the dashboard's  *)
(* own pipeline.  One call drives the parts of car, relay and validator    *)
(* that it built in initialise(), and keeps statistics and histories.      *)
(* A feed is a record; its operations return the feed afterwards.  Both    *)
(* sequence checkers order strictly, so their windows of seen numbers add  *)
(* nothing (see ReplaysAreOutOfOrder) and only the last number is kept.    *)
(* The commitment is made from the payload it is checked against and never *)
(* fails.                                                                  *)
(***************************************************************************)
EXTENDS Sequences, ReplayWindow

CONSTANTS
  RecentCap, AuditCap,  (* 500 and 50 in the code *)
  NoPacket              (* nothing encrypted yet, no result *)

(* What a frame may look like, and the attacks inject_attack knows.        *)
FrameKinds == {"normal", "flag", "impossible", "broken"}
Attacks == {"replay", "tamper", "forge"}

(* A packet on its way through the feed, and what _make_result returns.    *)
PacketType ==
  [seq : Nat, key : Nat, intact : BOOLEAN, signed : BOOLEAN, kind : FrameKinds]

ResultType ==
  [seq : Nat, decision : {"ACCEPT", "FLAG", "REJECT"},
   reason : {"aead_failed", "integrity_failed", "anomaly_rejected", "sig_failed",
             "sequence_failed", "all_checks_passed"},
   attack : Attacks \cup {"none"}]

ASSUME FeedAssumption ==
  /\ RecentCap \in Nat /\ AuditCap \in Nat
  /\ NoPacket \notin PacketType \cup ResultType

AppendBounded(s, x, cap) ==
  IF Len(s) < cap THEN Append(s, x) ELSE Tail(Append(s, x))

(* _reset_state; gen numbers the feed's lists and, once initialised, its   *)
(* session keys.                                                           *)
ResetState(gen) ==
  [ready |-> FALSE, gen |-> gen, next |-> 1, relayLast |-> 0, valLast |-> 0,
   lastEncrypted |-> NoPacket, frames |-> 0,
   total |-> 0, accepted |-> 0, rejected |-> 0, flagged |-> 0,
   recent |-> <<>>, audit |-> <<>>]

(* initialise, when data for the selection can be loaded.                  *)
Initialised(gen) == [ResetState(gen) EXCEPT !.ready = TRUE]

Result(p, decision, reason, attack) ==
  [seq |-> p.seq, decision |-> decision, reason |-> reason, attack |-> attack]

(* The car side: the next frame, built, signed and encrypted.              *)
Built(f, kind) ==
  [seq |-> f.next, key |-> f.gen, intact |-> TRUE, signed |-> TRUE, kind |-> kind]

Taken(f) == [f EXCEPT !.next = @ + 1, !.frames = @ + 1]

(* Which check of process_one_packet a packet fails first.                 *)
ProcessReason(f, p) ==
  IF p.key # f.gen \/ ~ p.intact THEN "aead_failed"
  ELSE IF OutOfOrder(f.relayLast, p.seq) THEN "integrity_failed"
  ELSE IF p.kind = "impossible" THEN "anomaly_rejected"
  ELSE IF ~ p.signed THEN "sig_failed"
  ELSE IF OutOfOrder(f.valLast, p.seq) THEN "sequence_failed"
  ELSE "all_checks_passed"

(* Faulty variant: like the anomaly filter and the commitment, the         *)
(* signature is not verified for an injected packet.                       *)
InjectReasonUnverified(f, p) ==
  IF p.key # f.gen \/ ~ p.intact THEN "aead_failed"
  ELSE IF OutOfOrder(f.relayLast, p.seq) THEN "integrity_failed"
  ELSE IF OutOfOrder(f.valLast, p.seq) THEN "sequence_failed"
  ELSE "all_checks_passed"

(* The same for inject_attack: no anomaly filter, no commitment, and the   *)
(* sequence before the signature.                                          *)
InjectReason(f, p) ==
  IF p.key # f.gen \/ ~ p.intact THEN "aead_failed"
  ELSE IF OutOfOrder(f.relayLast, p.seq) THEN "integrity_failed"
  ELSE IF OutOfOrder(f.valLast, p.seq) THEN "sequence_failed"
  ELSE IF ~ p.signed THEN "sig_failed"
  ELSE "all_checks_passed"

(* How far the packet moved the two checkers before it failed;             *)
(* sequenceFirst tells whether the sequence check comes before the         *)
(* signature check.                                                        *)
Moved(f, p, reason, sequenceFirst) ==
  [f EXCEPT
     !.relayLast = IF reason \in {"aead_failed", "integrity_failed"} THEN @ ELSE p.seq,
     !.valLast = IF \/ reason = "all_checks_passed"
                    \/ reason = "sig_failed" /\ sequenceFirst
                 THEN p.seq ELSE @]

RecordReject(f, p, reason) ==
  [f EXCEPT !.rejected = @ + 1,
            !.audit = Append(@, Result(p, "REJECT", reason, "none"))]

(* Faulty variant: the histories are never trimmed.                        *)
RecordAcceptUntrimmed(f, p, result) ==
  [f EXCEPT !.accepted = @ + (IF result.decision = "ACCEPT" THEN 1 ELSE 0),
            !.flagged = @ + (IF result.decision = "FLAG" THEN 1 ELSE 0),
            !.total = @ + 1,
            !.recent = Append(@, result),
            !.lastEncrypted = p,
            !.audit = Append(@, result)]

RecordAccept(f, p, result) ==
  [f EXCEPT !.accepted = @ + (IF result.decision = "ACCEPT" THEN 1 ELSE 0),
            !.flagged = @ + (IF result.decision = "FLAG" THEN 1 ELSE 0),
            !.total = @ + 1,
            !.recent = AppendBounded(@, result, RecentCap),
            !.lastEncrypted = p,
            !.audit = AppendBounded(@, result, AuditCap)]

-----------------------------------------------------------------------------
(* process_one_packet on a frame of some kind: "broken" is one that the    *)
(* simulator cannot convert, so that the call ends in its except clause.   *)
(* The value is the feed afterwards and the result returned.               *)
ProcessOnePacket(f, kind) ==
  LET p == Built(f, kind)
      reason == ProcessReason(f, p)
      moved == Moved(Taken(f), p, reason, FALSE)
      decision == IF reason # "all_checks_passed" THEN "REJECT"
                  ELSE IF kind = "flag" THEN "FLAG" ELSE "ACCEPT"
      result == Result(p, decision, reason, "none")
  IN  IF ~ f.ready THEN [feed |-> f, result |-> NoPacket]
      ELSE IF kind = "broken"
      THEN [feed |-> [f EXCEPT !.rejected = @ + 1, !.total = @ + 1],
            result |-> NoPacket]
      ELSE IF decision = "REJECT"
      THEN [feed |-> RecordReject(moved, p, reason), result |-> result]
      ELSE [feed |-> RecordAccept(moved, p, result), result |-> result]

AttackPacket(f, attack) ==
  CASE attack = "replay" -> f.lastEncrypted
    [] attack = "tamper" -> [Built(f, "normal") EXCEPT !.intact = FALSE]
    [] attack = "forge"  -> [Built(f, "normal") EXCEPT !.signed = FALSE]

(* inject_attack counts the packet before it is examined, and appends to   *)
(* the history without trimming it.                                        *)
InjectAttack(f, attack) ==
  LET p == AttackPacket(f, attack)
      taken == [IF attack = "replay" THEN f ELSE Taken(f) EXCEPT !.total = @ + 1]
      reason == InjectReason(f, p)
      moved == Moved(taken, p, reason, TRUE)
      result == Result(p, IF reason = "all_checks_passed" THEN "ACCEPT" ELSE "REJECT",
                       reason, attack)
      counted == IF result.decision = "ACCEPT"
                 THEN [moved EXCEPT !.accepted = @ + 1]
                 ELSE RecordReject(moved, p, reason)
  IN  IF ~ f.ready \/ p = NoPacket THEN [feed |-> f, result |-> NoPacket]
      ELSE [feed |-> [counted EXCEPT !.recent = Append(@, result)],
            result |-> result]
=============================================================================
