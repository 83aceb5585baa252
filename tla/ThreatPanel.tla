----------------------------- MODULE ThreatPanel -----------------------------
(***************************************************************************)
(* dashboard/components/threat_panel.py: ThreatPanel, which classifies the *)
(* results of the feed by words in their reason.  A panel is a record; its *)
(* operations return the panel afterwards.                                 *)
(***************************************************************************)
EXTENDS Naturals, Sequences

CONSTANTS PanelCap      (* 200 in the code *)

ThreatTypes == {"REPLAY_ATTACK", "TAMPERING", "SIGNATURE_FAILURE",
                "ANOMALY_REJECT", "ANOMALY_FLAG"}

PanelReset ==
  [events |-> <<>>, counts |-> [t \in ThreatTypes |-> 0], last |-> 0,
   accepted |-> 0, rejected |-> 0]

(* The words looked for, in the order of the tests.  No reason of the feed *)
(* contains "zkp" or "iam"; "integrity_failed" contains none of the words. *)
Classify(result) ==
  CASE result.reason = "sequence_failed"  -> "REPLAY_ATTACK"
    [] result.reason = "aead_failed"      -> "TAMPERING"
    [] result.reason = "sig_failed"       -> "SIGNATURE_FAILURE"
    [] result.reason = "anomaly_rejected" -> "ANOMALY_REJECT"
    [] result.decision = "FLAG"           -> "ANOMALY_FLAG"
    [] OTHER                              -> "none"

AddEvent(panel, type, seq) ==
  LET grown == Append(panel.events, [type |-> type, seq |-> seq])
  IN  [panel EXCEPT !.events = IF Len(grown) > PanelCap THEN Tail(grown) ELSE grown,
                    !.counts[type] = @ + 1]

Ingest(panel, result) ==
  LET type == Classify(result)
      counted == [panel EXCEPT
                    !.accepted = @ + (IF result.decision = "ACCEPT" THEN 1 ELSE 0),
                    !.rejected = @ + (IF result.decision = "ACCEPT" THEN 0 ELSE 1),
                    !.last = IF result.seq > @ THEN result.seq ELSE @]
  IN  IF type = "none" THEN counted ELSE AddEvent(counted, type, result.seq)
=============================================================================
