---------------------------- MODULE AnomalyFilter ----------------------------
(***************************************************************************)
(* relay-node/src/anomaly_filters.py: AnomalyFilter.  A payload is a       *)
(* function from the telemetry channels it carries to their values.  The   *)
(* team whose thresholds apply is fixed per car, so Thresholds is indexed  *)
(* by car; a car without thresholds of its own has the combined ones.      *)
(***************************************************************************)
EXTENDS Integers

CONSTANTS
  Nodes,
  Channels,         (* CHANNELS *)
  PhysicalLimits,   (* PHYSICAL_LIMITS: channel -> [min, max] *)
  Thresholds,       (* car -> channel -> [lower, upper], where calibrated *)
  RocLimits         (* ROC_LIMITS: channel -> largest change per frame *)

VARIABLES
  lastValues,       (* _last_values *)
  anomalyCounts     (* _checked_count, _flagged_count, _rejected_count *)

AnomalyInit ==
  /\ lastValues = [n \in Nodes |-> <<>>]
  /\ anomalyCounts = [checked |-> 0, flagged |-> 0, rejected |-> 0]

Impossible(c, v) == v < PhysicalLimits[c].min \/ v > PhysicalLimits[c].max

OutsideThreshold(n, c, v) ==
  /\ c \in DOMAIN Thresholds[n]
  /\ v < Thresholds[n][c].lower \/ v > Thresholds[n][c].upper

Distance(a, b) == IF a < b THEN b - a ELSE a - b

ChangedTooFast(n, c, v) ==
  /\ c \in DOMAIN lastValues[n]
  /\ Distance(v, lastValues[n][c]) > RocLimits[c]

Suspicious(n, c, v) == OutsideThreshold(n, c, v) \/ ChangedTooFast(n, c, v)

(* Faulty variant: a later, milder violation lowers the severity again.    *)
SeverityLowered(n, payload) ==
  IF \E c \in DOMAIN payload : Suspicious(n, c, payload[c]) THEN "FLAG"
  ELSE IF \E c \in DOMAIN payload : Impossible(c, payload[c]) THEN "REJECT"
  ELSE "PASS"

(* add_violation only ever escalates, so the packet's severity is that of  *)
(* its worst channel.  An impossible value is not examined further.        *)
Severity(n, payload) ==
  IF \E c \in DOMAIN payload : Impossible(c, payload[c]) THEN "REJECT"
  ELSE IF \E c \in DOMAIN payload : Suspicious(n, c, payload[c]) THEN "FLAG"
  ELSE "PASS"

(* Faulty variant: check() returns before it updates the baseline.         *)
AnomalyCheckNoBaseline(n, payload) ==
  LET severity == Severity(n, payload)
  IN  /\ UNCHANGED lastValues
      /\ anomalyCounts' =
           [anomalyCounts EXCEPT
              !.checked  = @ + 1,
              !.flagged  = @ + (IF severity = "FLAG" THEN 1 ELSE 0),
              !.rejected = @ + (IF severity = "REJECT" THEN 1 ELSE 0)]

(* check(): every channel of the payload becomes the baseline of the next  *)
(* rate-of-change test, also when the packet is rejected.                  *)
AnomalyCheck(n, payload) ==
  LET severity == Severity(n, payload)
  IN  /\ lastValues' =
           [lastValues EXCEPT ![n] =
              [c \in DOMAIN payload \cup DOMAIN @ |->
                 IF c \in DOMAIN payload THEN payload[c] ELSE @[c]]]
      /\ anomalyCounts' =
           [anomalyCounts EXCEPT
              !.checked  = @ + 1,
              !.flagged  = @ + (IF severity = "FLAG" THEN 1 ELSE 0),
              !.rejected = @ + (IF severity = "REJECT" THEN 1 ELSE 0)]
=============================================================================
