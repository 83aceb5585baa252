---------------------------- MODULE ReplayWindow ----------------------------
(***************************************************************************)
(* The decisions that the relay's IntegrityChecker.check and the           *)
(* validator's ValidatorSequenceChecker.check take on one sequence number  *)
(* and one timestamp.  Both classes keep, per car, the last number they    *)
(* passed and a window of numbers they have seen; these operators are the  *)
(* tests and the update that the two methods share.                        *)
(***************************************************************************)
EXTENDS Integers, FiniteSets, FiniteSetsExt

(* Faulty variants, which the properties must notice: a window that        *)
(* discards its greatest member, an ordering test that lets the last       *)
(* number through again, and a gap test off by one.                        *)
RememberLeast(seen, seq, window) ==
  LET grown == seen \cup {seq}
  IN  IF Cardinality(grown) > window THEN grown \ {Max(grown)} ELSE grown
OutOfOrderBelow(last, seq) == last > 0 /\ seq < last
LargeGapLate(last, seq, maxGap) == last > 0 /\ seq - last > maxGap + 1

(* "Rolling window": the number is added and, when the set has outgrown    *)
(* its limit, its least member is discarded.                               *)
Remember(seen, seq, window) ==
  LET grown == seen \cup {seq}
  IN  IF Cardinality(grown) > window THEN grown \ {Min(grown)} ELSE grown

(* A car that has passed nothing yet has last = 0 and is never out of      *)
(* order, nor does its first number make a gap.                            *)
OutOfOrder(last, seq) == last > 0 /\ seq <= last

LargeGap(last, seq, maxGap) == last > 0 /\ seq - last > maxGap

(* A timestamp of 0 means "absent" and is not checked.                     *)
Stale(now, ts, maxAge) == ts > 0 /\ now - ts > maxAge

FromFuture(now, ts, maxAge, slack) ==
  ts > 0 /\ ~ Stale(now, ts, maxAge) /\ now - ts < -slack
=============================================================================
