---------------------------- MODULE TelemetryLog ----------------------------
(***************************************************************************)
(* What the pipeline promises its readers, without nodes, keys or          *)
(* messages: cars number their frames upwards, and the trail holds one     *)
(* entry per frame that reached the validator, kept or refused.  The kept  *)
(* numbers of a car are a strictly increasing selection of the numbers it  *)
(* has sent: frames may be missing, but none is kept twice, out of order   *)
(* or without having been sent.                                            *)
(***************************************************************************)
EXTENDS Naturals, Sequences

CONSTANT Nodes

VARIABLES
  emitted,      (* per car: how many frames it has numbered *)
  recorded      (* the trail: entries [node, seq, kept] in order *)

Init ==
  /\ emitted = [n \in Nodes |-> 0]
  /\ recorded = <<>>

Emit(n) ==
  /\ emitted' = [emitted EXCEPT ![n] = @ + 1]
  /\ UNCHANGED recorded

(* s is beyond every number of the car that was kept.                      *)
Follows(n, s) ==
  \A i \in 1 .. Len(recorded) :
    recorded[i].kept /\ recorded[i].node = n => recorded[i].seq < s

Record(n, s) ==
  /\ Follows(n, s)
  /\ recorded' = Append(recorded, [node |-> n, seq |-> s, kept |-> TRUE])
  /\ UNCHANGED emitted

(* A frame may be refused, any number of times.                            *)
Refuse(n, s) ==
  /\ recorded' = Append(recorded, [node |-> n, seq |-> s, kept |-> FALSE])
  /\ UNCHANGED emitted

Next ==
  \E n \in Nodes :
    Emit(n) \/ \E s \in 1 .. emitted[n] : Record(n, s) \/ Refuse(n, s)

Spec == Init /\ [][Next]_<<emitted, recorded>>
=============================================================================
