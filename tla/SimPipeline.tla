----------------------------- MODULE SimPipeline -----------------------------
(***************************************************************************)
(* What the simulations under simulations/ share: the relay's and the      *)
(* validator's checkers as they build them (timestamps not checked, strict *)
(* ordering), and the checks a packet is put through.  A checker is a      *)
(* record; Checked returns it after one call of check().                   *)
(*                                                                         *)
(* A delivery is one call on one packet.                                   *)
(*   seq   - its sequence number, once numbered by the builder             *)
(*   class - what the simulation counts it as                              *)
(*   at    - which of the checks it is handed to                           *)
(*   form  - what has been done to it since it was built                   *)
(***************************************************************************)
EXTENDS Sequences, ReplayWindow

CONSTANTS
  SimWindow,        (* REPLAY_WINDOW *)
  DefaultGap        (* max_sequence_gap unless a scenario sets it to 1 *)

NewChecker(maxGap) ==
  [last |-> 0, seen |-> {}, replays |-> 0, gaps |-> 0, maxGap |-> maxGap]

Delivery(i, class, at, form) == [seq |-> i, class |-> class, at |-> at, form |-> form]

(* Faulty variants: nothing but the window stops an old number; a number   *)
(* must follow the last one directly.                                      *)
InSequenceUnordered(c, seq) == seq > 0 /\ seq \notin c.seen
InSequenceConsecutive(c, seq) ==
  seq > 0 /\ seq \notin c.seen /\ (c.last = 0 \/ seq = c.last + 1)

InSequence(c, seq) ==
  /\ seq > 0
  /\ seq \notin c.seen
  /\ ~ OutOfOrder(c.last, seq)

(* Faulty variant: a refused number becomes the last one all the same.     *)
CheckedAlways(c, seq) ==
  [c EXCEPT !.last = seq,
            !.seen = Remember(@, seq, SimWindow),
            !.replays = IF seq \in c.seen THEN @ + 1 ELSE @,
            !.gaps = IF LargeGap(c.last, seq, c.maxGap) THEN @ + 1 ELSE @]

Checked(c, seq) ==
  LET ok == InSequence(c, seq)
  IN  [c EXCEPT
         !.last = IF ok THEN seq ELSE @,
         !.seen = IF ok THEN Remember(@, seq, SimWindow) ELSE @,
         !.replays = IF seq \in c.seen THEN @ + 1 ELSE @,
         !.gaps = IF LargeGap(c.last, seq, c.maxGap) THEN @ + 1 ELSE @]

-----------------------------------------------------------------------------
(* AEAD covers ciphertext and header; the signature covers header and      *)
(* payload; the commitment covers the payload.                             *)
Decrypts(p) == p.form \notin {"ciphertext", "header"}
Signed(p) == p.form \notin {"header", "payload", "unsigned", "wrong signature"}
Committed(p) == p.form \notin {"payload", "commitment"}

(* validate_packet of the loss and jitter simulations makes all three      *)
(* checks whatever the first ones say, so that every packet moves the      *)
(* sequence checker.                                                       *)
ValidatePacket(c, p) ==
  [checker |-> Checked(c, p.seq),
   reason |-> IF Signed(p) /\ InSequence(c, p.seq) /\ Committed(p)
              THEN "accepted" ELSE "rejected"]

(* process_at_validator of the attack simulations returns at the first     *)
(* check that fails.                                                       *)
ProcessAtValidator(c, p) ==
  IF ~ Signed(p) THEN [checker |-> c, reason |-> "signature_failed"]
  ELSE [checker |-> Checked(c, p.seq),
        reason |-> IF ~ InSequence(c, p.seq) THEN "sequence_failed"
                   ELSE IF ~ Committed(p) THEN "zkp_failed" ELSE "accepted"]

ProcessAtRelay(c, p) ==
  [checker |-> Checked(c, p.seq),
   reason |-> IF InSequence(c, p.seq) THEN "accepted" ELSE "integrity_failed"]
=============================================================================
