-------------------------- MODULE IntegrityChecker --------------------------
(***************************************************************************)
(* relay-node/src/integrity_checker.py: IntegrityChecker, the relay's      *)
(* sequence, freshness and signature-presence check.  Its warnings (large  *)
(* gap, future timestamp) are only logged and change no state, so they are *)
(* left out.  A car the dictionaries do not know yet is represented by the *)
(* values check() gives it on first sight.                                 *)
(***************************************************************************)
EXTENDS ReplayWindow

CONSTANTS
  Nodes, CheckTimestamps, CheckSignatures, MaxTimestampAge, Window

VARIABLES
  lastSequence,     (* _last_sequence *)
  seenSequences,    (* _seen_sequences *)
  integrityCounts,  (* _checked_count .. _out_of_order *)
  now               (* the relay's wall clock *)

IntegrityInit ==
  /\ lastSequence = [n \in Nodes |-> 0]
  /\ seenSequences = [n \in Nodes |-> {}]
  /\ integrityCounts = [checked |-> 0, passed |-> 0, failed |-> 0,
                        replay |-> 0, outOfOrder |-> 0]
  /\ now = 0

IsReplay(p) == p.seq \in seenSequences[p.node]

(* Faulty variant: the ordering test is missing.                           *)
IntegrityErrorUnordered(p) ==
  \/ p.seq <= 0
  \/ IsReplay(p)
  \/ CheckTimestamps /\ Stale(now, p.ts, MaxTimestampAge)
  \/ CheckSignatures /\ p.sig = "absent"

IntegrityError(p) ==
  \/ p.seq <= 0
  \/ IsReplay(p)
  \/ OutOfOrder(lastSequence[p.node], p.seq)
  \/ CheckTimestamps /\ Stale(now, p.ts, MaxTimestampAge)
  \/ CheckSignatures /\ p.sig = "absent"

One(b) == IF b THEN 1 ELSE 0

CountIntegrity(p) ==
  integrityCounts' =
    [integrityCounts EXCEPT
       !.checked    = @ + 1,
       !.passed     = @ + One(~ IntegrityError(p)),
       !.failed     = @ + One(IntegrityError(p)),
       !.replay     = @ + One(IsReplay(p)),
       !.outOfOrder = @ + One(OutOfOrder(lastSequence[p.node], p.seq))]

IntegrityPass(p) ==
  /\ ~ IntegrityError(p)
  /\ lastSequence' = [lastSequence EXCEPT ![p.node] = p.seq]
  /\ seenSequences' = [seenSequences EXCEPT ![p.node] = Remember(@, p.seq, Window)]
  /\ CountIntegrity(p)

IntegrityFail(p) ==
  /\ IntegrityError(p)
  /\ CountIntegrity(p)
  /\ UNCHANGED <<lastSequence, seenSequences>>

ResetNode(n) ==
  /\ lastSequence' = [lastSequence EXCEPT ![n] = 0]
  /\ seenSequences' = [seenSequences EXCEPT ![n] = {}]
  /\ UNCHANGED integrityCounts
=============================================================================
