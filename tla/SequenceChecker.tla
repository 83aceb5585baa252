--------------------------- MODULE SequenceChecker ---------------------------
(***************************************************************************)
(* validator-node/src/sequence_checker.py: ValidatorSequenceChecker, the   *)
(* validator's ordering and replay check.  check() is split by its outcome *)
(* into PassPacket and FailPacket; both are whole executions of the        *)
(* method, counters included.  A car the dictionaries do not know yet is   *)
(* represented by the values check() gives it on first sight (0 and {}).   *)
(***************************************************************************)
EXTENDS Sequences, ReplayWindow

CONSTANTS
  Nodes,        (* car node ids *)
  Seqs,         (* sequence numbers a packet may carry *)
  Times,        (* timestamps a packet may carry, and the clock's values *)
  StrictOrdering,   (* the strict_ordering option *)
  CheckTimestamps,  (* the check_timestamps option *)
  MaxTimestampAge, MaxSequenceGap, FutureSlack, Window,
  MaxChecks     (* bound on the packets one behaviour checks *)

ASSUME SeqsAssumption == Seqs \subseteq Int
ASSUME TimesAssumption == Times \subseteq Nat /\ 0 \in Times
ASSUME OptionsAssumption ==
  /\ StrictOrdering \in BOOLEAN
  /\ CheckTimestamps \in BOOLEAN
ASSUME LimitsAssumption ==
  /\ MaxTimestampAge \in Nat
  /\ MaxSequenceGap \in Nat
  /\ FutureSlack \in Nat
  /\ Window \in Nat \ {0}
  /\ MaxChecks \in Nat

VARIABLES
  lastSeq,      (* _last_seq *)
  seenSeqs,     (* _seen_seqs *)
  seqCounts,    (* _checked_count .. _gap_count *)
  now,          (* the validator's wall clock *)
  passedLog     (* history: the numbers passed since the car's last reset *)

seqVars == <<lastSeq, seenSeqs, seqCounts, now, passedLog>>

SeqInit ==
  /\ lastSeq = [n \in Nodes |-> 0]
  /\ seenSeqs = [n \in Nodes |-> {}]
  /\ seqCounts = [checked |-> 0, passed |-> 0, failed |-> 0,
                  replay |-> 0, gap |-> 0]
  /\ now = 0
  /\ passedLog = [n \in Nodes |-> <<>>]

-----------------------------------------------------------------------------
Replayed(n, seq) == seq \in seenSeqs[n]

(* Faulty variant: the ordering test is missing.                           *)
SeqErrorUnordered(n, seq, ts) ==
  \/ seq <= 0
  \/ Replayed(n, seq)
  \/ CheckTimestamps /\ Stale(now, ts, MaxTimestampAge)

(* The conditions under which check() reports an error.                    *)
SeqError(n, seq, ts) ==
  \/ seq <= 0
  \/ Replayed(n, seq)
  \/ StrictOrdering /\ OutOfOrder(lastSeq[n], seq)
  \/ CheckTimestamps /\ Stale(now, ts, MaxTimestampAge)

(* The conditions under which check() reports a warning.                   *)
SeqWarning(n, seq, ts) ==
  \/ LargeGap(lastSeq[n], seq, MaxSequenceGap)
  \/ CheckTimestamps /\ FromFuture(now, ts, MaxTimestampAge, FutureSlack)

CountIf(b) == IF b THEN 1 ELSE 0

CountCheck(n, seq, ok) ==
  seqCounts' = [seqCounts EXCEPT
                  !.checked = @ + 1,
                  !.passed  = @ + CountIf(ok),
                  !.failed  = @ + CountIf(~ok),
                  !.replay  = @ + CountIf(Replayed(n, seq)),
                  !.gap     = @ + CountIf(LargeGap(lastSeq[n], seq, MaxSequenceGap))]

PassPacket(n, seq, ts) ==
  /\ ~ SeqError(n, seq, ts)
  /\ lastSeq' = [lastSeq EXCEPT ![n] = seq]
  /\ seenSeqs' = [seenSeqs EXCEPT ![n] = Remember(@, seq, Window)]
  /\ CountCheck(n, seq, TRUE)
  /\ passedLog' = [passedLog EXCEPT ![n] = Append(@, seq)]
  /\ UNCHANGED now

(* Faulty variant: the number is remembered although the packet failed.    *)
FailPacketRemembered(n, seq, ts) ==
  /\ SeqError(n, seq, ts)
  /\ CountCheck(n, seq, FALSE)
  /\ seenSeqs' = [seenSeqs EXCEPT ![n] = Remember(@, seq, Window)]
  /\ UNCHANGED <<lastSeq, now, passedLog>>

FailPacket(n, seq, ts) ==
  /\ SeqError(n, seq, ts)
  /\ CountCheck(n, seq, FALSE)
  /\ UNCHANGED <<lastSeq, seenSeqs, now, passedLog>>

(* reset_node: the car's state is forgotten, the counters are kept.        *)
ResetNode(n) ==
  /\ lastSeq' = [lastSeq EXCEPT ![n] = 0]
  /\ seenSeqs' = [seenSeqs EXCEPT ![n] = {}]
  /\ passedLog' = [passedLog EXCEPT ![n] = <<>>]
  /\ UNCHANGED <<seqCounts, now>>

(* time.time() moves on between two calls.                                 *)
Tick ==
  /\ now' \in {t \in Times : t > now}
  /\ UNCHANGED <<lastSeq, seenSeqs, seqCounts, passedLog>>

SeqNext ==
  \/ /\ seqCounts.checked < MaxChecks
     /\ \E n \in Nodes, seq \in Seqs, ts \in Times :
          PassPacket(n, seq, ts) \/ FailPacket(n, seq, ts)
  \/ \E n \in Nodes : ResetNode(n)
  \/ Tick

SeqSpec == SeqInit /\ [][SeqNext]_seqVars

-----------------------------------------------------------------------------
(* Every dictionary and counter of the checker has the shape the code      *)
(* gives it.                                                               *)
SeqTypeOK ==
  /\ lastSeq \in [Nodes -> Seqs \cup {0}]
  /\ seenSeqs \in [Nodes -> SUBSET Seqs]
  /\ seqCounts \in [checked : Nat, passed : Nat, failed : Nat,
                    replay : Nat, gap : Nat]
  /\ now \in Times
  /\ passedLog \in [Nodes -> Seq(Seqs)]

Increasing(s) == \A i, j \in 1 .. Len(s) : i < j => s[i] < s[j]

(* Under strict ordering the numbers the checker passes for a car since    *)
(* its last reset_node form a strictly increasing sequence, whatever order *)
(* packets arrive in, however often they are repeated and whatever the     *)
(* window has forgotten.                                                   *)
PassedIncreasing ==
  StrictOrdering => \A n \in Nodes : Increasing(passedLog[n])

(* The comment on REPLAY_WINDOW, "Remember last 50k sequences": the seen   *)
(* set of a car is exactly the numbers most recently passed, as many as    *)
(* the window holds, although eviction discards the least number and not   *)
(* the oldest one.  It takes strict ordering: without it, a late low       *)
(* number is evicted by the very check that passed it.                     *)
WindowHoldsRecent ==
  StrictOrdering =>
    \A n \in Nodes :
      seenSeqs[n] = {passedLog[n][i] : i \in {j \in 1 .. Len(passedLog[n]) :
                                               j > Len(passedLog[n]) - Window}}
=============================================================================
