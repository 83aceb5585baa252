----------------------- MODULE ValidatorNode_proofs -----------------------
(***************************************************************************)
(* Proofs about the validator: first its sequence checker alone, for every *)
(* set of cars, every set of numbers, every window and every setting of    *)
(* the options, then the whole node, which takes the checker's lemmas over.*)
(***************************************************************************)
EXTENDS ValidatorNode, FiniteSetTheorems, TLAPS

-----------------------------------------------------------------------------
(* The sequence checker.                                                   *)

(* A packet's number, and the last number of a car, is an integer.         *)
LEMMA SeqsAreIntegers == \A x \in Seqs \cup {0} : x \in Int
BY SeqsAssumption

(* The rolling window of check() never gains a number other than the one   *)
(* just passed, whichever member it evicts.                                *)
LEMMA RememberAddsOnlySeq ==
  ASSUME NEW seen, NEW seq, NEW window
  PROVE  Remember(seen, seq, window) \subseteq seen \cup {seq}
BY DEF Remember

(* A packet that check() passes has a positive number, and under strict    *)
(* ordering one beyond the car's last.                                     *)
LEMMA PassedNumber ==
  ASSUME NEW n \in Nodes, NEW seq \in Seqs, NEW ts \in Times,
         SeqTypeOK, ~ SeqError(n, seq, ts)
  PROVE  /\ seq \in Int /\ seq > 0
         /\ StrictOrdering /\ lastSeq[n] > 0 => seq > lastSeq[n]
<1>1. /\ ~ (seq <= 0)
      /\ ~ (StrictOrdering /\ lastSeq[n] > 0 /\ seq <= lastSeq[n])
  BY Zenon DEF SeqError, OutOfOrder
<1>2. lastSeq \in [Nodes -> Seqs \cup {0}]
  BY DEF SeqTypeOK
<1>3. lastSeq[n] \in Seqs \cup {0}
  BY <1>2
<1>4. seq \in Int /\ lastSeq[n] \in Int
  BY <1>3, SeqsAreIntegers
<1>5. QED
  BY <1>1, <1>4, OptionsAssumption

(* Counting a check keeps the counters natural numbers.                    *)
LEMMA CountCheckType ==
  ASSUME SeqTypeOK, NEW n, NEW seq, NEW ok, CountCheck(n, seq, ok)
  PROVE  seqCounts' \in [checked : Nat, passed : Nat, failed : Nat,
                         replay : Nat, gap : Nat]
<1>1. seqCounts \in [checked : Nat, passed : Nat, failed : Nat,
                     replay : Nat, gap : Nat]
  BY DEF SeqTypeOK
<1> DEFINE a == CountIf(ok)
           b == CountIf(~ok)
           c == CountIf(Replayed(n, seq))
           d == CountIf(LargeGap(lastSeq[n], seq, MaxSequenceGap))
<1>2. a \in Nat /\ b \in Nat /\ c \in Nat /\ d \in Nat
  BY DEF CountIf
<1>3. seqCounts' = [seqCounts EXCEPT !.checked = @ + 1, !.passed = @ + a,
                                     !.failed = @ + b, !.replay = @ + c,
                                     !.gap = @ + d]
  BY DEF CountCheck
<1> HIDE DEF a, b, c, d
<1>4. /\ seqCounts.checked \in Nat /\ seqCounts.passed \in Nat
      /\ seqCounts.failed \in Nat /\ seqCounts.replay \in Nat
      /\ seqCounts.gap \in Nat
  BY <1>1
<1>5. seqCounts' = [checked |-> seqCounts.checked + 1, passed |-> seqCounts.passed + a,
                    failed |-> seqCounts.failed + b, replay |-> seqCounts.replay + c,
                    gap |-> seqCounts.gap + d]
  BY <1>1, <1>3
<1>6. QED
  BY <1>2, <1>4, <1>5

(* check() keeps its dictionaries and counters well typed, both when it    *)
(* passes a packet and when it fails it.                                   *)
LEMMA PassKeepsType ==
  ASSUME SeqTypeOK, NEW n \in Nodes, NEW seq \in Seqs, NEW ts \in Times,
         PassPacket(n, seq, ts)
  PROVE  SeqTypeOK'
<1>1. lastSeq' \in [Nodes -> Seqs \cup {0}]
  BY DEF PassPacket, SeqTypeOK
<1>2. seenSeqs' \in [Nodes -> SUBSET Seqs]
  BY RememberAddsOnlySeq DEF PassPacket, SeqTypeOK
<1>3. seqCounts' \in [checked : Nat, passed : Nat, failed : Nat,
                      replay : Nat, gap : Nat]
  BY CountCheckType DEF PassPacket
<1>4. passedLog' \in [Nodes -> Seq(Seqs)]
  BY DEF PassPacket, SeqTypeOK
<1>5. QED
  BY <1>1, <1>2, <1>3, <1>4 DEF PassPacket, SeqTypeOK

(* A failed check only counts.                                             *)
LEMMA FailKeepsType ==
  ASSUME SeqTypeOK, NEW n \in Nodes, NEW seq \in Seqs, NEW ts \in Times,
         FailPacket(n, seq, ts)
  PROVE  SeqTypeOK'
<1>1. seqCounts' \in [checked : Nat, passed : Nat, failed : Nat,
                      replay : Nat, gap : Nat]
  BY CountCheckType DEF FailPacket
<1>2. QED
  BY <1>1 DEF FailPacket, SeqTypeOK

-----------------------------------------------------------------------------
(* The checker's dictionaries and counters always have the shape the code  *)
(* gives them.                                                             *)
THEOREM SeqTypeCorrect == SeqSpec => []SeqTypeOK
<1>1. SeqInit => SeqTypeOK
  BY TimesAssumption DEF SeqInit, SeqTypeOK
<1>2. SeqTypeOK /\ [SeqNext]_seqVars => SeqTypeOK'
  <2> SUFFICES ASSUME SeqTypeOK, [SeqNext]_seqVars PROVE SeqTypeOK'
    OBVIOUS
  <2>1. CASE \E n \in Nodes, seq \in Seqs, ts \in Times :
               PassPacket(n, seq, ts) \/ FailPacket(n, seq, ts)
    BY <2>1, PassKeepsType, FailKeepsType
  <2>2. CASE \E n \in Nodes : ResetNode(n)
    BY <2>2 DEF ResetNode, SeqTypeOK
  <2>3. CASE Tick
    BY <2>3 DEF Tick, SeqTypeOK
  <2>4. CASE UNCHANGED seqVars
    BY <2>4 DEF seqVars, SeqTypeOK
  <2>5. QED
    BY <2>1, <2>2, <2>3, <2>4 DEF SeqNext
<1>3. QED
  BY <1>1, <1>2, PTL DEF SeqSpec

-----------------------------------------------------------------------------
(* What makes PassedIncreasing inductive: the last number of a car bounds  *)
(* every number passed since its last reset.                               *)
LogBelowLast ==
  \A n \in Nodes : \A i \in 1 .. Len(passedLog[n]) :
    0 < passedLog[n][i] /\ passedLog[n][i] <= lastSeq[n]

SeqInv ==
  /\ SeqTypeOK
  /\ StrictOrdering => LogBelowLast
  /\ PassedIncreasing

(* Under strict ordering, passing a packet keeps the log increasing and    *)
(* below the car's new last number.                                        *)
LEMMA PassKeepsOrder ==
  ASSUME SeqInv, StrictOrdering,
         NEW n \in Nodes, NEW seq \in Seqs, NEW ts \in Times,
         PassPacket(n, seq, ts)
  PROVE  LogBelowLast' /\ PassedIncreasing'
<1> USE DEF SeqInv
<1>1. /\ seq \in Int /\ seq > 0
      /\ lastSeq[n] > 0 => seq > lastSeq[n]
  BY PassedNumber DEF PassPacket
<1>2. /\ lastSeq' = [lastSeq EXCEPT ![n] = seq]
      /\ passedLog' = [passedLog EXCEPT ![n] = Append(@, seq)]
  BY DEF PassPacket
<1>3. /\ lastSeq \in [Nodes -> Seqs \cup {0}]
      /\ passedLog \in [Nodes -> Seq(Seqs)]
  BY DEF SeqTypeOK
<1>4. ASSUME NEW i \in 1 .. Len(passedLog[n])
      PROVE  passedLog[n][i] \in Int /\ passedLog[n][i] < seq
  <2>1. passedLog[n] \in Seq(Seqs) /\ lastSeq[n] \in Seqs \cup {0}
    BY <1>3
  <2>2. passedLog[n][i] \in Seqs
    BY <2>1
  <2>3. passedLog[n][i] \in Int /\ lastSeq[n] \in Int
    BY <2>1, <2>2, SeqsAreIntegers
  <2>4. 0 < passedLog[n][i] /\ passedLog[n][i] <= lastSeq[n]
    BY DEF LogBelowLast
  <2>5. QED
    BY <1>1, <2>3, <2>4
<1>5. ASSUME NEW m \in Nodes
      PROVE  /\ \A i \in 1 .. Len(passedLog'[m]) :
                  0 < passedLog'[m][i] /\ passedLog'[m][i] <= lastSeq'[m]
             /\ Increasing(passedLog'[m])
  <2>1. CASE m # n
    <3>1. passedLog'[m] = passedLog[m] /\ lastSeq'[m] = lastSeq[m]
      BY <1>2, <1>3, <2>1
    <3>2. QED
      BY <3>1 DEF LogBelowLast, PassedIncreasing
  <2>2. CASE m = n
    <3>1. passedLog'[n] = Append(passedLog[n], seq) /\ lastSeq'[n] = seq
      BY <1>2, <1>3
    <3>2. /\ Len(passedLog'[n]) = Len(passedLog[n]) + 1
          /\ passedLog'[n][Len(passedLog[n]) + 1] = seq
          /\ \A i \in 1 .. Len(passedLog[n]) : passedLog'[n][i] = passedLog[n][i]
          /\ Len(passedLog[n]) \in Nat
      BY <1>3, <3>1
    <3>3. Increasing(passedLog[n])
      BY DEF PassedIncreasing
    <3>4. Increasing(passedLog'[n])
      <4> SUFFICES ASSUME NEW i \in 1 .. Len(passedLog'[n]),
                          NEW j \in 1 .. Len(passedLog'[n]), i < j
                   PROVE  passedLog'[n][i] < passedLog'[n][j]
        BY DEF Increasing
      <4>1. i \in 1 .. Len(passedLog[n])
        BY <3>2
      <4>2. CASE j = Len(passedLog[n]) + 1
        BY <1>4, <3>2, <4>1, <4>2
      <4>3. CASE j \in 1 .. Len(passedLog[n])
        BY <3>2, <3>3, <4>1, <4>3 DEF Increasing
      <4>4. QED
        BY <3>2, <4>2, <4>3
    <3>5. \A i \in 1 .. Len(passedLog'[n]) :
            0 < passedLog'[n][i] /\ passedLog'[n][i] <= lastSeq'[n]
      BY <1>1, <1>4, <3>1, <3>2 DEF LogBelowLast
    <3>6. QED
      BY <2>2, <3>4, <3>5
  <2>3. QED
    BY <2>1, <2>2
<1>6. QED
  BY <1>5 DEF LogBelowLast, PassedIncreasing

(* What a step does to the checker, whether the checker runs alone or      *)
(* inside the node.                                                        *)
SeqStep ==
  \/ \E n \in Nodes, seq \in Seqs, ts \in Times :
       PassPacket(n, seq, ts) \/ FailPacket(n, seq, ts)
  \/ \E n \in Nodes : ResetNode(n)
  \/ Tick
  \/ UNCHANGED seqVars

(* The first state of the checker.                                         *)
LEMMA SeqInvInit ==
  ASSUME SeqInit
  PROVE  SeqInv
<1>1. SeqTypeOK
  BY TimesAssumption DEF SeqInit, SeqTypeOK
<1>2. \A n \in Nodes : Len(passedLog[n]) = 0
  BY DEF SeqInit
<1>3. QED
  BY <1>1, <1>2 DEF SeqInv, LogBelowLast, PassedIncreasing, Increasing

(* Every step keeps the order of the log.                                  *)
LEMMA SeqInvStep ==
  ASSUME SeqInv, SeqTypeOK', SeqStep
  PROVE  SeqInv'
<1>0. CASE ~ StrictOrdering
  BY <1>0 DEF SeqInv, PassedIncreasing
<1>1. CASE StrictOrdering /\ \E n \in Nodes, seq \in Seqs, ts \in Times :
             PassPacket(n, seq, ts)
  BY <1>1, PassKeepsOrder DEF SeqInv
<1>2. CASE \E n \in Nodes, seq \in Seqs, ts \in Times : FailPacket(n, seq, ts)
  BY <1>2 DEF FailPacket, SeqInv, LogBelowLast, PassedIncreasing
<1>3. ASSUME NEW n \in Nodes, ResetNode(n)
      PROVE  SeqInv'
  <2>1. /\ passedLog'[n] = <<>>
        /\ \A m \in Nodes \ {n} : /\ passedLog'[m] = passedLog[m]
                                  /\ lastSeq'[m] = lastSeq[m]
    BY <1>3 DEF ResetNode, SeqInv, SeqTypeOK
  <2>2. \A m \in Nodes :
          \/ Len(passedLog'[m]) = 0
          \/ /\ passedLog'[m] = passedLog[m]
             /\ lastSeq'[m] = lastSeq[m]
    BY <2>1
  <2>3. QED
    BY <2>2 DEF SeqInv, LogBelowLast, PassedIncreasing, Increasing
<1>4. CASE Tick
  BY <1>4 DEF Tick, SeqInv, LogBelowLast, PassedIncreasing
<1>5. CASE UNCHANGED seqVars
  BY <1>5 DEF seqVars, SeqInv, LogBelowLast, PassedIncreasing
<1>6. QED
  BY <1>0, <1>1, <1>2, <1>3, <1>4, <1>5 DEF SeqStep

(* The numbers the validator's checker passes for a car between two resets *)
(* increase strictly under strict ordering: no repetition or reordering of *)
(* packets, of any length, gets through, whatever the window forgets.      *)
THEOREM PassedNumbersIncrease == SeqSpec => []PassedIncreasing
<1>1. SeqInit => SeqInv
  BY SeqInvInit
<1>2. SeqInv /\ SeqTypeOK' /\ [SeqNext]_seqVars => SeqInv'
  BY SeqInvStep DEF SeqNext, SeqStep
<1>3. SeqInv => PassedIncreasing
  BY DEF SeqInv
<1>4. QED
  BY <1>1, <1>2, <1>3, SeqTypeCorrect, PTL DEF SeqSpec

-----------------------------------------------------------------------------
(* The last w numbers of a log, and how many those are.                    *)
Recent(s, w) == {s[i] : i \in {j \in 1 .. Len(s) : j > Len(s) - w}}
RecentSize(s, w) == IF Len(s) < w THEN Len(s) ELSE w

(* The least member of a set of integers that has one.                     *)
LEMMA MinIs ==
  ASSUME NEW S \in SUBSET Int, NEW x \in S, \A y \in S : x <= y
  PROVE  Min(S) = x
<1>1. \E z \in S : \A y \in S : z <= y
  OBVIOUS
<1>2. Min(S) \in S /\ \A y \in S : Min(S) <= y
  BY <1>1 DEF Min
<1> DEFINE m == Min(S)
<1>3. m \in Int /\ x \in Int /\ m <= x /\ x <= m
  BY <1>2
<1> HIDE DEF m
<1>4. m = x
  BY <1>3
<1>5. QED
  BY <1>4 DEF m

(* Evicting the least member is evicting the oldest one when the numbers   *)
(* have been growing: the window moves on by one.                          *)
LEMMA RememberMovesWindow ==
  ASSUME NEW T \in SUBSET Int, NEW s \in Seq(T), Increasing(s), NEW x \in T,
         \A i \in 1 .. Len(s) : s[i] < x, NEW w \in Nat \ {0},
         IsFiniteSet(Recent(s, w)), Cardinality(Recent(s, w)) = RecentSize(s, w)
  PROVE  LET u == Append(s, x)
         IN  /\ Remember(Recent(s, w), x, w) = Recent(u, w)
             /\ IsFiniteSet(Recent(u, w))
             /\ Cardinality(Recent(u, w)) = RecentSize(u, w)
<1> DEFINE u == Append(s, x)
           L == Len(s)
           grown == Recent(s, w) \cup {x}
<1>1. /\ L \in Nat /\ Len(u) = L + 1 /\ u[L + 1] = x
      /\ \A i \in 1 .. L : u[i] = s[i] /\ s[i] \in Int
      /\ x \in Int
  <2>1. \A i \in 1 .. L : s[i] \in T
    OBVIOUS
  <2>2. /\ L \in Nat /\ Len(u) = L + 1 /\ u[L + 1] = x
        /\ \A i \in 1 .. L : u[i] = s[i]
    OBVIOUS
  <2>3. QED
    BY <2>1, <2>2
<1>2. \A y \in Recent(s, w) : y \in Int /\ y < x
  BY <1>1 DEF Recent
<1>3. IsFiniteSet(grown) /\ Cardinality(grown) = RecentSize(s, w) + 1
  <2>1. x \notin Recent(s, w)
    BY <1>2
  <2>2. QED
    BY <2>1, FS_AddElement
<1> HIDE DEF u, grown
<1>4. CASE L < w
  <2>1. RecentSize(s, w) = L /\ RecentSize(u, w) = L + 1
    BY <1>1, <1>4 DEF RecentSize
  <2>2. Remember(Recent(s, w), x, w) = grown
    BY <1>1, <1>3, <1>4, <2>1 DEF Remember, grown
  <2>3. Recent(u, w) = grown
    <3>1. ASSUME NEW y \in grown PROVE y \in Recent(u, w)
      <4>1. PICK i \in 1 .. L + 1 : y = u[i]
        <5>1. CASE y = x
          BY <1>1, <5>1
        <5>2. CASE y \in Recent(s, w)
          <6>1. PICK i \in 1 .. L : y = s[i]
            BY <5>2 DEF Recent
          <6>2. i \in 1 .. L + 1 /\ y = u[i]
            BY <1>1, <6>1
          <6>3. QED
            BY <6>2
        <5>3. QED
          BY <3>1, <5>1, <5>2 DEF grown
      <4>2. i > Len(u) - w
        BY <1>1, <1>4, <4>1
      <4>3. QED
        BY <1>1, <4>1, <4>2 DEF Recent
    <3>2. ASSUME NEW y \in Recent(u, w) PROVE y \in grown
      <4>1. PICK i \in 1 .. L + 1 : y = u[i]
        BY <1>1, <3>2 DEF Recent
      <4>2. CASE i = L + 1
        BY <1>1, <4>1, <4>2 DEF grown
      <4>3. CASE i \in 1 .. L
        <5>1. y = s[i] /\ i > Len(s) - w
          BY <1>1, <1>4, <4>1, <4>3
        <5>2. QED
          BY <4>3, <5>1 DEF grown, Recent
      <4>4. QED
        BY <1>1, <4>1, <4>2, <4>3
    <3>3. QED
      BY <3>1, <3>2
  <2>4. QED
    BY <1>3, <2>1, <2>2, <2>3 DEF u
<1>5. CASE L >= w
  <2> DEFINE k == L - w + 1
             old == s[k]
  <2>1. k \in 1 .. L /\ k > L - w /\ RecentSize(s, w) = w /\ RecentSize(u, w) = w
    BY <1>1, <1>5 DEF RecentSize
  <2>2. old \in Recent(s, w) /\ old \in Int
    BY <1>1, <2>1 DEF Recent
  <2>3. \A i \in 1 .. L : i > k => s[k] < s[i]
    BY <2>1 DEF Increasing
  <2>4. ASSUME NEW y \in Recent(s, w)
        PROVE  old <= y
    <3>1. PICK i \in 1 .. L : i > L - w /\ y = s[i]
      BY <2>4 DEF Recent
    <3>2. i = k \/ i > k
      <4>1. L \in Nat /\ w \in Nat /\ i \in Nat /\ i > L - w /\ k = L - w + 1
        BY <1>1, <3>1
      <4> HIDE DEF L, k
      <4>2. QED
        BY <4>1
    <3>3. QED
      BY <1>1, <2>1, <2>2, <2>3, <3>1, <3>2
  <2>5. grown \in SUBSET Int /\ old \in grown /\ \A y \in grown : old <= y
    BY <1>2, <2>2, <2>4 DEF grown
  <2>6. Min(grown) = old
    BY <2>5, MinIs
  <2>7. Cardinality(grown) > w
    BY <1>3, <2>1
  <2>8. Remember(Recent(s, w), x, w) = grown \ {old}
    BY <2>6, <2>7 DEF Remember, grown
  <2>9. Recent(u, w) = grown \ {old}
    <3>1. ASSUME NEW y \in grown \ {old} PROVE y \in Recent(u, w)
      <4>1. CASE y = x
        <5>1. L + 1 \in 1 .. Len(u) /\ L + 1 > Len(u) - w
          BY <1>1
        <5>2. QED
          BY <1>1, <4>1, <5>1 DEF Recent
      <4>2. CASE y \in Recent(s, w)
        <5>1. PICK i \in 1 .. L : i > L - w /\ y = s[i]
          BY <4>2 DEF Recent
        <5>2. i # k
          BY <3>1, <5>1
        <5>3. i \in 1 .. Len(u) /\ i > Len(u) - w /\ u[i] = y
          BY <1>1, <5>1, <5>2
        <5>4. QED
          BY <5>3 DEF Recent
      <4>3. QED
        BY <3>1, <4>1, <4>2 DEF grown
    <3>2. ASSUME NEW y \in Recent(u, w) PROVE y \in grown \ {old}
      <4>1. PICK i \in 1 .. L + 1 : i > L + 1 - w /\ y = u[i]
        BY <1>1, <3>2 DEF Recent
      <4>2. CASE i = L + 1
        BY <1>1, <1>2, <2>2, <4>1, <4>2 DEF grown
      <4>3. CASE i \in 1 .. L
        <5>1. y = s[i] /\ i > L - w /\ i > k
          BY <1>1, <4>1, <4>3
        <5>2. y # old
          BY <1>1, <2>2, <2>3, <4>3, <5>1
        <5>3. QED
          BY <4>3, <5>1, <5>2 DEF grown, Recent
      <4>4. QED
        BY <1>1, <4>1, <4>2, <4>3
    <3>3. QED
      BY <3>1, <3>2
  <2>10. IsFiniteSet(grown \ {old}) /\ Cardinality(grown \ {old}) = w
    <3> HIDE DEF old, k
    <3>1. /\ IsFiniteSet(grown \ {old})
          /\ Cardinality(grown \ {old}) = Cardinality(grown) - 1
      BY <1>3, <2>5, FS_RemoveElement
    <3>2. QED
      BY <1>3, <2>1, <3>1
  <2>11. QED
    BY <2>1, <2>8, <2>9, <2>10 DEF u
<1>6. QED
  BY <1>1, <1>4, <1>5

(* What makes WindowHoldsRecent inductive: the window is finite and as     *)
(* large as it should be, so that the test that triggers the eviction says *)
(* how long the log is.                                                    *)
WindowInv ==
  StrictOrdering =>
    \A n \in Nodes : /\ seenSeqs[n] = Recent(passedLog[n], Window)
                     /\ IsFiniteSet(seenSeqs[n])
                     /\ Cardinality(seenSeqs[n]) = RecentSize(passedLog[n], Window)

(* An empty log has an empty window.                                       *)
LEMMA RecentOfNothing ==
  ASSUME NEW w \in Nat
  PROVE  /\ Recent(<<>>, w) = {} /\ IsFiniteSet({})
         /\ Cardinality({}) = RecentSize(<<>>, w)
<1>1. Recent(<<>>, w) = {}
  BY DEF Recent
<1>2. RecentSize(<<>>, w) = 0
  BY DEF RecentSize
<1>3. QED
  BY <1>1, <1>2, FS_EmptySet

(* Passing a packet moves the car's window on by one.                      *)
LEMMA PassMovesWindow ==
  ASSUME SeqInv, WindowInv, StrictOrdering, NEW n \in Nodes, NEW seq \in Seqs,
         NEW ts \in Times, PassPacket(n, seq, ts)
  PROVE  WindowInv'
<1>1. /\ seq \in Int /\ seq > 0
      /\ lastSeq[n] > 0 => seq > lastSeq[n]
  BY PassedNumber DEF PassPacket, SeqInv
<1>2. /\ seenSeqs' = [seenSeqs EXCEPT ![n] = Remember(seenSeqs[n], seq, Window)]
      /\ passedLog' = [passedLog EXCEPT ![n] = Append(passedLog[n], seq)]
  BY DEF PassPacket
<1>3. /\ lastSeq \in [Nodes -> Seqs \cup {0}] /\ seenSeqs \in [Nodes -> SUBSET Seqs]
      /\ passedLog \in [Nodes -> Seq(Seqs)]
  BY DEF SeqInv, SeqTypeOK
<1> DEFINE s == passedLog[n]
<1>4. s \in Seq(Seqs) /\ Seqs \in SUBSET Int
  BY <1>3, SeqsAssumption
<1>5. \A i \in 1 .. Len(s) : s[i] < seq
  <2> SUFFICES ASSUME NEW i \in 1 .. Len(s) PROVE s[i] < seq
    OBVIOUS
  <2>1. 0 < s[i] /\ s[i] <= lastSeq[n]
    BY DEF SeqInv, LogBelowLast
  <2>2. s[i] \in Int /\ lastSeq[n] \in Int
    <3>1. s[i] \in Seqs /\ lastSeq[n] \in Seqs \cup {0}
      BY <1>3, <1>4
    <3>2. QED
      BY <3>1, SeqsAreIntegers
  <2>3. QED
    BY <1>1, <2>1, <2>2
<1>6. Increasing(s)
  BY DEF SeqInv, PassedIncreasing
<1>7. /\ seenSeqs[n] = Recent(s, Window) /\ IsFiniteSet(seenSeqs[n])
      /\ Cardinality(seenSeqs[n]) = RecentSize(s, Window)
  BY DEF WindowInv
<1> DEFINE u == Append(s, seq)
<1>8. /\ Remember(Recent(s, Window), seq, Window) = Recent(u, Window)
      /\ IsFiniteSet(Recent(u, Window))
      /\ Cardinality(Recent(u, Window)) = RecentSize(u, Window)
  <2> HIDE DEF s
  <2>1. Window \in Nat \ {0}
    BY LimitsAssumption
  <2>2. QED
    BY <1>1, <1>4, <1>5, <1>6, <1>7, <2>1, RememberMovesWindow
<1>9. seenSeqs'[n] = Recent(u, Window) /\ passedLog'[n] = u
  BY <1>2, <1>3, <1>7, <1>8
<1>10. \A m \in Nodes \ {n} : seenSeqs'[m] = seenSeqs[m] /\ passedLog'[m] = passedLog[m]
  BY <1>2, <1>3
<1> HIDE DEF u
<1>11. QED
  BY <1>8, <1>9, <1>10 DEF WindowInv

(* Every step keeps the window.                                            *)
LEMMA WindowStep ==
  ASSUME SeqInv, WindowInv, SeqStep
  PROVE  WindowInv'
<1>0. CASE ~ StrictOrdering
  BY <1>0 DEF WindowInv
<1>1. CASE StrictOrdering /\ \E n \in Nodes, seq \in Seqs, ts \in Times :
             PassPacket(n, seq, ts)
  BY <1>1, PassMovesWindow
<1>2. ASSUME NEW n \in Nodes, ResetNode(n)
      PROVE  WindowInv'
  <2>1. /\ passedLog'[n] = <<>> /\ seenSeqs'[n] = {}
        /\ \A m \in Nodes \ {n} : seenSeqs'[m] = seenSeqs[m] /\ passedLog'[m] = passedLog[m]
    BY <1>2 DEF ResetNode, SeqInv, SeqTypeOK
  <2>2. QED
    BY <2>1, RecentOfNothing, LimitsAssumption DEF WindowInv
<1>3. CASE UNCHANGED <<seenSeqs, passedLog>>
  BY <1>3 DEF WindowInv
<1>4. QED
  BY <1>0, <1>1, <1>2, <1>3 DEF SeqStep, FailPacket, Tick, seqVars

(* The first state.                                                        *)
LEMMA WindowInit == SeqInit => WindowInv
BY RecentOfNothing, LimitsAssumption DEF SeqInit, WindowInv

(* What the invariant says of the code's comment.                          *)
LEMMA WindowInvMeans == WindowInv => WindowHoldsRecent
BY DEF WindowInv, WindowHoldsRecent, Recent

(* Under strict ordering the replay window of a car is exactly the numbers *)
(* it passed most recently, as many as REPLAY_WINDOW says, for every       *)
(* window and every number of packets: discarding the least number never   *)
(* discards a recent one.                                                  *)
THEOREM WindowAlwaysRecent == SeqSpec => []WindowHoldsRecent
<1>1. SeqInit => SeqInv /\ WindowInv
  BY SeqInvInit, WindowInit
<1>2. SeqInv /\ WindowInv /\ SeqTypeOK' /\ [SeqNext]_seqVars => SeqInv' /\ WindowInv'
  BY SeqInvStep, WindowStep DEF SeqNext, SeqStep
<1>3. QED
  BY <1>1, <1>2, WindowInvMeans, SeqTypeCorrect, PTL DEF SeqSpec

-----------------------------------------------------------------------------
(* The validator node.                                                     *)


(* Incrementing some of a table's counters leaves a table of counters.     *)
LEMMA BumpType ==
  ASSUME NEW F, NEW counts \in [F -> Nat], NEW fields
  PROVE  /\ Bump(counts, fields) \in [F -> Nat]
         /\ \A f \in F : Bump(counts, fields)[f] = counts[f] + CountIf(f \in fields)
BY DEF Bump, CountIf

(* The fields of a packet that the node reads have their types.            *)
LEMMA PacketFields ==
  ASSUME NEW p \in Packets
  PROVE  p.node \in Nodes /\ p.seq \in Seqs /\ p.ts \in Times
BY PacketsAssumption DEF PacketType

(* An audit event made from a packet is well typed and names its packet.   *)
LEMMA EventFields ==
  ASSUME NEW p \in Packets, NEW d \in Decisions, NEW r \in Reasons
  PROVE  /\ Event(d, r, p) \in EventType
         /\ Event(d, r, p).decision = d /\ Event(d, r, p).reason = r
         /\ Event(d, r, p).node = p.node /\ Event(d, r, p).seq = p.seq
BY PacketFields DEF Event, EventType

(* _reject keeps the node's counters and trail well typed.                 *)
LEMMA RejectType ==
  ASSUME TypeOK, NEW p \in Packets, NEW r \in Reasons, NEW c, Reject(p, r, c)
  PROVE  /\ stats' \in [StatFields -> Nat]
         /\ audit' \in Seq(EventType)
         /\ UNCHANGED <<valEngine, registry>>
<1>1. stats' \in [StatFields -> Nat]
  BY BumpType DEF Reject, TypeOK
<1>2. Event("REJECT", r, p) \in EventType
  BY EventFields DEF Decisions
<1>3. audit' \in Seq(EventType)
  BY <1>2 DEF Reject, TypeOK
<1>4. QED
  BY <1>1, <1>3 DEF Reject

-----------------------------------------------------------------------------
(* A step of the node, of whatever kind, keeps its fields well typed.      *)
LEMMA TypeStep == TypeOK /\ [Next]_vars => TypeOK'
<1> SUFFICES ASSUME TypeOK, [Next]_vars PROVE TypeOK'
  OBVIOUS
<1>0. /\ SeqTypeOK
      /\ sigCounts \in [SigFields -> Nat] /\ zkpCounts \in [ZkpFields -> Nat]
  BY DEF TypeOK
<1>1. ASSUME NEW n \in Nodes, NEW k \in SignKeys, RegisterCarNode(n, k)
      PROVE  TypeOK'
  BY <1>1 DEF RegisterCarNode, TypeOK, SeqTypeOK, seqVars
<1>2. ASSUME NEW n \in Nodes, DeregisterNode(n)
      PROVE  TypeOK'
  BY <1>2 DEF DeregisterNode, TypeOK, SeqTypeOK, seqVars
<1>3. ASSUME NEW k \in SessionKeys, SetupRelaySession(k)
      PROVE  TypeOK'
  BY <1>3 DEF SetupRelaySession, TypeOK, SeqTypeOK, seqVars
<1>4. ASSUME NEW p \in Packets, ProcessPacket(p)
      PROVE  TypeOK'
  <2>0. p.node \in Nodes /\ p.seq \in Seqs /\ p.ts \in Times
    BY PacketFields
  <2>1. ASSUME CountVerify(p) PROVE sigCounts' \in [SigFields -> Nat]
    BY <1>0, <2>1, BumpType DEF CountVerify
  <2>2. ASSUME CountZkp(p) PROVE zkpCounts' \in [ZkpFields -> Nat]
    BY <1>0, <2>2, BumpType DEF CountZkp
  <2>3. CASE RejectNoSession(p)
    BY <2>3, RejectType DEF RejectNoSession, TypeOK, SeqTypeOK, seqVars, Reasons
  <2>4. CASE RejectDecryption(p)
    BY <2>4, RejectType DEF RejectDecryption, TypeOK, SeqTypeOK, seqVars, Reasons
  <2>5. CASE RejectSignature(p)
    BY <2>1, <2>5, RejectType DEF RejectSignature, TypeOK, SeqTypeOK, seqVars, Reasons
  <2>6. CASE RejectHeader(p)
    BY <2>1, <2>6, RejectType DEF RejectHeader, TypeOK, SeqTypeOK, seqVars, Reasons
  <2>7. CASE RejectSequence(p)
    <3>1. SeqTypeOK'
      BY <1>0, <2>0, <2>7, FailKeepsType DEF RejectSequence
    <3>2. QED
      BY <2>1, <2>7, <3>1, RejectType DEF RejectSequence, TypeOK, Reasons
  <2>8. CASE RejectZkp(p)
    <3>1. SeqTypeOK'
      BY <1>0, <2>0, <2>8, PassKeepsType DEF RejectZkp
    <3>2. QED
      BY <2>1, <2>2, <2>8, <3>1, RejectType DEF RejectZkp, TypeOK, Reasons
  <2>9. CASE Accept(p)
    <3>1. SeqTypeOK'
      BY <1>0, <2>0, <2>9, PassKeepsType DEF Accept
    <3>2. stats' \in [StatFields -> Nat]
      BY <2>9, BumpType DEF Accept, TypeOK
    <3>3. /\ Event("FLAG", "sequence_warnings", p) \in EventType
          /\ Event("ACCEPT", "all_checks_passed", p) \in EventType
      BY EventFields DEF Decisions, Reasons
    <3>4. audit' \in Seq(EventType)
      BY <2>9, <3>3 DEF Accept, TypeOK
    <3>5. QED
      BY <2>1, <2>2, <2>9, <3>1, <3>2, <3>4 DEF Accept, TypeOK
  <2>10. QED
    BY <1>4, <2>3, <2>4, <2>5, <2>6, <2>7, <2>8, <2>9 DEF ProcessPacket
<1>5. CASE Tick /\ UNCHANGED nodeVars
  BY <1>5 DEF Tick, nodeVars, TypeOK, SeqTypeOK
<1>6. CASE UNCHANGED vars
  BY <1>6 DEF vars, nodeVars, seqVars, TypeOK, SeqTypeOK
<1>7. QED
  BY <1>1, <1>2, <1>3, <1>4, <1>5, <1>6 DEF Next

(* Every field of the node and of its verifiers always has the shape the   *)
(* code gives it.                                                          *)
THEOREM TypeCorrect == Spec => []TypeOK
<1>1. Init => TypeOK
  BY TimesAssumption DEF Init, SeqInit, TypeOK, SeqTypeOK, Zero
<1>2. QED
  BY <1>1, TypeStep, PTL DEF Spec

-----------------------------------------------------------------------------
(* The three things a step can do to the trail and the sequence state:     *)
(* leave both alone, log a packet that did not get past the sequence check *)
(* and leave the sequence state alone, or log one that did.                *)
Quiet == UNCHANGED <<audit, lastSeq, seenSeqs>>

Refused ==
  \E e \in EventType : /\ audit' = Append(audit, e) /\ ~ Sequenced(e)
                       /\ UNCHANGED <<lastSeq, seenSeqs>>

PassedOn(p) ==
  /\ PassPacket(p.node, p.seq, p.ts)
  /\ \E e \in EventType : /\ audit' = Append(audit, e) /\ Sequenced(e)
                          /\ e.node = p.node /\ e.seq = p.seq
                          /\ e.decision = "ACCEPT" => ~ SeqWarning(p.node, p.seq, p.ts)

(* Every step of the node is of one of the three kinds.                    *)
LEMMA StepKinds ==
  ASSUME [Next]_vars
  PROVE  Quiet \/ Refused \/ \E p \in Packets : PassedOn(p)
<1>1. ASSUME NEW n \in Nodes, NEW k \in SignKeys, RegisterCarNode(n, k)
      PROVE  Quiet
  BY <1>1 DEF RegisterCarNode, seqVars, Quiet
<1>2. ASSUME NEW n \in Nodes, DeregisterNode(n)
      PROVE  Quiet
  BY <1>2 DEF DeregisterNode, seqVars, Quiet
<1>3. ASSUME NEW k \in SessionKeys, SetupRelaySession(k)
      PROVE  Quiet
  BY <1>3 DEF SetupRelaySession, seqVars, Quiet
<1>4. ASSUME NEW p \in Packets, ProcessPacket(p)
      PROVE  Refused \/ PassedOn(p)
  <2>1. ASSUME NEW r \in Reasons, NEW c, Reject(p, r, c), r # "zkp_invalid",
               UNCHANGED <<lastSeq, seenSeqs>>
        PROVE  Refused
    <3>1. /\ Event("REJECT", r, p) \in EventType
          /\ ~ Sequenced(Event("REJECT", r, p))
      BY <2>1, EventFields DEF Sequenced, Decisions
    <3>2. QED
      BY <2>1, <3>1 DEF Reject, Refused
  <2>2. CASE RejectNoSession(p)
    BY <2>1, <2>2 DEF RejectNoSession, seqVars, Reasons
  <2>3. CASE RejectDecryption(p)
    BY <2>1, <2>3 DEF RejectDecryption, seqVars, Reasons
  <2>4. CASE RejectSignature(p)
    BY <2>1, <2>4 DEF RejectSignature, seqVars, Reasons
  <2>5. CASE RejectHeader(p)
    BY <2>1, <2>5 DEF RejectHeader, seqVars, Reasons
  <2>6. CASE RejectSequence(p)
    BY <2>1, <2>6 DEF RejectSequence, FailPacket, Reasons
  <2>7. CASE RejectZkp(p)
    <3>1. /\ Event("REJECT", "zkp_invalid", p) \in EventType
          /\ Sequenced(Event("REJECT", "zkp_invalid", p))
          /\ Event("REJECT", "zkp_invalid", p).node = p.node
          /\ Event("REJECT", "zkp_invalid", p).seq = p.seq
          /\ Event("REJECT", "zkp_invalid", p).decision # "ACCEPT"
      BY EventFields DEF Sequenced, Decisions, Reasons
    <3>2. QED
      BY <2>7, <3>1 DEF RejectZkp, Reject, PassedOn
  <2>8. CASE Accept(p)
    <3> DEFINE flag == Event("FLAG", "sequence_warnings", p)
               accept == Event("ACCEPT", "all_checks_passed", p)
    <3>1. /\ flag \in EventType /\ Sequenced(flag)
          /\ flag.node = p.node /\ flag.seq = p.seq /\ flag.decision # "ACCEPT"
      BY EventFields DEF Sequenced, Decisions, Reasons
    <3>2. /\ accept \in EventType /\ Sequenced(accept)
          /\ accept.node = p.node /\ accept.seq = p.seq
      BY EventFields DEF Sequenced, Decisions, Reasons
    <3>3. /\ \/ audit' = Append(audit, flag)
             \/ audit' = Append(audit, accept) /\ ~ SeqWarning(p.node, p.seq, p.ts)
          /\ PassPacket(p.node, p.seq, p.ts)
      BY <2>8 DEF Accept
    <3> HIDE DEF flag, accept
    <3>4. QED
      BY <3>1, <3>2, <3>3 DEF PassedOn
  <2>9. QED
    BY <1>4, <2>2, <2>3, <2>4, <2>5, <2>6, <2>7, <2>8 DEF ProcessPacket
<1>5. CASE Tick /\ UNCHANGED nodeVars
  BY <1>5 DEF Tick, nodeVars, Quiet
<1>6. CASE UNCHANGED vars
  BY <1>6 DEF vars, nodeVars, seqVars, Quiet
<1>7. QED
  BY <1>1, <1>2, <1>3, <1>4, <1>5, <1>6 DEF Next

(* A packet refused before or by the sequence check leaves no trace in the *)
(* sequence state: it can be sent again.                                   *)
THEOREM RefusedLeavesNoTrace == Spec => RejectionsLeaveNoTrace
<1> DEFINE Step == \A i \in 1 .. Len(audit') :
                     i > Len(audit) /\ ~ Sequenced(audit'[i])
                       => UNCHANGED <<lastSeq, seenSeqs>>
<1>1. TypeOK /\ [Next]_vars => Step
  <2> SUFFICES ASSUME TypeOK, [Next]_vars PROVE Step
    OBVIOUS
  <2>0. audit \in Seq(EventType)
    BY DEF TypeOK
  <2>1. CASE Quiet
    BY <2>1 DEF Quiet
  <2>2. CASE Refused
    BY <2>2 DEF Refused
  <2>3. ASSUME NEW p \in Packets, PassedOn(p)
        PROVE  Step
    <3>1. PICK e \in EventType : audit' = Append(audit, e) /\ Sequenced(e)
      BY <2>3 DEF PassedOn
    <3>2. \A i \in 1 .. Len(audit') : i > Len(audit) => audit'[i] = e
      BY <2>0, <3>1
    <3>3. QED
      BY <3>1, <3>2
  <2>4. QED
    BY <2>1, <2>2, <2>3, StepKinds
<1>2. QED
  BY <1>1, TypeCorrect, PTL DEF Spec, RejectionsLeaveNoTrace

-----------------------------------------------------------------------------
(* What makes NumbersUsedOnce inductive: a car's last number bounds every  *)
(* number in the trail that got past the sequence check.                   *)
AuditBelowLast ==
  \A i \in 1 .. Len(audit) : Sequenced(audit[i]) =>
    0 < audit[i].seq /\ audit[i].seq <= lastSeq[audit[i].node]

UsedInv == TypeOK /\ (StrictOrdering => AuditBelowLast) /\ NumbersUsedOnce

(* Logging a packet that got past the sequence check keeps the trail's     *)
(* numbers increasing and below the car's new last number.                 *)
LEMMA PassedOnKeepsOrder ==
  ASSUME UsedInv, StrictOrdering, NEW p \in Packets, PassedOn(p)
  PROVE  AuditBelowLast' /\ NumbersUsedOnce'
<1>1. PICK e \in EventType : /\ audit' = Append(audit, e)
                             /\ e.node = p.node /\ e.seq = p.seq
  BY DEF PassedOn
<1>2. p.node \in Nodes /\ p.seq \in Seqs /\ p.ts \in Times
  BY PacketFields
<1>3. SeqTypeOK /\ PassPacket(p.node, p.seq, p.ts)
  BY DEF UsedInv, TypeOK, PassedOn
<1>4. /\ p.seq \in Int /\ p.seq > 0
      /\ lastSeq[p.node] > 0 => p.seq > lastSeq[p.node]
  BY <1>2, <1>3, PassedNumber DEF PassPacket
<1>5. /\ lastSeq \in [Nodes -> Seqs \cup {0}]
      /\ lastSeq' = [lastSeq EXCEPT ![p.node] = p.seq]
  BY <1>3 DEF SeqTypeOK, PassPacket
<1>6. /\ Len(audit) \in Nat
      /\ Len(audit') = Len(audit) + 1
      /\ audit'[Len(audit) + 1] = e
      /\ \A i \in 1 .. Len(audit) : audit'[i] = audit[i]
      /\ \A i \in 1 .. Len(audit) : audit[i] \in EventType
  BY <1>1 DEF UsedInv, TypeOK
<1>7. \A n \in Nodes : lastSeq[n] \in Int
  BY <1>5, SeqsAreIntegers
<1>8. \A i \in 1 .. Len(audit) : audit[i].node \in Nodes /\ audit[i].seq \in Int
  BY <1>6, SeqsAreIntegers DEF EventType
<1>9. ASSUME NEW i \in 1 .. Len(audit), Sequenced(audit[i])
      PROVE  /\ 0 < audit[i].seq /\ audit[i].seq <= lastSeq'[audit[i].node]
             /\ audit[i].node = p.node => audit[i].seq < p.seq
  <2>1. 0 < audit[i].seq /\ audit[i].seq <= lastSeq[audit[i].node]
    BY <1>9 DEF UsedInv, AuditBelowLast
  <2>2. CASE audit[i].node = p.node
    BY <1>2, <1>4, <1>5, <1>7, <1>8, <2>1, <2>2
  <2>3. CASE audit[i].node # p.node
    BY <1>5, <1>8, <2>1, <2>3
  <2>4. QED
    BY <2>2, <2>3
<1>10. AuditBelowLast'
  <2> SUFFICES ASSUME NEW i \in 1 .. Len(audit'), Sequenced(audit'[i])
               PROVE  0 < audit'[i].seq /\ audit'[i].seq <= lastSeq'[audit'[i].node]
    BY DEF AuditBelowLast, Sequenced
  <2>1. CASE i \in 1 .. Len(audit)
    BY <1>6, <1>9, <2>1
  <2>2. CASE i = Len(audit) + 1
    BY <1>1, <1>2, <1>4, <1>5, <1>6, <2>2
  <2>3. QED
    BY <1>6, <2>1, <2>2
<1>11. NumbersUsedOnce'
  <2> SUFFICES ASSUME NEW i \in 1 .. Len(audit'), NEW j \in 1 .. Len(audit'),
                      i < j, Sequenced(audit'[i]), Sequenced(audit'[j]),
                      audit'[i].node = audit'[j].node
               PROVE  audit'[i].seq < audit'[j].seq
    BY DEF NumbersUsedOnce, Sequenced
  <2>1. i \in 1 .. Len(audit) /\ audit'[i] = audit[i]
    BY <1>6
  <2>2. CASE j \in 1 .. Len(audit)
    <3>1. audit'[j] = audit[j]
      BY <1>6, <2>2
    <3>2. QED
      BY <2>1, <2>2, <3>1 DEF UsedInv, NumbersUsedOnce
  <2>3. CASE j = Len(audit) + 1
    BY <1>1, <1>6, <1>9, <2>1, <2>3
  <2>4. QED
    BY <1>6, <2>2, <2>3
<1>12. QED
  BY <1>10, <1>11

(* No number of a car is used twice or out of order among the packets that *)
(* got past the validator's sequence check, however packets are repeated,  *)
(* reordered or delayed, and across every session setup and registration.  *)
THEOREM NumbersNeverReused == Spec => []NumbersUsedOnce
<1>1. Init => UsedInv
  <2> SUFFICES ASSUME Init PROVE UsedInv
    OBVIOUS
  <2>1. TypeOK
    BY TimesAssumption DEF Init, SeqInit, TypeOK, SeqTypeOK, Zero
  <2>2. Len(audit) = 0
    BY DEF Init
  <2>3. QED
    BY <2>1, <2>2 DEF UsedInv, AuditBelowLast, NumbersUsedOnce
<1>2. UsedInv /\ [Next]_vars => UsedInv'
  <2> SUFFICES ASSUME UsedInv, [Next]_vars PROVE UsedInv'
    OBVIOUS
  <2>0. TypeOK'
    BY TypeStep DEF UsedInv
  <2>1. CASE ~ StrictOrdering
    BY <2>0, <2>1 DEF UsedInv, NumbersUsedOnce
  <2>2. CASE Quiet
    BY <2>0, <2>2 DEF Quiet, UsedInv, AuditBelowLast, NumbersUsedOnce, Sequenced
  <2>3. CASE StrictOrdering /\ Refused
    <3>1. PICK e \in EventType : audit' = Append(audit, e) /\ ~ Sequenced(e)
      BY <2>3 DEF Refused
    <3>2. lastSeq' = lastSeq
      BY <2>3 DEF Refused
    <3>3. \A i \in 1 .. Len(audit') :
            Sequenced(audit'[i]) => i \in 1 .. Len(audit) /\ audit'[i] = audit[i]
      BY <3>1 DEF UsedInv, TypeOK
    <3>4. AuditBelowLast'
      BY <2>3, <3>2, <3>3 DEF UsedInv, AuditBelowLast, Sequenced
    <3>5. NumbersUsedOnce'
      BY <2>3, <3>3 DEF UsedInv, NumbersUsedOnce, Sequenced
    <3>6. QED
      BY <2>0, <3>4, <3>5 DEF UsedInv
  <2>4. CASE StrictOrdering /\ \E p \in Packets : PassedOn(p)
    BY <2>0, <2>4, PassedOnKeepsOrder DEF UsedInv
  <2>5. QED
    BY <2>1, <2>2, <2>3, <2>4, StepKinds
<1>3. UsedInv => NumbersUsedOnce
  BY DEF UsedInv
<1>4. QED
  BY <1>1, <1>2, <1>3, PTL DEF Spec

-----------------------------------------------------------------------------
(* A check adds one to "checked" and to the counter of its outcome.        *)
LEMMA PassCounted ==
  ASSUME SeqTypeOK, NEW n, NEW seq, CountCheck(n, seq, TRUE)
  PROVE  /\ seqCounts'.checked = seqCounts.checked + 1
         /\ seqCounts'.passed = seqCounts.passed + 1
         /\ seqCounts'.failed = seqCounts.failed
BY DEF CountCheck, CountIf, SeqTypeOK

(* The same for a check that fails.                                        *)
LEMMA FailCounted ==
  ASSUME SeqTypeOK, NEW n, NEW seq, CountCheck(n, seq, FALSE)
  PROVE  /\ seqCounts'.checked = seqCounts.checked + 1
         /\ seqCounts'.passed = seqCounts.passed
         /\ seqCounts'.failed = seqCounts.failed + 1
BY DEF CountCheck, CountIf, SeqTypeOK

Counters == <<stats, sigCounts, zkpCounts, seqCounts>>

(* The counters of the validator's stages account for every packet that    *)
(* reached them, for any number of packets.                                *)
THEOREM StagesAlwaysAgree == Spec => []StagesAgree
<1>1. Init => StagesAgree
  BY DEF Init, SeqInit, Zero, StagesAgree, StatFields, SigFields, ZkpFields
<1>2. TypeOK /\ StagesAgree /\ [Next]_vars => StagesAgree'
  <2> SUFFICES ASSUME TypeOK, StagesAgree, [Next]_vars PROVE StagesAgree'
    OBVIOUS
  <2>0. /\ SeqTypeOK
        /\ stats \in [StatFields -> Nat]
        /\ sigCounts \in [SigFields -> Nat]
        /\ zkpCounts \in [ZkpFields -> Nat]
        /\ seqCounts.checked \in Nat /\ seqCounts.passed \in Nat
        /\ seqCounts.failed \in Nat
    BY DEF TypeOK, SeqTypeOK
  <2>1. CASE UNCHANGED Counters
    BY <2>1 DEF Counters, StagesAgree
  <2>2. ASSUME NEW p \in Packets, ProcessPacket(p)
        PROVE  StagesAgree'
    <3>1. ASSUME NEW r, NEW c, Reject(p, r, c)
          PROVE  \A f \in StatFields : stats'[f] =
                   stats[f] + CountIf(f \in {"received", "rejected"} \cup c)
      BY <2>0, <3>1, BumpType DEF Reject
    <3> USE DEF StagesAgree, StatFields, SigFields, ZkpFields, CountIf
    <3>2. ASSUME CountVerify(p), Verifies(p)
          PROVE  /\ sigCounts'["verified"] = sigCounts["verified"] + 1
                 /\ sigCounts'["rejected"] = sigCounts["rejected"]
                 /\ sigCounts'["unknown"] = sigCounts["unknown"]
      BY <2>0, <3>2, BumpType DEF CountVerify
    <3>3. ASSUME CountVerify(p), ~ Verifies(p)
          PROVE  /\ sigCounts'["verified"] = sigCounts["verified"]
                 /\ sigCounts'["rejected"] = sigCounts["rejected"] + 1
                 /\ sigCounts'["unknown"] \in {sigCounts["unknown"], sigCounts["unknown"] + 1}
      BY <2>0, <3>3, BumpType DEF CountVerify
    <3>4. CASE RejectNoSession(p)
      BY <2>0, <3>1, <3>4 DEF RejectNoSession, seqVars
    <3>5. CASE RejectDecryption(p)
      BY <2>0, <3>1, <3>5 DEF RejectDecryption, seqVars
    <3>6. CASE RejectSignature(p)
      BY <2>0, <3>1, <3>3, <3>6 DEF RejectSignature, seqVars
    <3>7. CASE RejectHeader(p)
      BY <2>0, <3>1, <3>2, <3>7 DEF RejectHeader, seqVars
    <3>8. CASE RejectSequence(p)
      <4>1. /\ seqCounts'.checked = seqCounts.checked + 1
            /\ seqCounts'.passed = seqCounts.passed
            /\ seqCounts'.failed = seqCounts.failed + 1
        BY <2>0, <3>8, FailCounted DEF RejectSequence, FailPacket
      <4>2. QED
        BY <2>0, <3>1, <3>2, <3>8, <4>1 DEF RejectSequence
    <3>9. ASSUME PassPacket(p.node, p.seq, p.ts)
          PROVE  /\ seqCounts'.checked = seqCounts.checked + 1
                 /\ seqCounts'.passed = seqCounts.passed + 1
                 /\ seqCounts'.failed = seqCounts.failed
      BY <2>0, <3>9, PassCounted DEF PassPacket
    <3>10. CASE RejectZkp(p)
      <4>1. /\ zkpCounts'["failed"] = zkpCounts["failed"] + 1
            /\ zkpCounts'["verified"] = zkpCounts["verified"]
            /\ zkpCounts'["skipped"] = zkpCounts["skipped"]
        BY <2>0, <3>10, BumpType DEF RejectZkp, CountZkp
      <4>2. QED
        BY <2>0, <3>1, <3>2, <3>9, <3>10, <4>1 DEF RejectZkp
    <3>11. CASE Accept(p)
      <4>0. p.zkp \in {"absent", "valid"}
        BY <3>11, PacketsAssumption DEF Accept, PacketType
      <4>1. /\ zkpCounts'["failed"] = zkpCounts["failed"]
            /\ zkpCounts'["verified"] + zkpCounts'["skipped"]
                 = zkpCounts["verified"] + zkpCounts["skipped"] + 1
            /\ zkpCounts'["verified"] \in Nat /\ zkpCounts'["skipped"] \in Nat
        <5>1. PICK d \in {"skipped", "verified"} : zkpCounts' = Bump(zkpCounts, {d})
          BY <3>11, <4>0 DEF Accept, CountZkp
        <5>2. \A f \in ZkpFields : zkpCounts'[f] = zkpCounts[f] + CountIf(f \in {d})
          BY <2>0, <5>1, BumpType
        <5>3. QED
          BY <2>0, <5>2
      <4>2. PICK d \in {"accepted", "flagged"} : stats' = Bump(stats, {"received", d})
        BY <3>11 DEF Accept
      <4>3. /\ stats'["received"] = stats["received"] + 1
            /\ stats'["accepted"] + stats'["flagged"]
                 = stats["accepted"] + stats["flagged"] + 1
            /\ stats'["accepted"] \in Nat /\ stats'["flagged"] \in Nat
            /\ \A f \in {"rejected", "sig_failed", "seq_failed", "zkp_failed"} :
                 stats'[f] = stats[f]
        BY <2>0, <4>2, BumpType
      <4>4. /\ sigCounts'["verified"] = sigCounts["verified"] + 1
            /\ sigCounts'["rejected"] = sigCounts["rejected"]
            /\ sigCounts'["unknown"] = sigCounts["unknown"]
        BY <3>2, <3>11 DEF Accept
      <4>5. /\ seqCounts'.checked = seqCounts.checked + 1
            /\ seqCounts'.passed = seqCounts.passed + 1
            /\ seqCounts'.failed = seqCounts.failed
        BY <3>9, <3>11 DEF Accept
      <4>6. QED
        BY <2>0, <4>1, <4>3, <4>4, <4>5
    <3>12. QED
      BY <2>2, <3>4, <3>5, <3>6, <3>7, <3>8, <3>10, <3>11 DEF ProcessPacket
  <2>3. QED
    BY <2>1, <2>2 DEF Next, Counters, RegisterCarNode, DeregisterNode,
       SetupRelaySession, Tick, vars, nodeVars, seqVars
<1>3. QED
  BY <1>1, <1>2, TypeCorrect, PTL DEF Spec

-----------------------------------------------------------------------------
(* The node's steps are steps of the checker inside it.                    *)
LEMMA NodeStepIsSeqStep ==
  ASSUME [Next]_vars
  PROVE  SeqStep
<1>1. ASSUME NEW p \in Packets, ProcessPacket(p)
      PROVE  SeqStep
  <2>1. p.node \in Nodes /\ p.seq \in Seqs /\ p.ts \in Times
    BY PacketFields
  <2>2. \/ UNCHANGED seqVars
        \/ PassPacket(p.node, p.seq, p.ts) \/ FailPacket(p.node, p.seq, p.ts)
    BY <1>1 DEF ProcessPacket, RejectNoSession, RejectDecryption, RejectSignature,
                RejectHeader, RejectSequence, RejectZkp, Accept
  <2>3. QED
    BY <2>1, <2>2 DEF SeqStep
<1>2. QED
  BY <1>1 DEF Next, RegisterCarNode, DeregisterNode, SetupRelaySession, vars, SeqStep

(* The replay window inside the node, where registrations, session setups  *)
(* and every kind of rejection run between the checks.                     *)
THEOREM NodeWindowAlwaysRecent == Spec => []WindowHoldsRecent
<1>1. Init => SeqInv /\ WindowInv
  BY SeqInvInit, WindowInit DEF Init
<1>2. SeqInv /\ WindowInv /\ TypeOK' /\ [Next]_vars => SeqInv' /\ WindowInv'
  BY NodeStepIsSeqStep, SeqInvStep, WindowStep DEF TypeOK
<1>3. QED
  BY <1>1, <1>2, WindowInvMeans, TypeCorrect, PTL DEF Spec

-----------------------------------------------------------------------------
(* The positions of a trail that carry a decision.                         *)
Positions(s, d) == {i \in 1 .. Len(s) : s[i].decision = d}

(* One more event adds its own position to those of its decision.          *)
LEMMA PositionsAfterEvent ==
  ASSUME NEW s \in Seq(EventType), NEW e \in EventType, NEW d
  PROVE  /\ IsFiniteSet(Positions(s, d))
         /\ Cardinality(Positions(s, d)) \in Nat
         /\ Cardinality(Positions(Append(s, e), d))
              = Cardinality(Positions(s, d)) + CountIf(e.decision = d)
<1> DEFINE u == Append(s, e)
           L == Len(s)
<1>1. L \in Nat /\ Len(u) = L + 1 /\ u[L + 1] = e /\ \A i \in 1 .. L : u[i] = s[i]
  OBVIOUS
<1>2. IsFiniteSet(Positions(s, d)) /\ L + 1 \notin Positions(s, d)
  <2>1. IsFiniteSet(1 .. L)
    BY <1>1, FS_Interval
  <2>2. Positions(s, d) \in SUBSET (1 .. L)
    BY DEF Positions
  <2>3. IsFiniteSet(Positions(s, d))
    BY <2>1, <2>2, FS_Subset
  <2>4. L + 1 \notin 1 .. L
    BY <1>1
  <2>5. QED
    BY <2>2, <2>3, <2>4
<1> HIDE DEF u, L
<1>3. CASE e.decision = d
  <2>1. Positions(u, d) = Positions(s, d) \cup {L + 1}
    BY <1>1, <1>3 DEF Positions, L
  <2>2. QED
    BY <1>2, <1>3, <2>1, FS_AddElement, FS_CardinalityType DEF u, CountIf
<1>4. CASE e.decision # d
  <2>1. Positions(u, d) = Positions(s, d)
    BY <1>1, <1>4 DEF Positions, L
  <2>2. QED
    BY <1>2, <1>4, <2>1, FS_CardinalityType DEF u, CountIf
<1>5. QED
  BY <1>3, <1>4

(* The counter that goes with a decision.                                  *)
CounterOf == [d \in Decisions |-> CASE d = "ACCEPT" -> "accepted"
                                    [] d = "FLAG" -> "flagged"
                                    [] d = "REJECT" -> "rejected"]

(* Processing a packet logs one event and counts it as received and under  *)
(* its decision, under no other decision.                                  *)
LEMMA PacketLoggedAndCounted ==
  ASSUME TypeOK, NEW p \in Packets, ProcessPacket(p)
  PROVE  \E e \in EventType :
           /\ audit' = Append(audit, e)
           /\ stats'["received"] = stats["received"] + 1
           /\ \A d \in Decisions :
                stats'[CounterOf[d]] = stats[CounterOf[d]] + CountIf(e.decision = d)
<1>0. stats \in [StatFields -> Nat]
  BY DEF TypeOK
<1> USE DEF Decisions
<1>1. ASSUME NEW r \in Reasons, NEW c, Reject(p, r, c),
             c \in SUBSET {"sig_failed", "seq_failed", "zkp_failed"}
      PROVE  \E e \in EventType :
               /\ audit' = Append(audit, e)
               /\ stats'["received"] = stats["received"] + 1
               /\ \A d \in Decisions :
                    stats'[CounterOf[d]] = stats[CounterOf[d]] + CountIf(e.decision = d)
  <2> DEFINE e == Event("REJECT", r, p)
  <2>1. e \in EventType /\ e.decision = "REJECT" /\ audit' = Append(audit, e)
    BY <1>1, EventFields DEF Reject
  <2> HIDE DEF e
  <2>2. \A f \in StatFields :
          stats'[f] = stats[f] + CountIf(f \in {"received", "rejected"} \cup c)
    BY <1>0, <1>1, BumpType DEF Reject
  <2>3. /\ stats'["received"] = stats["received"] + 1
        /\ stats'["accepted"] = stats["accepted"] + 0
        /\ stats'["flagged"] = stats["flagged"] + 0
        /\ stats'["rejected"] = stats["rejected"] + 1
    BY <1>1, <2>2 DEF StatFields, CountIf
  <2>4. QED
    BY <2>1, <2>3 DEF CounterOf, CountIf
<1>2. CASE Accept(p)
  <2>1. PICK d0 \in {"ACCEPT", "FLAG"}, r \in Reasons :
          /\ audit' = Append(audit, Event(d0, r, p))
          /\ stats' = Bump(stats, {"received", CounterOf[d0]})
    BY <1>2 DEF Accept, CounterOf, Reasons
  <2> DEFINE e == Event(d0, r, p)
  <2>2. e \in EventType /\ e.decision = d0
    BY <2>1, EventFields
  <2>3. \A f \in StatFields :
          stats'[f] = stats[f] + CountIf(f \in {"received", CounterOf[d0]})
    BY <1>0, <2>1, BumpType
  <2> HIDE DEF e
  <2>4. /\ stats'["received"] = stats["received"] + 1
        /\ \A d \in Decisions : stats'[CounterOf[d]] = stats[CounterOf[d]] + CountIf(d0 = d)
    BY <2>1, <2>3 DEF StatFields, CountIf, CounterOf
  <2>5. QED
    BY <2>1, <2>2, <2>4 DEF e
<1>3. QED
  BY <1>1, <1>2 DEF ProcessPacket, RejectNoSession, RejectDecryption, RejectSignature,
       RejectHeader, RejectSequence, RejectZkp, Reasons

(* "Every packet decision is logged to the audit trail": one event per     *)
(* packet received, and the node's counters agree with the trail decision  *)
(* by decision, for any number of packets of any kind.                     *)
THEOREM AuditAlwaysAgrees == Spec => []AuditAgreesWithStats
<1> DEFINE Agree == /\ Len(audit) = stats["received"]
                    /\ \A d \in Decisions :
                         Cardinality(Positions(audit, d)) = stats[CounterOf[d]]
<1>1. Init => Agree
  <2> SUFFICES ASSUME Init PROVE Agree
    OBVIOUS
  <2>1. audit = <<>> /\ \A f \in StatFields : stats[f] = 0
    BY DEF Init, Zero
  <2>2. \A d \in Decisions : Positions(audit, d) = {}
    BY <2>1 DEF Positions
  <2>3. QED
    BY <2>1, <2>2, FS_EmptySet DEF CounterOf, Decisions, StatFields
<1>2. TypeOK /\ Agree /\ [Next]_vars => Agree'
  <2> SUFFICES ASSUME TypeOK, Agree, [Next]_vars PROVE Agree'
    OBVIOUS
  <2>1. CASE UNCHANGED <<audit, stats>>
    BY <2>1
  <2>2. ASSUME NEW p \in Packets, ProcessPacket(p)
        PROVE  Agree'
    <3>1. PICK e \in EventType :
            /\ audit' = Append(audit, e)
            /\ stats'["received"] = stats["received"] + 1
            /\ \A d \in Decisions :
                 stats'[CounterOf[d]] = stats[CounterOf[d]] + CountIf(e.decision = d)
      BY <2>2, PacketLoggedAndCounted
    <3>2. audit \in Seq(EventType)
      BY DEF TypeOK
    <3>3. Len(audit') = Len(audit) + 1
      BY <3>1, <3>2
    <3>4. \A d \in Decisions :
            Cardinality(Positions(audit', d)) = Cardinality(Positions(audit, d)) + CountIf(e.decision = d)
      BY <3>1, <3>2, PositionsAfterEvent
    <3>5. QED
      BY <3>1, <3>3, <3>4
  <2>3. QED
    BY <2>1, <2>2 DEF Next, RegisterCarNode, DeregisterNode, SetupRelaySession, vars, nodeVars
<1>3. Agree => AuditAgreesWithStats
  BY DEF AuditAgreesWithStats, Positions, CounterOf, Decisions
<1>4. QED
  BY <1>1, <1>2, <1>3, TypeCorrect, PTL DEF Spec

-----------------------------------------------------------------------------
(* What makes GapsAreFlagged inductive: the last number the checker holds  *)
(* for a car is the number of the car's last event that got past it.       *)
LastOfItsCar(s, i) ==
  \A k \in i + 1 .. Len(s) : ~ (Sequenced(s[k]) /\ s[k].node = s[i].node)

TrailEnd ==
  \A i \in 1 .. Len(audit) :
    Sequenced(audit[i]) /\ LastOfItsCar(audit, i) =>
      0 < audit[i].seq /\ lastSeq[audit[i].node] = audit[i].seq

(* What the trail is after one more event.                                 *)
LEMMA TrailGrows ==
  ASSUME NEW s \in Seq(EventType), NEW e \in EventType
  PROVE  LET u == Append(s, e)
         IN  /\ Len(s) \in Nat /\ Len(u) = Len(s) + 1 /\ u[Len(s) + 1] = e
             /\ \A i \in 1 .. Len(s) : u[i] = s[i]
             /\ \A i \in 1 .. Len(s) :
                  LastOfItsCar(u, i) <=> /\ LastOfItsCar(s, i)
                                         /\ ~ (Sequenced(e) /\ e.node = s[i].node)
<1> DEFINE u == Append(s, e)
           L == Len(s)
<1>1. L \in Nat /\ Len(u) = L + 1 /\ u[L + 1] = e /\ \A i \in 1 .. L : u[i] = s[i]
  OBVIOUS
<1> HIDE DEF u, L
<1>2. ASSUME NEW i \in 1 .. L
      PROVE  LastOfItsCar(u, i) <=> /\ LastOfItsCar(s, i)
                                    /\ ~ (Sequenced(e) /\ e.node = s[i].node)
  <2>1. u[i] = s[i] /\ i + 1 .. L + 1 = (i + 1 .. L) \cup {L + 1}
    BY <1>1
  <2>2. \A k \in i + 1 .. L : u[k] = s[k]
    BY <1>1
  <2>3. QED
    BY <1>1, <2>1, <2>2 DEF LastOfItsCar, L
<1>3. QED
  BY <1>1, <1>2 DEF u, L

(* Logging a packet that got past the sequence check: its number is the    *)
(* car's last now, and when it was accepted without a flag the step from   *)
(* the previous one was small.                                             *)
LEMMA GapsAfterPass ==
  ASSUME TypeOK, TrailEnd, GapsAreFlagged, NEW p \in Packets, PassedOn(p)
  PROVE  TrailEnd' /\ GapsAreFlagged'
<1>1. PICK e \in EventType : /\ audit' = Append(audit, e) /\ Sequenced(e)
                             /\ e.node = p.node /\ e.seq = p.seq
                             /\ e.decision = "ACCEPT" => ~ SeqWarning(p.node, p.seq, p.ts)
  BY DEF PassedOn
<1>2. p.node \in Nodes /\ p.seq \in Seqs /\ p.ts \in Times
  BY PacketFields
<1>3. /\ SeqTypeOK /\ audit \in Seq(EventType)
      /\ PassPacket(p.node, p.seq, p.ts)
  BY DEF TypeOK, PassedOn
<1>4. p.seq \in Int /\ p.seq > 0
  BY <1>2, <1>3, PassedNumber DEF PassPacket
<1>5. /\ lastSeq \in [Nodes -> Seqs \cup {0}]
      /\ lastSeq' = [lastSeq EXCEPT ![p.node] = p.seq]
  BY <1>3 DEF SeqTypeOK, PassPacket
<1> DEFINE L == Len(audit)
<1>6. /\ L \in Nat /\ Len(audit') = L + 1 /\ audit'[L + 1] = e
      /\ \A i \in 1 .. L : audit'[i] = audit[i]
      /\ \A i \in 1 .. L :
           LastOfItsCar(audit', i) <=> /\ LastOfItsCar(audit, i)
                                       /\ ~ (Sequenced(e) /\ e.node = audit[i].node)
  BY <1>1, <1>3, TrailGrows
<1>7. \A i \in 1 .. L : audit[i].node \in Nodes
  <2>1. \A i \in 1 .. L : audit[i] \in EventType
    BY <1>3
  <2>2. QED
    BY <2>1 DEF EventType
<1> HIDE DEF L
<1>8. TrailEnd'
  <2> SUFFICES ASSUME NEW i \in 1 .. Len(audit'), Sequenced(audit'[i]),
                      LastOfItsCar(audit', i)
               PROVE  0 < audit'[i].seq /\ lastSeq'[audit'[i].node] = audit'[i].seq
    BY DEF TrailEnd, Sequenced, LastOfItsCar
  <2>1. CASE i = L + 1
    BY <1>1, <1>2, <1>4, <1>5, <1>6, <2>1
  <2>2. CASE i \in 1 .. L
    <3>1. audit'[i] = audit[i] /\ LastOfItsCar(audit, i) /\ e.node # audit[i].node
      BY <1>1, <1>6, <2>2
    <3>2. 0 < audit[i].seq /\ lastSeq[audit[i].node] = audit[i].seq
      BY <2>2, <3>1 DEF TrailEnd, L
    <3>3. QED
      BY <1>1, <1>5, <1>7, <2>2, <3>1, <3>2
  <2>3. QED
    BY <1>6, <2>1, <2>2
<1>9. GapsAreFlagged'
  <2> SUFFICES ASSUME NEW i \in 1 .. Len(audit'), NEW j \in 1 .. Len(audit'), i < j,
                      audit'[j].decision = "ACCEPT", Sequenced(audit'[i]),
                      audit'[i].node = audit'[j].node,
                      \A k \in i + 1 .. j - 1 :
                        ~ (Sequenced(audit'[k]) /\ audit'[k].node = audit'[i].node)
               PROVE  audit'[j].seq - audit'[i].seq <= MaxSequenceGap
    BY DEF GapsAreFlagged, Sequenced
  <2>1. i \in 1 .. L /\ audit'[i] = audit[i]
    BY <1>6
  <2>2. \A k \in i + 1 .. j - 1 : k \in 1 .. L /\ audit'[k] = audit[k]
    BY <1>6
  <2>3. CASE j \in 1 .. L
    <3>1. audit'[j] = audit[j]
      BY <1>6, <2>3
    <3>2. QED
      BY <2>1, <2>2, <2>3, <3>1 DEF GapsAreFlagged, L
  <2>4. CASE j = L + 1
    <3>1. audit'[j] = e
      BY <1>6, <2>4
    <3>2. LastOfItsCar(audit, i)
      <4>1. \A k \in i + 1 .. L : ~ (Sequenced(audit[k]) /\ audit[k].node = audit[i].node)
        BY <1>6, <2>1, <2>2, <2>4
      <4>2. QED
        BY <4>1 DEF LastOfItsCar, L
    <3>3. 0 < audit[i].seq /\ lastSeq[p.node] = audit[i].seq
      BY <1>1, <2>1, <3>1, <3>2 DEF TrailEnd, L
    <3>4. ~ LargeGap(lastSeq[p.node], p.seq, MaxSequenceGap)
      BY <1>1, <3>1 DEF SeqWarning
    <3>5. lastSeq[p.node] \in Int
      BY <1>2, <1>5, SeqsAreIntegers
    <3>6. p.seq - audit[i].seq <= MaxSequenceGap
      BY <1>4, <3>3, <3>4, <3>5, LimitsAssumption DEF LargeGap
    <3>7. QED
      BY <1>1, <2>1, <3>1, <3>6
  <2>5. QED
    BY <1>6, <2>3, <2>4
<1>10. QED
  BY <1>8, <1>9

(* A refusal adds to the trail what neither the window nor the property    *)
(* looks at.                                                               *)
LEMMA GapsAfterRefusal ==
  ASSUME TypeOK, TrailEnd, GapsAreFlagged, Refused
  PROVE  TrailEnd' /\ GapsAreFlagged'
<1>1. PICK e \in EventType : audit' = Append(audit, e) /\ ~ Sequenced(e)
  BY DEF Refused
<1>2. audit \in Seq(EventType) /\ lastSeq' = lastSeq
  BY DEF TypeOK, Refused
<1> DEFINE L == Len(audit)
<1>3. /\ L \in Nat /\ Len(audit') = L + 1 /\ audit'[L + 1] = e
      /\ \A i \in 1 .. L : audit'[i] = audit[i]
      /\ \A i \in 1 .. L : LastOfItsCar(audit', i) => LastOfItsCar(audit, i)
  BY <1>1, <1>2, TrailGrows
<1>4. e.decision # "ACCEPT"
  BY <1>1 DEF Sequenced
<1> HIDE DEF L
<1>5. TrailEnd'
  <2> SUFFICES ASSUME NEW i \in 1 .. Len(audit'), Sequenced(audit'[i]),
                      LastOfItsCar(audit', i)
               PROVE  0 < audit'[i].seq /\ lastSeq'[audit'[i].node] = audit'[i].seq
    BY DEF TrailEnd, Sequenced, LastOfItsCar
  <2>1. i \in 1 .. L /\ audit'[i] = audit[i]
    BY <1>1, <1>3
  <2>2. QED
    BY <1>2, <1>3, <2>1 DEF TrailEnd, L
<1>6. GapsAreFlagged'
  <2> SUFFICES ASSUME NEW i \in 1 .. Len(audit'), NEW j \in 1 .. Len(audit'), i < j,
                      audit'[j].decision = "ACCEPT", Sequenced(audit'[i]),
                      audit'[i].node = audit'[j].node,
                      \A k \in i + 1 .. j - 1 :
                        ~ (Sequenced(audit'[k]) /\ audit'[k].node = audit'[i].node)
               PROVE  audit'[j].seq - audit'[i].seq <= MaxSequenceGap
    BY DEF GapsAreFlagged, Sequenced
  <2>1. j \in 1 .. L /\ i \in 1 .. L
    BY <1>3, <1>4
  <2>2. \A k \in i .. j : k \in 1 .. L /\ audit'[k] = audit[k]
    BY <1>3, <2>1
  <2>3. audit'[i] = audit[i] /\ audit'[j] = audit[j]
    BY <1>3, <2>1
  <2>4. \A k \in i + 1 .. j - 1 :
          ~ (Sequenced(audit[k]) /\ audit[k].node = audit[i].node)
    BY <2>1, <2>2, <2>3
  <2>5. QED
    BY <2>1, <2>3, <2>4 DEF GapsAreFlagged, L
<1>7. QED
  BY <1>5, <1>6

(* A packet accepted without a flag is at most max_sequence_gap ahead of   *)
(* the last packet of its car that got past the sequence check, for any    *)
(* cars, packets and limits, strict ordering or not: a larger loss always  *)
(* leaves a FLAG in the trail, and no rejection in between hides it.       *)
THEOREM GapsAlwaysFlagged == Spec => []GapsAreFlagged
<1>1. Init => TrailEnd /\ GapsAreFlagged
  BY DEF Init, TrailEnd, GapsAreFlagged
<1>2. TypeOK /\ TrailEnd /\ GapsAreFlagged /\ [Next]_vars => TrailEnd' /\ GapsAreFlagged'
  <2> SUFFICES ASSUME TypeOK, TrailEnd, GapsAreFlagged, [Next]_vars
               PROVE  TrailEnd' /\ GapsAreFlagged'
    OBVIOUS
  <2>1. CASE Quiet
    BY <2>1 DEF Quiet, TrailEnd, GapsAreFlagged, LastOfItsCar, Sequenced
  <2>2. QED
    BY <2>1, StepKinds, GapsAfterPass, GapsAfterRefusal
<1>3. QED
  BY <1>1, <1>2, TypeCorrect, PTL DEF Spec
=============================================================================
