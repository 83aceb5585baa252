-------------------------- MODULE Evaluation_proofs --------------------------
(* Theorems about the evaluation of the system: the division of a lap into *)
(* sectors and its corners (CornerAnalysis) and the reports of the five simulation         *)
(* programs (Simulations): key rotation, jitter and reordering, packet     *)
(* loss, replay and tampering.                                             *)
EXTENDS Simulations, CornerAnalysis, FiniteSetTheorems, SequenceTheorems,
        WellFoundedInduction, TLAPS

-----------------------------------------------------------------------------
(* The division of a lap into sectors.                                     *)

(* Multiplying by a natural number keeps the order.                        *)
LEMMA TimesKeepsOrder ==
  ASSUME NEW x \in Int, NEW y \in Int, x <= y, NEW z \in Nat
  PROVE  z * x <= z * y
<1>1. y - x \in Nat
  OBVIOUS
<1>2. z * (y - x) \in Nat
  BY <1>1
<1>3. z * (y - x) = z * y - z * x
  OBVIOUS
<1> QED
  BY <1>2, <1>3

(* A point of a stretch of parts of the same size belongs to one part,     *)
(* the last one being closed at its far end; also when the size is zero.   *)
InPart(span, parts, a, k) ==
  /\ span * (k - 1) <= a
  /\ a < span * k \/ (k = parts /\ a = span * k)

(* Some part holds the point, and no other part does.                      *)
LEMMA OnePart ==
  ASSUME NEW span \in Nat, NEW parts \in Nat \ {0}, NEW a \in Nat,
         a <= span * parts
  PROVE  \E k \in 1 .. parts :
           InPart(span, parts, a, k) /\ \A l \in 1 .. parts : InPart(span, parts, a, l) => l = k
<1>1. CASE a = span * parts
  <2>1. span * (parts - 1) <= span * parts
    BY TimesKeepsOrder
  <2>2. InPart(span, parts, a, parts)
    BY <1>1, <2>1 DEF InPart
  <2>3. ASSUME NEW l \in 1 .. parts, InPart(span, parts, a, l)
        PROVE  l = parts
    <3>1. span * l <= span * parts
      BY TimesKeepsOrder
    <3>2. span * l \in Nat /\ span * parts \in Nat
      OBVIOUS
    <3> QED
      BY <1>1, <2>3, <3>1, <3>2 DEF InPart
  <2> QED
    BY <2>2, <2>3
<1>2. CASE a < span * parts
  <2>1. span > 0
    BY <1>2
  <2>2. PICK q \in Nat, r \in 0 .. span - 1 : a = span * q + r
    <3>1. a \div span \in Nat /\ a % span \in 0 .. span - 1
      BY <2>1
    <3>2. a = span * (a \div span) + (a % span)
      BY <2>1
    <3> QED
      BY <3>1, <3>2
  <2>3. span * (q + 1) = span * q + span /\ span * q \in Nat
    BY <2>2
  <2>4. q < parts
    <3>1. ASSUME parts <= q PROVE FALSE
      <4>1. span * parts <= span * q
        BY <3>1, TimesKeepsOrder
      <4> QED
        BY <4>1, <1>2, <2>2, <2>3
    <3> QED
      BY <3>1
  <2> DEFINE k == q + 1
  <2>5. k \in 1 .. parts /\ k - 1 = q
    BY <2>4
  <2>6. InPart(span, parts, a, k)
    BY <2>2, <2>3, <2>5 DEF InPart
  <2>7. ASSUME NEW l \in 1 .. parts, InPart(span, parts, a, l)
        PROVE  l = k
    <3>1. span * (l - 1) <= a /\ a < span * l
      BY <1>2, <2>7 DEF InPart
    <3>2. ASSUME l - 1 >= k PROVE FALSE
      <4>1. span * k <= span * (l - 1)
        BY <3>2, <2>5, TimesKeepsOrder
      <4> QED
        BY <4>1, <3>1, <2>2, <2>3
    <3>3. ASSUME l <= q PROVE FALSE
      <4>1. span * l <= span * q
        BY <3>3, TimesKeepsOrder
      <4> QED
        BY <4>1, <3>1, <2>2, <2>3
    <3> QED
      BY <3>2, <3>3
  <2> QED
    BY <2>5, <2>6, <2>7
<1> QED
  BY <1>1, <1>2

(* The least and the greatest distance of a sorted lap are its ends.       *)
LEMMA EndsOfSorted ==
  ASSUME NEW d \in Seq(Int), Len(d) > 0,
         \A i, j \in 1 .. Len(d) : i <= j => d[i] <= d[j]
  PROVE  Min(ToSet(d)) = d[1] /\ Max(ToSet(d)) = d[Len(d)]
<1>1. ToSet(d) = {d[i] : i \in 1 .. Len(d)}
  BY DEF ToSet
<1>2. 1 \in 1 .. Len(d) /\ Len(d) \in 1 .. Len(d)
  OBVIOUS
<1>3. \A i \in 1 .. Len(d) : d[i] \in Int /\ d[1] <= d[i] /\ d[i] <= d[Len(d)]
  BY <1>2
<1> DEFINE S == ToSet(d)
<1>4. d[1] \in S /\ d[Len(d)] \in S
  BY <1>1, <1>2
<1>5. \A y \in S : y \in Int /\ d[1] <= y /\ y <= d[Len(d)]
  BY <1>1, <1>3
<1> HIDE DEF S
<1>6. Min(S) = d[1]
  <2>1. Min(S) \in S /\ \A y \in S : Min(S) <= y
    BY <1>4, <1>5 DEF Min
  <2> QED
    BY <2>1, <1>4, <1>5
<1>7. Max(S) = d[Len(d)]
  <2>1. Max(S) \in S /\ \A y \in S : Max(S) >= y
    BY <1>4, <1>5 DEF Max
  <2> QED
    BY <2>1, <1>4, <1>5
<1> QED
  BY <1>6, <1>7 DEF S

(* The lap is sorted, it stays what it was, and once it is divided the     *)
(* sectors are those of _lap_sectors.                                      *)
LapInv ==
  /\ distances \in DistanceProfiles
  /\ stage = "done" => sectors = [k \in 1 .. NumSectors |-> LapSectors(k)]

(* Every lap the analysis starts on satisfies the invariant.               *)
LEMMA LapInvInit == Init => LapInv
BY DEF Init, LapInv

(* Every stage of the analysis keeps the lap and its sectors as they are.  *)
LEMMA LapInvStep == LapInv /\ [Next]_vars => LapInv'
<1> SUFFICES ASSUME LapInv, [Next]_vars PROVE LapInv'
  OBVIOUS
<1>1. CASE Divide
  BY <1>1 DEF Divide, LapInv, LapSectors, N, lapVars
<1>2. CASE Smooth \/ Scan \/ Detect \/ Select \/ Selected \/ Build
  BY <1>2 DEF Smooth, Scan, Detect, Select, Selected, Build, LapInv, lapVars
<1>3. CASE UNCHANGED vars
  BY <1>3 DEF vars, lapVars, LapInv, LapSectors, N
<1> QED
  BY <1>1, <1>2, <1>3 DEF Next

(* Sectors that are those of _lap_sectors put every sample in exactly one  *)
(* of them.                                                                *)
LEMMA LapInvPartitions == LapInv => SectorsPartition
<1> SUFFICES ASSUME LapInv, stage = "done", NEW i \in 1 .. N
             PROVE  Cardinality({k \in 1 .. NumSectors : i \in sectors[k]}) = 1
  BY DEF SectorsPartition
<1>1. /\ distances \in Seq(Int)
      /\ \A j, k \in 1 .. N : j <= k => distances[j] <= distances[k]
      /\ NumSectors \in Nat \ {0}
  BY LapAssumption DEF LapInv, N
<1>2. N \in Nat /\ N > 0 /\ 1 \in 1 .. N /\ N \in 1 .. N
  BY <1>1 DEF N
<1>3. Min(ToSet(distances)) = distances[1] /\ Max(ToSet(distances)) = distances[N]
  BY <1>1, <1>2, EndsOfSorted DEF N
<1> DEFINE span == distances[N] - distances[1]
           a == (distances[i] - distances[1]) * NumSectors
<1>4. /\ distances[1] \in Int /\ distances[i] \in Int /\ distances[N] \in Int
      /\ distances[1] <= distances[i] /\ distances[i] <= distances[N]
  BY <1>1, <1>2 DEF N
<1>5. span \in Nat /\ distances[i] - distances[1] \in Nat
      /\ distances[i] - distances[1] <= span
  BY <1>4
<1>6. a \in Nat /\ a <= span * NumSectors
  <2>1. NumSectors * (distances[i] - distances[1]) <= NumSectors * span
    BY <1>1, <1>5, TimesKeepsOrder
  <2> QED
    BY <2>1, <1>1, <1>5
<1>7. \A k \in 1 .. NumSectors : i \in sectors[k] <=> InPart(span, NumSectors, a, k)
  <2>1. \A k \in 1 .. NumSectors : sectors[k] = LapSectors(k)
    BY DEF LapInv
  <2>2. \A k \in 1 .. NumSectors : i \in LapSectors(k) <=> InPart(span, NumSectors, a, k)
    BY <1>3 DEF LapSectors, InPart
  <2> QED
    BY <2>1, <2>2
<1> HIDE DEF span, a
<1>8. PICK k \in 1 .. NumSectors :
        /\ InPart(span, NumSectors, a, k)
        /\ \A l \in 1 .. NumSectors : InPart(span, NumSectors, a, l) => l = k
  BY <1>1, <1>5, <1>6, OnePart
<1>9. {l \in 1 .. NumSectors : i \in sectors[l]} = {k}
  BY <1>7, <1>8
<1> QED
  BY <1>9, FS_Singleton

(* performance/sector_analysis.py counts every frame of every lap in       *)
(* exactly one sector, for any number of frames and of sectors, frames     *)
(* that share a distance or sit on a boundary included.                    *)
THEOREM SectorsAlwaysPartition == Spec => []SectorsPartition
<1>1. LapInv /\ [Next]_vars => LapInv'
  BY LapInvStep
<1> QED
  BY <1>1, LapInvInit, LapInvPartitions, PTL DEF Spec

-----------------------------------------------------------------------------
(* The key rotation program.                                               *)

Places == {"idle", "begin", "rotate", "public", "reset", "log", "callback"}

RotatorReasons == {"none", "manual_force", "age_exceeded", "count_exceeded"}

RotatorState ==
  [pc : Places, reason : RotatorReasons,
   num : Nat, oldCount : Nat, pub : Nat]

RotationReports ==
  [count : Nat, callbacks : Nat, triggered : BOOLEAN, counterReset : BOOLEAN]

RotTypeOK ==
  /\ session \in Nat /\ packetCount \in Nat /\ age = 0
  /\ rotationCount \in Nat /\ rotated \in Nat
  /\ scheduling \in BOOLEAN /\ joined \in BOOLEAN
  /\ rotationLog \in Seq([num : Nat, reason : RotatorReasons, oldCount : Nat])
  /\ rotation \in [Rotators -> RotatorState]
  /\ rotScenario \in {"manual_rotation", "packet_count_rotation"}
  /\ rotReport \in RotationReports

(* The thread that rotates in this scenario; the other one is idle.        *)
Manual == rotScenario = "manual_rotation"
Worker == IF Manual THEN MainThread ELSE Background
Bystander == IF Manual THEN Background ELSE MainThread

(* How much of the one rotation the worker has done.                       *)
WorkDone ==
  LET pc == rotation[Worker].pc
  IN  /\ rotationCount \in {0, 1}
      /\ pc = "begin" => rotationCount = 0
      /\ pc \in {"rotate", "public", "reset", "log", "callback"} => rotationCount = 1
      /\ rotated = IF pc = "idle" THEN rotationCount ELSE 0
      /\ Len(rotationLog) = IF pc \in {"idle", "callback"} THEN rotationCount ELSE 0
      /\ rotationCount = 1 /\ pc \in {"log", "callback", "idle"} => packetCount = 0

Reporting == {"report", "triggered", "reset", "saved"}

(* Where the main thread is, and what it and the other thread have done by *)
(* then.                                                                   *)
MainPlace ==
  LET pc == rotation[Worker].pc
  IN  /\ rotation[Bystander].pc = "idle"
      /\ rotPc \in {"start", "record"} =>
           pc = "idle" /\ rotationCount = 0 /\ packetCount < ToRecord
      /\ Manual =>
           /\ ~ scheduling /\ ~ joined
           /\ rotPc \in {"start", "record", "force", "forcing"} \cup Reporting
           /\ rotPc = "force" => pc = "idle" /\ rotationCount = 0
           /\ rotPc = "forcing" /\ pc = "idle" => rotationCount = 1
           /\ rotPc \in Reporting => pc = "idle" /\ rotationCount = 1
      /\ ~ Manual =>
           /\ rotPc \in {"start", "record", "wait", "stop", "join"} \cup Reporting
           /\ rotPc \notin {"start", "record"} /\ rotationCount = 0 =>
                packetCount = MaxPackets
           /\ rotPc \in {"start", "join"} \cup Reporting => ~ scheduling
           /\ joined => rotPc \in Reporting /\ pc = "idle"

(* What has been read into the result is still so.                         *)
ReportSoFar ==
  Manual \/ joined =>
    /\ rotPc \in {"triggered", "reset", "saved"} =>
         rotReport.count = rotationCount /\ rotReport.callbacks = rotated
    /\ rotPc \in {"reset", "saved"} => rotReport.triggered = (rotationCount = 1)
    /\ rotPc = "saved" => rotReport.counterReset = (packetCount = 0)

RotInv == RotTypeOK /\ WorkDone /\ MainPlace /\ ReportSoFar

(* There are two threads, the main one and the scheduler's.                *)
LEMMA TwoThreads ==
  /\ Rotators = {Background, MainThread} /\ Background # MainThread
  /\ Worker \in Rotators /\ Bystander \in Rotators /\ Worker # Bystander
  /\ \A t \in Rotators : t # Worker => t = Bystander
BY SchedulerAssumption, RotationSimAssumption DEF Rotators, Worker, Bystander

(* Thread t goes to a place of _do_rotation, and no other thread moves.    *)
Moved(t, pc) ==
  /\ rotation' \in [Rotators -> RotatorState]
  /\ rotation'[t].pc = pc
  /\ \A u \in Rotators : u # t => rotation'[u] = rotation[u]

(* Where each step of the scheduler takes the thread that makes it.        *)
LEMMA RotationPlaces ==
  ASSUME RotTypeOK, NEW t \in Rotators
  PROVE  /\ CheckRotation /\ t = Background => Moved(t, "begin")
         /\ ForceRotation(t) => Moved(t, "begin")
         /\ BeginRotation(t) => Moved(t, "rotate")
         /\ RotateSession(t) => Moved(t, "public")
         /\ ReadPublicKey(t) => Moved(t, "reset")
         /\ ResetCounters(t) => Moved(t, "log")
         /\ LogRotation(t) => Moved(t, "callback")
         /\ Callback(t) => Moved(t, "idle")
<1>1. /\ rotation \in [Rotators -> RotatorState]
      /\ session \in Nat /\ rotationCount \in Nat /\ packetCount \in Nat
  BY DEF RotTypeOK
<1>2. ASSUME NEW pc \in Places,
             rotation' = [rotation EXCEPT ![t].pc = pc]
      PROVE  Moved(t, pc)
  BY <1>1, <1>2 DEF Moved, RotatorState
<1>3. ASSUME NEW pc \in Places, NEW why \in RotatorReasons,
             rotation' = [rotation EXCEPT ![t].pc = pc, ![t].reason = why]
      PROVE  Moved(t, pc)
  BY <1>1, <1>3 DEF Moved, RotatorState
<1>4. CheckRotation /\ t = Background => Moved(t, "begin")
  <2> DEFINE why == IF age >= MaxAge THEN "age_exceeded" ELSE "count_exceeded"
             pc == "begin"
  <2>1. why \in RotatorReasons /\ pc \in Places
    BY DEF RotatorReasons, Places
  <2>2. CheckRotation /\ t = Background =>
          rotation' = [rotation EXCEPT ![t].pc = pc, ![t].reason = why]
    BY DEF CheckRotation
  <2> HIDE DEF why, pc
  <2>3. CheckRotation /\ t = Background => Moved(t, pc)
    BY <1>3, <2>1, <2>2
  <2> QED
    BY <2>3 DEF pc
<1>5. ForceRotation(t) => Moved(t, "begin")
  <2> DEFINE why == "manual_force"
             pc == "begin"
  <2>1. why \in RotatorReasons /\ pc \in Places
    BY DEF RotatorReasons, Places
  <2>2. ForceRotation(t) =>
          rotation' = [rotation EXCEPT ![t].pc = pc, ![t].reason = why]
    BY DEF ForceRotation
  <2> HIDE DEF why, pc
  <2>3. ForceRotation(t) => Moved(t, pc)
    BY <1>3, <2>1, <2>2
  <2> QED
    BY <2>3 DEF pc
<1>6. BeginRotation(t) => Moved(t, "rotate")
  <2> DEFINE pc == "rotate"
             n == rotationCount + 1
  <2>1. pc \in Places /\ n \in Nat
    BY <1>1 DEF Places
  <2>2. BeginRotation(t) =>
          rotation' = [rotation EXCEPT ![t].pc = pc, ![t].num = n,
                                       ![t].oldCount = packetCount]
    BY DEF BeginRotation
  <2> HIDE DEF pc, n
  <2>3. BeginRotation(t) => Moved(t, pc)
    BY <1>1, <2>1, <2>2 DEF Moved, RotatorState
  <2> QED
    BY <2>3 DEF pc
<1>7. RotateSession(t) => Moved(t, "public")
  <2>1. "public" \in Places
    BY DEF Places
  <2> QED
    BY <1>2, <2>1 DEF RotateSession, Goto
<1>8. ReadPublicKey(t) => Moved(t, "reset")
  <2> DEFINE pc == "reset"
  <2>1. pc \in Places
    BY DEF Places
  <2>2. ReadPublicKey(t) =>
          rotation' = [rotation EXCEPT ![t].pc = pc, ![t].pub = session]
    BY DEF ReadPublicKey
  <2> HIDE DEF pc
  <2>3. ReadPublicKey(t) => Moved(t, pc)
    BY <1>1, <2>1, <2>2 DEF Moved, RotatorState
  <2> QED
    BY <2>3 DEF pc
<1>9. ResetCounters(t) => Moved(t, "log")
  <2>1. "log" \in Places
    BY DEF Places
  <2> QED
    BY <1>2, <2>1 DEF ResetCounters, Goto
<1>10. LogRotation(t) => Moved(t, "callback")
  <2>1. "callback" \in Places
    BY DEF Places
  <2> QED
    BY <1>2, <2>1 DEF LogRotation, Goto
<1>11. Callback(t) => Moved(t, "idle")
  <2>1. Idle \in RotatorState /\ Idle.pc = "idle"
    BY DEF Idle, RotatorState, Places, RotatorReasons
  <2>2. Callback(t) => rotation' = [rotation EXCEPT ![t] = Idle]
    BY RotationSimAssumption DEF Callback
  <2> QED
    BY <1>1, <2>1, <2>2 DEF Moved
<1> QED
  BY <1>4, <1>5, <1>6, <1>7, <1>8, <1>9, <1>10, <1>11

(* Nothing has been done when the program starts.                          *)
LEMMA RotInvInit == RotInit => RotInv
<1> SUFFICES ASSUME RotInit PROVE RotInv
  OBVIOUS
<1>1. Idle \in RotatorState /\ Idle.pc = "idle"
  BY DEF Idle, RotatorState, Places, RotatorReasons
<1>2. rotation \in [Rotators -> RotatorState] /\ \A t \in Rotators : rotation[t].pc = "idle"
  BY <1>1 DEF RotInit, SchedulerInit
<1>3. NoReport \in RotationReports
  BY DEF NoReport, RotationReports
<1>4. RotTypeOK
  <2>1. scheduling \in BOOLEAN /\ joined \in BOOLEAN
    BY Zenon DEF RotInit, SchedulerInit
  <2> QED
    BY <1>2, <1>3, <2>1 DEF RotInit, SchedulerInit, RotTypeOK
<1>5. WorkDone
  BY <1>2, TwoThreads DEF RotInit, SchedulerInit, WorkDone
<1>6. MainPlace
  BY <1>2, TwoThreads, SchedulerAssumption, RotationSimAssumption
  DEF RotInit, SchedulerInit, MainPlace, Manual, ToRecord, Reporting
<1>7. ReportSoFar
  BY DEF RotInit, ReportSoFar
<1> QED
  BY <1>4, <1>5, <1>6, <1>7 DEF RotInv

(* A step of the rotation under way keeps the invariant: the worker makes  *)
(* it, and while it is under way no report is being relied on.             *)
LEMMA RotationKeepsRotInv ==
  ASSUME RotInv, NEW t \in Rotators, RotationStep(t), UNCHANGED <<rotPc, mainVars>>
  PROVE  RotInv'
<1>0. /\ RotTypeOK /\ WorkDone /\ MainPlace /\ ReportSoFar
      /\ rotPc' = rotPc /\ rotScenario' = rotScenario
      /\ joined' = joined /\ rotReport' = rotReport
  BY DEF RotInv, mainVars
<1>1. rotation[t].pc # "idle" /\ rotation[t].pc \in Places
  <2>1. rotation[t] \in RotatorState
    BY <1>0 DEF RotTypeOK
  <2> QED
    BY <2>1 DEF RotationStep, BeginRotation, RotateSession, ReadPublicKey, ResetCounters,
              LogRotation, Callback, PeerHandshake, RotatorState
<1>2. t = Worker
  BY <1>0, <1>1, TwoThreads DEF MainPlace
<1>3. Manual' = Manual /\ Worker' = Worker /\ Bystander' = Bystander /\ ToRecord' = ToRecord
  BY <1>0 DEF Manual, Worker, Bystander, ToRecord
<1>4. ~ PeerHandshake(t)
  BY <1>1 DEF PeerHandshake, Places
<1>5. ASSUME NEW pc, Moved(t, pc)
      PROVE  /\ rotation' \in [Rotators -> RotatorState]
             /\ rotation'[Worker].pc = pc
             /\ rotation'[Bystander].pc = "idle"
  BY <1>0, <1>2, <1>5, TwoThreads DEF Moved, MainPlace
<1>6. ~ (rotPc \in {"start", "record", "force"})
  BY <1>0, <1>1, <1>2 DEF MainPlace, Reporting
<1>7. ~ (Manual /\ rotPc \in Reporting) /\ ~ joined
  BY <1>0, <1>1, <1>2 DEF MainPlace
<1>8. ReportSoFar'
  BY <1>0, <1>3, <1>6, <1>7 DEF ReportSoFar, MainPlace, Reporting
<1>9. ASSUME BeginRotation(t)
      PROVE  RotInv'
  <2>1. Moved(t, "rotate")
    BY <1>0, <1>9, RotationPlaces
  <2>2. /\ rotation[Worker].pc = "begin" /\ rotationCount' = rotationCount + 1
        /\ session' = session /\ packetCount' = packetCount /\ age' = age
        /\ scheduling' = scheduling /\ rotationLog' = rotationLog /\ rotated' = rotated
    BY <1>2, <1>9 DEF BeginRotation, engineVars
  <2>3. RotTypeOK'
    BY <1>0, <1>5, <2>1, <2>2 DEF RotTypeOK
  <2>4. WorkDone'
    BY <1>0, <1>3, <1>5, <2>1, <2>2 DEF WorkDone
  <2>5. MainPlace'
    BY <1>0, <1>3, <1>5, <1>6, <1>7, <2>1, <2>2 DEF MainPlace, WorkDone, Reporting
  <2> QED
    BY <1>8, <2>3, <2>4, <2>5 DEF RotInv
<1>10. ASSUME RotateSession(t)
       PROVE  RotInv'
  <2>1. Moved(t, "public")
    BY <1>0, <1>10, RotationPlaces
  <2>2. /\ rotation[Worker].pc = "rotate" /\ rotationCount' = rotationCount
        /\ session' = session + 1 /\ packetCount' = packetCount /\ age' = age
        /\ scheduling' = scheduling /\ rotationLog' = rotationLog /\ rotated' = rotated
    BY <1>2, <1>10 DEF RotateSession, NewSession, schedVars
  <2>3. RotTypeOK'
    BY <1>0, <1>5, <2>1, <2>2 DEF RotTypeOK
  <2>4. WorkDone'
    BY <1>0, <1>3, <1>5, <2>1, <2>2 DEF WorkDone
  <2>5. MainPlace'
    BY <1>0, <1>3, <1>5, <1>6, <1>7, <2>1, <2>2 DEF MainPlace, WorkDone, Reporting
  <2> QED
    BY <1>8, <2>3, <2>4, <2>5 DEF RotInv
<1>11. ASSUME ReadPublicKey(t)
       PROVE  RotInv'
  <2>1. Moved(t, "reset")
    BY <1>0, <1>11, RotationPlaces
  <2>2. /\ rotation[Worker].pc = "public" /\ rotationCount' = rotationCount
        /\ session' = session /\ packetCount' = packetCount /\ age' = age
        /\ scheduling' = scheduling /\ rotationLog' = rotationLog /\ rotated' = rotated
    BY <1>2, <1>11 DEF ReadPublicKey, engineVars, schedVars
  <2>3. RotTypeOK'
    BY <1>0, <1>5, <2>1, <2>2 DEF RotTypeOK
  <2>4. WorkDone'
    BY <1>0, <1>3, <1>5, <2>1, <2>2 DEF WorkDone
  <2>5. MainPlace'
    BY <1>0, <1>3, <1>5, <1>6, <1>7, <2>1, <2>2 DEF MainPlace, WorkDone, Reporting
  <2> QED
    BY <1>8, <2>3, <2>4, <2>5 DEF RotInv
<1>12. ASSUME ResetCounters(t)
       PROVE  RotInv'
  <2>1. Moved(t, "log")
    BY <1>0, <1>12, RotationPlaces
  <2>2. /\ rotation[Worker].pc = "reset" /\ rotationCount' = rotationCount
        /\ session' = session /\ packetCount' = 0 /\ age' = 0
        /\ scheduling' = scheduling /\ rotationLog' = rotationLog /\ rotated' = rotated
    BY <1>2, <1>12 DEF ResetCounters, engineVars
  <2>3. RotTypeOK'
    BY <1>0, <1>5, <2>1, <2>2 DEF RotTypeOK
  <2>4. WorkDone'
    BY <1>0, <1>3, <1>5, <2>1, <2>2 DEF WorkDone
  <2>5. MainPlace'
    BY <1>0, <1>3, <1>5, <1>6, <1>7, <2>1, <2>2 DEF MainPlace, WorkDone, Reporting
  <2> QED
    BY <1>8, <2>3, <2>4, <2>5 DEF RotInv
<1>13. ASSUME LogRotation(t)
       PROVE  RotInv'
  <2> DEFINE Entry == [num : Nat, reason : RotatorReasons, oldCount : Nat]
             e == [num |-> rotation[t].num, reason |-> rotation[t].reason,
                   oldCount |-> rotation[t].oldCount]
  <2>1. Moved(t, "callback")
    BY <1>0, <1>13, RotationPlaces
  <2>2. /\ rotation[Worker].pc = "log" /\ rotationCount' = rotationCount
        /\ session' = session /\ packetCount' = packetCount /\ age' = age
        /\ scheduling' = scheduling /\ rotationLog' = Append(rotationLog, e)
        /\ rotated' = rotated
    BY <1>2, <1>13 DEF LogRotation, engineVars
  <2>3. rotation[t] \in RotatorState
    BY <1>0 DEF RotTypeOK
  <2>4. e \in Entry
    BY <2>3 DEF RotatorState
  <2>5. rotationLog \in Seq(Entry)
    BY <1>0 DEF RotTypeOK
  <2> HIDE DEF Entry, e
  <2>6. rotationLog' \in Seq(Entry) /\ Len(rotationLog') = Len(rotationLog) + 1
    BY <2>2, <2>4, <2>5
  <2>7. RotTypeOK'
    BY <1>0, <1>5, <2>1, <2>2, <2>6 DEF RotTypeOK, Entry
  <2>8. WorkDone'
    BY <1>0, <1>3, <1>5, <2>1, <2>2, <2>6 DEF WorkDone
  <2>9. MainPlace'
    BY <1>0, <1>3, <1>5, <1>6, <1>7, <2>1, <2>2 DEF MainPlace, WorkDone, Reporting
  <2> QED
    BY <1>8, <2>7, <2>8, <2>9 DEF RotInv
<1>14. ASSUME Callback(t)
       PROVE  RotInv'
  <2>1. Moved(t, "idle")
    BY <1>0, <1>14, RotationPlaces
  <2>2. /\ rotation[Worker].pc = "callback" /\ rotationCount' = rotationCount
        /\ session' = session /\ packetCount' = packetCount /\ age' = age
        /\ scheduling' = scheduling /\ rotationLog' = rotationLog
        /\ rotated' = rotated + 1
    BY <1>2, <1>14, RotationSimAssumption DEF Callback, engineVars
  <2>3. RotTypeOK'
    BY <1>0, <1>5, <2>1, <2>2 DEF RotTypeOK
  <2>4. WorkDone'
    BY <1>0, <1>3, <1>5, <2>1, <2>2 DEF WorkDone
  <2>5. MainPlace'
    BY <1>0, <1>3, <1>5, <1>6, <1>7, <2>1, <2>2 DEF MainPlace, WorkDone, Reporting
  <2> QED
    BY <1>8, <2>3, <2>4, <2>5 DEF RotInv
<1> QED
  BY <1>4, <1>9, <1>10, <1>11, <1>12, <1>13, <1>14 DEF RotationStep

(* What is left alone by the main thread's steps that do not touch the     *)
(* rotation.                                                               *)
SameWork ==
  /\ rotation' = rotation /\ session' = session /\ rotationCount' = rotationCount
  /\ rotated' = rotated /\ rotationLog' = rotationLog /\ age' = age

SameReport ==
  rotScenario' = rotScenario /\ joined' = joined /\ rotReport' = rotReport

(* The background thread finds a rotation due: its first and only one,     *)
(* since the counter is 0 after it and nothing is recorded any more.       *)
LEMMA CheckKeepsRotInv ==
  ASSUME RotInv, CheckRotation, UNCHANGED <<rotPc, mainVars>>
  PROVE  RotInv'
<1>0. /\ RotTypeOK /\ WorkDone /\ MainPlace /\ ReportSoFar
      /\ rotPc' = rotPc /\ SameReport
  BY DEF RotInv, mainVars, SameReport
<1>1. /\ rotation[Background].pc = "idle" /\ scheduling /\ ShouldRotate
      /\ session' = session /\ rotationCount' = rotationCount
      /\ rotated' = rotated /\ rotationLog' = rotationLog /\ age' = age
      /\ packetCount' = packetCount /\ scheduling' = scheduling
  BY DEF CheckRotation, engineVars, schedVars
<1>2. packetCount >= MaxPackets /\ packetCount > 0
  <2>1. age = 0 /\ packetCount \in Nat
    BY <1>0 DEF RotTypeOK
  <2> QED
    BY <1>1, <2>1, SchedulerAssumption DEF ShouldRotate
<1>3. ~ Manual /\ Worker = Background /\ ~ joined
  <2>1. ~ Manual
    BY <1>0, <1>1 DEF MainPlace
  <2> QED
    BY <1>0, <1>1, <2>1 DEF MainPlace, Worker, Reporting
<1>4. Manual' = Manual /\ Worker' = Worker /\ Bystander' = Bystander /\ ToRecord' = ToRecord
  BY <1>0 DEF SameReport, Manual, Worker, Bystander, ToRecord
<1>5. Moved(Background, "begin")
  BY <1>0, RotationPlaces, TwoThreads
<1>6. /\ rotation' \in [Rotators -> RotatorState]
      /\ rotation'[Worker].pc = "begin"
      /\ rotation'[Bystander].pc = "idle"
  BY <1>0, <1>3, <1>5, TwoThreads DEF Moved, MainPlace
<1>7. rotationCount = 0
  <2>1. packetCount # 0
    BY <1>2
  <2> QED
    BY <1>0, <1>1, <1>3, <2>1 DEF WorkDone
<1>8. rotPc \notin {"start", "record"}
  <2>1. packetCount \in Nat /\ MaxPackets \in Nat
    BY <1>0, SchedulerAssumption DEF RotTypeOK
  <2>2. ToRecord = MaxPackets
    BY <1>3 DEF ToRecord, Manual
  <2> QED
    BY <1>0, <1>2, <2>1, <2>2 DEF MainPlace
<1>9. RotTypeOK'
  BY <1>0, <1>1, <1>6 DEF RotTypeOK, SameReport
<1>10. WorkDone'
  BY <1>0, <1>1, <1>3, <1>4, <1>6, <1>7 DEF WorkDone
<1>11. MainPlace'
  BY <1>0, <1>1, <1>3, <1>4, <1>6, <1>7, <1>8 DEF MainPlace, SameReport
<1>12. ReportSoFar'
  BY <1>0, <1>3, <1>4 DEF ReportSoFar, SameReport
<1> QED
  BY <1>9, <1>10, <1>11, <1>12 DEF RotInv

(* The steps of the main thread up to the join.                            *)
LEMMA DrivingKeepsRotInv ==
  ASSUME RotInv,
         \/ StartScheduler \/ Record \/ MainForces \/ Forced \/ WaitEnds \/ StopScheduler
  PROVE  RotInv'
<1>0. RotTypeOK /\ WorkDone /\ MainPlace /\ ReportSoFar
  BY DEF RotInv
<1>1. ASSUME SameReport
      PROVE  Manual' = Manual /\ Worker' = Worker /\ Bystander' = Bystander /\ ToRecord' = ToRecord
  BY <1>1 DEF SameReport, Manual, Worker, Bystander, ToRecord
<1>2. packetCount \in Nat /\ ToRecord \in Nat \ {0}
  BY <1>0, SchedulerAssumption, RotationSimAssumption DEF RotTypeOK, ToRecord
<1>3. CASE StartScheduler
  <2>1. /\ rotPc = "start" /\ rotPc' = "record" /\ SameWork /\ SameReport
        /\ packetCount' = packetCount
        /\ scheduling' = (rotScenario = "packet_count_rotation")
    BY <1>3 DEF StartScheduler, At, SameWork, SameReport, engineVars, mainVars
  <2>2. scheduling' \in BOOLEAN /\ (Manual => ~ scheduling')
    BY <2>1, Zenon DEF Manual
  <2>3. RotTypeOK'
    BY <1>0, <2>1, <2>2 DEF RotTypeOK, SameWork, SameReport
  <2>4. WorkDone'
    BY <1>0, <1>1, <2>1 DEF WorkDone, SameWork
  <2>5. MainPlace'
    BY <1>0, <1>1, <2>1, <2>2 DEF MainPlace, SameWork, SameReport, Reporting
  <2>6. ReportSoFar'
    BY <2>1 DEF ReportSoFar
  <2> QED
    BY <2>3, <2>4, <2>5, <2>6 DEF RotInv
<1>4. CASE Record
  <2>1. /\ rotPc = "record" /\ SameWork /\ SameReport
        /\ packetCount' = packetCount + 1 /\ scheduling' = scheduling
        /\ packetCount < ToRecord
        /\ packetCount + 1 < ToRecord => rotPc' = "record"
        /\ ~ (packetCount + 1 < ToRecord) /\ Manual => rotPc' = "force"
        /\ ~ (packetCount + 1 < ToRecord) /\ ~ Manual => rotPc' = "wait"
    BY <1>4 DEF Record, At, SameWork, SameReport, engineVars, mainVars, Manual
  <2>2. RotTypeOK'
    BY <1>0, <1>2, <2>1 DEF RotTypeOK, SameWork, SameReport
  <2>3. WorkDone'
    BY <1>0, <1>1, <2>1 DEF WorkDone, SameWork, MainPlace
  <2>4. MainPlace'
    <3>1. ~ Manual => ToRecord = MaxPackets
      BY DEF ToRecord, Manual
    <3>2. ~ (packetCount + 1 < ToRecord) => packetCount + 1 = ToRecord
      BY <1>2, <2>1
    <3> QED
      BY <1>0, <1>1, <2>1, <3>1, <3>2 DEF MainPlace, SameWork, SameReport, Reporting
  <2>5. ReportSoFar'
    BY <1>1, <2>1 DEF ReportSoFar
  <2> QED
    BY <2>2, <2>3, <2>4, <2>5 DEF RotInv
<1>5. CASE MainForces
  <2>1. /\ rotPc = "force" /\ rotPc' = "forcing" /\ SameReport
        /\ ForceRotation(MainThread)
        /\ session' = session /\ rotationCount' = rotationCount
        /\ rotated' = rotated /\ rotationLog' = rotationLog /\ age' = age
        /\ packetCount' = packetCount /\ scheduling' = scheduling
    BY <1>5 DEF MainForces, ForceRotation, At, SameReport, engineVars, schedVars, mainVars
  <2>2. Manual
    BY <1>0, <2>1 DEF MainPlace, Reporting
  <2>3. Worker = MainThread
    BY <2>2 DEF Worker
  <2>4. Moved(MainThread, "begin")
    BY <1>0, <2>1, RotationPlaces, TwoThreads
  <2>5. /\ rotation' \in [Rotators -> RotatorState]
        /\ rotation'[Worker].pc = "begin"
        /\ rotation'[Bystander].pc = "idle"
    BY <1>0, <2>3, <2>4, TwoThreads DEF Moved, MainPlace
  <2>6. rotationCount = 0 /\ rotation[Worker].pc = "idle"
    BY <1>0, <2>1, <2>2 DEF MainPlace
  <2>7. RotTypeOK'
    BY <1>0, <2>1, <2>5 DEF RotTypeOK, SameReport
  <2>8. WorkDone'
    BY <1>0, <1>1, <2>1, <2>5, <2>6 DEF WorkDone
  <2>9. MainPlace'
    BY <1>0, <1>1, <2>1, <2>2, <2>5, <2>6 DEF MainPlace, SameReport, Reporting
  <2>10. ReportSoFar'
    BY <2>1 DEF ReportSoFar
  <2> QED
    BY <2>7, <2>8, <2>9, <2>10 DEF RotInv
<1>6. CASE Forced
  <2>1. /\ rotPc = "forcing" /\ rotPc' = "report" /\ SameReport /\ SameWork
        /\ packetCount' = packetCount /\ scheduling' = scheduling
        /\ rotation[MainThread].pc = "idle"
    BY <1>6 DEF Forced, At, SameWork, SameReport, engineVars, schedVars, mainVars
  <2>2. Manual
    BY <1>0, <2>1 DEF MainPlace, Reporting
  <2>3. Worker = MainThread
    BY <2>2 DEF Worker
  <2>4. RotTypeOK'
    BY <1>0, <2>1 DEF RotTypeOK, SameWork, SameReport
  <2>5. WorkDone'
    BY <1>0, <1>1, <2>1 DEF WorkDone, SameWork
  <2>6. MainPlace'
    BY <1>0, <1>1, <2>1, <2>2, <2>3 DEF MainPlace, SameWork, SameReport, Reporting
  <2>7. ReportSoFar'
    BY <2>1 DEF ReportSoFar
  <2> QED
    BY <2>4, <2>5, <2>6, <2>7 DEF RotInv
<1>7. CASE WaitEnds \/ StopScheduler
  <2>1. /\ \/ rotPc = "wait" /\ rotPc' = "stop" /\ scheduling' = scheduling
           \/ rotPc = "stop" /\ rotPc' = "join" /\ ~ scheduling'
        /\ scheduling' \in BOOLEAN
        /\ SameReport /\ SameWork /\ packetCount' = packetCount
    <3>1. scheduling \in BOOLEAN
      BY <1>0 DEF RotTypeOK
    <3> QED
      BY <1>7, <3>1 DEF WaitEnds, StopScheduler, At, SameWork, SameReport, engineVars,
                        schedVars, mainVars
  <2>2. ~ Manual
    BY <1>0, <2>1 DEF MainPlace, Reporting
  <2>3. RotTypeOK'
    BY <1>0, <2>1 DEF RotTypeOK, SameWork, SameReport
  <2>4. WorkDone'
    BY <1>0, <1>1, <2>1 DEF WorkDone, SameWork
  <2>5. MainPlace'
    BY <1>0, <1>1, <2>1, <2>2 DEF MainPlace, SameWork, SameReport, Reporting
  <2>6. ReportSoFar'
    BY <2>1 DEF ReportSoFar
  <2> QED
    BY <2>3, <2>4, <2>5, <2>6 DEF RotInv
<1> QED
  BY <1>3, <1>4, <1>5, <1>6, <1>7

(* The join and the four reads of the report.                              *)
LEMMA ReportingKeepsRotInv ==
  ASSUME RotInv,
         \/ Join \/ JoinTimesOut \/ ReportCounts \/ ReportTriggered \/ ReportReset
  PROVE  RotInv'
<1>0. RotTypeOK /\ WorkDone /\ MainPlace /\ ReportSoFar
  BY DEF RotInv
<1>1. /\ SameWork /\ packetCount' = packetCount /\ scheduling' = scheduling
      /\ rotScenario' = rotScenario
  BY DEF Join, JoinTimesOut, ReportCounts, ReportTriggered, ReportReset, SameWork,
         engineVars, schedVars, mainVars
<1>2. Manual' = Manual /\ Worker' = Worker /\ Bystander' = Bystander /\ ToRecord' = ToRecord
  BY <1>1 DEF Manual, Worker, Bystander, ToRecord
<1>3. WorkDone'
  BY <1>0, <1>1, <1>2 DEF WorkDone, SameWork
<1>4. rotReport \in RotationReports /\ rotationCount \in Nat /\ rotated \in Nat
      /\ joined \in BOOLEAN
  BY <1>0 DEF RotTypeOK
<1>5. CASE Join
  <2>1. /\ rotPc = "join" /\ rotPc' = "report" /\ joined' /\ joined' \in BOOLEAN
        /\ rotReport' = rotReport /\ rotation[Background].pc = "idle"
    BY <1>5 DEF Join, At
  <2>2. ~ Manual
    BY <1>0, <2>1 DEF MainPlace, Reporting
  <2>3. Worker = Background
    BY <2>2 DEF Worker
  <2>4. RotTypeOK'
    BY <1>0, <1>1, <2>1 DEF RotTypeOK, SameWork
  <2>5. MainPlace'
    BY <1>0, <1>1, <1>2, <2>1, <2>2, <2>3 DEF MainPlace, SameWork, Reporting
  <2>6. ReportSoFar'
    BY <2>1 DEF ReportSoFar
  <2> QED
    BY <1>3, <2>4, <2>5, <2>6 DEF RotInv
<1>6. CASE JoinTimesOut
  <2>1. /\ rotPc = "join" /\ rotPc' = "report" /\ SameReport
    BY <1>6 DEF JoinTimesOut, At, SameReport, mainVars
  <2>2. ~ Manual
    BY <1>0, <2>1 DEF MainPlace, Reporting
  <2>3. RotTypeOK'
    BY <1>0, <1>1, <2>1 DEF RotTypeOK, SameWork, SameReport
  <2>4. MainPlace'
    BY <1>0, <1>1, <1>2, <2>1, <2>2 DEF MainPlace, SameWork, SameReport, Reporting
  <2>5. ReportSoFar'
    BY <2>1 DEF ReportSoFar
  <2> QED
    BY <1>3, <2>3, <2>4, <2>5 DEF RotInv
<1>7. ASSUME /\ joined' = joined /\ rotReport' \in RotationReports
             /\ \/ rotPc = "report" /\ rotPc' = "triggered"
                \/ rotPc = "triggered" /\ rotPc' = "reset"
                \/ rotPc = "reset" /\ rotPc' = "saved"
      PROVE  RotTypeOK' /\ MainPlace'
  <2>1. RotTypeOK'
    BY <1>0, <1>1, <1>7 DEF RotTypeOK, SameWork
  <2>2. MainPlace'
    BY <1>0, <1>1, <1>2, <1>7 DEF MainPlace, SameWork, Reporting
  <2> QED
    BY <2>1, <2>2
<1>8. CASE ReportCounts
  <2>1. /\ rotPc = "report" /\ rotPc' = "triggered" /\ joined' = joined
        /\ rotReport' = [rotReport EXCEPT !.count = rotationCount, !.callbacks = rotated]
    BY <1>8 DEF ReportCounts, At
  <2>2. rotReport' \in RotationReports
        /\ rotReport'.count = rotationCount /\ rotReport'.callbacks = rotated
    BY <1>4, <2>1 DEF RotationReports
  <2>3. ReportSoFar'
    BY <1>1, <2>1, <2>2 DEF ReportSoFar, SameWork
  <2> QED
    BY <1>3, <1>7, <2>1, <2>2, <2>3 DEF RotInv
<1>9. CASE ReportTriggered
  <2> DEFINE b == IF Manual THEN rotationCount = 1 ELSE rotationCount >= 1
  <2>1. /\ rotPc = "triggered" /\ rotPc' = "reset" /\ joined' = joined
        /\ rotReport' = [rotReport EXCEPT !.triggered = b]
    BY <1>9 DEF ReportTriggered, At, Manual
  <2>2. b \in BOOLEAN /\ (b <=> rotationCount = 1)
    <3>1. rotationCount >= 1 <=> rotationCount = 1
      BY <1>0 DEF WorkDone
    <3>2. b <=> rotationCount = 1
      BY <3>1
    <3>3. (rotationCount >= 1) \in BOOLEAN /\ (rotationCount = 1) \in BOOLEAN
      BY <1>4
    <3>4. b \in BOOLEAN
      BY <3>3, Zenon
    <3> QED
      BY <3>2, <3>4
  <2> HIDE DEF b
  <2>3. /\ rotReport' \in RotationReports
        /\ rotReport'.triggered = b
        /\ rotReport'.count = rotReport.count /\ rotReport'.callbacks = rotReport.callbacks
    BY <1>4, <2>1, <2>2 DEF RotationReports
  <2>4. b = (rotationCount = 1)
    BY <2>2
  <2>5. ReportSoFar'
    BY <1>0, <1>1, <1>2, <2>1, <2>3, <2>4 DEF ReportSoFar, SameWork
  <2> QED
    BY <1>3, <1>7, <2>1, <2>3, <2>5 DEF RotInv
<1>10. CASE ReportReset
  <2> DEFINE b == packetCount = 0
  <2>1. /\ rotPc = "reset" /\ rotPc' = "saved" /\ joined' = joined
        /\ rotReport' = [rotReport EXCEPT !.counterReset = b]
    BY <1>10 DEF ReportReset, At
  <2>2. b \in BOOLEAN /\ b = (packetCount = 0)
    OBVIOUS
  <2> HIDE DEF b
  <2>3. /\ rotReport' \in RotationReports
        /\ rotReport'.counterReset = b
        /\ rotReport'.triggered = rotReport.triggered
        /\ rotReport'.count = rotReport.count /\ rotReport'.callbacks = rotReport.callbacks
    BY <1>4, <2>1, <2>2 DEF RotationReports
  <2>4. ReportSoFar'
    BY <1>0, <1>1, <1>2, <2>1, <2>2, <2>3 DEF ReportSoFar, SameWork
  <2> QED
    BY <1>3, <1>7, <2>1, <2>3, <2>4 DEF RotInv
<1> QED
  BY <1>5, <1>6, <1>8, <1>9, <1>10

(* The other four programs leave the key rotation program's state alone.   *)
LEMMA RotInvStep == RotInv /\ [SimNext]_simVars => RotInv'
<1> SUFFICES ASSUME RotInv, [SimNext]_simVars PROVE RotInv'
  OBVIOUS
<1>1. CASE UNCHANGED rotVars
  <2>1. /\ SameWork /\ SameReport /\ rotPc' = rotPc
        /\ packetCount' = packetCount /\ scheduling' = scheduling
    BY <1>1 DEF rotVars, engineVars, schedVars, SameWork, SameReport
  <2>2. Manual' = Manual /\ Worker' = Worker /\ Bystander' = Bystander /\ ToRecord' = ToRecord
    BY <2>1 DEF SameReport, Manual, Worker, Bystander, ToRecord
  <2>3. RotTypeOK'
    BY <2>1 DEF RotInv, RotTypeOK, SameWork, SameReport
  <2>4. WorkDone'
    BY <2>1, <2>2 DEF RotInv, WorkDone, SameWork
  <2>5. MainPlace'
    BY <2>1, <2>2 DEF RotInv, MainPlace, SameWork, SameReport
  <2>6. ReportSoFar'
    BY <2>1, <2>2 DEF RotInv, ReportSoFar, SameWork, SameReport
  <2> QED
    BY <2>3, <2>4, <2>5, <2>6 DEF RotInv
<1>2. CASE NetNext
  BY <1>1, <1>2 DEF NetNext, BeginMeasurement, BeginAttack, Validate, AttackStep, Report,
                    NextScenario, Save
<1>3. CASE RotNext
  <2>1. MainThread \in Rotators /\ Background \in Rotators
    BY TwoThreads
  <2> QED
    BY <1>3, <2>1, RotationKeepsRotInv, CheckKeepsRotInv, DrivingKeepsRotInv,
       ReportingKeepsRotInv
    DEF RotNext, MainStep, BackgroundStep
<1>4. CASE UNCHANGED simVars
  BY <1>1, <1>4 DEF simVars
<1> QED
  BY <1>2, <1>3, <1>4 DEF SimNext, RotationStepOfProgram

(* The invariant of the rotation programs gives their report its meaning.  *)
LEMMA RotInvReports == RotInv => RotationReportTrue
<1> SUFFICES ASSUME RotInv, rotPc = "saved"
             PROVE  /\ Manual => rotReport = [count |-> 1, callbacks |-> 1, triggered |-> TRUE,
                                               counterReset |-> TRUE]
                    /\ joined =>
                         /\ rotReport.count = rotReport.callbacks
                         /\ rotReport.count = Len(rotationLog)
                         /\ rotReport.count \in {0, 1}
                         /\ rotReport.triggered = (rotReport.count = 1)
                         /\ rotReport.counterReset = rotReport.triggered
  BY DEF RotationReportTrue, Manual
<1>1. /\ RotTypeOK /\ WorkDone /\ MainPlace /\ ReportSoFar
      /\ rotReport \in RotationReports /\ MaxPackets # 0
  BY SchedulerAssumption DEF RotInv, RotTypeOK
<1>2. ASSUME Manual \/ joined
      PROVE  /\ rotReport.count = rotationCount /\ rotReport.callbacks = rotated
             /\ rotReport.triggered = (rotationCount = 1)
             /\ rotReport.counterReset = (packetCount = 0)
  BY <1>1, <1>2 DEF ReportSoFar
<1>3. ASSUME Manual
      PROVE  rotReport = [count |-> 1, callbacks |-> 1, triggered |-> TRUE,
                          counterReset |-> TRUE]
  <2>1. rotation[Worker].pc = "idle" /\ rotationCount = 1
    BY <1>1, <1>3 DEF MainPlace, Reporting
  <2>2. rotated = 1 /\ packetCount = 0
    BY <1>1, <2>1 DEF WorkDone
  <2>3. /\ rotReport.count = 1 /\ rotReport.callbacks = 1
        /\ rotReport.triggered = TRUE /\ rotReport.counterReset = TRUE
    BY <1>2, <1>3, <2>1, <2>2
  <2> QED
    BY <1>1, <2>3 DEF RotationReports
<1>4. ASSUME joined
      PROVE  /\ rotReport.count = rotReport.callbacks
             /\ rotReport.count = Len(rotationLog)
             /\ rotReport.count \in {0, 1}
             /\ rotReport.triggered = (rotReport.count = 1)
             /\ rotReport.counterReset = rotReport.triggered
  <2>1. ~ Manual /\ rotation[Worker].pc = "idle"
    BY <1>1, <1>4 DEF MainPlace
  <2>2. rotated = rotationCount /\ Len(rotationLog) = rotationCount /\ rotationCount \in {0, 1}
    BY <1>1, <2>1 DEF WorkDone
  <2>3. (packetCount = 0) = (rotationCount = 1)
    <3>1. rotationCount = 1 => packetCount = 0
      BY <1>1, <2>1 DEF WorkDone
    <3>2. rotationCount = 0 => packetCount = MaxPackets
      BY <1>1, <2>1 DEF MainPlace
    <3> QED
      BY <1>1, <2>2, <3>1, <3>2
  <2> QED
    BY <1>2, <1>4, <2>2, <2>3
<1> QED
  BY <1>3, <1>4

(* key_rotation_sim.py reports one consistent rotation, or none, whenever  *)
(* stop() saw the scheduler's thread end - for every number of packets,    *)
(* wherever the deadline falls and however the two threads interleave.     *)
THEOREM RotationReportAlwaysTrue == SimSpec => []RotationReportTrue
<1>1. SimInit => RotInv
  BY RotInvInit DEF SimInit
<1>2. RotInv /\ [SimNext]_simVars => RotInv'
  BY RotInvStep
<1> QED
  BY <1>1, <1>2, RotInvReports, PTL DEF SimSpec

-----------------------------------------------------------------------------
(* Sorting.                                                                *)

IsOrder(S, R) ==
  /\ \A x \in S : <<x, x>> \notin R
  /\ \A x, y \in S : x # y => <<x, y>> \in R \/ <<y, x>> \in R
  /\ \A x, y, z \in S : <<x, y>> \in R /\ <<y, z>> \in R => <<x, z>> \in R

(* The p-th member of a sorted finite set exists: counting those before it *)
(* numbers the members one to one.  The sequence is in order and leaves    *)
(* none out.                                                               *)
LEMMA SortedInOrder ==
  ASSUME NEW S, IsFiniteSet(S), NEW R, IsOrder(S, R)
  PROVE  /\ Sorted(S, R) \in [1 .. Cardinality(S) -> S]
         /\ \A p, q \in 1 .. Cardinality(S) :
              p < q => <<Sorted(S, R)[p], Sorted(S, R)[q]>> \in R
         /\ \A d \in S : \E p \in 1 .. Cardinality(S) : Sorted(S, R)[p] = d
<1> DEFINE n == Cardinality(S)
           below(d) == {e \in S : <<e, d>> \in R}
           rank == [d \in S |-> Cardinality(below(d))]
           s == Sorted(S, R)
<1>1. n \in Nat
  BY FS_CardinalityType
<1>2. \A d \in S : IsFiniteSet(below(d)) /\ Cardinality(below(d)) \in Nat
  BY FS_Subset, FS_CardinalityType
<1>3. ASSUME NEW d \in S, NEW e \in S, <<d, e>> \in R
      PROVE  rank[d] < rank[e]
  <2>1. below(d) \subseteq below(e) /\ d \in below(e) /\ d \notin below(d)
    BY <1>3 DEF IsOrder
  <2>2. below(d) # below(e)
    BY <2>1
  <2>3. Cardinality(below(d)) <= Cardinality(below(e))
        /\ Cardinality(below(d)) # Cardinality(below(e))
    BY <1>2, <2>1, <2>2, FS_Subset
  <2> QED
    BY <1>2, <2>3
<1>4. rank \in [S -> 0 .. n - 1]
  <2>1. ASSUME NEW d \in S PROVE Cardinality(below(d)) \in 0 .. n - 1
    <3>1. below(d) \subseteq S /\ below(d) # S
      BY DEF IsOrder
    <3>2. Cardinality(below(d)) <= n /\ Cardinality(below(d)) # n
      BY <3>1, FS_Subset
    <3> HIDE DEF n
    <3> QED
      BY <1>1, <1>2, <3>2
  <2> QED
    BY <2>1
<1>5. \A d, e \in S : rank[d] = rank[e] => d = e
  <2> SUFFICES ASSUME NEW d \in S, NEW e \in S, rank[d] = rank[e], d # e PROVE FALSE
    OBVIOUS
  <2>1. rank[d] \in Int
    BY <1>4
  <2>2. <<d, e>> \in R \/ <<e, d>> \in R
    BY DEF IsOrder
  <2> HIDE DEF rank
  <2>3. rank[d] < rank[e] \/ rank[e] < rank[d]
    BY <1>3, <2>2
  <2> QED
    BY <2>1, <2>3
<1>6. ASSUME NEW q \in 0 .. n - 1
      PROVE  \E d \in S : rank[d] = q
  <2>1. rank \in Injection(S, 0 .. n - 1)
    BY <1>4, <1>5 DEF Injection, IsInjective
  <2>2. IsFiniteSet(0 .. n - 1) /\ Cardinality(0 .. n - 1) = n
    <3> HIDE DEF n
    <3> QED
      BY <1>1, FS_Interval
  <2>3. rank \in Surjection(S, 0 .. n - 1)
    BY <2>1, <2>2, FS_Injection
  <2> QED
    BY <2>3, <1>6 DEF Surjection
<1>7. s = [p \in 1 .. n |-> CHOOSE d \in S : rank[d] = p - 1]
  BY DEF Sorted
<1>8. ASSUME NEW p \in 1 .. n
      PROVE  s[p] \in S /\ rank[s[p]] = p - 1
  <2>1. p - 1 \in 0 .. n - 1
    BY <1>1
  <2>2. s[p] = CHOOSE d \in S : rank[d] = p - 1
    BY <1>7
  <2> HIDE DEF rank, n, s
  <2> QED
    BY <1>6, <2>1, <2>2
<1> HIDE DEF rank, n
<1>9. s \in [1 .. n -> S]
  BY <1>7, <1>8
<1> HIDE DEF s
<1>10. ASSUME NEW p \in 1 .. n, NEW q \in 1 .. n, p < q
       PROVE  <<s[p], s[q]>> \in R
  <2>1. rank[s[p]] < rank[s[q]] /\ rank[s[p]] \in Int /\ rank[s[q]] \in Int
    BY <1>1, <1>8, <1>10
  <2>2. s[p] # s[q] /\ ~ (<<s[q], s[p]>> \in R)
    BY <1>3, <1>8, <2>1
  <2> QED
    BY <1>8, <2>2 DEF IsOrder
<1>11. ASSUME NEW d \in S PROVE \E p \in 1 .. n : s[p] = d
  <2>1. rank[d] \in 0 .. n - 1
    BY <1>4
  <2>2. rank[d] + 1 \in 1 .. n /\ (rank[d] + 1) - 1 = rank[d]
    BY <1>1, <2>1
  <2>3. s[rank[d] + 1] = d
    BY <1>5, <1>8, <2>2
  <2> QED
    BY <2>2, <2>3
<1> QED
  BY <1>9, <1>10, <1>11 DEF s, n

-----------------------------------------------------------------------------
(* The checkers.                                                           *)

(* The least number of a non-empty set of natural numbers.                 *)
LEMMA MinOfNaturals ==
  ASSUME NEW T \in SUBSET Nat, T # {}
  PROVE  Min(T) \in T /\ \A y \in T : Min(T) <= y
<1>1. PICK x \in T : \A y \in T : ~ (<<y, x>> \in OpToRel(<, Nat))
  BY WFMin, NatLessThanWellFounded
<1>2. \A y \in T : <<y, x>> \in OpToRel(<, Nat) <=> y < x
  BY DEF OpToRel
<1>3. \A y \in T : ~ (y < x)
  BY <1>1, <1>2, Zenon
<1>4. \A y \in T : x <= y
  BY <1>3
<1> QED
  BY <1>4 DEF Min

(* The window that a number beyond all of its members has been added to    *)
(* holds that number.                                                      *)
LEMMA RememberKeepsLast ==
  ASSUME NEW seen \in SUBSET Nat, IsFiniteSet(seen), NEW seq \in Nat,
         \A x \in seen : x < seq
  PROVE  LET now == Remember(seen, seq, SimWindow)
         IN  IsFiniteSet(now) /\ now \subseteq seen \cup {seq} /\ seq \in now
<1> DEFINE grown == seen \cup {seq}
           now == Remember(seen, seq, SimWindow)
<1>1. IsFiniteSet(grown) /\ grown \subseteq Nat /\ grown # {}
  BY FS_AddElement
<1>2. now = IF Cardinality(grown) > SimWindow THEN grown \ {Min(grown)} ELSE grown
  BY DEF Remember
<1>3. IsFiniteSet(now) /\ now \subseteq grown
  BY <1>1, <1>2, FS_Subset
<1>4. seq \in now
  <2>1. CASE ~ (Cardinality(grown) > SimWindow)
    BY <1>2, <2>1
  <2>2. CASE Cardinality(grown) > SimWindow
    <3>1. Cardinality(grown) \in Nat /\ SimWindow \in Nat \ {0}
      BY <1>1, FS_CardinalityType, LossAssumption
    <3>2. grown # {seq}
      BY <2>2, <3>1, FS_Singleton
    <3>3. PICK y \in seen : y < seq
      BY <3>2
    <3>4. Min(grown) \in grown /\ Min(grown) <= y
      BY <1>1, <3>3, MinOfNaturals
    <3>5. Min(grown) # seq
      BY <1>1, <3>3, <3>4
    <3> QED
      BY <1>2, <2>2, <3>5
  <2> QED
    BY <2>1, <2>2
<1> QED
  BY <1>3, <1>4

Checkers == [last : Nat, seen : SUBSET Nat, replays : Nat, gaps : Nat, maxGap : Nat]

(* The window holds numbers up to the last one passed, and that one.       *)
CheckerOK(c) ==
  /\ c \in Checkers
  /\ IsFiniteSet(c.seen)
  /\ \A x \in c.seen : 1 <= x /\ x <= c.last
  /\ c.last > 0 => c.last \in c.seen

(* The checker that a scenario starts with has seen nothing.               *)
LEMMA NewCheckerOK ==
  ASSUME NEW g \in Nat
  PROVE  CheckerOK(NewChecker(g)) /\ NewChecker(g).last = 0 /\ NewChecker(g).seen = {}
         /\ NewChecker(g).replays = 0 /\ NewChecker(g).gaps = 0 /\ NewChecker(g).maxGap = g
BY FS_EmptySet DEF CheckerOK, NewChecker, Checkers

(* check() passes exactly the numbers beyond the last one passed.          *)
LEMMA CheckerStep ==
  ASSUME NEW c, CheckerOK(c), NEW seq \in Nat \ {0}
  PROVE  LET d == Checked(c, seq)
         IN  /\ CheckerOK(d)
             /\ InSequence(c, seq) <=> seq > c.last
             /\ d.last = IF seq > c.last THEN seq ELSE c.last
             /\ d.seen \subseteq c.seen \cup {seq}
             /\ d.replays = IF seq \in c.seen THEN c.replays + 1 ELSE c.replays
             /\ d.gaps = IF c.last > 0 /\ seq - c.last > c.maxGap
                         THEN c.gaps + 1 ELSE c.gaps
             /\ d.maxGap = c.maxGap
<1> DEFINE d == Checked(c, seq)
           ok == seq > c.last
           last == IF ok THEN seq ELSE c.last
           seen == IF ok THEN Remember(c.seen, seq, SimWindow) ELSE c.seen
           replays == IF seq \in c.seen THEN c.replays + 1 ELSE c.replays
           gaps == IF c.last > 0 /\ seq - c.last > c.maxGap THEN c.gaps + 1 ELSE c.gaps
<1>1. /\ c \in Checkers /\ c.last \in Nat /\ c.seen \in SUBSET Nat /\ c.replays \in Nat
      /\ c.gaps \in Nat /\ c.maxGap \in Nat /\ IsFiniteSet(c.seen)
      /\ \A x \in c.seen : 1 <= x /\ x <= c.last
      /\ c.last > 0 => c.last \in c.seen
  BY DEF CheckerOK, Checkers
<1>2. InSequence(c, seq) <=> ok
  <2>1. ok => seq \notin c.seen
    BY <1>1
  <2>2. InSequence(c, seq) <=> seq \notin c.seen /\ ~ (c.last > 0 /\ seq <= c.last)
    BY DEF InSequence, OutOfOrder
  <2> QED
    BY <1>1, <2>1, <2>2
<1>3. /\ last \in Nat /\ replays \in Nat /\ gaps \in Nat
      /\ IsFiniteSet(seen) /\ seen \subseteq c.seen \cup {seq} /\ seen \in SUBSET Nat
      /\ \A x \in seen : 1 <= x /\ x <= last
      /\ last > 0 => last \in seen
  <2>1. CASE ok
    <3>1. \A x \in c.seen : x < seq
      BY <1>1, <2>1
    <3>2. /\ IsFiniteSet(seen) /\ seen \subseteq c.seen \cup {seq} /\ seq \in seen
      BY <1>1, <2>1, <3>1, RememberKeepsLast
    <3> HIDE DEF seen
    <3>3. last = seq /\ replays \in Nat /\ gaps \in Nat
      BY <1>1, <2>1
    <3> HIDE DEF last, replays, gaps
    <3>4. seen \in SUBSET Nat
      BY <1>1, <3>2
    <3>5. ASSUME NEW x \in seen PROVE 1 <= x /\ x <= seq
      <4>1. x \in c.seen \/ x = seq
        BY <3>2
      <4> QED
        BY <1>1, <3>1, <4>1
    <3> QED
      BY <3>2, <3>3, <3>4, <3>5
  <2>2. CASE ~ ok
    BY <1>1, <2>2
  <2> QED
    BY <2>1, <2>2
<1>4. d = [c EXCEPT !.last = last, !.seen = seen, !.replays = replays, !.gaps = gaps]
  BY <1>1, <1>2 DEF Checked, LargeGap
<1> HIDE DEF d, last, seen, replays, gaps
<1>5. /\ d \in Checkers /\ d.last = last /\ d.seen = seen /\ d.replays = replays
      /\ d.gaps = gaps /\ d.maxGap = c.maxGap
  BY <1>1, <1>3, <1>4 DEF Checkers
<1>6. CheckerOK(d)
  BY <1>3, <1>5 DEF CheckerOK
<1> QED
  BY <1>2, <1>3, <1>5, <1>6 DEF d, last, seen, replays, gaps

-----------------------------------------------------------------------------
(* The measurements: what a scenario delivers.                             *)

Measured == [seq : Nat, class : Classes, at : {"validate"}, form : {"intact"}]

LossNames == {"random_loss", "burst_loss", "selective_loss", "recovery", "high_load",
              "duplicate_packets"}
OrderNames == {"time_jitter", "packet_reordering"}

Measurements ==
  [name : LossNames \cup OrderNames \cup {"pipeline_latency", "no_jitter_baseline"},
   packets : Nat, maxGap : Nat \ {0}, jitter : Nat, window : Nat, burst : Nat]

(* In the order they were built in, a second copy right behind the first.  *)
Growing(s) ==
  /\ \A i, j \in 1 .. Len(s) :
       i < j => \/ s[i].seq < s[j].seq
                \/ s[i].seq = s[j].seq /\ s[j].class = "duplicate"
  /\ \A j \in 1 .. Len(s) :
       s[j].class = "duplicate" => j > 1 /\ s[j - 1].seq = s[j].seq

Shuffled(s) ==
  /\ \A i \in 1 .. Len(s) : s[i].class = "original"
  /\ \A i, j \in 1 .. Len(s) : s[i].seq = s[j].seq => i = j

(* What the proofs use of a script of scenario sc whose packets are        *)
(* numbered from base + 1.                                                 *)
ScriptFits(s, sc, base) ==
  /\ s \in Seq(Measured)
  /\ \A k \in 1 .. Len(s) : s[k].seq \in base + 1 .. base + sc.packets
  /\ sc.name \in LossNames \cup {"no_jitter_baseline"} => Growing(s)
  /\ sc.name = "recovery" => \E k \in 1 .. Len(s) : s[k].class = "recovery"
  /\ sc.name \in OrderNames => Shuffled(s)
  /\ sc.name = "time_jitter" /\ 2 * sc.jitter <= SendInterval =>
       \A i, j \in 1 .. Len(s) : i < j => s[i].seq < s[j].seq
  /\ sc.name = "packet_reordering" =>
       /\ sc.window > 0 /\ Len(s) = sc.packets
       /\ \A k \in 1 .. Len(s) : (s[k].seq - base - 1) \div sc.window = (k - 1) \div sc.window

(* The fields of a delivery to validate().                                 *)
LEMMA ArrivalFields ==
  ASSUME NEW i \in Nat, NEW c \in Classes
  PROVE  Arrival(i, c) \in Measured /\ Arrival(i, c).seq = i /\ Arrival(i, c).class = c
BY DEF Arrival, Delivery, Measured

(* The classes of packets that the scenarios build.                        *)
LEMMA ClassNames ==
  /\ "original" \in Classes /\ "duplicate" \in Classes /\ "normal" \in Classes
  /\ "recovery" \in Classes /\ "legitimate" \in Classes
BY DEF Classes

(* A function on 1 .. n is a sequence of that length.                      *)
LEMMA FunctionIsSeq ==
  ASSUME NEW T, NEW n \in Nat, NEW s \in [1 .. n -> T]
  PROVE  s \in Seq(T) /\ Len(s) = n /\ \A k \in 1 .. n : s[k] \in T
OBVIOUS

(* Packets that arrive once each, in the order of their numbers.           *)
LEMMA ArrivalsFacts ==
  ASSUME NEW n \in Nat, NEW P \in Nat, NEW o \in [1 .. n -> 1 .. P]
  PROVE  /\ Arrivals(o) \in Seq(Measured) /\ Len(Arrivals(o)) = n
         /\ \A k \in 1 .. n : Arrivals(o)[k].seq = o[k] /\ Arrivals(o)[k].class = "original"
                              /\ Arrivals(o)[k].seq \in 0 + 1 .. 0 + P
<1>1. DOMAIN o = 1 .. n /\ \A k \in 1 .. n : o[k] \in 1 .. P /\ o[k] \in Nat
  OBVIOUS
<1>2. Arrivals(o) = [k \in 1 .. n |-> Arrival(o[k], "original")]
  BY <1>1 DEF Arrivals
<1>3. \A k \in 1 .. n : /\ Arrivals(o)[k] \in Measured
                        /\ Arrivals(o)[k].seq = o[k] /\ Arrivals(o)[k].class = "original"
  BY <1>1, <1>2, ArrivalFields, ClassNames
<1>4. Arrivals(o) \in [1 .. n -> Measured]
  BY <1>2, <1>3
<1>5. Arrivals(o) \in Seq(Measured) /\ Len(Arrivals(o)) = n
  BY <1>4, FunctionIsSeq
<1>6. 0 + 1 = 1 /\ 0 + P = P
  OBVIOUS
<1> QED
  BY <1>1, <1>3, <1>5, <1>6

(* Numbers that grow are in order.                                         *)
LEMMA GrowingArrivals ==
  ASSUME NEW n \in Nat, NEW P \in Nat, NEW o \in [1 .. n -> 1 .. P],
         \A p, q \in 1 .. n : p < q => o[p] < o[q]
  PROVE  Growing(Arrivals(o))
<1>1. /\ Len(Arrivals(o)) = n
      /\ \A k \in 1 .. n : Arrivals(o)[k].seq = o[k] /\ Arrivals(o)[k].class = "original"
  BY ArrivalsFacts
<1>2. "original" # "duplicate"
  OBVIOUS
<1> QED
  BY <1>1, <1>2 DEF Growing

(* What the network leaves of the packets arrives in the order of their    *)
(* numbers, each once.                                                     *)
LEMMA SurvivingFits ==
  ASSUME NEW dropped
  PROVE  /\ Surviving(dropped) \in Seq(Measured)
         /\ \A k \in 1 .. Len(Surviving(dropped)) :
              Surviving(dropped)[k].seq \in 0 + 1 .. 0 + LossPackets
         /\ Growing(Surviving(dropped))
<1> DEFINE survivors == {k \in 1 .. LossPackets : k - 1 \notin dropped}
           R == {r \in survivors \X survivors : r[1] < r[2]}
           n == Cardinality(survivors)
           o == Sorted(survivors, R)
<1>1. LossPackets \in Nat
  BY LossAssumption
<1>2. IsFiniteSet(survivors) /\ n \in Nat
  <2>1. IsFiniteSet(1 .. LossPackets)
    BY <1>1, FS_Interval
  <2>2. survivors \in SUBSET (1 .. LossPackets)
    OBVIOUS
  <2> HIDE DEF survivors
  <2>3. IsFiniteSet(survivors)
    BY <2>1, <2>2, FS_Subset
  <2> QED
    BY <2>3, FS_CardinalityType
<1>3. \A x, y \in survivors : <<x, y>> \in R <=> x < y
  OBVIOUS
<1>4. \A x \in survivors : x \in Int
  OBVIOUS
<1>5. survivors \subseteq 1 .. LossPackets
  OBVIOUS
<1>6. Surviving(dropped) = Arrivals(o)
  BY DEF Surviving
<1> HIDE DEF survivors, R
<1>7. IsOrder(survivors, R)
  BY <1>3, <1>4 DEF IsOrder
<1>8. /\ o \in [1 .. n -> survivors]
      /\ \A p, q \in 1 .. n : p < q => <<o[p], o[q]>> \in R
  BY <1>2, <1>7, SortedInOrder
<1> HIDE DEF o, n
<1>9. o \in [1 .. n -> 1 .. LossPackets] /\ \A p, q \in 1 .. n : p < q => o[p] < o[q]
  BY <1>3, <1>5, <1>8
<1> QED
  BY <1>1, <1>2, <1>6, <1>9, ArrivalsFacts, GrowingArrivals

(* The three phases of scenario_recovery: numbers grow, and the last       *)
(* phase, that nothing of is lost, delivers packets.                       *)
LEMMA RecoveryFits ==
  ASSUME NEW s \in ScenarioRecovery
  PROVE  /\ s \in Seq(Measured)
         /\ \A k \in 1 .. Len(s) : s[k].seq \in 0 + 1 .. 0 + 3 * PhasePackets
         /\ Growing(s)
         /\ \E k \in 1 .. Len(s) : s[k].class = "recovery"
<1> DEFINE P == PhasePackets
<1>1. P \in Nat \ {0}
  BY LossAssumption
<1>2. s = [k \in 1 .. 2 * P |-> IF k <= P THEN Arrival(k, "normal")
                                ELSE Arrival(k + P, "recovery")]
  BY DEF ScenarioRecovery
<1> HIDE DEF P
<1>3. ASSUME NEW k \in 1 .. 2 * P
      PROVE  /\ s[k] \in Measured
             /\ s[k].seq = IF k <= P THEN k ELSE k + P
             /\ s[k].class = IF k <= P THEN "normal" ELSE "recovery"
  <2>1. k \in Nat /\ k + P \in Nat
    BY <1>1
  <2>2. s[k] = IF k <= P THEN Arrival(k, "normal") ELSE Arrival(k + P, "recovery")
    BY <1>2
  <2> QED
    BY <2>1, <2>2, ArrivalFields, ClassNames
<1>4. s \in [1 .. 2 * P -> Measured] /\ 2 * P \in Nat
  BY <1>1, <1>2, <1>3
<1>5. s \in Seq(Measured) /\ Len(s) = 2 * P
  BY <1>4, FunctionIsSeq
<1>6. \A k \in 1 .. Len(s) : s[k].seq \in 0 + 1 .. 0 + 3 * P
  BY <1>1, <1>3, <1>5
<1>7. \A k \in 1 .. Len(s) : s[k].class # "duplicate"
  BY <1>3, <1>5
<1>8. \A i, j \in 1 .. Len(s) : i < j => s[i].seq < s[j].seq
  BY <1>1, <1>3, <1>5
<1>9. s[2 * P].class = "recovery" /\ 2 * P \in 1 .. Len(s)
  BY <1>1, <1>3, <1>5
<1>10. Growing(s)
  BY <1>7, <1>8 DEF Growing
<1> QED
  BY <1>5, <1>6, <1>9, <1>10 DEF P

(* As many deliveries as numbers: finitely many.                           *)
LEMMA ArrivalsFinite ==
  ASSUME NEW S, IsFiniteSet(S), NEW c
  PROVE  IsFiniteSet({Arrival(k, c) : k \in S})
<1> DEFINE f == [k \in S |-> Arrival(k, c)]
           T == {Arrival(k, c) : k \in S}
<1>1. f \in Surjection(S, T)
  BY DEF Surjection
<1> HIDE DEF f, T
<1>2. IsFiniteSet(T)
  BY <1>1, FS_Surjection
<1> QED
  BY <1>2 DEF T

(* A second copy is sorted right behind the first.                         *)
LEMMA DuplicatesFit ==
  ASSUME NEW s \in ScenarioDuplicatePackets
  PROVE  /\ s \in Seq(Measured)
         /\ \A k \in 1 .. Len(s) : s[k].seq \in 0 + 1 .. 0 + LossPackets
         /\ Growing(s)
<1> DEFINE built0 == 1 .. LossPackets
           twice == {i \in built0 : i - 1 \in DuplicatePositions}
           firsts == {Arrival(k, "original") : k \in built0}
           seconds == {Arrival(k, "duplicate") : k \in twice}
           all == firsts \cup seconds
           R == {r \in all \X all :
                      \/ r[1].seq < r[2].seq
                      \/ r[1].seq = r[2].seq /\ r[1].class = "original"
                                            /\ r[2].class = "duplicate"}
           n == Cardinality(all)
<1>1. LossPackets \in Nat
  BY LossAssumption
<1>2. s = Sorted(all, R)
  BY DEF ScenarioDuplicatePackets
<1>3. \A x, y \in all : <<x, y>> \in R <=>
        \/ x.seq < y.seq
        \/ x.seq = y.seq /\ x.class = "original" /\ y.class = "duplicate"
  OBVIOUS
<1>4. IsFiniteSet(all)
  <2>1. IsFiniteSet(built0)
    BY <1>1, FS_Interval
  <2>2. IsFiniteSet(twice)
    BY <2>1, FS_Subset
  <2>3. IsFiniteSet(firsts)
    BY <2>1, ArrivalsFinite
  <2>4. IsFiniteSet(seconds)
    BY <2>2, ArrivalsFinite
  <2> HIDE DEF firsts, seconds
  <2> QED
    BY <2>3, <2>4, FS_Union
<1>5. \A x \in all : /\ x \in Measured /\ x.seq \in 1 .. LossPackets
                     /\ x.class \in {"original", "duplicate"}
                     /\ x = Arrival(x.seq, x.class)
  <2>1. \A k \in built0 : k \in Nat
    BY <1>1
  <2>2. \A x \in firsts : /\ x \in Measured /\ x.seq \in built0 /\ x.class = "original"
                          /\ x = Arrival(x.seq, x.class)
    BY <2>1, ArrivalFields, ClassNames
  <2>3. \A x \in seconds : /\ x \in Measured /\ x.seq \in built0 /\ x.class = "duplicate"
                           /\ x = Arrival(x.seq, x.class)
    BY <2>1, ArrivalFields, ClassNames
  <2> QED
    BY <2>2, <2>3
<1>6. \A x \in all : Arrival(x.seq, "original") \in all
  BY <1>5
<1>7. all \subseteq Measured
  BY <1>5
<1> HIDE DEF R, all
<1>8. \A x \in all : x.seq \in Int /\ x.class \in {"original", "duplicate"}
  BY <1>1, <1>5
<1>9. IsOrder(all, R)
  <2>1. \A x \in all : <<x, x>> \notin R
    BY <1>3, <1>8
  <2>2. ASSUME NEW x \in all, NEW y \in all, x # y PROVE <<x, y>> \in R \/ <<y, x>> \in R
    <3>1. CASE x.seq = y.seq
      <4>1. x.class # y.class
        BY <1>5, <2>2, <3>1
      <4> QED
        BY <1>3, <1>8, <3>1, <4>1
    <3>2. CASE x.seq # y.seq
      BY <1>3, <1>8, <3>2
    <3> QED
      BY <3>1, <3>2
  <2>3. ASSUME NEW x \in all, NEW y \in all, NEW z \in all, <<x, y>> \in R, <<y, z>> \in R
        PROVE  <<x, z>> \in R
    BY <1>3, <1>8, <2>3
  <2> QED
    BY <2>1, <2>2, <2>3 DEF IsOrder
<1>10. n \in Nat
  BY <1>4, FS_CardinalityType
<1>11. /\ s \in [1 .. n -> all]
       /\ \A p, q \in 1 .. n : p < q => <<s[p], s[q]>> \in R
       /\ \A d \in all : \E p \in 1 .. n : s[p] = d
  BY <1>2, <1>4, <1>9, SortedInOrder
<1> HIDE DEF n
<1>12. s \in Seq(Measured) /\ Len(s) = n /\ \A k \in 1 .. n : s[k] \in all
  <2>1. s \in [1 .. n -> Measured]
    BY <1>7, <1>11
  <2> QED
    BY <1>10, <1>11, <2>1, FunctionIsSeq
<1>13. \A k \in 1 .. Len(s) : s[k].seq \in 0 + 1 .. 0 + LossPackets
  BY <1>1, <1>5, <1>12
<1>14. \A i, j \in 1 .. n : i < j => \/ s[i].seq < s[j].seq
                                     \/ s[i].seq = s[j].seq /\ s[j].class = "duplicate"
  BY <1>3, <1>11, <1>12
<1>15. ASSUME NEW j \in 1 .. n, s[j].class = "duplicate"
       PROVE  j > 1 /\ s[j - 1].seq = s[j].seq
  <2>1. Arrival(s[j].seq, "original") \in all
    BY <1>6, <1>12
  <2>2. PICK i \in 1 .. n : s[i] = Arrival(s[j].seq, "original")
    BY <1>11, <2>1
  <2>3. s[i].seq = s[j].seq /\ s[i].class = "original" /\ s[i].seq \in Int
    <3>1. s[j].seq \in Nat
      BY <1>1, <1>5, <1>12
    <3> QED
      BY <2>2, <3>1, ArrivalFields, ClassNames
  <2>4. i < j
    <3>1. ~ (j < i)
      BY <1>14, <2>3
    <3>2. i # j
      BY <1>15, <2>3
    <3> QED
      BY <1>10, <3>1, <3>2
  <2>5. CASE i = j - 1
    BY <2>3, <2>4, <2>5
  <2>6. CASE i # j - 1
    <3>1. i < j - 1 /\ j - 1 \in 1 .. n /\ j - 1 < j
      BY <1>10, <2>4, <2>6
    <3>2. s[j - 1] \in all /\ s[j] \in all /\ s[i] \in all
      BY <1>12, <3>1
    <3>3. <<s[i], s[j - 1]>> \in R /\ <<s[j - 1], s[j]>> \in R
      BY <1>11, <3>1
    <3>4. /\ s[i].seq < s[j - 1].seq \/ s[i].seq = s[j - 1].seq
          /\ s[j - 1].seq < s[j].seq \/ s[j - 1].seq = s[j].seq
      BY <1>3, <3>2, <3>3
    <3>5. s[j - 1].seq \in Int
      BY <1>8, <3>2
    <3> QED
      BY <2>3, <2>4, <3>4, <3>5
  <2> QED
    BY <2>5, <2>6
<1>16. Growing(s)
  BY <1>12, <1>14, <1>15 DEF Growing
<1> QED
  BY <1>12, <1>13, <1>16

(* A jitter of at most half the send interval overtakes nobody: packets    *)
(* that are sent later arrive later, or at the same time and behind.       *)
LEMMA SmallJitterKeepsOrder ==
  ASSUME NEW j \in Nat, 2 * j <= SendInterval,
         NEW delay \in [JitterIndices -> NetworkDelays(j)],
         NEW o \in Orders, Delivered(delay, o),
         NEW p \in JitterIndices, NEW q \in JitterIndices, p < q
  PROVE  o[p] < o[q]
<1>1. JitterPackets \in Nat /\ SendInterval \in Nat /\ BaseDelay \in Nat
  BY JitterAssumption
<1> DEFINE a == o[p]
           b == o[q]
           x == delay[a]
           y == delay[b]
           u == a * SendInterval
           v == b * SendInterval
<1>2. a \in JitterIndices /\ b \in JitterIndices /\ a \in Int /\ b \in Int
  BY <1>1 DEF Orders, JitterIndices
<1>3. a # b
  BY <1>1 DEF Orders, IsInjective, JitterIndices
<1>4. u + x < v + y \/ (u + x = v + y /\ a < b)
  BY DEF Delivered
<1>5. ASSUME NEW d \in NetworkDelays(j)
      PROVE  d \in Int /\ BaseDelay - j <= d /\ d <= BaseDelay + j
  <2>1. PICK k \in -j .. j : d = IF BaseDelay + k < 0 THEN 0 ELSE BaseDelay + k
    BY DEF NetworkDelays
  <2> QED
    BY <1>1, <2>1
<1>6. /\ x \in Int /\ BaseDelay - j <= x /\ x <= BaseDelay + j
      /\ y \in Int /\ BaseDelay - j <= y /\ y <= BaseDelay + j
  <2>1. x \in NetworkDelays(j) /\ y \in NetworkDelays(j)
    BY <1>2
  <2> QED
    BY <1>5, <2>1
<1>7. u \in Int /\ v \in Int
  BY <1>1, <1>2
<1>8. b < a => v + SendInterval <= u
  <2>1. ASSUME b < a PROVE v + SendInterval <= u
    <3>1. PICK k \in Nat : a = b + 1 + k
      <4>1. a - b - 1 \in Nat /\ a = b + 1 + (a - b - 1)
        BY <1>2, <2>1
      <4> QED
        BY <4>1
    <3>2. (b + 1 + k) * SendInterval = b * SendInterval + SendInterval + k * SendInterval
      BY <1>1, <1>2
    <3>3. k * SendInterval \in Nat
      BY <1>1
    <3> HIDE DEF a, b
    <3>4. u = v + SendInterval + k * SendInterval
      BY <3>1, <3>2
    <3> HIDE DEF u, v
    <3> QED
      BY <1>1, <1>7, <3>3, <3>4
  <2> QED
    BY <2>1
<1> HIDE DEF u, v, x, y, a, b
<1>9. ~ (b < a)
  BY <1>1, <1>2, <1>4, <1>6, <1>7, <1>8
<1>10. a < b
  BY <1>2, <1>3, <1>9
<1> QED
  BY <1>10 DEF a, b

(* An order of arrival delivers every packet once.                         *)
LEMMA OrdersArrive ==
  ASSUME NEW o \in Orders
  PROVE  /\ Arrivals(o) \in Seq(Measured) /\ Len(Arrivals(o)) = JitterPackets
         /\ \A k \in 1 .. JitterPackets : Arrivals(o)[k].seq = o[k]
         /\ \A k \in 1 .. Len(Arrivals(o)) :
              Arrivals(o)[k].seq \in 0 + 1 .. 0 + JitterPackets
         /\ Shuffled(Arrivals(o))
<1>1. JitterPackets \in Nat
  BY JitterAssumption
<1>2. /\ o \in [1 .. JitterPackets -> 1 .. JitterPackets]
      /\ \A i, j \in 1 .. JitterPackets : o[i] = o[j] => i = j
  BY DEF Orders, JitterIndices, IsInjective
<1>3. /\ Arrivals(o) \in Seq(Measured) /\ Len(Arrivals(o)) = JitterPackets
      /\ \A k \in 1 .. JitterPackets :
           /\ Arrivals(o)[k].seq = o[k] /\ Arrivals(o)[k].class = "original"
           /\ Arrivals(o)[k].seq \in 0 + 1 .. 0 + JitterPackets
  BY <1>1, <1>2, ArrivalsFacts
<1>4. Shuffled(Arrivals(o))
  BY <1>2, <1>3 DEF Shuffled
<1> QED
  BY <1>3, <1>4

(* Every script of a loss scenario fits it, whatever the network drops.    *)
LEMMA LossScriptsFit ==
  ASSUME NEW sc \in Measurements, sc.name \in LossNames,
         sc.packets = IF sc.name = "recovery" THEN 3 * PhasePackets ELSE LossPackets,
         NEW s \in LossScripts(sc)
  PROVE  ScriptFits(s, sc, 0)
<1>1. sc.name \notin OrderNames /\ sc.name # "time_jitter" /\ sc.name # "packet_reordering"
  BY DEF LossNames, OrderNames
<1>2. CASE sc.name = "recovery"
  <2>1. s \in ScenarioRecovery
    BY <1>2 DEF LossScripts
  <2> QED
    BY <1>1, <1>2, <2>1, RecoveryFits DEF ScriptFits
<1>3. CASE sc.name = "duplicate_packets"
  <2>1. s \in ScenarioDuplicatePackets
    BY <1>3 DEF LossScripts
  <2> QED
    BY <1>1, <1>3, <2>1, DuplicatesFit DEF ScriptFits
<1>4. CASE sc.name \notin {"recovery", "duplicate_packets"}
  <2>1. \E d : s = Surviving(d)
    BY <1>4 DEF LossScripts, LossNames, ScenarioRandomLoss, ScenarioBurstLoss,
                ScenarioSelectiveLoss, ScenarioHighLoad
  <2>2. PICK d : s = Surviving(d)
    BY <2>1
  <2> QED
    BY <1>1, <1>4, <2>2, SurvivingFits DEF ScriptFits
<1> QED
  BY <1>2, <1>3, <1>4

JitterNames == OrderNames \cup {"pipeline_latency", "no_jitter_baseline"}

(* Every script of a jitter scenario fits it, whatever the delays.         *)
LEMMA JitterScriptsFit ==
  ASSUME NEW sc \in Measurements, sc.name \in JitterNames, sc.packets = JitterPackets,
         sc.name = "packet_reordering" => sc.window > 0,
         NEW s \in JitterScripts(sc)
  PROVE  ScriptFits(s, sc, 0)
<1> USE DEF Measurements
<1>1. sc.name \notin LossNames /\ sc.name # "recovery"
  BY DEF LossNames, JitterNames, OrderNames
<1>2. JitterPackets \in Nat /\ SendInterval \in Nat /\ sc.jitter \in Nat /\ sc.window \in Nat
  BY JitterAssumption
<1>3. CASE sc.name = "time_jitter"
  <2>1. s \in SimTimeJitter(sc.jitter)
    BY <1>3 DEF JitterScripts
  <2>2. PICK o \in Orders, delay \in [JitterIndices -> NetworkDelays(sc.jitter)] :
          s = Arrivals(o) /\ Delivered(delay, o)
    BY <2>1 DEF SimTimeJitter
  <2>3. ASSUME 2 * sc.jitter <= SendInterval
        PROVE  \A i, j \in 1 .. Len(s) : i < j => s[i].seq < s[j].seq
    <3>1. \A p, q \in JitterIndices : p < q => o[p] < o[q]
      BY <1>2, <2>2, <2>3, SmallJitterKeepsOrder
    <3> QED
      BY <2>2, <3>1, OrdersArrive DEF JitterIndices
  <2> QED
    BY <1>1, <1>3, <2>2, <2>3, OrdersArrive DEF ScriptFits
<1>4. CASE sc.name = "packet_reordering"
  <2>1. s \in SimPacketReordering(sc.window)
    BY <1>4 DEF JitterScripts
  <2>2. PICK o \in Orders : s = Arrivals(o) /\
          \A i \in JitterIndices : (o[i] - 1) \div sc.window = (i - 1) \div sc.window
    BY <2>1 DEF SimPacketReordering, ApplyReordering
  <2>3. \A k \in 1 .. Len(s) : (s[k].seq - 0 - 1) \div sc.window = (k - 1) \div sc.window
    <3>0. \A k \in 1 .. JitterPackets : o[k] \in Int
      BY <1>2 DEF Orders, JitterIndices
    <3>1. \A k \in 1 .. Len(s) : s[k].seq = o[k] /\ o[k] - 0 - 1 = o[k] - 1
      BY <1>2, <2>2, <3>0, OrdersArrive
    <3> QED
      BY <2>2, <3>1, OrdersArrive DEF JitterIndices
  <2> QED
    BY <1>1, <1>4, <2>2, <2>3, OrdersArrive DEF ScriptFits
<1>5. CASE sc.name = "pipeline_latency"
  <2>1. s = <<>>
    BY <1>5 DEF JitterScripts, SimPipelineLatency
  <2>2. s \in Seq(Measured) /\ Len(s) = 0
    BY <2>1
  <2> QED
    BY <1>1, <1>5, <2>2 DEF ScriptFits, OrderNames
<1>6. CASE sc.name = "no_jitter_baseline"
  <2> DEFINE o == [i \in JitterIndices |-> i]
  <2>1. s = Arrivals(o)
    BY <1>6 DEF JitterScripts, SimNoJitterBaseline
  <2>2. /\ o \in [1 .. JitterPackets -> 1 .. JitterPackets]
        /\ \A p, q \in 1 .. JitterPackets : p < q => o[p] < o[q]
    BY DEF JitterIndices
  <2> HIDE DEF o
  <2> QED
    BY <1>1, <1>2, <1>6, <2>1, <2>2, ArrivalsFacts, GrowingArrivals
    DEF ScriptFits, OrderNames
<1> QED
  BY <1>3, <1>4, <1>5, <1>6 DEF JitterNames, OrderNames

(* The entries of the two scenario lists.                                  *)
LossEntry(sc) ==
  /\ sc \in Measurements /\ sc.name \in LossNames
  /\ sc.packets = IF sc.name = "recovery" THEN 3 * PhasePackets ELSE LossPackets
JitterEntry(sc) ==
  /\ sc \in Measurements /\ sc.name \in JitterNames /\ sc.packets = JitterPackets
  /\ sc.name = "packet_reordering" => sc.window > 0

(* The fields of a scenario without parameters.                            *)
LEMMA ScenarioFields ==
  ASSUME NEW name \in LossNames \cup JitterNames, NEW packets \in Nat, NEW gap \in Nat \ {0}
  PROVE  /\ Scenario(name, packets, gap) \in Measurements
         /\ Scenario(name, packets, gap).name = name
         /\ Scenario(name, packets, gap).packets = packets
BY DEF Scenario, Measurements, JitterNames

(* Setting a parameter of a scenario leaves its name and its number of     *)
(* packets alone.                                                          *)
LEMMA ParameterFields ==
  ASSUME NEW sc \in Measurements, NEW n \in Nat
  PROVE  /\ [sc EXCEPT !.burst = n] \in Measurements
         /\ [sc EXCEPT !.burst = n].name = sc.name
         /\ [sc EXCEPT !.burst = n].packets = sc.packets
         /\ [sc EXCEPT !.jitter = n] \in Measurements
         /\ [sc EXCEPT !.jitter = n].name = sc.name
         /\ [sc EXCEPT !.jitter = n].packets = sc.packets
         /\ [sc EXCEPT !.window = n] \in Measurements
         /\ [sc EXCEPT !.window = n].name = sc.name
         /\ [sc EXCEPT !.window = n].packets = sc.packets
         /\ [sc EXCEPT !.window = n].window = n
BY DEF Measurements

(* The names that main() of the two programs uses.                         *)
LEMMA NamesOfScenarios ==
  /\ {"random_loss", "burst_loss", "selective_loss", "recovery", "high_load",
      "duplicate_packets"} \subseteq LossNames
  /\ {"time_jitter", "packet_reordering", "pipeline_latency", "no_jitter_baseline"}
       \subseteq JitterNames
BY DEF LossNames, JitterNames, OrderNames

(* A part of a concatenation of three.                                     *)
LEMMA ThreeParts ==
  ASSUME NEW a \in Seq(Measurements), NEW b \in Seq(Measurements),
         NEW c \in Seq(Measurements), NEW i \in 1 .. Len((a \o b) \o c)
  PROVE  \/ \E k \in 1 .. Len(a) : ((a \o b) \o c)[i] = a[k]
         \/ \E k \in 1 .. Len(b) : ((a \o b) \o c)[i] = b[k]
         \/ \E k \in 1 .. Len(c) : ((a \o b) \o c)[i] = c[k]
<1> DEFINE d == a \o b
<1>1. d \in Seq(Measurements) /\ Len(d) = Len(a) + Len(b)
      /\ \A k \in 1 .. Len(d) : d[k] = IF k <= Len(a) THEN a[k] ELSE b[k - Len(a)]
  BY ConcatProperties
<1>2. Len(d \o c) = Len(d) + Len(c)
      /\ \A k \in 1 .. Len(d \o c) : (d \o c)[k] = IF k <= Len(d) THEN d[k] ELSE c[k - Len(d)]
  BY <1>1, ConcatProperties
<1>3. Len(a) \in Nat /\ Len(b) \in Nat /\ Len(c) \in Nat /\ Len(d) \in Nat
  BY <1>1, LenProperties
<1> HIDE DEF d
<1>4. i \in 1 .. Len(d \o c)
  BY DEF d
<1>5. CASE i <= Len(d)
  <2>1. i \in 1 .. Len(d) /\ (d \o c)[i] = d[i]
    BY <1>2, <1>3, <1>4, <1>5
  <2>2. CASE i <= Len(a)
    BY <1>1, <1>3, <2>1, <2>2 DEF d
  <2>3. CASE ~ (i <= Len(a))
    <3>1. i - Len(a) \in 1 .. Len(b) /\ d[i] = b[i - Len(a)]
      BY <1>1, <1>3, <2>1, <2>3
    <3> QED
      BY <2>1, <3>1 DEF d
  <2> QED
    BY <2>2, <2>3
<1>6. CASE ~ (i <= Len(d))
  <2>1. i - Len(d) \in 1 .. Len(c) /\ (d \o c)[i] = c[i - Len(d)]
    BY <1>2, <1>3, <1>4, <1>6
  <2> QED
    BY <2>1 DEF d
<1> QED
  BY <1>5, <1>6

(* A loss scenario as main() parameterises it.                             *)
LEMMA PlainLoss ==
  ASSUME NEW name \in {"random_loss", "burst_loss", "selective_loss", "recovery",
                       "high_load", "duplicate_packets"},
         NEW packets \in Nat, NEW gap \in Nat \ {0},
         packets = IF name = "recovery" THEN 3 * PhasePackets ELSE LossPackets
  PROVE  LossEntry(Scenario(name, packets, gap))
<1>1. name \in LossNames
  BY NamesOfScenarios
<1> QED
  BY <1>1, ScenarioFields DEF LossEntry

(* Every entry of the list that packet_loss_sim.py runs is a loss          *)
(* scenario.                                                               *)
LEMMA LossEntries ==
  /\ LossScenarios \in Seq(Measurements)
  /\ \A i \in 1 .. Len(LossScenarios) : LossEntry(LossScenarios[i])
<1>1. /\ LossPackets \in Nat /\ 3 * PhasePackets \in Nat /\ DefaultGap \in Nat \ {0}
      /\ 1 \in Nat \ {0} /\ BurstSizes \in Seq(Nat) /\ 0 \in Nat
  BY LossAssumption
<1> DEFINE a == <<Scenario("random_loss", LossPackets, DefaultGap)>>
           b == [k \in 1 .. Len(BurstSizes) |->
                  [Scenario("burst_loss", LossPackets, 1) EXCEPT !.burst = BurstSizes[k]]]
           c == <<Scenario("selective_loss", LossPackets, 1),
                  Scenario("recovery", 3 * PhasePackets, DefaultGap),
                  Scenario("high_load", LossPackets, DefaultGap),
                  Scenario("duplicate_packets", LossPackets, DefaultGap)>>
<1>2. LossScenarios = (a \o b) \o c
  BY DEF LossScenarios
<1>3. a \in Seq(Measurements) /\ \A k \in 1 .. Len(a) : LossEntry(a[k])
  <2>1. LossEntry(Scenario("random_loss", LossPackets, DefaultGap))
    BY <1>1, PlainLoss
  <2> QED
    BY <2>1 DEF LossEntry
<1>4. b \in Seq(Measurements) /\ \A k \in 1 .. Len(b) : LossEntry(b[k])
  <2>1. Len(BurstSizes) \in Nat /\ \A k \in 1 .. Len(BurstSizes) : BurstSizes[k] \in Nat
    BY <1>1
  <2>2. ASSUME NEW k \in 1 .. Len(BurstSizes) PROVE LossEntry(b[k])
    <3>1. LossEntry(Scenario("burst_loss", LossPackets, 1))
      BY <1>1, PlainLoss
    <3>2. b[k] = [Scenario("burst_loss", LossPackets, 1) EXCEPT !.burst = BurstSizes[k]]
      OBVIOUS
    <3> QED
      BY <2>1, <3>1, <3>2, ParameterFields DEF LossEntry
  <2>3. b \in [1 .. Len(BurstSizes) -> Measurements]
    BY <2>2 DEF LossEntry
  <2> HIDE DEF b
  <2> QED
    BY <2>1, <2>2, <2>3, FunctionIsSeq
<1>5. c \in Seq(Measurements) /\ \A k \in 1 .. Len(c) : LossEntry(c[k])
  <2>1. LossEntry(Scenario("selective_loss", LossPackets, 1))
    BY <1>1, PlainLoss
  <2>2. LossEntry(Scenario("recovery", 3 * PhasePackets, DefaultGap))
    BY <1>1, PlainLoss
  <2>3. LossEntry(Scenario("high_load", LossPackets, DefaultGap))
    BY <1>1, PlainLoss
  <2>4. LossEntry(Scenario("duplicate_packets", LossPackets, DefaultGap))
    BY <1>1, PlainLoss
  <2> QED
    BY <2>1, <2>2, <2>3, <2>4 DEF LossEntry
<1> HIDE DEF a, b, c
<1>6. a \in Seq(Measurements) /\ b \in Seq(Measurements) /\ c \in Seq(Measurements)
  BY <1>3, <1>4, <1>5
<1>7. (a \o b) \o c \in Seq(Measurements)
  BY <1>6, ConcatProperties
<1>8. ASSUME NEW i \in 1 .. Len((a \o b) \o c) PROVE LossEntry(((a \o b) \o c)[i])
  <2>1. \/ \E k \in 1 .. Len(a) : ((a \o b) \o c)[i] = a[k]
        \/ \E k \in 1 .. Len(b) : ((a \o b) \o c)[i] = b[k]
        \/ \E k \in 1 .. Len(c) : ((a \o b) \o c)[i] = c[k]
    BY <1>6, ThreeParts
  <2> QED
    BY <1>3, <1>4, <1>5, <2>1
<1> QED
  BY <1>2, <1>7, <1>8

(* A jitter scenario before its parameter is set.                          *)
LEMMA PlainJitter ==
  ASSUME NEW name \in {"time_jitter", "packet_reordering", "pipeline_latency",
                       "no_jitter_baseline"}
  PROVE  /\ JitterScenario(name) \in Measurements /\ JitterScenario(name).name = name
         /\ name \in JitterNames /\ JitterScenario(name).packets = JitterPackets
<1>1. name \in JitterNames
  BY NamesOfScenarios
<1>2. JitterPackets \in Nat /\ DefaultGap \in Nat \ {0}
  BY LossAssumption, JitterAssumption
<1> QED
  BY <1>1, <1>2, ScenarioFields DEF JitterScenario

(* Every entry of the list that jitter_sim.py runs is a jitter scenario;   *)
(* the windows it shuffles are not empty.                                  *)
LEMMA JitterEntries ==
  /\ JitterScenarios \in Seq(Measurements)
  /\ \A i \in 1 .. Len(JitterScenarios) : JitterEntry(JitterScenarios[i])
<1>1. /\ JitterPackets \in Nat /\ DefaultGap \in Nat \ {0}
      /\ JitterLevels \in Seq(Nat) /\ ReorderWindows \in Seq(Nat \ {0}) /\ 0 \in Nat
  BY LossAssumption, JitterAssumption
<1> DEFINE a == [k \in 1 .. Len(JitterLevels) |->
                  [JitterScenario("time_jitter") EXCEPT !.jitter = JitterLevels[k]]]
           b == [k \in 1 .. Len(ReorderWindows) |->
                  [JitterScenario("packet_reordering") EXCEPT !.window = ReorderWindows[k]]]
           c == <<JitterScenario("pipeline_latency"), JitterScenario("no_jitter_baseline")>>
<1>2. JitterScenarios = (a \o b) \o c
  BY DEF JitterScenarios
<1>3. a \in Seq(Measurements) /\ \A k \in 1 .. Len(a) : JitterEntry(a[k])
  <2>1. Len(JitterLevels) \in Nat /\ \A k \in 1 .. Len(JitterLevels) : JitterLevels[k] \in Nat
    BY <1>1
  <2>2. ASSUME NEW k \in 1 .. Len(JitterLevels) PROVE JitterEntry(a[k])
    <3>1. a[k] = [JitterScenario("time_jitter") EXCEPT !.jitter = JitterLevels[k]]
      OBVIOUS
    <3>2. /\ JitterScenario("time_jitter") \in Measurements
          /\ JitterScenario("time_jitter").name = "time_jitter"
          /\ "time_jitter" \in JitterNames
          /\ JitterScenario("time_jitter").packets = JitterPackets
      BY PlainJitter
    <3> QED
      BY <2>1, <3>1, <3>2, ParameterFields DEF JitterEntry
  <2>3. a \in [1 .. Len(JitterLevels) -> Measurements]
    BY <2>2 DEF JitterEntry
  <2> HIDE DEF a
  <2> QED
    BY <2>1, <2>2, <2>3, FunctionIsSeq
<1>4. b \in Seq(Measurements) /\ \A k \in 1 .. Len(b) : JitterEntry(b[k])
  <2>1. Len(ReorderWindows) \in Nat
        /\ \A k \in 1 .. Len(ReorderWindows) : ReorderWindows[k] \in Nat /\ ReorderWindows[k] > 0
    BY <1>1
  <2>2. ASSUME NEW k \in 1 .. Len(ReorderWindows) PROVE JitterEntry(b[k])
    <3>1. b[k] = [JitterScenario("packet_reordering") EXCEPT !.window = ReorderWindows[k]]
      OBVIOUS
    <3>2. /\ JitterScenario("packet_reordering") \in Measurements
          /\ JitterScenario("packet_reordering").name = "packet_reordering"
          /\ "packet_reordering" \in JitterNames
          /\ JitterScenario("packet_reordering").packets = JitterPackets
      BY PlainJitter
    <3> QED
      BY <2>1, <3>1, <3>2, ParameterFields DEF JitterEntry
  <2>3. b \in [1 .. Len(ReorderWindows) -> Measurements]
    BY <2>2 DEF JitterEntry
  <2> HIDE DEF b
  <2> QED
    BY <2>1, <2>2, <2>3, FunctionIsSeq
<1>5. c \in Seq(Measurements) /\ \A k \in 1 .. Len(c) : JitterEntry(c[k])
  <2>1. JitterEntry(JitterScenario("pipeline_latency"))
    BY <1>1, PlainJitter DEF JitterEntry
  <2>2. JitterEntry(JitterScenario("no_jitter_baseline"))
    BY <1>1, PlainJitter DEF JitterEntry
  <2> QED
    BY <2>1, <2>2 DEF JitterEntry
<1> HIDE DEF a, b, c
<1>6. a \in Seq(Measurements) /\ b \in Seq(Measurements) /\ c \in Seq(Measurements)
  BY <1>3, <1>4, <1>5
<1>7. (a \o b) \o c \in Seq(Measurements)
  BY <1>6, ConcatProperties
<1>8. ASSUME NEW i \in 1 .. Len((a \o b) \o c) PROVE JitterEntry(((a \o b) \o c)[i])
  <2>1. \/ \E k \in 1 .. Len(a) : ((a \o b) \o c)[i] = a[k]
        \/ \E k \in 1 .. Len(b) : ((a \o b) \o c)[i] = b[k]
        \/ \E k \in 1 .. Len(c) : ((a \o b) \o c)[i] = c[k]
    BY <1>6, ThreeParts
  <2> QED
    BY <1>3, <1>4, <1>5, <2>1
<1> QED
  BY <1>2, <1>7, <1>8

(* A new number leaves the rest of a delivery alone.                       *)
LEMMA NumberedField ==
  ASSUME NEW r \in Measured, NEW n \in Nat
  PROVE  LET q == [r EXCEPT !.seq = n]
         IN  q \in Measured /\ q.seq = n /\ q.class = r.class /\ q.at = r.at
             /\ q.form = r.form
BY DEF Measured

(* Numbered on from the packets built before, a script fits as before.     *)
LEMMA NumberedFits ==
  ASSUME NEW sc \in Measurements, NEW s, ScriptFits(s, sc, 0), built \in Nat
  PROVE  ScriptFits(Numbered(s), sc, built)
<1> DEFINE t == Numbered(s)
           n == Len(s)
<1>1. s \in Seq(Measured) /\ n \in Nat /\ DOMAIN s = 1 .. n /\ sc.packets \in Nat
  BY DEF ScriptFits, Measurements
<1>2. ASSUME NEW k \in 1 .. n
      PROVE  s[k] \in Measured /\ s[k].seq \in Nat /\ s[k].seq + built \in Nat
  <2>1. s[k] \in Measured
    BY <1>1
  <2>2. s[k].seq \in Nat
    BY <2>1 DEF Measured
  <2> QED
    BY <2>1, <2>2
<1>3. t = [k \in 1 .. n |-> [s[k] EXCEPT !.seq = s[k].seq + built]]
  BY <1>1 DEF Numbered
<1> HIDE DEF t
<1>4. \A k \in 1 .. n : t[k] \in Measured /\ t[k].seq = s[k].seq + built
                        /\ t[k].class = s[k].class
  BY <1>2, <1>3, NumberedField
<1>5. t \in [1 .. n -> Measured]
  BY <1>3, <1>4
<1>6. t \in Seq(Measured) /\ Len(t) = n
  BY <1>1, <1>5, FunctionIsSeq
<1> HIDE DEF n
<1>7. \A k \in 1 .. n : t[k].seq \in built + 1 .. built + sc.packets
  BY <1>1, <1>2, <1>4 DEF ScriptFits, n
<1>8. ASSUME NEW i \in 1 .. n, NEW j \in 1 .. n
      PROVE  /\ s[i].seq < s[j].seq => t[i].seq < t[j].seq
             /\ s[i].seq = s[j].seq => t[i].seq = t[j].seq
             /\ t[i].seq = t[j].seq => s[i].seq = s[j].seq
  <2>1. /\ s[i].seq \in Nat /\ t[i].seq = s[i].seq + built
        /\ s[j].seq \in Nat /\ t[j].seq = s[j].seq + built
    BY <1>2, <1>4
  <2> QED
    BY <2>1
<1>9. ASSUME Growing(s) PROVE Growing(t)
  <2>1. /\ \A i, j \in 1 .. n :
             i < j => \/ s[i].seq < s[j].seq
                      \/ s[i].seq = s[j].seq /\ s[j].class = "duplicate"
        /\ \A j \in 1 .. n :
             s[j].class = "duplicate" => j > 1 /\ s[j - 1].seq = s[j].seq
    BY <1>9 DEF Growing, n
  <2>2. \A j \in 1 .. n : j > 1 => j - 1 \in 1 .. n
    BY <1>1
  <2>3. \A i, j \in 1 .. n :
             i < j => \/ t[i].seq < t[j].seq
                      \/ t[i].seq = t[j].seq /\ t[j].class = "duplicate"
    <3> SUFFICES ASSUME NEW i \in 1 .. n, NEW j \in 1 .. n, i < j
                 PROVE  \/ t[i].seq < t[j].seq
                        \/ t[i].seq = t[j].seq /\ t[j].class = "duplicate"
      OBVIOUS
    <3>1. \/ s[i].seq < s[j].seq
          \/ s[i].seq = s[j].seq /\ s[j].class = "duplicate"
      BY <2>1
    <3> QED
      BY <1>4, <1>8, <3>1
  <2>4. \A j \in 1 .. n :
             t[j].class = "duplicate" => j > 1 /\ t[j - 1].seq = t[j].seq
    BY <1>4, <1>8, <2>1, <2>2
  <2> QED
    BY <1>6, <2>3, <2>4 DEF Growing
<1>12. ASSUME Shuffled(s) PROVE Shuffled(t)
  <2>1. /\ \A i \in 1 .. n : s[i].class = "original"
        /\ \A i, j \in 1 .. n : s[i].seq = s[j].seq => i = j
    BY <1>12 DEF Shuffled, n
  <2>2. \A i \in 1 .. n : t[i].class = "original"
    BY <1>4, <2>1
  <2>3. ASSUME NEW i \in 1 .. n, NEW j \in 1 .. n, t[i].seq = t[j].seq PROVE i = j
    <3>1. s[i].seq = s[j].seq
      BY <1>8, <2>3
    <3> QED
      BY <2>1, <3>1
  <2> QED
    BY <1>6, <2>2, <2>3 DEF Shuffled
<1>10. \A k \in 1 .. n : t[k].seq - built - 1 = s[k].seq - 0 - 1
  BY <1>2, <1>4
<1>13. /\ sc.name \in LossNames \cup {"no_jitter_baseline"} => Growing(t)
       /\ sc.name \in OrderNames => Shuffled(t)
  BY <1>9, <1>12 DEF ScriptFits
<1>14. sc.name = "recovery" => \E k \in 1 .. n : t[k].class = "recovery"
  BY <1>4 DEF ScriptFits, n
<1>15. sc.name = "time_jitter" /\ 2 * sc.jitter <= SendInterval =>
         \A i, j \in 1 .. n : i < j => t[i].seq < t[j].seq
  BY <1>8 DEF ScriptFits, n
<1>16. sc.name = "packet_reordering" =>
         /\ sc.window > 0 /\ n = sc.packets
         /\ \A k \in 1 .. n : (t[k].seq - built - 1) \div sc.window = (k - 1) \div sc.window
  BY <1>10 DEF ScriptFits, n
<1> QED
  BY <1>6, <1>7, <1>13, <1>14, <1>15, <1>16 DEF ScriptFits, t

Reasons == {"accepted", "rejected", "integrity_failed", "sequence_failed",
            "signature_failed", "zkp_failed", "aead_failed"}

Results == [accepted : [Classes -> Nat], rejected : [Classes -> Nat],
            highest : Nat, late : Nat, recovered : BOOLEAN, refusals : Seq(Reasons)]

(* A scenario starts with all counts at zero.                              *)
LEMMA BaseResultFacts ==
  /\ BaseResult \in Results /\ BaseResult.highest = 0 /\ BaseResult.late = 0
  /\ BaseResult.refusals = <<>>
  /\ \A c \in Classes : BaseResult.accepted[c] = 0 /\ BaseResult.rejected[c] = 0
BY DEF BaseResult, Results

(* What is counted for one packet, field by field.                         *)
LEMMA CountedFacts ==
  ASSUME result \in Results, NEW p, p.class \in Classes, p.seq \in Nat, NEW reason
  PROVE  LET r == Counted(p, reason)
             ok == reason = "accepted"
         IN  /\ r \in Results
             /\ r.refusals = result.refusals
             /\ \A c \in Classes :
                  /\ r.accepted[c] = IF c = p.class /\ ok THEN result.accepted[c] + 1
                                     ELSE result.accepted[c]
                  /\ r.rejected[c] = IF c = p.class /\ ~ ok THEN result.rejected[c] + 1
                                     ELSE result.rejected[c]
             /\ r.late = IF result.highest > 0 /\ p.seq <= result.highest
                         THEN result.late + 1 ELSE result.late
             /\ r.highest = IF p.seq > result.highest THEN p.seq ELSE result.highest
             /\ result.recovered \/ (ok /\ p.class = "recovery") => r.recovered
<1> DEFINE ok == reason = "accepted"
           acc == [result.accepted EXCEPT ![p.class] = IF ok THEN @ + 1 ELSE @]
           rej == [result.rejected EXCEPT ![p.class] = IF ok THEN @ ELSE @ + 1]
           late == IF result.highest > 0 /\ p.seq <= result.highest
                   THEN result.late + 1 ELSE result.late
           high == IF p.seq > result.highest THEN p.seq ELSE result.highest
           rec == result.recovered \/ (ok /\ p.class = "recovery")
           r == Counted(p, reason)
<1>1. /\ result.accepted \in [Classes -> Nat] /\ result.rejected \in [Classes -> Nat]
      /\ result.highest \in Nat /\ result.late \in Nat /\ result.recovered \in BOOLEAN
      /\ result.refusals \in Seq(Reasons)
  BY DEF Results
<1>2. r = [result EXCEPT !.accepted = acc, !.rejected = rej, !.late = late,
                         !.highest = high, !.recovered = rec]
  BY DEF Counted, Results
<1>3. acc \in [Classes -> Nat]
      /\ \A c \in Classes : acc[c] = IF c = p.class /\ ok THEN result.accepted[c] + 1
                                     ELSE result.accepted[c]
  BY <1>1
<1>4. rej \in [Classes -> Nat]
      /\ \A c \in Classes : rej[c] = IF c = p.class /\ ~ ok THEN result.rejected[c] + 1
                                     ELSE result.rejected[c]
  BY <1>1
<1>5. late \in Nat /\ high \in Nat
  BY <1>1
<1>6. rec \in BOOLEAN
  OBVIOUS
<1> HIDE DEF r, acc, rej, late, high, rec
<1>7. /\ r \in Results /\ r.accepted = acc /\ r.rejected = rej /\ r.late = late
      /\ r.highest = high /\ r.recovered = rec /\ r.refusals = result.refusals
  BY <1>1, <1>2, <1>3, <1>4, <1>5, <1>6 DEF Results
<1> QED
  BY <1>3, <1>4, <1>7 DEF r, late, high, rec

-----------------------------------------------------------------------------
(* The counts after the first n deliveries of script s.                    *)

Highest(s, n, h) ==
  /\ n = 0 => h = 0
  /\ n > 0 => \E k \in 1 .. n : s[k].seq = h
  /\ \A k \in 1 .. n : s[k].seq <= h

GapsIn(s, n, g) == {j \in 1 .. n - 1 : s[j + 1].seq - s[j].seq > g}

Overtaken(s, n) == {k \in 1 .. n : \E j \in 1 .. k - 1 : s[j].seq > s[k].seq}

LossSoFar(s, n, c, r) ==
  /\ \A k \in Classes \ {"duplicate"} : r.rejected[k] = 0
  /\ r.accepted["duplicate"] = 0
  /\ c.replays = r.rejected["duplicate"]
  /\ c.gaps = Cardinality(GapsIn(s, n, c.maxGap))
  /\ (\E k \in 1 .. n : s[k].class = "recovery") => r.recovered

OrderSoFar(s, n, c, r) ==
  /\ r.rejected["original"] = Cardinality(Overtaken(s, n))
  /\ r.late = r.rejected["original"]
  /\ c.replays = 0
  /\ r.accepted["original"] + r.rejected["original"] = n

Tally(s, n, c, r, sc) ==
  /\ n \in 0 .. Len(s)
  /\ r \in Results
  /\ CheckerOK(c) /\ c.maxGap = sc.maxGap /\ c.last = r.highest
  /\ Highest(s, n, c.last)
  /\ c.seen \subseteq {s[k].seq : k \in 1 .. n}
  /\ sc.name \in LossNames \cup {"no_jitter_baseline"} => LossSoFar(s, n, c, r)
  /\ sc.name \in OrderNames => OrderSoFar(s, n, c, r)

(* Before the first delivery nothing is counted.                           *)
LEMMA TallyStarts ==
  ASSUME NEW sc \in Measurements, NEW s \in Seq(Measured)
  PROVE  Tally(s, 0, NewChecker(sc.maxGap), BaseResult, sc)
<1>1. sc.maxGap \in Nat
  BY DEF Measurements
<1>2. GapsIn(s, 0, sc.maxGap) = {} /\ Overtaken(s, 0) = {} /\ 1 .. 0 = {}
  BY DEF GapsIn, Overtaken
<1>3. Cardinality({}) = 0
  BY FS_EmptySet
<1>4. 0 \in 0 .. Len(s)
  BY LenProperties
<1>5. Highest(s, 0, 0)
  BY <1>2 DEF Highest
<1>6. LossSoFar(s, 0, NewChecker(sc.maxGap), BaseResult)
  BY <1>1, <1>2, <1>3, NewCheckerOK, BaseResultFacts, ClassNames DEF LossSoFar
<1>7. OrderSoFar(s, 0, NewChecker(sc.maxGap), BaseResult)
  <2>1. BaseResult.accepted["original"] = 0 /\ BaseResult.rejected["original"] = 0
    BY BaseResultFacts, ClassNames
  <2>2. BaseResult.accepted["original"] + BaseResult.rejected["original"] = 0
    BY <2>1
  <2> QED
    BY <1>1, <1>2, <1>3, <2>1, <2>2, NewCheckerOK, BaseResultFacts DEF OrderSoFar
<1> QED
  BY <1>1, <1>4, <1>5, <1>6, <1>7, NewCheckerOK, BaseResultFacts DEF Tally

(* Sets that grow by the position n + 1 or stay.                           *)
LEMMA GapsGrow ==
  ASSUME NEW s, NEW n \in Nat, NEW g
  PROVE  /\ IsFiniteSet(GapsIn(s, n, g))
         /\ Cardinality(GapsIn(s, n + 1, g)) =
              IF n > 0 /\ s[n + 1].seq - s[n].seq > g
              THEN Cardinality(GapsIn(s, n, g)) + 1 ELSE Cardinality(GapsIn(s, n, g))
<1> DEFINE G == GapsIn(s, n, g)
           H == GapsIn(s, n + 1, g)
<1>1. IsFiniteSet(1 .. n - 1)
  BY FS_Interval
<1>2. G \in SUBSET (1 .. n - 1)
  BY DEF GapsIn
<1>3. IsFiniteSet(G)
  <2> HIDE DEF G
  <2> QED
    BY <1>1, <1>2, FS_Subset
<1>4. n \notin G
  BY <1>2
<1>5. (n + 1) - 1 = n
  OBVIOUS
<1>6. CASE n > 0 /\ s[n + 1].seq - s[n].seq > g
  <2>1. H = G \cup {n}
    BY <1>5, <1>6 DEF GapsIn
  <2> HIDE DEF G, H
  <2>2. Cardinality(H) = Cardinality(G) + 1
    BY <1>3, <1>4, <2>1, FS_AddElement
  <2> QED
    BY <1>3, <1>6, <2>2 DEF G, H
<1>7. CASE ~ (n > 0 /\ s[n + 1].seq - s[n].seq > g)
  <2>1. H = G
    BY <1>5, <1>7 DEF GapsIn
  <2> HIDE DEF G, H
  <2> QED
    BY <1>3, <1>7, <2>1 DEF G, H
<1> QED
  BY <1>6, <1>7

(* The next position is overtaken exactly when an earlier one holds a      *)
(* higher number.                                                          *)
LEMMA OvertakenGrow ==
  ASSUME NEW s, NEW n \in Nat
  PROVE  /\ IsFiniteSet(Overtaken(s, n))
         /\ Cardinality(Overtaken(s, n + 1)) =
              IF \E j \in 1 .. n : s[j].seq > s[n + 1].seq
              THEN Cardinality(Overtaken(s, n)) + 1 ELSE Cardinality(Overtaken(s, n))
<1> DEFINE G == Overtaken(s, n)
           H == Overtaken(s, n + 1)
           over == \E j \in 1 .. n : s[j].seq > s[n + 1].seq
<1>1. IsFiniteSet(1 .. n)
  BY FS_Interval
<1>2. G \in SUBSET (1 .. n)
  BY DEF Overtaken
<1>3. IsFiniteSet(G)
  <2> HIDE DEF G
  <2> QED
    BY <1>1, <1>2, FS_Subset
<1>4. n + 1 \notin G
  BY <1>2
<1>5. (n + 1) - 1 = n /\ 1 .. n + 1 = (1 .. n) \cup {n + 1}
  OBVIOUS
<1>6. H = IF over THEN G \cup {n + 1} ELSE G
  <2>1. ASSUME NEW k PROVE k \in H <=> k \in (IF over THEN G \cup {n + 1} ELSE G)
    <3>1. CASE k = n + 1
      BY <1>4, <1>5, <3>1 DEF Overtaken
    <3>2. CASE k # n + 1
      BY <1>5, <3>2 DEF Overtaken
    <3> QED
      BY <3>1, <3>2
  <2> HIDE DEF G, H, over
  <2> QED
    BY <2>1
<1> HIDE DEF G, H, over
<1>7. Cardinality(H) = IF over THEN Cardinality(G) + 1 ELSE Cardinality(G)
  BY <1>3, <1>4, <1>6, FS_AddElement
<1> QED
  BY <1>3, <1>7 DEF G, H, over

(* One more delivery of a loss scenario.                                   *)
LEMMA LossStep ==
  ASSUME NEW s \in Seq(Measured), Growing(s), NEW n \in Nat, n < Len(s),
         \A k \in 1 .. Len(s) : s[k].seq > 0,
         NEW c, CheckerOK(c), Highest(s, n, c.last),
         NEW d, NEW r \in Results, NEW t \in Results, NEW ok \in BOOLEAN,
         ok <=> s[n + 1].seq > c.last,
         d.maxGap = c.maxGap,
         d.replays = IF s[n + 1].seq \in c.seen THEN c.replays + 1 ELSE c.replays,
         d.gaps = IF c.last > 0 /\ s[n + 1].seq - c.last > c.maxGap
                  THEN c.gaps + 1 ELSE c.gaps,
         \A k \in Classes :
           /\ t.accepted[k] = IF k = s[n + 1].class /\ ok THEN r.accepted[k] + 1
                              ELSE r.accepted[k]
           /\ t.rejected[k] = IF k = s[n + 1].class /\ ~ ok THEN r.rejected[k] + 1
                              ELSE r.rejected[k],
         r.recovered \/ (ok /\ s[n + 1].class = "recovery") => t.recovered,
         LossSoFar(s, n, c, r)
  PROVE  LossSoFar(s, n + 1, d, t)
<1> DEFINE p == s[n + 1]
<1>1. /\ Len(s) \in Nat /\ n + 1 \in 1 .. Len(s) /\ p \in Measured /\ p.seq \in Nat
      /\ p.class \in Classes
  <2>1. Len(s) \in Nat /\ n + 1 \in 1 .. Len(s)
    BY LenProperties
  <2>2. p \in Measured
    BY <2>1
  <2> HIDE DEF p
  <2> QED
    BY <2>1, <2>2 DEF Measured
<1>2. /\ c.last \in Nat /\ c.seen \in SUBSET Nat /\ c.replays \in Nat /\ c.gaps \in Nat
      /\ c.last > 0 => c.last \in c.seen
      /\ \A x \in c.seen : x <= c.last
  BY DEF CheckerOK, Checkers
<1>3. /\ n > 0 => c.last = s[n].seq /\ n \in 1 .. Len(s) /\ s[n].seq > 0
      /\ n = 0 => c.last = 0
  <2>1. ASSUME n > 0 PROVE c.last = s[n].seq /\ n \in 1 .. Len(s) /\ s[n].seq > 0
    <3>1. n \in 1 .. Len(s) /\ s[n] \in Measured /\ n \in 1 .. n
      BY <1>1, <2>1
    <3>2. s[n].seq \in Nat
      BY <3>1 DEF Measured
    <3>3. PICK k \in 1 .. n : s[k].seq = c.last
      BY <2>1 DEF Highest
    <3>4. s[n].seq <= c.last
      BY <3>1 DEF Highest
    <3>5. k \in 1 .. Len(s) /\ (k < n \/ k = n)
      BY <1>1, <3>1
    <3>6. k < n => s[k].seq < s[n].seq \/ s[k].seq = s[n].seq
      BY <3>1, <3>5 DEF Growing
    <3>7. c.last = s[n].seq
      BY <1>2, <3>2, <3>3, <3>4, <3>5, <3>6
    <3> QED
      BY <3>1, <3>7
  <2> QED
    BY <2>1 DEF Highest
<1>4. p.class = "duplicate" => ~ ok /\ p.seq \in c.seen
  <2>1. ASSUME p.class = "duplicate" PROVE ~ ok /\ p.seq \in c.seen
    <3>1. n + 1 > 1 /\ s[(n + 1) - 1].seq = s[n + 1].seq
      BY <1>1, <2>1 DEF Growing
    <3>2. (n + 1) - 1 = n /\ n > 0
      BY <3>1
    <3>3. s[n].seq = s[n + 1].seq
      BY <3>1, <3>2
    <3> QED
      BY <1>1, <1>2, <1>3, <3>2, <3>3
  <2> QED
    BY <2>1
<1>5. p.class # "duplicate" => ok /\ p.seq \notin c.seen
  <2>1. ASSUME p.class # "duplicate" PROVE p.seq > c.last
    <3>1. CASE n = 0
      BY <1>1, <1>3, <3>1
    <3>2. CASE n > 0
      <4>1. n \in 1 .. Len(s) /\ n < n + 1
        BY <1>3, <3>2
      <4>2. s[n].seq < s[n + 1].seq
        BY <1>1, <2>1, <4>1 DEF Growing
      <4> QED
        BY <1>1, <1>2, <1>3, <3>2, <4>2
    <3> QED
      BY <3>1, <3>2
  <2> QED
    BY <1>1, <1>2, <2>1
<1>6. /\ \A k \in Classes : r.accepted[k] \in Nat /\ r.rejected[k] \in Nat
      /\ "duplicate" \in Classes
  BY ClassNames DEF Results
<1>7. \A k \in Classes \ {"duplicate"} : t.rejected[k] = 0
  BY <1>4, <1>5 DEF LossSoFar
<1>8. t.accepted["duplicate"] = 0
  BY <1>4, <1>5, <1>6 DEF LossSoFar
<1>9. d.replays = t.rejected["duplicate"]
  <2>1. c.replays = r.rejected["duplicate"]
    BY DEF LossSoFar
  <2>2. CASE p.class = "duplicate"
    BY <1>4, <1>6, <2>1, <2>2
  <2>3. CASE p.class # "duplicate"
    BY <1>5, <1>6, <2>1, <2>3
  <2> QED
    BY <2>2, <2>3
<1>10. d.gaps = Cardinality(GapsIn(s, n + 1, d.maxGap))
  <2>1. c.gaps = Cardinality(GapsIn(s, n, c.maxGap))
    BY DEF LossSoFar
  <2>2. Cardinality(GapsIn(s, n + 1, c.maxGap)) =
          IF n > 0 /\ s[n + 1].seq - s[n].seq > c.maxGap
          THEN Cardinality(GapsIn(s, n, c.maxGap)) + 1
          ELSE Cardinality(GapsIn(s, n, c.maxGap))
    BY GapsGrow
  <2>3. c.last > 0 /\ s[n + 1].seq - c.last > c.maxGap
          <=> n > 0 /\ s[n + 1].seq - s[n].seq > c.maxGap
    BY <1>3
  <2> QED
    BY <2>1, <2>2, <2>3
<1>11. ASSUME NEW k \in 1 .. n + 1, s[k].class = "recovery" PROVE t.recovered
  <2>1. CASE k = n + 1
    BY <1>5, <1>11, <2>1
  <2>2. CASE k # n + 1
    <3>1. k \in 1 .. n
      BY <2>2
    <3>2. r.recovered
      BY <1>11, <3>1 DEF LossSoFar
    <3> QED
      BY <3>2
  <2> QED
    BY <2>1, <2>2
<1> QED
  BY <1>7, <1>8, <1>9, <1>10, <1>11 DEF LossSoFar

(* One more delivery of a scenario with jitter or reordering.              *)
LEMMA OrderStep ==
  ASSUME NEW s \in Seq(Measured), Shuffled(s), NEW n \in Nat, n < Len(s),
         \A k \in 1 .. Len(s) : s[k].seq > 0,
         NEW c, CheckerOK(c), Highest(s, n, c.last),
         c.seen \subseteq {s[k].seq : k \in 1 .. n},
         NEW d, NEW r \in Results, NEW t \in Results, NEW ok \in BOOLEAN,
         ok <=> s[n + 1].seq > c.last, r.highest = c.last,
         d.replays = IF s[n + 1].seq \in c.seen THEN c.replays + 1 ELSE c.replays,
         \A k \in Classes :
           /\ t.accepted[k] = IF k = s[n + 1].class /\ ok THEN r.accepted[k] + 1
                              ELSE r.accepted[k]
           /\ t.rejected[k] = IF k = s[n + 1].class /\ ~ ok THEN r.rejected[k] + 1
                              ELSE r.rejected[k],
         t.late = IF r.highest > 0 /\ s[n + 1].seq <= r.highest THEN r.late + 1 ELSE r.late,
         OrderSoFar(s, n, c, r)
  PROVE  OrderSoFar(s, n + 1, d, t)
<1> DEFINE p == s[n + 1]
           over == \E j \in 1 .. n : s[j].seq > s[n + 1].seq
<1>1. Len(s) \in Nat /\ n + 1 \in 1 .. Len(s) /\ \A k \in 1 .. n : k \in 1 .. Len(s)
  BY LenProperties
<1>2. \A k \in 1 .. Len(s) : s[k].seq \in Nat
  <2>1. \A k \in 1 .. Len(s) : s[k] \in Measured
    OBVIOUS
  <2> QED
    BY <2>1 DEF Measured
<1>3. p.class = "original" /\ \A k \in 1 .. n : s[k].seq # p.seq
  BY <1>1 DEF Shuffled
<1>4. p.seq \notin c.seen
  BY <1>3
<1>5. c.last \in Nat
  BY DEF CheckerOK, Checkers
<1>6. over <=> p.seq <= c.last
  <2>1. ASSUME over PROVE p.seq <= c.last
    <3>1. PICK j \in 1 .. n : s[j].seq > s[n + 1].seq
      BY <2>1
    <3>2. s[j].seq <= c.last /\ s[j].seq \in Nat /\ p.seq \in Nat
      BY <1>1, <1>2 DEF Highest
    <3> QED
      BY <1>5, <3>1, <3>2
  <2>2. ASSUME p.seq <= c.last PROVE over
    <3>1. p.seq \in Nat /\ p.seq > 0
      BY <1>1, <1>2
    <3>2. n > 0
      BY <1>5, <2>2, <3>1 DEF Highest
    <3>3. PICK k \in 1 .. n : s[k].seq = c.last
      BY <3>2 DEF Highest
    <3>4. s[k].seq # p.seq
      BY <1>3
    <3>5. s[k].seq > s[n + 1].seq
      BY <1>5, <2>2, <3>1, <3>3, <3>4
    <3> QED
      BY <3>5
  <2> QED
    BY <2>1, <2>2
<1>7. (ok <=> ~ over) /\ (over => r.highest > 0 /\ p.seq <= r.highest)
      /\ (~ over => ~ (r.highest > 0 /\ p.seq <= r.highest))
  <2>1. p.seq \in Nat /\ p.seq > 0
    BY <1>1, <1>2
  <2> HIDE DEF over, p
  <2>2. ok <=> p.seq > c.last
    BY DEF p
  <2> QED
    BY <1>5, <1>6, <2>1, <2>2
<1>8. Cardinality(Overtaken(s, n + 1)) =
        IF over THEN Cardinality(Overtaken(s, n)) + 1 ELSE Cardinality(Overtaken(s, n))
  BY OvertakenGrow
<1>9. r.accepted["original"] \in Nat /\ r.rejected["original"] \in Nat /\ r.late \in Nat
      /\ "original" \in Classes
  BY ClassNames DEF Results
<1>10. /\ t.accepted["original"] = IF over THEN r.accepted["original"]
                                   ELSE r.accepted["original"] + 1
       /\ t.rejected["original"] = IF over THEN r.rejected["original"] + 1
                                   ELSE r.rejected["original"]
       /\ t.late = IF over THEN r.late + 1 ELSE r.late
       /\ d.replays = c.replays
  BY <1>3, <1>4, <1>7, <1>9
<1> HIDE DEF over
<1>11. /\ r.rejected["original"] = Cardinality(Overtaken(s, n))
       /\ r.late = r.rejected["original"]
       /\ c.replays = 0
       /\ r.accepted["original"] + r.rejected["original"] = n
  BY DEF OrderSoFar
<1>12. t.accepted["original"] + t.rejected["original"] = n + 1
  BY <1>9, <1>10, <1>11
<1> QED
  BY <1>8, <1>9, <1>10, <1>11, <1>12 DEF OrderSoFar

(* validate() and the counting that follows it keep the counts right.      *)
LEMMA TallyStep ==
  ASSUME NEW sc \in Measurements, NEW base \in Nat, NEW s, ScriptFits(s, sc, base),
         NEW n \in Nat, n < Len(s), Tally(s, n, valChecker, result, sc)
  PROVE  LET v == ValidatePacket(valChecker, s[n + 1])
         IN  Tally(s, n + 1, v.checker, Counted(s[n + 1], v.reason), sc)
<1> DEFINE p == s[n + 1]
           c == valChecker
           d == Checked(c, p.seq)
           reason == IF Signed(p) /\ InSequence(c, p.seq) /\ Committed(p)
                     THEN "accepted" ELSE "rejected"
           r == result
           t == Counted(p, reason)
           ok == reason = "accepted"
<1>1. s \in Seq(Measured) /\ Len(s) \in Nat /\ n + 1 \in 1 .. Len(s)
  BY LenProperties DEF ScriptFits
<1>2. \A k \in 1 .. Len(s) : s[k] \in Measured /\ s[k].seq \in Nat /\ s[k].seq > 0
  <2>1. \A k \in 1 .. Len(s) : s[k] \in Measured
    BY <1>1
  <2>2. \A k \in 1 .. Len(s) : s[k].seq \in base + 1 .. base + sc.packets
    BY DEF ScriptFits
  <2>3. \A k \in 1 .. Len(s) : s[k].seq \in Nat
    BY <2>1 DEF Measured
  <2>4. sc.packets \in Nat
    BY DEF Measurements
  <2> QED
    BY <2>1, <2>2, <2>3, <2>4
<1>3. p \in Measured /\ p.seq \in Nat \ {0} /\ p.class \in Classes /\ p.form = "intact"
  <2>1. p \in Measured /\ p.seq \in Nat \ {0}
    BY <1>1, <1>2
  <2> HIDE DEF p
  <2> QED
    BY <2>1 DEF Measured
<1>4. /\ r \in Results /\ CheckerOK(c) /\ c.maxGap = sc.maxGap /\ c.last = r.highest
      /\ Highest(s, n, c.last) /\ c.seen \subseteq {s[k].seq : k \in 1 .. n}
      /\ sc.name \in LossNames \cup {"no_jitter_baseline"} => LossSoFar(s, n, c, r)
      /\ sc.name \in OrderNames => OrderSoFar(s, n, c, r)
  BY DEF Tally
<1>5. /\ CheckerOK(d)
      /\ InSequence(c, p.seq) <=> p.seq > c.last
      /\ d.last = IF p.seq > c.last THEN p.seq ELSE c.last
      /\ d.seen \subseteq c.seen \cup {p.seq}
      /\ d.replays = IF p.seq \in c.seen THEN c.replays + 1 ELSE c.replays
      /\ d.gaps = IF c.last > 0 /\ p.seq - c.last > c.maxGap THEN c.gaps + 1 ELSE c.gaps
      /\ d.maxGap = c.maxGap
  <2> HIDE DEF p, c
  <2> QED
    BY <1>3, <1>4, CheckerStep
<1>6. ok <=> p.seq > c.last
  <2>1. Signed(p) /\ Committed(p)
    BY <1>3 DEF Signed, Committed
  <2> QED
    BY <1>5, <2>1
<1>7. ok \in BOOLEAN
  OBVIOUS
<1> HIDE DEF reason
<1>8. /\ t \in Results
      /\ \A k \in Classes :
           /\ t.accepted[k] = IF k = p.class /\ ok THEN r.accepted[k] + 1
                              ELSE r.accepted[k]
           /\ t.rejected[k] = IF k = p.class /\ ~ ok THEN r.rejected[k] + 1
                              ELSE r.rejected[k]
      /\ t.late = IF r.highest > 0 /\ p.seq <= r.highest THEN r.late + 1 ELSE r.late
      /\ t.highest = IF p.seq > r.highest THEN p.seq ELSE r.highest
      /\ r.recovered \/ (ok /\ p.class = "recovery") => t.recovered
  <2> HIDE DEF p
  <2> QED
    BY <1>3, <1>4, CountedFacts
<1>9. d.last = t.highest
  BY <1>4, <1>5, <1>8
<1>10. Highest(s, n + 1, d.last)
  <2>1. c.last \in Nat
    BY <1>4 DEF CheckerOK, Checkers
  <2>2. \A k \in 1 .. n + 1 : k = n + 1 \/ k \in 1 .. n
    OBVIOUS
  <2>3. n + 1 \in 1 .. n + 1 /\ \A k \in 1 .. n : k \in 1 .. n + 1 /\ k \in 1 .. Len(s)
    BY <1>1
  <2>4. \A k \in 1 .. n : s[k].seq <= c.last /\ s[k].seq \in Nat
    BY <1>2, <1>4, <2>3 DEF Highest
  <2>5. ~ (p.seq > c.last) => n > 0
    BY <1>3, <1>4, <2>1 DEF Highest
  <2>6. n > 0 => \E k \in 1 .. n + 1 : s[k].seq = c.last
    BY <1>4, <2>3 DEF Highest
  <2>7. \E k \in 1 .. n + 1 : s[k].seq = d.last
    <3>1. CASE p.seq > c.last
      BY <1>5, <2>3, <3>1
    <3>2. CASE ~ (p.seq > c.last)
      BY <1>5, <2>5, <2>6, <3>2
    <3> QED
      BY <3>1, <3>2
  <2> HIDE DEF d
  <2>8. ASSUME NEW k \in 1 .. n + 1 PROVE s[k].seq <= d.last
    <3>1. CASE k = n + 1
      <4>1. s[k].seq = p.seq
        BY <3>1
      <4> HIDE DEF p
      <4> QED
        BY <1>3, <1>5, <2>1, <4>1
    <3>2. CASE k \in 1 .. n
      <4>1. s[k].seq <= c.last /\ s[k].seq \in Nat
        BY <2>4, <3>2
      <4> HIDE DEF p
      <4> QED
        BY <1>3, <1>5, <2>1, <4>1
    <3> QED
      BY <2>2, <3>1, <3>2
  <2> QED
    BY <2>7, <2>8 DEF Highest
<1>11. d.seen \subseteq {s[k].seq : k \in 1 .. n + 1}
  <2>1. n + 1 \in 1 .. n + 1 /\ \A k \in 1 .. n : k \in 1 .. n + 1
    OBVIOUS
  <2> QED
    BY <1>4, <1>5, <2>1
<1>12. sc.name \in LossNames \cup {"no_jitter_baseline"} => LossSoFar(s, n + 1, d, t)
  <2>1. ASSUME sc.name \in LossNames \cup {"no_jitter_baseline"}
        PROVE  LossSoFar(s, n + 1, d, t)
    <3>1. Growing(s) /\ LossSoFar(s, n, c, r)
      BY <1>4, <2>1 DEF ScriptFits
    <3> HIDE DEF c, d, r, t, ok
    <3> QED
      BY <1>1, <1>2, <1>4, <1>5, <1>6, <1>7, <1>8, <3>1, LossStep
  <2> QED
    BY <2>1
<1>13. sc.name \in OrderNames => OrderSoFar(s, n + 1, d, t)
  <2>1. ASSUME sc.name \in OrderNames PROVE OrderSoFar(s, n + 1, d, t)
    <3>1. Shuffled(s) /\ OrderSoFar(s, n, c, r)
      BY <1>4, <2>1 DEF ScriptFits
    <3>2. r.highest = c.last
      BY <1>4
    <3> HIDE DEF c, d, r, t, ok
    <3> QED
      BY <1>1, <1>2, <1>4, <1>5, <1>6, <1>7, <1>8, <3>1, <3>2, OrderStep
  <2> QED
    BY <2>1
<1>14. n + 1 \in 0 .. Len(s) /\ d.maxGap = sc.maxGap
  BY <1>1, <1>4, <1>5
<1>15. Tally(s, n + 1, d, t, sc)
  <2> HIDE DEF d, t
  <2> QED
    BY <1>5, <1>8, <1>9, <1>10, <1>11, <1>12, <1>13, <1>14 DEF Tally
<1> QED
  BY <1>15 DEF ValidatePacket, reason

-----------------------------------------------------------------------------
(* The invariant of the measuring programs.                                *)
MeasInv ==
  /\ scenario \in Nat \ {0}
  /\ Measuring => built \in Nat
  /\ Measuring /\ phase \in {"deliver", "reported"} =>
       /\ scenario \in 1 .. Len(Scenarios)
       /\ built - Current.packets \in Nat
       /\ ScriptFits(script, Current, built - Current.packets)
       /\ Tally(script, at, valChecker, result, Current)
       /\ phase = "reported" => at = Len(script)

(* The scenario under way is an entry of the program's list, and every     *)
(* script chosen for it fits it.                                           *)
LEMMA CurrentMeasurement ==
  ASSUME Measuring, scenario \in 1 .. Len(Scenarios)
  PROVE  Current \in Measurements /\ \A s \in Scripts : ScriptFits(s, Current, 0)
<1>1. CASE program = "packet_loss"
  <2>1. Scenarios = LossScenarios
    BY <1>1 DEF Scenarios
  <2>2. LossEntry(Current)
    BY <2>1, LossEntries DEF Current
  <2>3. Scripts = LossScripts(Current)
    BY <1>1 DEF Scripts
  <2> QED
    BY <2>2, <2>3, LossScriptsFit DEF LossEntry
<1>2. CASE program = "jitter"
  <2>1. Scenarios = JitterScenarios
    BY <1>2 DEF Scenarios
  <2>2. JitterEntry(Current)
    BY <2>1, JitterEntries DEF Current
  <2>3. Scripts = JitterScripts(Current)
    BY <1>2 DEF Scripts
  <2> QED
    BY <2>2, <2>3, JitterScriptsFit DEF JitterEntry
<1> QED
  BY <1>1, <1>2 DEF Measuring

(* No program starts in the middle of a scenario.                          *)
LEMMA MeasInvInit == SimInit => MeasInv
BY DEF SimInit, MeasInv

(* Choosing a script, delivering a packet and reporting keep the invariant *)
(* of the measuring programs, and so does every step of the other          *)
(* programs.                                                               *)
LEMMA MeasInvStep == MeasInv /\ [SimNext]_simVars => MeasInv'
<1> SUFFICES ASSUME MeasInv, [SimNext]_simVars PROVE MeasInv'
  OBVIOUS
<1>1. program' = program
  BY DEF SimNext, NetNext, BeginMeasurement, BeginAttack, Validate, AttackStep, Report,
         NextScenario, Save, RotationStepOfProgram, simVars
<1>2. Measuring' = Measuring /\ Scenarios' = Scenarios /\ (Measuring => ~ Attacking)
  BY <1>1 DEF Measuring, Attacking, Scenarios
<1>3. scenario' = scenario => Current' = Current
  BY <1>2 DEF Current
<1>4. ASSUME UNCHANGED <<scenario, phase, built, valChecker, script, at, result>>
      PROVE  MeasInv'
  BY <1>2, <1>3, <1>4 DEF MeasInv
<1>5. ASSUME UNCHANGED simVars \/ RotationStepOfProgram PROVE MeasInv'
  BY <1>4, <1>5 DEF simVars, netVars, RotationStepOfProgram
<1>6. CASE BeginMeasurement
  <2>1. /\ Measuring /\ scenario \in 1 .. Len(Scenarios) /\ built \in Nat
        /\ scenario' = scenario /\ phase' = "deliver" /\ at' = 0 /\ result' = BaseResult
        /\ valChecker' = NewChecker(Current.maxGap)
        /\ built' = built + Current.packets
        /\ \E s \in Scripts : script' = Numbered(s)
    <3>1. Len(Scenarios) \in Nat
      <4>1. LossScenarios \in Seq(Measurements) /\ JitterScenarios \in Seq(Measurements)
        BY LossEntries, JitterEntries
      <4> QED
        BY <1>6, <4>1 DEF BeginMeasurement, Measuring, Scenarios
    <3> QED
      BY <1>6, <3>1 DEF BeginMeasurement, MeasInv
  <2>2. Current \in Measurements /\ Current' = Current
        /\ \A s \in Scripts : ScriptFits(s, Current, 0)
    BY <1>3, <2>1, CurrentMeasurement
  <2>3. ScriptFits(script', Current, built)
    BY <2>1, <2>2, NumberedFits
  <2>4. Tally(script', 0, NewChecker(Current.maxGap), BaseResult, Current)
    BY <2>2, <2>3, TallyStarts DEF ScriptFits
  <2>5. built' - Current.packets = built /\ built' \in Nat
    <3>1. Current.packets \in Nat
      BY <2>2 DEF Measurements
    <3> QED
      BY <2>1, <3>1
  <2> QED
    BY <1>2, <2>1, <2>2, <2>3, <2>4, <2>5 DEF MeasInv
<1>7. CASE Validate
  <2>1. /\ Measuring /\ phase = "deliver" /\ at < Len(script)
        /\ UNCHANGED <<scenario, phase, built, script>> /\ at' = at + 1
        /\ valChecker' = ValidatePacket(valChecker, script[at + 1]).checker
        /\ result' = Counted(script[at + 1], ValidatePacket(valChecker, script[at + 1]).reason)
    BY <1>7 DEF Validate
  <2>2. /\ scenario \in 1 .. Len(Scenarios) /\ scenario \in Nat \ {0} /\ built \in Nat
        /\ built - Current.packets \in Nat
        /\ ScriptFits(script, Current, built - Current.packets)
        /\ Tally(script, at, valChecker, result, Current)
    BY <2>1 DEF MeasInv
  <2>3. Current \in Measurements
    BY <2>1, <2>2, CurrentMeasurement
  <2>4. at \in Nat
    BY <2>2 DEF Tally
  <2>5. Tally(script, at + 1, valChecker', result', Current)
    BY <2>1, <2>2, <2>3, <2>4, TallyStep
  <2> QED
    BY <1>2, <1>3, <2>1, <2>2, <2>5 DEF MeasInv
<1>8. CASE BeginAttack \/ AttackStep
  <2>1. ~ Measuring /\ scenario' = scenario
    BY <1>2, <1>8 DEF BeginAttack, AttackStep
  <2> QED
    BY <1>2, <2>1 DEF MeasInv
<1>9. CASE Report
  <2>1. /\ UNCHANGED <<scenario, built, valChecker, script, at, result>>
        /\ phase = "deliver" /\ at = Len(script)
    BY <1>9 DEF Report
  <2> QED
    BY <1>2, <1>3, <2>1 DEF MeasInv
<1>10. CASE NextScenario \/ Save
  <2>1. scenario' \in Nat \ {0} /\ phase' \in {"next", "saved"} /\ built' = built
    BY <1>10 DEF NextScenario, Save, MeasInv
  <2> QED
    BY <1>2, <2>1 DEF MeasInv
<1> QED
  BY <1>5, <1>6, <1>7, <1>8, <1>9, <1>10 DEF SimNext, NetNext

(* The blocks of w numbers.                                                *)
LEMMA DivFacts ==
  ASSUME NEW a \in Nat, NEW w \in Nat \ {0}
  PROVE  /\ (a \div w) \in Nat
         /\ w * (a \div w) <= a
         /\ a < w * (a \div w) + w
OBVIOUS

(* A lower block holds lower numbers.                                      *)
LEMMA DivMonotone ==
  ASSUME NEW a \in Nat, NEW b \in Nat, NEW w \in Nat \ {0}, (a \div w) < (b \div w)
  PROVE  a < b
<1> DEFINE x == a \div w
           y == b \div w
<1>1. x \in Nat /\ y \in Nat /\ a < w * x + w /\ w * y <= b /\ x < y
  BY DivFacts
<1> HIDE DEF x, y
<1>2. PICK z \in Nat : y = x + 1 + z
  <2>1. y - x - 1 \in Nat /\ y = x + 1 + (y - x - 1)
    BY <1>1
  <2> QED
    BY <2>1
<1>3. w * (x + 1 + z) = w * x + w + w * z /\ w * z \in Nat /\ w * x \in Nat
  BY <1>1
<1>4. w * y = w * x + w + w * z
  BY <1>2, <1>3
<1> QED
  BY <1>1, <1>3, <1>4

(* The first number of a block.                                            *)
LEMMA DivOfMultiple ==
  ASSUME NEW b \in Nat, NEW w \in Nat \ {0}
  PROVE  (b * w) \div w = b
<1> DEFINE a == b * w
           q == a \div w
<1>1. a \in Nat /\ a = w * b
  OBVIOUS
<1>2. q \in Nat /\ w * q <= a /\ a < w * q + w
  BY <1>1, DivFacts
<1> HIDE DEF q, a
<1>3. ~ (q < b)
  <2>1. ASSUME q < b PROVE FALSE
    <3>1. b - q - 1 \in Nat /\ b = q + 1 + (b - q - 1)
      BY <1>2, <2>1
    <3>2. PICK z \in Nat : b = q + 1 + z
      BY <3>1
    <3>3. w * (q + 1 + z) = w * q + w + w * z /\ w * z \in Nat /\ w * q \in Nat
      BY <1>2
    <3>4. a = w * q + w + w * z
      BY <1>1, <3>2, <3>3
    <3> QED
      BY <1>1, <1>2, <3>3, <3>4
  <2> QED
    BY <2>1
<1>4. ~ (b < q)
  <2>1. ASSUME b < q PROVE FALSE
    <3>1. q - b - 1 \in Nat /\ q = b + 1 + (q - b - 1)
      BY <1>2, <2>1
    <3>2. PICK z \in Nat : q = b + 1 + z
      BY <3>1
    <3>3. w * (b + 1 + z) = w * b + w + w * z /\ w * z \in Nat
      OBVIOUS
    <3>4. w * q = a + w + w * z
      BY <1>1, <3>2, <3>3
    <3> QED
      BY <1>1, <1>2, <3>3, <3>4
  <2> QED
    BY <2>1
<1>5. q = b
  BY <1>2, <1>3, <1>4
<1> QED
  BY <1>5 DEF q, a

(* Below b blocks of w numbers.                                            *)
LEMMA DivBelow ==
  ASSUME NEW a \in Nat, NEW b \in Nat, NEW w \in Nat \ {0}, a < b * w
  PROVE  (a \div w) < b
<1> DEFINE q == a \div w
<1>1. q \in Nat /\ w * q <= a /\ b * w \in Nat
  BY DivFacts
<1> HIDE DEF q
<1>2. ASSUME ~ (q < b) PROVE FALSE
  <2>1. q - b \in Nat /\ q = b + (q - b)
    BY <1>1, <1>2
  <2>2. PICK z \in Nat : q = b + z
    BY <2>1
  <2>3. w * (b + z) = b * w + w * z /\ w * z \in Nat
    OBVIOUS
  <2>4. w * q = b * w + w * z
    BY <2>2, <2>3
  <2> QED
    BY <1>1, <2>3, <2>4
<1> QED
  BY <1>2 DEF q

(* The numbers 1 .. n are n numbers.                                       *)
LEMMA CardinalityOneTo ==
  ASSUME NEW n \in Nat
  PROVE  IsFiniteSet(1 .. n) /\ Cardinality(1 .. n) = n
<1>1. IsFiniteSet(1 .. n) /\ Cardinality(1 .. n) = IF 1 > n THEN 0 ELSE n - 1 + 1
  BY FS_Interval
<1> QED
  BY <1>1

(* The first position of every window is never overtaken: the positions    *)
(* before it hold packets of earlier windows.                              *)
LEMMA WindowCost ==
  ASSUME NEW s, NEW P \in Nat, NEW w \in Nat \ {0}, NEW base \in Nat,
         \A k \in 1 .. P : /\ s[k].seq \in base + 1 .. base + P
                           /\ (s[k].seq - base - 1) \div w = (k - 1) \div w
  PROVE  (P - Cardinality(Overtaken(s, P))) * w >= P
<1> DEFINE over == Overtaken(s, P)
           onTime == (1 .. P) \ over
           m == (P - 1) \div w
           first(b) == b * w + 1
<1>1. /\ IsFiniteSet(over) /\ IsFiniteSet(onTime) /\ Cardinality(onTime) \in Nat
      /\ P - Cardinality(over) = Cardinality(onTime)
  <2>1. IsFiniteSet(1 .. P) /\ Cardinality(1 .. P) = P
    BY CardinalityOneTo
  <2>2. over \in SUBSET (1 .. P)
    BY DEF Overtaken
  <2> HIDE DEF over
  <2>3. IsFiniteSet(over) /\ IsFiniteSet(onTime)
    BY <2>1, <2>2, FS_Subset
  <2>4. onTime = (1 .. P) \ over /\ (1 .. P) \cap over = over
    BY <2>2
  <2>5. Cardinality(onTime) = Cardinality(1 .. P) - Cardinality((1 .. P) \cap over)
    BY <2>1, <2>3, FS_Difference
  <2>6. Cardinality(onTime) \in Nat
    BY <2>3, FS_CardinalityType
  <2> QED
    BY <2>1, <2>3, <2>4, <2>5, <2>6
<1>2. CASE P = 0
  <2> HIDE DEF over, onTime
  <2>1. Cardinality(onTime) * w >= 0
    BY <1>1
  <2> QED
    BY <1>1, <1>2, <2>1 DEF over
<1>3. CASE P # 0
  <2>1. P - 1 \in Nat
    BY <1>3
  <2>2. m \in Nat /\ w * m <= P - 1 /\ P - 1 < w * m + w
    BY <2>1, DivFacts
  <2> HIDE DEF m
  <2>3. ASSUME NEW b \in 0 .. m PROVE first(b) \in 1 .. P /\ first(b) - 1 = b * w
    <3>1. m - b \in Nat /\ m = b + (m - b) /\ b \in Nat
      BY <2>2
    <3>2. PICK z \in Nat : m = b + z
      BY <3>1
    <3>3. w * (b + z) = b * w + w * z /\ w * z \in Nat /\ b * w \in Nat
      BY <3>1
    <3>4. w * m = b * w + w * z
      BY <3>2, <3>3
    <3> QED
      BY <2>2, <3>3, <3>4
  <2>4. ASSUME NEW b \in 0 .. m PROVE first(b) \in onTime
    <3>1. (first(b) - 1) \div w = b /\ b \in Nat
      BY <2>2, <2>3, DivOfMultiple
    <3>2. first(b) \in 1 .. P
      BY <2>3
    <3> HIDE DEF first
    <3>3. ASSUME NEW j \in 1 .. first(b) - 1 PROVE ~ (s[j].seq > s[first(b)].seq)
      <4>1. j \in 1 .. P /\ j - 1 \in Nat /\ first(b) - 1 \in Nat /\ j - 1 < first(b) - 1
        BY <3>2
      <4>2. /\ s[j].seq - base - 1 \in Nat /\ s[first(b)].seq - base - 1 \in Nat
            /\ s[j].seq \in Int /\ s[first(b)].seq \in Int
            /\ (s[j].seq - base - 1) \div w = (j - 1) \div w
            /\ (s[first(b)].seq - base - 1) \div w = b
        <5>1. /\ s[j].seq \in base + 1 .. base + P
              /\ (s[j].seq - base - 1) \div w = (j - 1) \div w
          BY <4>1
        <5>2. /\ s[first(b)].seq \in base + 1 .. base + P
              /\ (s[first(b)].seq - base - 1) \div w = (first(b) - 1) \div w
          BY <3>2
        <5>3. /\ s[j].seq - base - 1 \in Nat /\ s[first(b)].seq - base - 1 \in Nat
              /\ s[j].seq \in Int /\ s[first(b)].seq \in Int
          BY <5>1, <5>2
        <5> QED
          BY <3>1, <5>1, <5>2, <5>3
      <4>3. (j - 1) \div w < b
        <5>1. j - 1 < b * w
          BY <2>3, <3>2, <4>1
        <5> QED
          BY <3>1, <4>1, <5>1, DivBelow
      <4> DEFINE x == s[j].seq - base - 1
                 y == s[first(b)].seq - base - 1
      <4>4. x \in Nat /\ y \in Nat /\ (x \div w) < (y \div w)
        BY <4>2, <4>3
      <4>5. x < y
        <5> HIDE DEF x, y
        <5> QED
          BY <4>4, DivMonotone
      <4> QED
        BY <4>2, <4>5
    <3> QED
      BY <3>2, <3>3 DEF Overtaken
  <2> DEFINE f == [b \in 0 .. m |-> first(b)]
  <2>5. f \in Injection(0 .. m, onTime)
    <3>1. f \in [0 .. m -> onTime]
      BY <2>4
    <3>2. ASSUME NEW a \in 0 .. m, NEW b \in 0 .. m, first(a) = first(b) PROVE a = b
      <4>1. a \in Nat /\ b \in Nat /\ a * w = b * w
        BY <2>2, <3>2
      <4>2. a = (a * w) \div w /\ b = (b * w) \div w
        BY <4>1, DivOfMultiple
      <4> QED
        BY <4>1, <4>2
    <3> QED
      BY <3>1, <3>2 DEF Injection, IsInjective
  <2> HIDE DEF f, onTime, over
  <2>6. IsFiniteSet(0 .. m) /\ Cardinality(0 .. m) = m + 1
    BY <2>2, FS_Interval
  <2>7. m + 1 <= Cardinality(onTime)
    BY <1>1, <2>5, <2>6, FS_Injection
  <2>8. PICK z \in Nat : Cardinality(onTime) = m + 1 + z
    <3>1. Cardinality(onTime) - (m + 1) \in Nat
          /\ Cardinality(onTime) = m + 1 + (Cardinality(onTime) - (m + 1))
      BY <1>1, <2>2, <2>7
    <3> QED
      BY <3>1
  <2>9. (m + 1 + z) * w = w * m + w + z * w /\ z * w \in Nat /\ w * m \in Nat
    BY <2>2
  <2>10. Cardinality(onTime) * w = w * m + w + z * w
    BY <2>8, <2>9
  <2>11. Cardinality(onTime) * w >= P
    BY <2>2, <2>9, <2>10
  <2> QED
    BY <1>1, <2>11 DEF over
<1> QED
  BY <1>2, <1>3

(* When the last packet is counted, the counts are those of the whole      *)
(* script: that is the report on jitter and reordering.                    *)
LEMMA MeasInvOrders == MeasInv => OrderReportsTrue
<1> SUFFICES ASSUME MeasInv, ReportedOf({"time_jitter", "packet_reordering"})
             PROVE  /\ result.rejected["original"] =
                         Cardinality({k \in DOMAIN script :
                                        \E j \in 1 .. k - 1 : script[j].seq > script[k].seq})
                    /\ result.late = result.rejected["original"]
                    /\ valChecker.replays = 0
                    /\ Current.name = "time_jitter" /\ 2 * Current.jitter <= SendInterval
                         => result.rejected["original"] = 0
                    /\ Current.name = "packet_reordering"
                         => result.accepted["original"] * Current.window >= Current.packets
  BY DEF OrderReportsTrue
<1> DEFINE s == script
           n == Len(script)
           base == built - Current.packets
<1>1. Measuring /\ phase = "reported" /\ Current.name \in OrderNames
  BY DEF ReportedOf, Reported, OrderNames
<1>2. /\ scenario \in 1 .. Len(Scenarios) /\ base \in Nat /\ at = n
      /\ ScriptFits(s, Current, base) /\ Tally(s, n, valChecker, result, Current)
  BY <1>1 DEF MeasInv
<1>3. Current \in Measurements
  BY <1>1, <1>2, CurrentMeasurement
<1>4. Current.packets \in Nat /\ Current.window \in Nat
  BY <1>3 DEF Measurements
<1> HIDE DEF base
<1>5. s \in Seq(Measured) /\ n \in Nat /\ DOMAIN s = 1 .. n
  BY <1>2, LenProperties DEF ScriptFits
<1>6. OrderSoFar(s, n, valChecker, result) /\ result \in Results
  BY <1>1, <1>2 DEF Tally
<1>7. {k \in DOMAIN script : \E j \in 1 .. k - 1 : script[j].seq > script[k].seq}
        = Overtaken(s, n)
  BY <1>5 DEF Overtaken
<1>8. /\ result.rejected["original"] = Cardinality(Overtaken(s, n))
      /\ result.late = result.rejected["original"]
      /\ valChecker.replays = 0
      /\ result.accepted["original"] + result.rejected["original"] = n
  BY <1>6 DEF OrderSoFar
<1>9. ASSUME Current.name = "time_jitter", 2 * Current.jitter <= SendInterval
      PROVE  result.rejected["original"] = 0
  <2>1. \A i, j \in 1 .. n : i < j => s[i].seq < s[j].seq
    BY <1>2, <1>9 DEF ScriptFits
  <2>2. \A k \in 1 .. n : s[k].seq \in Int
    <3>1. \A k \in 1 .. n : s[k] \in Measured
      BY <1>5
    <3> QED
      BY <3>1 DEF Measured
  <2>3. ASSUME NEW k \in 1 .. n, NEW j \in 1 .. k - 1 PROVE ~ (s[j].seq > s[k].seq)
    <3>1. j \in 1 .. n /\ j < k
      BY <1>5
    <3>2. s[j].seq < s[k].seq /\ s[j].seq \in Int /\ s[k].seq \in Int
      BY <2>1, <2>2, <3>1
    <3> QED
      BY <3>2
  <2>4. Overtaken(s, n) = {}
    BY <2>3 DEF Overtaken
  <2> QED
    BY <1>8, <2>4, FS_EmptySet
<1>10. ASSUME Current.name = "packet_reordering"
       PROVE  result.accepted["original"] * Current.window >= Current.packets
  <2>1. /\ Current.window > 0 /\ n = Current.packets
        /\ \A k \in 1 .. n : (s[k].seq - base - 1) \div Current.window
                               = (k - 1) \div Current.window
        /\ \A k \in 1 .. n : s[k].seq \in base + 1 .. base + n
    BY <1>2, <1>10 DEF ScriptFits
  <2>2. Current.window \in Nat \ {0}
    BY <1>4, <2>1
  <2>3. (n - Cardinality(Overtaken(s, n))) * Current.window >= n
    <3> HIDE DEF s, n
    <3> QED
      BY <1>2, <1>5, <2>1, <2>2, WindowCost
  <2>4. result.accepted["original"] \in Nat /\ result.rejected["original"] \in Nat
    BY <1>6, ClassNames DEF Results
  <2>5. result.accepted["original"] = n - Cardinality(Overtaken(s, n))
    BY <1>5, <1>8, <2>4
  <2> QED
    BY <2>1, <2>3, <2>5
<1> QED
  BY <1>7, <1>8, <1>9, <1>10

(* The invariant of the measuring programs holds throughout.               *)
LEMMA MeasInvAlways == SimSpec => []MeasInv
BY MeasInvInit, MeasInvStep, PTL DEF SimSpec

(* For any number of packets, any delays, jitter and windows: whenever a   *)
(* jitter or reordering scenario of jitter_sim.py has been reported, the   *)
(* refusals that validate() counted are exactly the overtaken packets, the *)
(* program's own out-of-order count agrees, a jitter of at most half the   *)
(* send interval refuses nothing, and shuffling within windows leaves at   *)
(* least one accepted packet to every window.                              *)
THEOREM OrderReportsAlwaysTrue == SimSpec => []OrderReportsTrue
BY MeasInvAlways, MeasInvOrders, PTL

-----------------------------------------------------------------------------
(* Positions before a large step in the numbers, and the runs of loss.     *)
ArrivedIn(s) == {s[k].seq : k \in 1 .. Len(s)}

RunsIn(s, lo, hi, g) ==
  {r \in (lo .. hi) \X (lo .. hi) :
     /\ r[1] <= r[2] /\ (r[1] .. r[2]) \cap ArrivedIn(s) = {}
     /\ r[1] - 1 \in ArrivedIn(s) /\ r[2] + 1 \in ArrivedIn(s)
     /\ r[2] - r[1] + 1 >= g}

(* Loss runs and large steps in the numbers correspond one to one: a step  *)
(* from s[j] to s[j + 1] that is greater than g is a run of at least g     *)
(* lost numbers between two arrivals.                                      *)
LEMMA RunsAreGaps ==
  ASSUME NEW s \in Seq(Measured), Growing(s), NEW g \in Nat \ {0},
         NEW lo \in Nat, NEW hi \in Nat,
         \A k \in 1 .. Len(s) : s[k].seq \in lo .. hi
  PROVE  Cardinality(RunsIn(s, lo, hi, g)) = Cardinality(GapsIn(s, Len(s), g))
<1> DEFINE n == Len(s)
           G == GapsIn(s, n, g)
           A == ArrivedIn(s)
           R == RunsIn(s, lo, hi, g)
           f == [j \in G |-> <<s[j].seq + 1, s[j + 1].seq - 1>>]
<1>1. n \in Nat /\ \A k \in 1 .. n : s[k].seq \in Nat /\ s[k].seq \in lo .. hi
  <2>1. n \in Nat /\ \A k \in 1 .. n : s[k] \in Measured
    BY LenProperties
  <2> QED
    BY <2>1 DEF Measured
<1>2. ASSUME NEW i \in 1 .. n, NEW j \in 1 .. n, i <= j PROVE s[i].seq <= s[j].seq
  <2>1. CASE i = j
    BY <1>1, <2>1
  <2>2. CASE i # j
    <3>1. i < j
      BY <1>2, <2>2
    <3>2. s[i].seq < s[j].seq \/ s[i].seq = s[j].seq
      BY <3>1 DEF Growing
    <3> QED
      BY <1>1, <3>2
  <2> QED
    BY <2>1, <2>2
<1>3. IsFiniteSet(G)
  <2> HIDE DEF n
  <2> QED
    BY <1>1, GapsGrow
<1>4. \A j \in G : /\ j \in 1 .. n /\ j + 1 \in 1 .. n /\ s[j + 1].seq - s[j].seq > g
  BY <1>1 DEF GapsIn
<1>5. \A j \in 1 .. n - 1 : s[j + 1].seq - s[j].seq > g => j \in G
  BY DEF GapsIn
<1>6. A = {s[k].seq : k \in 1 .. n}
  BY DEF ArrivedIn
<1>12. R = {r \in (lo .. hi) \X (lo .. hi) :
             /\ r[1] <= r[2] /\ (r[1] .. r[2]) \cap A = {}
             /\ r[1] - 1 \in A /\ r[2] + 1 \in A
             /\ r[2] - r[1] + 1 >= g}
  BY DEF RunsIn
<1> HIDE DEF n, G, A, R
<1>7. ASSUME NEW j \in G PROVE <<s[j].seq + 1, s[j + 1].seq - 1>> \in R
  <2> DEFINE a == s[j].seq
             b == s[j + 1].seq
  <2>1. /\ j \in 1 .. n /\ j + 1 \in 1 .. n /\ a \in Nat /\ b \in Nat /\ b - a > g
        /\ a \in lo .. hi /\ b \in lo .. hi /\ a \in A /\ b \in A
    BY <1>1, <1>4, <1>6
  <2>2. ASSUME NEW k \in 1 .. n PROVE s[k].seq <= a \/ b <= s[k].seq
    <3>1. CASE k <= j
      BY <1>2, <2>1, <3>1
    <3>2. CASE ~ (k <= j)
      <4>1. j + 1 <= k
        BY <1>1, <2>1, <3>2
      <4> QED
        BY <1>2, <2>1, <4>1
    <3> QED
      BY <3>1, <3>2
  <2>3. \A x \in A : x \in Nat /\ (x <= a \/ b <= x)
    BY <1>1, <1>6, <2>2
  <2> HIDE DEF a, b
  <2>4. /\ a + 1 \in lo .. hi /\ b - 1 \in lo .. hi /\ a + 1 <= b - 1
        /\ (a + 1) - 1 = a /\ (b - 1) + 1 = b
        /\ (b - 1) - (a + 1) + 1 >= g
    BY <2>1
  <2>5. (a + 1 .. b - 1) \cap A = {}
    BY <2>1, <2>3
  <2>6. <<a + 1, b - 1>> \in R
    BY <1>12, <2>1, <2>4, <2>5
  <2> QED
    BY <2>6 DEF a, b
<1>8. f \in Injection(G, R)
  <2>1. f \in [G -> R]
    BY <1>7
  <2>2. ASSUME NEW i \in G, NEW j \in G, f[i] = f[j] PROVE ~ (i < j)
    <3>1. s[i].seq + 1 = s[j].seq + 1
      BY <2>2
    <3>2. ASSUME i < j PROVE FALSE
      <4>1. i + 1 <= j /\ i \in 1 .. n /\ i + 1 \in 1 .. n /\ j \in 1 .. n
        BY <1>1, <1>4, <3>2
      <4>2. s[i + 1].seq <= s[j].seq /\ s[i + 1].seq - s[i].seq > g
        BY <1>2, <1>4, <4>1
      <4>3. s[i].seq \in Nat /\ s[i + 1].seq \in Nat /\ s[j].seq \in Nat
        BY <1>1, <4>1
      <4>4. s[i].seq = s[j].seq
        BY <3>1, <4>3
      <4>5. s[i + 1].seq - s[i].seq <= 0
        BY <4>2, <4>3, <4>4
      <4> QED
        BY <4>2, <4>3, <4>5
    <3> QED
      BY <3>2
  <2>3. ASSUME NEW i \in G, NEW j \in G, f[i] = f[j] PROVE i = j
    <3>1. i \in Int /\ j \in Int
      BY <1>1, <1>4
    <3>2. ~ (i < j) /\ ~ (j < i)
      BY <2>2, <2>3
    <3> QED
      BY <3>1, <3>2
  <2> HIDE DEF f
  <2> QED
    BY <2>1, <2>3 DEF Injection, IsInjective
<1>9. ASSUME NEW r \in R PROVE \E j \in G : f[j] = r
  <2>1. /\ r = <<r[1], r[2]>> /\ r[1] \in lo .. hi /\ r[2] \in lo .. hi
        /\ r[1] <= r[2] /\ (r[1] .. r[2]) \cap A = {}
        /\ r[1] - 1 \in A /\ r[2] + 1 \in A
        /\ r[2] - r[1] + 1 >= g
    BY <1>12
  <2> DEFINE x == r[1]
             y == r[2]
             T == {k \in 1 .. n : s[k].seq >= y + 1}
             b == Min(T)
             a == b - 1
  <2>2. PICK i \in 1 .. n : s[i].seq = x - 1
    BY <1>6, <2>1
  <2>3. PICK k \in 1 .. n : s[k].seq = y + 1
    BY <1>6, <2>1
  <2>4. x \in Nat /\ y \in Nat /\ x <= y /\ \A v \in A : ~ (x <= v /\ v <= y)
    <3>1. \A v \in A : v \in Nat
      BY <1>1, <1>6
    <3> QED
      BY <2>1, <3>1
  <2> HIDE DEF x, y
  <2>5. T \in SUBSET Nat /\ k \in T
    BY <1>1, <2>3, <2>4
  <2>6. b \in T /\ \A t \in T : b <= t
    <3> HIDE DEF T
    <3> QED
      BY <2>5, MinOfNaturals
  <2> HIDE DEF b
  <2>7. b \in 1 .. n /\ s[b].seq >= y + 1 /\ b <= k
    BY <2>5, <2>6
  <2>8. i < b
    <3>1. ASSUME b <= i PROVE FALSE
      <4>1. s[b].seq <= s[i].seq /\ s[b].seq \in Nat
        BY <1>1, <1>2, <2>7, <3>1
      <4> QED
        BY <2>2, <2>4, <2>7, <4>1
    <3> QED
      BY <1>1, <2>7, <3>1
  <2>9. a \in 1 .. n /\ a \in 1 .. n - 1 /\ i <= a /\ a + 1 = b
    BY <1>1, <2>7, <2>8
  <2>10. s[b].seq = y + 1
    <3>1. s[b].seq <= s[k].seq /\ s[b].seq \in Nat
      BY <1>1, <1>2, <2>7
    <3> QED
      BY <2>3, <2>4, <2>7, <3>1
  <2>11. s[a].seq = x - 1
    <3>1. a \notin T
      BY <2>6, <2>7, <2>9
    <3>2. s[a].seq \in Nat /\ ~ (s[a].seq >= y + 1) /\ s[a].seq \in A
      BY <1>1, <1>6, <2>9, <3>1
    <3>3. ~ (x <= s[a].seq /\ s[a].seq <= y)
      BY <2>4, <3>2
    <3>4. s[i].seq <= s[a].seq
      BY <1>2, <2>9
    <3> HIDE DEF a
    <3> QED
      BY <2>2, <2>4, <3>2, <3>3, <3>4
  <2> HIDE DEF a
  <2>12. y - x + 1 >= g
    BY <2>1 DEF x, y
  <2>13. s[a + 1].seq - s[a].seq > g
    BY <2>4, <2>9, <2>10, <2>11, <2>12
  <2>14. a \in G
    BY <1>5, <2>9, <2>13
  <2>15. s[a].seq + 1 = x /\ s[a + 1].seq - 1 = y
    BY <2>4, <2>9, <2>10, <2>11
  <2>16. f[a] = <<x, y>>
    BY <2>14, <2>15
  <2> QED
    BY <2>1, <2>14, <2>16 DEF x, y
<1>10. f \in Surjection(G, R)
  BY <1>8, <1>9 DEF Surjection, Injection
<1> HIDE DEF f
<1>11. Cardinality(R) = Cardinality(G)
  BY <1>3, <1>8, <1>10, FS_Surjection
<1> QED
  BY <1>11 DEF G, R, n

(* The same for the report on loss, with the gaps the checker counted      *)
(* taken back to the runs of loss that caused them.                        *)
LEMMA MeasInvLoss == MeasInv => LossReportsTrue
<1> DEFINE names == {"random_loss", "burst_loss", "selective_loss", "recovery",
                     "high_load", "duplicate_packets", "no_jitter_baseline"}
           s == script
           n == Len(script)
           base == built - Current.packets
           g == Current.maxGap
<1> SUFFICES ASSUME MeasInv, ReportedOf(names)
             PROVE  /\ \A c \in Classes \ {"duplicate"} : result.rejected[c] = 0
                    /\ valChecker.gaps =
                         Cardinality({r \in LostRuns : r[2] - r[1] + 1 >= g})
                    /\ Current.name = "recovery" => result.recovered
                    /\ result.accepted["duplicate"] = 0
                    /\ valChecker.replays = result.rejected["duplicate"]
  BY DEF LossReportsTrue
<1>1. Measuring /\ phase = "reported" /\ Current.name \in LossNames \cup {"no_jitter_baseline"}
  BY DEF ReportedOf, Reported, LossNames
<1>2. /\ scenario \in 1 .. Len(Scenarios) /\ base \in Nat /\ built \in Nat /\ at = n
      /\ ScriptFits(s, Current, base) /\ Tally(s, n, valChecker, result, Current)
  BY <1>1 DEF MeasInv
<1>3. Current \in Measurements
  BY <1>1, <1>2, CurrentMeasurement
<1>4. Current.packets \in Nat /\ g \in Nat \ {0}
  BY <1>3 DEF Measurements
<1>5. s \in Seq(Measured) /\ n \in Nat /\ DOMAIN s = 1 .. n /\ Growing(s)
  BY <1>1, <1>2, LenProperties DEF ScriptFits
<1>6. LossSoFar(s, n, valChecker, result) /\ valChecker.maxGap = g
  BY <1>1, <1>2 DEF Tally
<1>7. base + 1 \in Nat /\ base + Current.packets = built
      /\ \A k \in 1 .. Len(s) : s[k].seq \in base + 1 .. built
  <2>1. base + 1 \in Nat /\ base + Current.packets = built
    BY <1>2, <1>4
  <2>2. \A k \in 1 .. Len(s) : s[k].seq \in base + 1 .. base + Current.packets
    BY <1>2 DEF ScriptFits
  <2> QED
    BY <2>1, <2>2
<1>8. Cardinality(RunsIn(s, base + 1, built, g)) = Cardinality(GapsIn(s, n, g))
  <2> HIDE DEF base, g
  <2> QED
    BY <1>2, <1>4, <1>5, <1>7, RunsAreGaps
<1>9. {r \in LostRuns : r[2] - r[1] + 1 >= g} = RunsIn(s, base + 1, built, g)
  <2>1. First = base + 1
    BY DEF First
  <2>2. Arrived = ArrivedIn(s)
    BY <1>5 DEF Arrived, ArrivedIn
  <2> HIDE DEF base, g
  <2> QED
    BY <2>1, <2>2 DEF LostRuns, RunsIn
<1>10. Current.name = "recovery" => result.recovered
  <2>1. ASSUME Current.name = "recovery" PROVE result.recovered
    <3>1. \E k \in 1 .. n : s[k].class = "recovery"
      BY <1>2, <2>1 DEF ScriptFits
    <3> QED
      BY <1>6, <3>1 DEF LossSoFar
  <2> QED
    BY <2>1
<1> QED
  BY <1>6, <1>8, <1>9, <1>10 DEF LossSoFar

(* For any number of packets and whatever the network drops: whenever a    *)
(* scenario of packet_loss_sim.py has been reported, nothing but second    *)
(* copies was refused, and the gaps that validate() counted are as many as *)
(* the runs of loss between two arrivals that are as long as the           *)
(* configured gap.                                                         *)
THEOREM LossReportsAlwaysTrue == SimSpec => []LossReportsTrue
BY MeasInvAlways, MeasInvLoss, PTL

-----------------------------------------------------------------------------
(* The attacks.                                                            *)

Stages == {"relay", "validator", "sequence", "zkp", "decryptor", "second layer"}
Forms == {"intact", "ciphertext", "header", "payload", "commitment", "unsigned",
          "wrong signature"}

Deliveries == [seq : Nat \ {0}, class : {"legitimate", "attack"}, at : Stages, form : Forms]

Refusals == Reasons \ {"accepted", "rejected"}

(* Two deliveries that move the same checker.                              *)
SameChecker(p, q) == p.at = "relay" <=> q.at = "relay"

(* Why attack delivery p must be refused with verdict v, after the first L *)
(* deliveries of script s.                                                 *)
Earned(s, L, p, v) ==
  \/ /\ p.at = "relay" /\ v = "integrity_failed"
     /\ \E j \in 1 .. L : s[j].at = "relay" /\ s[j].seq >= p.seq
  \/ /\ p.at = "validator" /\ Signed(p) /\ v = "sequence_failed"
     /\ \E j \in 1 .. L : s[j].at # "relay" /\ s[j].seq >= p.seq
  \/ p.at = "validator" /\ ~ Signed(p) /\ v = "signature_failed"
  \/ p.at = "zkp" /\ ~ Committed(p) /\ v = "zkp_failed"
  \/ p.at = "decryptor" /\ ~ Decrypts(p) /\ v = "aead_failed"

(* A script of L legitimate deliveries of packets base + 1 .. base + P,    *)
(* followed by attack deliveries with the verdicts e, and perhaps a second *)
(* layer that is not reached.                                              *)
AttackShape(s, e, base, P, L) ==
  /\ s \in Seq(Deliveries) /\ e \in Seq(Refusals)
  /\ \/ Len(s) = L + Len(e)
     \/ /\ Len(s) = L + Len(e) + 1 /\ Len(e) > 0
        /\ s[L + Len(e) + 1].at = "second layer"
        /\ s[L + Len(e) + 1].class = "attack"
  /\ \A k \in 1 .. L :
       /\ s[k].class = "legitimate" /\ s[k].form = "intact"
       /\ s[k].at \in {"relay", "validator", "sequence"}
       /\ s[k].seq \in base + 1 .. base + P
  /\ \A j, k \in 1 .. L : j < k /\ SameChecker(s[j], s[k]) => s[j].seq < s[k].seq
  /\ \A k \in 1 .. Len(e) : s[L + k].class = "attack" /\ Earned(s, L, s[L + k], e[k])

(* The fields of a delivery of an attack script.                           *)
LEMMA DeliveryFields ==
  ASSUME NEW i \in Nat \ {0}, NEW c \in {"legitimate", "attack"}, NEW a \in Stages,
         NEW f \in Forms
  PROVE  /\ Delivery(i, c, a, f) \in Deliveries
         /\ Delivery(i, c, a, f).seq = i /\ Delivery(i, c, a, f).class = c
         /\ Delivery(i, c, a, f).at = a /\ Delivery(i, c, a, f).form = f
BY DEF Delivery, Deliveries

(* The first m packets on their ordinary way.                              *)
LegitPart(a, m) ==
  /\ a \in Seq(Deliveries) /\ Len(a) = 2 * m
  /\ \A k \in 1 .. 2 * m :
       /\ a[k].class = "legitimate" /\ a[k].form = "intact"
       /\ a[k].seq = (k + 1) \div 2
       /\ a[k].at = IF k % 2 = 1 THEN "relay" ELSE "validator"

EarnedAfter(m, p, v) ==
  \/ p.at = "relay" /\ v = "integrity_failed" /\ p.seq \in 1 .. m
  \/ p.at = "validator" /\ Signed(p) /\ v = "sequence_failed" /\ p.seq \in 1 .. m
  \/ p.at = "validator" /\ ~ Signed(p) /\ v = "signature_failed"
  \/ p.at = "zkp" /\ ~ Committed(p) /\ v = "zkp_failed"
  \/ p.at = "decryptor" /\ ~ Decrypts(p) /\ v = "aead_failed"

(* The two deliveries of packet x have the positions 2x - 1 and 2x.        *)
LEMMA Halves ==
  ASSUME NEW x \in Nat \ {0}
  PROVE  /\ (2 * x - 1) % 2 = 1 /\ ((2 * x - 1) + 1) \div 2 = x
         /\ (2 * x) % 2 = 0 /\ ((2 * x) + 1) \div 2 = x
<1>1. 2 * x \in Nat /\ 2 * x - 1 \in Nat
  OBVIOUS
<1> QED
  BY <1>1

(* Positions of the same kind carry growing packet numbers.                *)
LEMMA HalfGrows ==
  ASSUME NEW j \in Nat, NEW k \in Nat, j < k, (j % 2 = 1) <=> (k % 2 = 1)
  PROVE  ((j + 1) \div 2) < ((k + 1) \div 2)
<1> DEFINE a == j \div 2
           b == k \div 2
           x == j % 2
           y == k % 2
<1>1. /\ a \in Nat /\ b \in Nat /\ x \in {0, 1} /\ y \in {0, 1}
      /\ j = 2 * a + x /\ k = 2 * b + y
  OBVIOUS
<1>2. x = y
  BY <1>1
<1> HIDE DEF a, b, x, y
<1>3. a < b
  BY <1>1, <1>2
<1>4. CASE x = 1
  <2>1. j + 1 = 2 * (a + 1) /\ k + 1 = 2 * (b + 1)
    BY <1>1, <1>2, <1>4
  <2>2. (j + 1) \div 2 = a + 1 /\ (k + 1) \div 2 = b + 1
    BY <1>1, <2>1
  <2> QED
    BY <1>1, <1>3, <2>2
<1>5. CASE x = 0
  <2>1. j + 1 = 2 * a + 1 /\ k + 1 = 2 * b + 1
    BY <1>1, <1>2, <1>5
  <2>2. (j + 1) \div 2 = a /\ (k + 1) \div 2 = b
    BY <1>1, <2>1
  <2> QED
    BY <1>1, <1>3, <2>2
<1> QED
  BY <1>1, <1>4, <1>5

(* Legitimate traffic for m packets, then an attack each delivery of which *)
(* must be refused after that traffic, is an attack script.                *)
LEMMA ShapeOfParts ==
  ASSUME NEW m \in Nat, NEW P \in Nat, m <= P, NEW a, LegitPart(a, m),
         NEW t \in Seq(Deliveries), NEW e \in Seq(Refusals), Len(t) = Len(e),
         \A k \in 1 .. Len(e) : t[k].class = "attack" /\ EarnedAfter(m, t[k], e[k])
  PROVE  AttackShape(a \o t, e, 0, P, 2 * m)
<1> DEFINE s == a \o t
           L == 2 * m
<1>1. a \in Seq(Deliveries) /\ Len(a) = L /\ L \in Nat /\ Len(e) \in Nat /\ Len(t) \in Nat
  BY LenProperties DEF LegitPart
<1>2. /\ s \in Seq(Deliveries) /\ Len(s) = Len(a) + Len(t)
      /\ \A k \in 1 .. Len(a) + Len(t) : s[k] = IF k <= Len(a) THEN a[k] ELSE t[k - Len(a)]
  BY <1>1, ConcatProperties
<1> HIDE DEF s
<1>3. \A k \in 1 .. L : s[k] = a[k]
  BY <1>1, <1>2
<1>4. ASSUME NEW k \in 1 .. Len(e) PROVE s[L + k] = t[k]
  <2>1. L + k \in 1 .. Len(a) + Len(t) /\ ~ (L + k <= Len(a)) /\ (L + k) - Len(a) = k
    BY <1>1
  <2> QED
    BY <1>2, <2>1
<1>5. ASSUME NEW k \in 1 .. L
      PROVE  /\ s[k].class = "legitimate" /\ s[k].form = "intact"
             /\ s[k].at = (IF k % 2 = 1 THEN "relay" ELSE "validator")
             /\ s[k].seq = (k + 1) \div 2
             /\ s[k].seq \in 1 .. m
             /\ s[k].at \in {"relay", "validator", "sequence"}
             /\ s[k].seq \in 0 + 1 .. 0 + P
  <2>1. /\ s[k].class = "legitimate" /\ s[k].form = "intact"
        /\ s[k].at = (IF k % 2 = 1 THEN "relay" ELSE "validator")
        /\ s[k].seq = (k + 1) \div 2
    BY <1>3 DEF LegitPart
  <2>2. ((k + 1) \div 2) \in 1 .. m /\ ((k + 1) \div 2) \in 0 + 1 .. 0 + P
    OBVIOUS
  <2> QED
    BY <2>1, <2>2
<1>6. ASSUME NEW j \in 1 .. L, NEW k \in 1 .. L, j < k, SameChecker(s[j], s[k])
      PROVE  s[j].seq < s[k].seq
  <2>1. (j % 2 = 1) <=> (k % 2 = 1)
    BY <1>5, <1>6 DEF SameChecker
  <2>2. j \in Nat /\ k \in Nat /\ j < k
    BY <1>6
  <2>3. ((j + 1) \div 2) < ((k + 1) \div 2)
    <3> HIDE DEF L
    <3> QED
      BY <2>1, <2>2, HalfGrows
  <2> QED
    BY <1>5, <2>3
<1>7. ASSUME NEW k \in 1 .. Len(e)
      PROVE  s[L + k].class = "attack" /\ Earned(s, L, s[L + k], e[k])
  <2> DEFINE p == t[k]
  <2>1. s[L + k] = p /\ p.class = "attack" /\ EarnedAfter(m, p, e[k])
    BY <1>4
  <2> HIDE DEF p
  <2>2. ASSUME p.seq \in 1 .. m PROVE \E j \in 1 .. L : s[j].at = "relay" /\ s[j].seq >= p.seq
    <3>1. 2 * p.seq - 1 \in 1 .. L /\ (2 * p.seq - 1) % 2 = 1
          /\ ((2 * p.seq - 1) + 1) \div 2 = p.seq
      BY <2>2, Halves
    <3>2. s[2 * p.seq - 1].at = "relay" /\ s[2 * p.seq - 1].seq = p.seq
      BY <1>5, <3>1
    <3>3. s[2 * p.seq - 1].seq >= p.seq
      BY <2>2, <3>2
    <3> QED
      BY <3>1, <3>2, <3>3
  <2>3. ASSUME p.seq \in 1 .. m PROVE \E j \in 1 .. L : s[j].at # "relay" /\ s[j].seq >= p.seq
    <3>1. 2 * p.seq \in 1 .. L /\ (2 * p.seq) % 2 = 0
          /\ ((2 * p.seq) + 1) \div 2 = p.seq
      <4>1. p.seq \in Nat \ {0} /\ 2 * p.seq \in 1 .. L
        BY <2>3
      <4>2. (2 * p.seq) % 2 = 0 /\ ((2 * p.seq) + 1) \div 2 = p.seq
        BY <4>1, Halves
      <4> QED
        BY <4>1, <4>2
    <3>4. ~ ((2 * p.seq) % 2 = 1)
      BY <3>1
    <3>2. s[2 * p.seq].at = "validator" /\ s[2 * p.seq].seq = p.seq
      BY <1>5, <3>1, <3>4
    <3>3. s[2 * p.seq].seq >= p.seq /\ "validator" # "relay"
      BY <2>3, <3>2
    <3> QED
      BY <3>1, <3>2, <3>3
  <2> QED
    BY <2>1, <2>2, <2>3 DEF Earned, EarnedAfter
<1>8. Len(s) = L + Len(e)
  BY <1>1, <1>2
<1> HIDE DEF L
<1>9. AttackShape(s, e, 0, P, L)
  BY <1>2, <1>5, <1>6, <1>7, <1>8 DEF AttackShape
<1> QED
  BY <1>9 DEF s, L

(* Position k of flattened pairs is in pair (k + 1) \div 2.                *)
LEMMA FlattenedPairs ==
  ASSUME NEW n \in Nat, NEW pairs, DOMAIN pairs = 1 .. n, Len(pairs) = n
  PROVE  /\ DOMAIN FlattenPairs(pairs) = 1 .. 2 * n
         /\ \A k \in 1 .. 2 * n :
              /\ FlattenPairs(pairs)[k] = pairs[(k + 1) \div 2][IF k % 2 = 1 THEN 1 ELSE 2]
              /\ ((k + 1) \div 2) \in 1 .. n
<1>1. \A k \in 1 .. 2 * n : 2 - (k % 2) = (IF k % 2 = 1 THEN 1 ELSE 2)
  OBVIOUS
<1>2. \A k \in 1 .. 2 * n : ((k + 1) \div 2) \in 1 .. n
  OBVIOUS
<1>3. FlattenPairs(pairs) = [k \in 1 .. 2 * n |-> pairs[(k + 1) \div 2][2 - (k % 2)]]
  BY DEF FlattenPairs
<1> QED
  BY <1>1, <1>2, <1>3

(* A legitimate packet goes to the relay and then to the validator.        *)
LEMMA LegitimateFacts ==
  ASSUME NEW i \in Nat \ {0}
  PROVE  /\ Legitimate(i) \in Seq(Deliveries) /\ Len(Legitimate(i)) = 2
         /\ \A h \in 1 .. 2 :
              /\ Legitimate(i)[h] \in Deliveries
              /\ Legitimate(i)[h].seq = i /\ Legitimate(i)[h].class = "legitimate"
              /\ Legitimate(i)[h].form = "intact"
              /\ Legitimate(i)[h].at = IF h = 1 THEN "relay" ELSE "validator"
<1> DEFINE a == Delivery(i, "legitimate", "relay", "intact")
           b == Delivery(i, "legitimate", "validator", "intact")
<1>4. /\ "intact" \in Forms /\ "relay" \in Stages /\ "validator" \in Stages
      /\ "legitimate" \in {"legitimate", "attack"}
  BY DEF Stages, Forms
<1>1. /\ a \in Deliveries /\ a.seq = i /\ a.class = "legitimate" /\ a.at = "relay"
      /\ a.form = "intact"
  BY <1>4, DeliveryFields
<1>2. /\ b \in Deliveries /\ b.seq = i /\ b.class = "legitimate" /\ b.at = "validator"
      /\ b.form = "intact"
  BY <1>4, DeliveryFields
<1>3. Legitimate(i) = <<a, b>>
  BY DEF Legitimate
<1> HIDE DEF a, b
<1> QED
  BY <1>1, <1>2, <1>3

(* The ordinary way of the first packet.                                   *)
LEMMA LegitimateOne == LegitPart(Legitimate(1), 1)
<1>1. 1 \in Nat \ {0} /\ 2 * 1 = 2
  OBVIOUS
<1>2. ASSUME NEW k \in 1 .. 2
      PROVE  (k + 1) \div 2 = 1 /\ ((k % 2 = 1) <=> k = 1)
  <2>1. k = 1 \/ k = 2
    OBVIOUS
  <2> QED
    BY <2>1
<1> QED
  BY <1>1, <1>2, LegitimateFacts DEF LegitPart

(* The ordinary way of the first m packets.                                *)
LEMMA LegitimateMany ==
  ASSUME NEW m \in Nat
  PROVE  LegitPart(FlattenPairs([i \in 1 .. m |-> Legitimate(i)]), m)
<1> DEFINE pairs == [i \in 1 .. m |-> Legitimate(i)]
           a == FlattenPairs(pairs)
<1>1. DOMAIN pairs = 1 .. m /\ Len(pairs) = m /\ \A i \in 1 .. m : pairs[i] = Legitimate(i)
  <2>1. pairs \in [1 .. m -> {Legitimate(i) : i \in 1 .. m}]
    OBVIOUS
  <2> HIDE DEF pairs
  <2>2. Len(pairs) = m
    BY <2>1, FunctionIsSeq
  <2> QED
    BY <2>2 DEF pairs
<1> HIDE DEF pairs
<1>2. /\ a = [k \in 1 .. 2 * m |-> a[k]]
      /\ \A k \in 1 .. 2 * m :
              /\ a[k] = pairs[(k + 1) \div 2][IF k % 2 = 1 THEN 1 ELSE 2]
              /\ ((k + 1) \div 2) \in 1 .. m
  <2>1. /\ DOMAIN a = 1 .. 2 * m
        /\ \A k \in 1 .. 2 * m :
              /\ a[k] = pairs[(k + 1) \div 2][IF k % 2 = 1 THEN 1 ELSE 2]
              /\ ((k + 1) \div 2) \in 1 .. m
    BY <1>1, FlattenedPairs
  <2>2. a = [k \in DOMAIN a |-> a[k]]
    BY DEF FlattenPairs
  <2> QED
    BY <2>1, <2>2
<1> HIDE DEF a
<1>3. ASSUME NEW k \in 1 .. 2 * m
      PROVE  /\ a[k] \in Deliveries
             /\ a[k].class = "legitimate" /\ a[k].form = "intact"
             /\ a[k].seq = (k + 1) \div 2
             /\ a[k].at = IF k % 2 = 1 THEN "relay" ELSE "validator"
  <2> DEFINE i == (k + 1) \div 2
             h == IF k % 2 = 1 THEN 1 ELSE 2
  <2>1. i \in 1 .. m /\ i \in Nat \ {0} /\ h \in 1 .. 2 /\ (h = 1 <=> k % 2 = 1)
    BY <1>2
  <2>2. a[k] = pairs[i][h]
    BY <1>2
  <2> HIDE DEF i, h
  <2>3. a[k] = Legitimate(i)[h]
    BY <1>1, <2>1, <2>2
  <2>4. /\ a[k] \in Deliveries
        /\ a[k].seq = i /\ a[k].class = "legitimate" /\ a[k].form = "intact"
        /\ a[k].at = IF h = 1 THEN "relay" ELSE "validator"
    BY <2>1, <2>3, LegitimateFacts
  <2> QED
    BY <2>1, <2>4 DEF i
<1>4. a \in [1 .. 2 * m -> Deliveries]
  BY <1>2, <1>3
<1>5. a \in Seq(Deliveries) /\ Len(a) = 2 * m
  <2>1. 2 * m \in Nat
    OBVIOUS
  <2> QED
    BY <1>4, <2>1, FunctionIsSeq
<1>6. LegitPart(a, m)
  BY <1>3, <1>5 DEF LegitPart
<1> QED
  BY <1>6 DEF a, pairs

(* An attack that nothing goes before.                                     *)
LEMMA NoneLegitimate == LegitPart(<<>>, 0)
<1>1. <<>> \in Seq(Deliveries) /\ Len(<<>>) = 0 /\ 2 * 0 = 0 /\ 1 .. 0 = {}
  OBVIOUS
<1> QED
  BY <1>1 DEF LegitPart

(* What the attack deliveries are refused for.                             *)
LEMMA AttackFields ==
  ASSUME NEW i \in Nat \ {0}, NEW f \in Forms
  PROVE  /\ AtRelay(i) \in Deliveries /\ AtRelay(i).class = "attack"
         /\ AtRelay(i).at = "relay" /\ AtRelay(i).seq = i
         /\ AtValidator(i, f) \in Deliveries /\ AtValidator(i, f).class = "attack"
         /\ AtValidator(i, f).at = "validator" /\ AtValidator(i, f).seq = i
         /\ AtValidator(i, f).form = f
         /\ AtDecryptor(i, f) \in Deliveries /\ AtDecryptor(i, f).class = "attack"
         /\ AtDecryptor(i, f).at = "decryptor" /\ AtDecryptor(i, f).form = f
<1>1. "intact" \in Forms /\ {"relay", "validator", "decryptor"} \subseteq Stages
  BY DEF Stages, Forms
<1> QED
  BY <1>1, DeliveryFields DEF AtRelay, AtValidator, AtDecryptor

(* A repeated number is refused by the checker, an altered packet by the   *)
(* signature check and an altered ciphertext by the decryptor.             *)
LEMMA AttackEarned ==
  ASSUME NEW m \in Nat
  PROVE  /\ \A i \in 1 .. m : /\ EarnedAfter(m, AtRelay(i), "integrity_failed")
                              /\ EarnedAfter(m, AtValidator(i, "intact"), "sequence_failed")
         /\ \A i \in Nat \ {0} : \A f \in {"header", "payload", "unsigned", "wrong signature"} :
              EarnedAfter(m, AtValidator(i, f), "signature_failed")
         /\ \A i \in Nat \ {0} : \A f \in {"ciphertext", "header"} :
              EarnedAfter(m, AtDecryptor(i, f), "aead_failed")
<1>1. {"intact", "header", "payload", "unsigned", "wrong signature", "ciphertext"}
        \subseteq Forms
  BY DEF Forms
<1>2. \A i \in 1 .. m : i \in Nat \ {0}
  OBVIOUS
<1>3. ASSUME NEW i \in 1 .. m
      PROVE  /\ EarnedAfter(m, AtRelay(i), "integrity_failed")
             /\ EarnedAfter(m, AtValidator(i, "intact"), "sequence_failed")
  <2>1. /\ AtRelay(i).at = "relay" /\ AtRelay(i).seq = i
        /\ AtValidator(i, "intact").at = "validator" /\ AtValidator(i, "intact").seq = i
        /\ AtValidator(i, "intact").form = "intact"
    <3>1. i \in Nat \ {0} /\ "intact" \in Forms
      BY <1>1, <1>2
    <3> QED
      BY <3>1, AttackFields
  <2>2. Signed(AtValidator(i, "intact"))
    BY <2>1 DEF Signed
  <2> QED
    BY <2>1, <2>2 DEF EarnedAfter
<1>4. ASSUME NEW i \in Nat \ {0}, NEW f \in {"header", "payload", "unsigned", "wrong signature"}
      PROVE  EarnedAfter(m, AtValidator(i, f), "signature_failed")
  <2>1. AtValidator(i, f).at = "validator" /\ AtValidator(i, f).form = f
    BY DEF AtValidator, Delivery
  <2>2. ~ Signed(AtValidator(i, f))
    BY <2>1 DEF Signed
  <2> QED
    BY <2>1, <2>2 DEF EarnedAfter
<1>5. ASSUME NEW i \in Nat \ {0}, NEW f \in {"ciphertext", "header"}
      PROVE  EarnedAfter(m, AtDecryptor(i, f), "aead_failed")
  <2>1. AtDecryptor(i, f).at = "decryptor" /\ AtDecryptor(i, f).form = f
    <3>1. f \in Forms
      BY <1>1
    <3> QED
      BY <3>1, AttackFields
  <2>2. ~ Decrypts(AtDecryptor(i, f))
    BY <2>1 DEF Decrypts
  <2> QED
    BY <2>1, <2>2 DEF EarnedAfter
<1> QED
  BY <1>3, <1>4, <1>5

RefusalNames == {"integrity_failed", "sequence_failed", "signature_failed", "zkp_failed",
                 "aead_failed"}

(* The reasons for a refusal, one by one.                                  *)
LEMMA RefusalNamed == Refusals = RefusalNames
BY DEF Refusals, Reasons, RefusalNames

(* An attack of one delivery, after the first m packets.                   *)
LEMMA OneAttack ==
  ASSUME NEW m \in Nat, NEW P \in Nat, m <= P, NEW a, LegitPart(a, m),
         NEW p \in Deliveries, p.class = "attack", NEW v \in Refusals, EarnedAfter(m, p, v)
  PROVE  AttackShape(a \o <<p>>, <<v>>, 0, P, 2 * m)
<1>1. /\ <<p>> \in Seq(Deliveries) /\ Len(<<p>>) = 1 /\ <<v>> \in Seq(Refusals)
      /\ Len(<<v>>) = 1 /\ <<p>>[1] = p /\ <<v>>[1] = v
  OBVIOUS
<1>2. \A k \in 1 .. Len(<<v>>) : k = 1
  BY <1>1
<1>3. \A k \in 1 .. Len(<<v>>) : <<p>>[k].class = "attack" /\ EarnedAfter(m, <<p>>[k], <<v>>[k])
  BY <1>1, <1>2
<1> DEFINE t == <<p>>
           e == <<v>>
<1>4. /\ t \in Seq(Deliveries) /\ e \in Seq(Refusals) /\ Len(t) = Len(e)
      /\ \A k \in 1 .. Len(e) : t[k].class = "attack" /\ EarnedAfter(m, t[k], e[k])
  BY <1>1, <1>3
<1> HIDE DEF t, e
<1>5. AttackShape(a \o t, e, 0, P, 2 * m)
  BY <1>4, ShapeOfParts
<1> QED
  BY <1>5 DEF t, e

AttackEntry(a) ==
  /\ a.packets \in Nat
  /\ \E L \in Nat : AttackShape(a.script, a.expected, 0, a.packets, L)

(* An attack whose script has the shape is a proper entry.                 *)
LEMMA EntryOf ==
  ASSUME NEW name, NEW P \in Nat, NEW s, NEW e, NEW L \in Nat, AttackShape(s, e, 0, P, L)
  PROVE  AttackEntry(Attack(name, P, s, e))
<1> DEFINE a == Attack(name, P, s, e)
<1>1. a.packets = P /\ a.script = s /\ a.expected = e
  BY DEF Attack
<1> HIDE DEF a
<1>2. AttackEntry(a)
  BY <1>1 DEF AttackEntry
<1> QED
  BY <1>2 DEF a

(* sim_1_simple_replay: the first packet once more.                        *)
LEMMA SimpleReplayEntry == AttackEntry(Sim1SimpleReplay)
<1> DEFINE p == AtRelay(1)
           q == AtValidator(1, "intact")
           t == <<p, q>>
           e == <<"integrity_failed", "sequence_failed">>
<1>1. /\ p \in Deliveries /\ p.class = "attack" /\ q \in Deliveries /\ q.class = "attack"
  <2>1. 1 \in Nat \ {0} /\ "intact" \in Forms
    BY DEF Forms
  <2> QED
    BY <2>1, AttackFields
<1>2. EarnedAfter(1, p, "integrity_failed") /\ EarnedAfter(1, q, "sequence_failed")
  <2>1. 1 \in Nat /\ 1 \in 1 .. 1
    OBVIOUS
  <2> QED
    BY <2>1, AttackEarned
<1>3. "integrity_failed" \in Refusals /\ "sequence_failed" \in Refusals
  BY RefusalNamed DEF RefusalNames
<1> HIDE DEF p, q
<1>4. /\ t \in Seq(Deliveries) /\ Len(t) = 2 /\ Len(e) = 2 /\ e \in Seq(Refusals)
      /\ t[1] = p /\ t[2] = q /\ e[1] = "integrity_failed" /\ e[2] = "sequence_failed"
  BY <1>1, <1>3
<1> HIDE DEF t, e
<1>5. ASSUME NEW k \in 1 .. Len(e)
      PROVE  t[k].class = "attack" /\ EarnedAfter(1, t[k], e[k])
  <2>1. k = 1 \/ k = 2
    BY <1>4
  <2> QED
    BY <1>1, <1>2, <1>4, <2>1
<1>6. AttackShape(Legitimate(1) \o t, e, 0, 1, 2 * 1)
  <2>1. 1 \in Nat /\ 1 <= 1
    OBVIOUS
  <2> QED
    BY <1>4, <1>5, <2>1, LegitimateOne, ShapeOfParts
<1>7. AttackEntry(Attack("simple_replay", 1, Legitimate(1) \o t, e))
  <2>1. 1 \in Nat /\ 2 * 1 \in Nat
    OBVIOUS
  <2> QED
    BY <1>6, <2>1, EntryOf
<1> QED
  BY <1>7 DEF Sim1SimpleReplay, t, e, p, q

(* sim_3_batch_replay: all of the captured packets once more.              *)
LEMMA BatchReplayEntry == AttackEntry(Sim3BatchReplay)
<1> DEFINE m == BatchSize
           ps == [i \in 1 .. BatchSize |-> <<AtRelay(i), AtValidator(i, "intact")>>]
           es == [i \in 1 .. BatchSize |-> <<"integrity_failed", "sequence_failed">>]
           t == FlattenPairs(ps)
           e == FlattenPairs(es)
           a == FlattenPairs([i \in 1 .. BatchSize |-> Legitimate(i)])
<1>1. m \in Nat /\ 2 * m \in Nat
  BY AttackAssumption
<1>2. LegitPart(a, m)
  BY <1>1, LegitimateMany
<1>3. /\ DOMAIN ps = 1 .. m /\ Len(ps) = m
      /\ \A i \in 1 .. m : ps[i][1] = AtRelay(i) /\ ps[i][2] = AtValidator(i, "intact")
  <2>1. ps \in [1 .. m -> {<<AtRelay(i), AtValidator(i, "intact")>> : i \in 1 .. m}]
    OBVIOUS
  <2>2. \A i \in 1 .. m : ps[i][1] = AtRelay(i) /\ ps[i][2] = AtValidator(i, "intact")
    OBVIOUS
  <2> HIDE DEF ps
  <2>3. Len(ps) = m
    BY <1>1, <2>1, FunctionIsSeq
  <2> QED
    BY <2>1, <2>2, <2>3
<1>4. /\ DOMAIN es = 1 .. m /\ Len(es) = m
      /\ \A i \in 1 .. m : es[i][1] = "integrity_failed" /\ es[i][2] = "sequence_failed"
  <2>1. es \in [1 .. m -> {<<"integrity_failed", "sequence_failed">>}]
    OBVIOUS
  <2>2. \A i \in 1 .. m : es[i][1] = "integrity_failed" /\ es[i][2] = "sequence_failed"
    OBVIOUS
  <2> HIDE DEF es
  <2>3. Len(es) = m
    BY <1>1, <2>1, FunctionIsSeq
  <2> QED
    BY <2>1, <2>2, <2>3
<1> HIDE DEF ps, es, a, m
<1>5. /\ t = [k \in 1 .. 2 * m |-> t[k]] /\ e = [k \in 1 .. 2 * m |-> e[k]]
      /\ \A k \in 1 .. 2 * m :
           /\ t[k] = ps[(k + 1) \div 2][IF k % 2 = 1 THEN 1 ELSE 2]
           /\ e[k] = es[(k + 1) \div 2][IF k % 2 = 1 THEN 1 ELSE 2]
           /\ ((k + 1) \div 2) \in 1 .. m
  <2>1. /\ DOMAIN t = 1 .. 2 * m
        /\ \A k \in 1 .. 2 * m :
             /\ t[k] = ps[(k + 1) \div 2][IF k % 2 = 1 THEN 1 ELSE 2]
             /\ ((k + 1) \div 2) \in 1 .. m
    BY <1>1, <1>3, FlattenedPairs
  <2>2. /\ DOMAIN e = 1 .. 2 * m
        /\ \A k \in 1 .. 2 * m :
             /\ e[k] = es[(k + 1) \div 2][IF k % 2 = 1 THEN 1 ELSE 2]
             /\ ((k + 1) \div 2) \in 1 .. m
    BY <1>1, <1>4, FlattenedPairs
  <2>3. t = [k \in DOMAIN t |-> t[k]] /\ e = [k \in DOMAIN e |-> e[k]]
    BY DEF FlattenPairs
  <2> QED
    BY <2>1, <2>2, <2>3
<1> HIDE DEF t, e
<1>6. ASSUME NEW k \in 1 .. 2 * m
      PROVE  /\ t[k] \in Deliveries /\ t[k].class = "attack" /\ e[k] \in Refusals
             /\ EarnedAfter(m, t[k], e[k])
  <2> DEFINE i == (k + 1) \div 2
  <2>1. i \in 1 .. m /\ i \in Nat \ {0} /\ "intact" \in Forms
    BY <1>5 DEF Forms
  <2>2. /\ t[k] = ps[i][IF k % 2 = 1 THEN 1 ELSE 2]
        /\ e[k] = es[i][IF k % 2 = 1 THEN 1 ELSE 2]
    BY <1>5
  <2> HIDE DEF i
  <2>3. \/ t[k] = AtRelay(i) /\ e[k] = "integrity_failed"
        \/ t[k] = AtValidator(i, "intact") /\ e[k] = "sequence_failed"
    BY <1>3, <1>4, <2>1, <2>2
  <2>4. "integrity_failed" \in Refusals /\ "sequence_failed" \in Refusals
    BY RefusalNamed DEF RefusalNames
  <2>5. /\ EarnedAfter(m, AtRelay(i), "integrity_failed")
        /\ EarnedAfter(m, AtValidator(i, "intact"), "sequence_failed")
    BY <1>1, <2>1, AttackEarned
  <2>6. /\ AtRelay(i) \in Deliveries /\ AtRelay(i).class = "attack"
        /\ AtValidator(i, "intact") \in Deliveries
        /\ AtValidator(i, "intact").class = "attack"
    BY <2>1, AttackFields
  <2> QED
    BY <2>3, <2>4, <2>5, <2>6
<1>7. t \in [1 .. 2 * m -> Deliveries] /\ e \in [1 .. 2 * m -> Refusals]
  BY <1>5, <1>6
<1>8. t \in Seq(Deliveries) /\ e \in Seq(Refusals) /\ Len(t) = 2 * m /\ Len(e) = 2 * m
  BY <1>1, <1>7, FunctionIsSeq
<1>9. AttackShape(a \o t, e, 0, m, 2 * m)
  <2>1. m <= m /\ Len(t) = Len(e)
    BY <1>1, <1>8
  <2>2. \A k \in 1 .. Len(e) : t[k].class = "attack" /\ EarnedAfter(m, t[k], e[k])
    BY <1>6, <1>8
  <2> QED
    BY <1>1, <1>2, <1>8, <2>1, <2>2, ShapeOfParts
<1>10. AttackEntry(Attack("batch_replay", m, a \o t, e))
  BY <1>1, <1>9, EntryOf
<1> QED
  BY <1>10 DEF Sim3BatchReplay, a, t, e, ps, es, m

(* The attacks of one altered or repeated delivery.                        *)
LEMMA ReplayEntries ==
  ASSUME NEW i \in 1 .. Len(ReplayAttacks)
  PROVE  AttackEntry(ReplayAttacks[i])
<1>1. /\ 0 \in Nat /\ 1 \in Nat /\ 1 \in Nat \ {0} /\ 1 <= 1 /\ 0 <= 1 /\ 2 * 1 \in Nat /\ 1 \in 1 .. 1
      /\ "sequence_failed" \in Refusals /\ "signature_failed" \in Refusals
      /\ "intact" \in Forms /\ "header" \in Forms
  BY RefusalNamed DEF RefusalNames, Forms
<1>2. AttackEntry(Sim2SequenceManipulation)
  <2> DEFINE p == AtValidator(1, "intact")
  <2>3. EarnedAfter(1, p, "sequence_failed")
    BY <1>1, AttackEarned
  <2>1. p \in Deliveries /\ p.class = "attack" /\ EarnedAfter(1, p, "sequence_failed")
    BY <1>1, <2>3, AttackFields
  <2> HIDE DEF p
  <2>2. AttackShape(Legitimate(1) \o <<p>>, <<"sequence_failed">>, 0, 1, 2 * 1)
    BY <1>1, <2>1, LegitimateOne, OneAttack
  <2> QED
    BY <1>1, <2>2, EntryOf DEF Sim2SequenceManipulation, p
<1>3. AttackEntry(Sim4DelayedReplay)
  <2> DEFINE m == 1 + NewerPackets
             p == AtValidator(1, "intact")
             a == FlattenPairs([k \in 1 .. 1 + NewerPackets |-> Legitimate(k)])
  <2>1. m \in Nat /\ 1 \in 1 .. m /\ m <= m /\ 2 * m \in Nat
    BY AttackAssumption
  <2>2. LegitPart(a, m)
    BY <2>1, LegitimateMany
  <2> HIDE DEF m, a
  <2>5. EarnedAfter(m, p, "sequence_failed")
    BY <2>1, AttackEarned
  <2>3. p \in Deliveries /\ p.class = "attack" /\ EarnedAfter(m, p, "sequence_failed")
    BY <1>1, <2>5, AttackFields
  <2> HIDE DEF p
  <2>4. AttackShape(a \o <<p>>, <<"sequence_failed">>, 0, m, 2 * m)
    BY <1>1, <2>1, <2>2, <2>3, OneAttack
  <2> QED
    BY <2>1, <2>4, EntryOf DEF Sim4DelayedReplay, m, a, p
<1>4. AttackEntry(Sim5SequenceIncrement)
  <2> DEFINE p == AtValidator(1 + SequenceJump, "header")
  <2>1. 1 + SequenceJump \in Nat \ {0}
    BY AttackAssumption
  <2>4. EarnedAfter(1, p, "signature_failed")
    <3>1. "header" \in {"header", "payload", "unsigned", "wrong signature"}
      OBVIOUS
    <3> QED
      BY <1>1, <2>1, <3>1, AttackEarned
  <2>2. p \in Deliveries /\ p.class = "attack" /\ EarnedAfter(1, p, "signature_failed")
    BY <1>1, <2>1, <2>4, AttackFields
  <2> HIDE DEF p
  <2>3. AttackShape(Legitimate(1) \o <<p>>, <<"signature_failed">>, 0, 1, 2 * 1)
    BY <1>1, <2>2, LegitimateOne, OneAttack
  <2> QED
    BY <1>1, <2>3, EntryOf DEF Sim5SequenceIncrement, p
<1>5. i \in 1 .. 5
  BY DEF ReplayAttacks
<1>6. /\ ReplayAttacks[1] = Sim1SimpleReplay /\ ReplayAttacks[2] = Sim2SequenceManipulation
      /\ ReplayAttacks[3] = Sim3BatchReplay /\ ReplayAttacks[4] = Sim4DelayedReplay
      /\ ReplayAttacks[5] = Sim5SequenceIncrement
  BY DEF ReplayAttacks
<1>7. i = 1 \/ i = 2 \/ i = 3 \/ i = 4 \/ i = 5
  BY <1>5
<1> QED
  BY <1>2, <1>3, <1>4, <1>6, <1>7, SimpleReplayEntry, BatchReplayEntry

(* A script of one delivery.                                               *)
LEMMA NoLegitimate ==
  ASSUME NEW p \in Deliveries
  PROVE  <<>> \o <<p>> = <<p>> /\ 2 * 0 = 0
<1>1. <<p>> \in Seq(Deliveries)
  OBVIOUS
<1>2. <<>> \o <<p>> = <<p>>
  BY <1>1, ConcatEmptySeq
<1> QED
  BY <1>2

(* An altered packet that nothing goes before.                             *)
LEMMA AlteredEntry ==
  ASSUME NEW name, NEW p \in Deliveries, p.class = "attack", NEW v \in Refusals,
         EarnedAfter(0, p, v)
  PROVE  AttackEntry(Attack(name, 1, <<p>>, <<v>>))
<1>1. 0 \in Nat /\ 1 \in Nat /\ 0 <= 1
  OBVIOUS
<1>2. AttackShape(<<>> \o <<p>>, <<v>>, 0, 1, 2 * 0)
  BY <1>1, NoneLegitimate, OneAttack
<1>3. AttackShape(<<p>>, <<v>>, 0, 1, 0)
  BY <1>2, NoLegitimate
<1> QED
  BY <1>1, <1>3, EntryOf

(* sim_4_zkp_commitment_tamper: a packet that only its commitment betrays. *)
LEMMA CommitmentEntry == AttackEntry(Sim4ZkpCommitmentTamper)
<1> DEFINE p == Delivery(1, "legitimate", "sequence", "intact")
           q == Delivery(1, "attack", "zkp", "commitment")
           s == <<p, q>>
           e == <<"zkp_failed">>
<1>1. /\ 1 \in Nat \ {0} /\ {"intact", "commitment"} \subseteq Forms
      /\ {"sequence", "zkp"} \subseteq Stages /\ "zkp_failed" \in Refusals
  BY RefusalNamed DEF RefusalNames, Forms, Stages
<1>2. /\ p \in Deliveries /\ p.seq = 1 /\ p.class = "legitimate" /\ p.at = "sequence"
      /\ p.form = "intact"
  BY <1>1 DEF Delivery, Deliveries
<1>3. /\ q \in Deliveries /\ q.class = "attack" /\ q.at = "zkp" /\ q.form = "commitment"
  BY <1>1 DEF Delivery, Deliveries
<1> HIDE DEF p, q
<1>4. ~ Committed(q)
  BY <1>3 DEF Committed
<1>5. /\ s \in Seq(Deliveries) /\ Len(s) = 2 /\ s[1] = p /\ s[2] = q
      /\ e \in Seq(Refusals) /\ Len(e) = 1 /\ e[1] = "zkp_failed"
  BY <1>1, <1>2, <1>3
<1> HIDE DEF s, e
<1>6. Earned(s, 1, q, "zkp_failed")
  BY <1>3, <1>4 DEF Earned
<1>7. AttackShape(s, e, 0, 1, 1)
  <2>1. Len(s) = 1 + Len(e)
    BY <1>5
  <2>2. \A k \in 1 .. 1 : k = 1
    OBVIOUS
  <2>3. \A k \in 1 .. 1 : /\ s[k].class = "legitimate" /\ s[k].form = "intact"
                          /\ s[k].at \in {"relay", "validator", "sequence"}
                          /\ s[k].seq \in 0 + 1 .. 0 + 1
    BY <1>2, <1>5, <2>2
  <2>4. \A j, k \in 1 .. 1 : ~ (j < k)
    BY <2>2
  <2>5. \A k \in 1 .. Len(e) : s[1 + k].class = "attack" /\ Earned(s, 1, s[1 + k], e[k])
    <3>1. 1 + 1 = 2
      OBVIOUS
    <3> QED
      BY <1>3, <1>5, <1>6, <2>2, <3>1
  <2> QED
    BY <1>5, <2>1, <2>3, <2>4, <2>5 DEF AttackShape
<1>8. AttackEntry(Attack("zkp_commitment_tamper", 1, s, e))
  <2>1. 1 \in Nat
    OBVIOUS
  <2> QED
    BY <1>7, <2>1, EntryOf
<1> QED
  BY <1>8 DEF Sim4ZkpCommitmentTamper, p, q, s, e

(* sim_7_multi_layer_tamper: refused by the first layer, the second one is *)
(* not reached.                                                            *)
LEMMA MultiLayerEntry == AttackEntry(Sim7MultiLayerTamper)
<1> DEFINE p == AtDecryptor(1, "ciphertext")
           q == Delivery(1, "attack", "second layer", "unsigned")
           s == <<p, q>>
           e == <<"aead_failed">>
<1>1. /\ 1 \in Nat \ {0} /\ {"ciphertext", "unsigned"} \subseteq Forms
      /\ {"decryptor", "second layer"} \subseteq Stages /\ "aead_failed" \in Refusals
  BY RefusalNamed DEF RefusalNames, Forms, Stages
<1>2. /\ p \in Deliveries /\ p.class = "attack" /\ p.at = "decryptor" /\ p.form = "ciphertext"
  BY <1>1 DEF AtDecryptor, Delivery, Deliveries
<1>3. /\ q \in Deliveries /\ q.class = "attack" /\ q.at = "second layer"
  BY <1>1 DEF Delivery, Deliveries
<1> HIDE DEF p, q
<1>4. ~ Decrypts(p)
  BY <1>2 DEF Decrypts
<1>5. /\ s \in Seq(Deliveries) /\ Len(s) = 2 /\ s[1] = p /\ s[2] = q
      /\ e \in Seq(Refusals) /\ Len(e) = 1 /\ e[1] = "aead_failed"
  <2>3. p \in Deliveries /\ q \in Deliveries
    BY <1>2, <1>3
  <2>1. s \in Seq(Deliveries) /\ Len(s) = 2 /\ s[1] = p /\ s[2] = q
    BY <2>3
  <2>4. "aead_failed" \in Refusals
    BY <1>1
  <2>2. e \in Seq(Refusals) /\ Len(e) = 1 /\ e[1] = "aead_failed"
    BY <2>4
  <2> QED
    BY <2>1, <2>2
<1> HIDE DEF s, e
<1>6. Earned(s, 0, p, "aead_failed")
  BY <1>2, <1>4 DEF Earned
<1>7. AttackShape(s, e, 0, 1, 0)
  <2>1. Len(s) = 0 + Len(e) + 1 /\ Len(e) > 0 /\ 0 + Len(e) + 1 = 2
    BY <1>5
  <2>2. 1 .. 0 = {} /\ \A k \in 1 .. 1 : k = 1
    OBVIOUS
  <2>3. \A k \in 1 .. Len(e) : s[0 + k].class = "attack" /\ Earned(s, 0, s[0 + k], e[k])
    <3>1. 0 + 1 = 1
      OBVIOUS
    <3> QED
      BY <1>2, <1>5, <1>6, <2>2, <3>1
  <2>4. s[0 + Len(e) + 1].at = "second layer" /\ s[0 + Len(e) + 1].class = "attack"
    BY <1>3, <1>5, <2>1
  <2> QED
    BY <1>5, <2>1, <2>2, <2>3, <2>4 DEF AttackShape
<1>8. AttackEntry(Attack("multi_layer_tamper", 1, s, e))
  <2>1. 1 \in Nat /\ 0 \in Nat
    OBVIOUS
  <2> QED
    BY <1>7, <2>1, EntryOf
<1> QED
  BY <1>8 DEF Sim7MultiLayerTamper, p, q, s, e

(* Every entry of the list that the tampering program runs.                *)
LEMMA TamperingEntries ==
  ASSUME NEW i \in 1 .. Len(TamperingAttacks)
  PROVE  AttackEntry(TamperingAttacks[i])
<1>1. /\ 0 \in Nat /\ 1 \in Nat \ {0}
      /\ "aead_failed" \in Refusals /\ "signature_failed" \in Refusals
  BY RefusalNamed DEF RefusalNames
<1>2. \A f \in {"ciphertext", "header"} :
        /\ AtDecryptor(1, f) \in Deliveries /\ AtDecryptor(1, f).class = "attack"
        /\ EarnedAfter(0, AtDecryptor(1, f), "aead_failed")
  BY <1>1 DEF AtDecryptor, Delivery, Deliveries, Stages, Forms, EarnedAfter, Decrypts
<1>3. \A f \in {"payload", "unsigned", "wrong signature"} :
        /\ AtValidator(1, f) \in Deliveries /\ AtValidator(1, f).class = "attack"
        /\ EarnedAfter(0, AtValidator(1, f), "signature_failed")
  BY <1>1 DEF AtValidator, Delivery, Deliveries, Stages, Forms, EarnedAfter, Signed
<1>4. AttackEntry(Sim1PayloadBitFlip) /\ AttackEntry(Sim5HeaderAeadTamper)
  BY <1>1, <1>2, AlteredEntry DEF Sim1PayloadBitFlip, Sim5HeaderAeadTamper
<1>5. /\ AttackEntry(Sim2SpeedValueInjection) /\ AttackEntry(Sim3SignatureStripping)
      /\ AttackEntry(Sim6WrongSignature)
  BY <1>1, <1>3, AlteredEntry
  DEF Sim2SpeedValueInjection, Sim3SignatureStripping, Sim6WrongSignature
<1>6. i \in 1 .. 7
  BY DEF TamperingAttacks
<1>7. /\ TamperingAttacks[1] = Sim1PayloadBitFlip
      /\ TamperingAttacks[2] = Sim2SpeedValueInjection
      /\ TamperingAttacks[3] = Sim3SignatureStripping
      /\ TamperingAttacks[4] = Sim4ZkpCommitmentTamper
      /\ TamperingAttacks[5] = Sim5HeaderAeadTamper
      /\ TamperingAttacks[6] = Sim6WrongSignature
      /\ TamperingAttacks[7] = Sim7MultiLayerTamper
  BY DEF TamperingAttacks
<1>8. i = 1 \/ i = 2 \/ i = 3 \/ i = 4 \/ i = 5 \/ i = 6 \/ i = 7
  BY <1>6
<1> QED
  BY <1>4, <1>5, <1>7, <1>8, CommitmentEntry, MultiLayerEntry

(* A new number leaves the rest of a delivery alone.                       *)
LEMMA RenumberedField ==
  ASSUME NEW r \in Deliveries, NEW n \in Nat \ {0}
  PROVE  /\ [r EXCEPT !.seq = n] \in Deliveries /\ [r EXCEPT !.seq = n].seq = n
         /\ [r EXCEPT !.seq = n].class = r.class /\ [r EXCEPT !.seq = n].at = r.at
         /\ [r EXCEPT !.seq = n].form = r.form
BY DEF Deliveries

(* Numbered on from the packets built before, an attack script keeps its   *)
(* shape.                                                                  *)
LEMMA NumberedShape ==
  ASSUME NEW s, NEW e, NEW P \in Nat, NEW L \in Nat, AttackShape(s, e, 0, P, L),
         built \in Nat
  PROVE  AttackShape(Numbered(s), e, built, P, L)
<1> DEFINE t == Numbered(s)
           n == Len(s)
           m == Len(e)
<1>1. /\ s \in Seq(Deliveries) /\ n \in Nat /\ DOMAIN s = 1 .. n /\ e \in Seq(Refusals)
      /\ m \in Nat
  BY LenProperties DEF AttackShape
<1>2. n = L + m \/ n = L + m + 1
  BY DEF AttackShape
<1>3. ASSUME NEW k \in 1 .. n
      PROVE  s[k] \in Deliveries /\ s[k].seq \in Nat \ {0} /\ s[k].seq + built \in Nat \ {0}
  <2>1. s[k] \in Deliveries
    BY <1>1
  <2>2. s[k].seq \in Nat \ {0}
    BY <2>1 DEF Deliveries
  <2> QED
    BY <2>1, <2>2
<1>4. t = [k \in 1 .. n |-> [s[k] EXCEPT !.seq = s[k].seq + built]]
  BY <1>1 DEF Numbered
<1> HIDE DEF t
<1>5. \A k \in 1 .. n :
        /\ t[k] \in Deliveries /\ t[k].seq = s[k].seq + built /\ t[k].class = s[k].class
        /\ t[k].at = s[k].at /\ t[k].form = s[k].form
  BY <1>3, <1>4, RenumberedField
<1>6. t \in [1 .. n -> Deliveries]
  BY <1>4, <1>5
<1>7. t \in Seq(Deliveries) /\ Len(t) = n
  BY <1>1, <1>6, FunctionIsSeq
<1>8. \A k \in 1 .. L : k \in 1 .. n
  <2> HIDE DEF n, m
  <2> QED
    BY <1>1, <1>2
<1>9. \A k \in 1 .. m : L + k \in 1 .. n
  <2> HIDE DEF n, m
  <2> QED
    BY <1>1, <1>2
<1>10. ASSUME NEW j \in 1 .. n, NEW k \in 1 .. n
       PROVE  /\ s[j].seq < s[k].seq => t[j].seq < t[k].seq
              /\ s[j].seq >= s[k].seq => t[j].seq >= t[k].seq
              /\ SameChecker(t[j], t[k]) => SameChecker(s[j], s[k])
  <2>1. /\ s[j].seq \in Nat /\ t[j].seq = s[j].seq + built
        /\ s[k].seq \in Nat /\ t[k].seq = s[k].seq + built
        /\ t[j].at = s[j].at /\ t[k].at = s[k].at
    BY <1>3, <1>5
  <2> QED
    BY <2>1 DEF SameChecker
<1>11. ASSUME NEW k \in 1 .. n, NEW v, Earned(s, L, s[k], v)
       PROVE  Earned(t, L, t[k], v)
  <2>1. t[k].at = s[k].at /\ t[k].form = s[k].form
    BY <1>5
  <2>2. /\ Signed(t[k]) <=> Signed(s[k])
        /\ Committed(t[k]) <=> Committed(s[k])
        /\ Decrypts(t[k]) <=> Decrypts(s[k])
    BY <2>1 DEF Signed, Committed, Decrypts
  <2>3. ASSUME NEW j \in 1 .. L, s[j].seq >= s[k].seq
        PROVE  t[j].seq >= t[k].seq /\ t[j].at = s[j].at
    BY <1>5, <1>8, <1>10, <2>3
  <2>4. (\E j \in 1 .. L : s[j].at = "relay" /\ s[j].seq >= s[k].seq)
          => (\E j \in 1 .. L : t[j].at = "relay" /\ t[j].seq >= t[k].seq)
    BY <2>3
  <2>5. (\E j \in 1 .. L : s[j].at # "relay" /\ s[j].seq >= s[k].seq)
          => (\E j \in 1 .. L : t[j].at # "relay" /\ t[j].seq >= t[k].seq)
    BY <2>3
  <2> QED
    BY <1>11, <2>1, <2>2, <2>4, <2>5 DEF Earned
<1>12. \A k \in 1 .. L :
         /\ t[k].class = "legitimate" /\ t[k].form = "intact"
         /\ t[k].at \in {"relay", "validator", "sequence"}
         /\ t[k].seq \in built + 1 .. built + P
  <2> SUFFICES ASSUME NEW k \in 1 .. L
               PROVE  /\ t[k].class = "legitimate" /\ t[k].form = "intact"
                      /\ t[k].at \in {"relay", "validator", "sequence"}
                      /\ t[k].seq \in built + 1 .. built + P
    OBVIOUS
  <2>1. /\ s[k].class = "legitimate" /\ s[k].form = "intact"
        /\ s[k].at \in {"relay", "validator", "sequence"}
        /\ s[k].seq \in 0 + 1 .. 0 + P
    BY DEF AttackShape
  <2>2. t[k].seq = s[k].seq + built
    BY <1>5, <1>8
  <2>3. t[k].seq \in built + 1 .. built + P
    BY <2>1, <2>2
  <2> QED
    BY <1>5, <1>8, <2>1, <2>3
<1>13. ASSUME NEW j \in 1 .. L, NEW k \in 1 .. L, j < k, SameChecker(t[j], t[k])
       PROVE  t[j].seq < t[k].seq
  <2>1. s[j].seq < s[k].seq
    BY <1>8, <1>10, <1>13 DEF AttackShape
  <2> QED
    BY <1>8, <1>10, <2>1
<1>14. \A k \in 1 .. m : t[L + k].class = "attack" /\ Earned(t, L, t[L + k], e[k])
  <2>1. \A k \in 1 .. m : s[L + k].class = "attack" /\ Earned(s, L, s[L + k], e[k])
    BY DEF AttackShape
  <2> QED
    BY <1>5, <1>9, <1>11, <2>1
<1>15. \/ n = L + m
       \/ /\ n = L + m + 1 /\ m > 0
          /\ t[L + m + 1].at = "second layer" /\ t[L + m + 1].class = "attack"
  <2>1. \/ n = L + m
        \/ /\ n = L + m + 1 /\ m > 0
           /\ s[L + m + 1].at = "second layer" /\ s[L + m + 1].class = "attack"
    BY DEF AttackShape
  <2>2. n = L + m + 1 => L + m + 1 \in 1 .. n
    BY <1>1
  <2> QED
    BY <1>5, <2>1, <2>2
<1> HIDE DEF n, m
<1>16. AttackShape(t, e, built, P, L)
  <2>1. /\ \/ Len(t) = L + Len(e)
           \/ /\ Len(t) = L + Len(e) + 1 /\ Len(e) > 0
              /\ t[L + Len(e) + 1].at = "second layer"
              /\ t[L + Len(e) + 1].class = "attack"
        /\ \A k \in 1 .. Len(e) : t[L + k].class = "attack" /\ Earned(t, L, t[L + k], e[k])
    BY <1>7, <1>14, <1>15 DEF m
  <2> QED
    BY <1>1, <1>7, <1>12, <1>13, <2>1 DEF AttackShape
<1> QED
  BY <1>16 DEF t

-----------------------------------------------------------------------------
(* After n deliveries.  T holds the positions of the legitimate deliveries *)
(* to one of the two checkers, last is that checker's last number.         *)
RelayTurns(s, L) == {k \in 1 .. L : s[k].at = "relay"}
ValTurns(s, L) == {k \in 1 .. L : s[k].at # "relay"}

LastOf(s, T, n, base, last) ==
  /\ \A k \in T : k <= n => s[k].seq <= last
  /\ last <= base \/ \E k \in T : k <= n /\ s[k].seq = last

(* A delivery to the other checker leaves this one's last number.          *)
LEMMA LastKept ==
  ASSUME NEW s, NEW T \in SUBSET Nat, NEW n \in Nat, NEW base, NEW last,
         LastOf(s, T, n, base, last), n + 1 \notin T
  PROVE  LastOf(s, T, n + 1, base, last)
<1>1. \A k \in T : k <= n + 1 <=> k <= n
  <2>1. \A k \in T : k # n + 1 /\ k \in Nat
    OBVIOUS
  <2> QED
    BY <2>1
<1> QED
  BY <1>1 DEF LastOf

(* The next legitimate delivery to a checker is beyond its last number,    *)
(* and becomes it.                                                         *)
LEMMA LastMoved ==
  ASSUME NEW s, NEW T \in SUBSET Nat, NEW n \in Nat, NEW base \in Nat, NEW last \in Nat,
         \A k \in T : s[k].seq \in Nat,
         \A j, k \in T : j < k => s[j].seq < s[k].seq,
         LastOf(s, T, n, base, last), n + 1 \in T, s[n + 1].seq > base
  PROVE  s[n + 1].seq > last /\ LastOf(s, T, n + 1, base, s[n + 1].seq)
<1> DEFINE x == s[n + 1].seq
<1>5. \A k \in T : k \in Nat
  OBVIOUS
<1>1. \A k \in T : k <= n => s[k].seq < x
  <2>1. \A k \in T : k <= n => k < n + 1
    BY <1>5
  <2> QED
    BY <2>1
<1>2. x > last
  <2>1. CASE last <= base
    BY <2>1
  <2>2. CASE ~ (last <= base)
    <3>1. PICK k \in T : k <= n /\ s[k].seq = last
      BY <2>2 DEF LastOf
    <3>2. s[k].seq < x /\ x \in Nat
      BY <1>1, <3>1
    <3> QED
      BY <3>1, <3>2
  <2> QED
    BY <2>1, <2>2
<1>3. \A k \in T : k <= n + 1 => s[k].seq <= x
  <2> SUFFICES ASSUME NEW k \in T, k <= n + 1 PROVE s[k].seq <= x
    OBVIOUS
  <2>1. k <= n \/ k = n + 1
    BY <1>5
  <2>2. s[k].seq \in Nat /\ x \in Nat
    OBVIOUS
  <2> QED
    BY <1>1, <2>1, <2>2
<1>4. n + 1 <= n + 1
  OBVIOUS
<1> QED
  BY <1>2, <1>3, <1>4 DEF LastOf

(* How many refusals n deliveries have brought.                            *)
Refused(n, L, m) == IF n <= L THEN 0 ELSE IF n <= L + m THEN n - L ELSE m

AttackTally(s, e, base, P, L, n, rc, vc, r) ==
  /\ n \in 0 .. Len(s)
  /\ CheckerOK(rc) /\ rc.last <= base + P /\ LastOf(s, RelayTurns(s, L), n, base, rc.last)
  /\ CheckerOK(vc) /\ vc.last <= base + P /\ LastOf(s, ValTurns(s, L), n, base, vc.last)
  /\ r \in Results /\ r.rejected["legitimate"] = 0
  /\ Len(r.refusals) = Refused(n, L, Len(e))
  /\ \A k \in 1 .. Len(r.refusals) : r.refusals[k] = e[k]

(* Before the first delivery nothing is refused; what the checkers know of *)
(* earlier attacks is not beyond base.                                     *)
LEMMA AttackTallyStarts ==
  ASSUME NEW s \in Seq(Deliveries), NEW e, NEW base \in Nat, NEW P \in Nat, NEW L \in Nat,
         NEW rc, CheckerOK(rc), rc.last <= base, NEW vc, CheckerOK(vc), vc.last <= base
  PROVE  AttackTally(s, e, base, P, L, 0, rc, vc, BaseResult)
<1>1. rc.last \in Nat /\ vc.last \in Nat
  BY DEF CheckerOK, Checkers
<1>2. rc.last <= base + P /\ vc.last <= base + P
  BY <1>1
<1>3. LastOf(s, RelayTurns(s, L), 0, base, rc.last)
  BY <1>1 DEF LastOf, RelayTurns
<1>4. LastOf(s, ValTurns(s, L), 0, base, vc.last)
  BY <1>1 DEF LastOf, ValTurns
<1>5. BaseResult \in Results /\ BaseResult.rejected["legitimate"] = 0
      /\ BaseResult.refusals = <<>> /\ Len(<<>>) = 0
  BY BaseResultFacts, ClassNames
<1>6. Refused(0, L, Len(e)) = 0
  BY DEF Refused
<1>7. 0 \in 0 .. Len(s) /\ 1 .. 0 = {}
  BY LenProperties
<1> QED
  BY <1>2, <1>3, <1>4, <1>5, <1>6, <1>7 DEF AttackTally

(* The turns of one checker, in order.                                     *)
LEMMA TurnsInOrder ==
  ASSUME NEW s, NEW e, NEW base \in Nat, NEW P \in Nat, NEW L \in Nat,
         AttackShape(s, e, base, P, L),
         NEW T, T = RelayTurns(s, L) \/ T = ValTurns(s, L)
  PROVE  /\ T \in SUBSET Nat /\ T \subseteq 1 .. L
         /\ \A k \in T : s[k].seq \in Nat /\ s[k].seq > base
         /\ \A j, k \in T : j < k => s[j].seq < s[k].seq
<1>1. T \subseteq 1 .. L /\ T \in SUBSET Nat
  BY DEF RelayTurns, ValTurns
<1>2. \A k \in 1 .. L : s[k].seq \in base + 1 .. base + P
  BY DEF AttackShape
<1>3. \A k \in 1 .. L : s[k].seq \in Nat /\ s[k].seq > base
  BY <1>2
<1>4. \A j, k \in T : SameChecker(s[j], s[k])
  BY DEF RelayTurns, ValTurns, SameChecker
<1>5. \A j, k \in 1 .. L : j < k /\ SameChecker(s[j], s[k]) => s[j].seq < s[k].seq
  BY DEF AttackShape
<1> QED
  BY <1>1, <1>3, <1>4, <1>5

(* A legitimate delivery is passed by its checker.                         *)
LEMMA LegitimatePasses ==
  ASSUME NEW s, NEW e, NEW base \in Nat, NEW P \in Nat, NEW L \in Nat,
         AttackShape(s, e, base, P, L), NEW n \in Nat, n < L,
         NEW T, T = RelayTurns(s, L) \/ T = ValTurns(s, L), n + 1 \in T,
         NEW c, CheckerOK(c), LastOf(s, T, n, base, c.last)
  PROVE  /\ InSequence(c, s[n + 1].seq)
         /\ CheckerOK(Checked(c, s[n + 1].seq))
         /\ Checked(c, s[n + 1].seq).last <= base + P
         /\ LastOf(s, T, n + 1, base, Checked(c, s[n + 1].seq).last)
<1> DEFINE x == s[n + 1].seq
           d == Checked(c, x)
<1>1. /\ T \in SUBSET Nat /\ T \subseteq 1 .. L
      /\ \A k \in T : s[k].seq \in Nat /\ s[k].seq > base
      /\ \A j, k \in T : j < k => s[j].seq < s[k].seq
  BY TurnsInOrder
<1>2. c.last \in Nat
  BY DEF CheckerOK, Checkers
<1>3. x > c.last /\ LastOf(s, T, n + 1, base, x) /\ x \in Nat /\ x > base
  BY <1>1, <1>2, LastMoved
<1>4. x \in base + 1 .. base + P
  BY <1>1 DEF AttackShape
<1> HIDE DEF x
<1>5. x \in Nat \ {0}
  BY <1>3
<1>6. /\ CheckerOK(d) /\ (InSequence(c, x) <=> x > c.last)
      /\ d.last = IF x > c.last THEN x ELSE c.last
  BY <1>5, CheckerStep
<1>7. InSequence(c, x) /\ d.last = x
  BY <1>3, <1>6
<1>8. d.last <= base + P
  BY <1>4, <1>7
<1> QED
  BY <1>3, <1>6, <1>7, <1>8 DEF x

(* A number that is not beyond the last one moves nothing.                 *)
LEMMA RepeatedRefused ==
  ASSUME NEW c, CheckerOK(c), NEW x \in Nat \ {0}, x <= c.last
  PROVE  ~ InSequence(c, x) /\ CheckerOK(Checked(c, x)) /\ Checked(c, x).last = c.last
<1>1. c.last \in Nat
  BY DEF CheckerOK, Checkers
<1>2. ~ (x > c.last)
  BY <1>1
<1> QED
  BY <1>2, CheckerStep

(* The outcome of the next delivery of a legitimate packet.                *)
LEMMA LegitimateStep ==
  ASSUME NEW s, NEW e, NEW base \in Nat, NEW P \in Nat, NEW L \in Nat,
         AttackShape(s, e, base, P, L), NEW n \in Nat, n < L,
         AttackTally(s, e, base, P, L, n, relayChecker, valChecker, result)
  PROVE  LET o == Outcome(relayChecker, valChecker, s[n + 1], result.refusals)
         IN  AttackTally(s, e, base, P, L, n + 1, o.relay, o.val, Counted(s[n + 1], o.reason))
<1> DEFINE p == s[n + 1]
           o == Outcome(relayChecker, valChecker, p, result.refusals)
           t == Counted(p, "accepted")
<1>1. /\ s \in Seq(Deliveries) /\ e \in Seq(Refusals) /\ Len(s) \in Nat /\ Len(e) \in Nat
      /\ n + 1 \in 1 .. L
  <2>1. s \in Seq(Deliveries) /\ e \in Seq(Refusals)
    BY DEF AttackShape
  <2> QED
    BY <2>1, LenProperties
<1>2. n + 1 \in 1 .. Len(s)
  <2>1. Len(s) = L + Len(e) \/ Len(s) = L + Len(e) + 1
    BY DEF AttackShape
  <2> QED
    BY <1>1, <2>1
<1>3. /\ p \in Deliveries /\ p.class = "legitimate" /\ p.form = "intact"
      /\ p.at \in {"relay", "validator", "sequence"}
  <2>1. p \in Deliveries
    BY <1>1, <1>2
  <2>2. \A k \in 1 .. L : /\ s[k].class = "legitimate" /\ s[k].form = "intact"
                           /\ s[k].at \in {"relay", "validator", "sequence"}
    BY DEF AttackShape
  <2> QED
    BY <1>1, <2>1, <2>2
<1>4. p.seq \in Nat
  <2> HIDE DEF p
  <2> QED
    BY <1>3 DEF Deliveries
<1>5. /\ CheckerOK(relayChecker) /\ relayChecker.last <= base + P
      /\ LastOf(s, RelayTurns(s, L), n, base, relayChecker.last)
      /\ CheckerOK(valChecker) /\ valChecker.last <= base + P
      /\ LastOf(s, ValTurns(s, L), n, base, valChecker.last)
      /\ result \in Results /\ result.rejected["legitimate"] = 0
      /\ Len(result.refusals) = Refused(n, L, Len(e))
      /\ \A k \in 1 .. Len(result.refusals) : result.refusals[k] = e[k]
  BY DEF AttackTally
<1>6. Signed(p) /\ Committed(p)
  BY <1>3 DEF Signed, Committed
<1>7. RelayTurns(s, L) \in SUBSET Nat /\ ValTurns(s, L) \in SUBSET Nat
  BY DEF RelayTurns, ValTurns
<1>8. /\ o.reason = "accepted"
      /\ CheckerOK(o.relay) /\ o.relay.last <= base + P
      /\ LastOf(s, RelayTurns(s, L), n + 1, base, o.relay.last)
      /\ CheckerOK(o.val) /\ o.val.last <= base + P
      /\ LastOf(s, ValTurns(s, L), n + 1, base, o.val.last)
  <2>1. CASE p.at = "relay"
    <3>1. n + 1 \in RelayTurns(s, L) /\ n + 1 \notin ValTurns(s, L)
      BY <1>1, <2>1 DEF RelayTurns, ValTurns
    <3>2. /\ InSequence(relayChecker, p.seq)
          /\ CheckerOK(Checked(relayChecker, p.seq))
          /\ Checked(relayChecker, p.seq).last <= base + P
          /\ LastOf(s, RelayTurns(s, L), n + 1, base, Checked(relayChecker, p.seq).last)
      BY <1>5, <3>1, LegitimatePasses
    <3>3. LastOf(s, ValTurns(s, L), n + 1, base, valChecker.last)
      BY <1>5, <1>7, <3>1, LastKept
    <3> HIDE DEF p
    <3>4. o.relay = Checked(relayChecker, p.seq) /\ o.val = valChecker /\ o.reason = "accepted"
      BY <2>1, <3>2 DEF Outcome, ProcessAtRelay
    <3> HIDE DEF o
    <3> QED
      BY <1>5, <3>2, <3>3, <3>4
  <2>2. CASE p.at # "relay"
    <3>1. n + 1 \in ValTurns(s, L) /\ n + 1 \notin RelayTurns(s, L)
      BY <1>1, <2>2 DEF RelayTurns, ValTurns
    <3>2. /\ InSequence(valChecker, p.seq)
          /\ CheckerOK(Checked(valChecker, p.seq))
          /\ Checked(valChecker, p.seq).last <= base + P
          /\ LastOf(s, ValTurns(s, L), n + 1, base, Checked(valChecker, p.seq).last)
      BY <1>5, <3>1, LegitimatePasses
    <3>3. LastOf(s, RelayTurns(s, L), n + 1, base, relayChecker.last)
      BY <1>5, <1>7, <3>1, LastKept
    <3> HIDE DEF p
    <3>4. o.relay = relayChecker /\ o.val = Checked(valChecker, p.seq) /\ o.reason = "accepted"
      <4>1. CASE p.at = "validator"
        BY <1>6, <3>2, <4>1 DEF Outcome, ProcessAtValidator
      <4>2. CASE p.at = "sequence"
        BY <3>2, <4>2 DEF Outcome
      <4> QED
        BY <1>3, <2>2, <4>1, <4>2
    <3> HIDE DEF o
    <3> QED
      BY <1>5, <3>2, <3>3, <3>4
  <2> QED
    BY <2>1, <2>2
<1>9. t \in Results /\ t.refusals = result.refusals /\ t.rejected["legitimate"] = 0
  <2>1. p.class \in Classes /\ "legitimate" \in Classes
    BY <1>3, ClassNames
  <2> HIDE DEF p
  <2>2. /\ t \in Results /\ t.refusals = result.refusals
        /\ \A c \in Classes :
             t.rejected[c] = IF c = p.class /\ ~ ("accepted" = "accepted")
                             THEN result.rejected[c] + 1 ELSE result.rejected[c]
    BY <1>4, <1>5, <2>1, CountedFacts
  <2> HIDE DEF t
  <2> QED
    BY <1>5, <2>1, <2>2
<1>10. Refused(n + 1, L, Len(e)) = Refused(n, L, Len(e))
  BY DEF Refused
<1>11. n + 1 \in 0 .. Len(s)
  BY <1>2
<1> HIDE DEF o, t
<1>12. AttackTally(s, e, base, P, L, n + 1, o.relay, o.val, t)
  BY <1>5, <1>8, <1>9, <1>10, <1>11 DEF AttackTally
<1> QED
  BY <1>8, <1>12 DEF o, t

(* The outcome of the next delivery of the attack itself.                  *)
LEMMA RefusedStep ==
  ASSUME NEW s, NEW e, NEW base \in Nat, NEW P \in Nat, NEW L \in Nat,
         AttackShape(s, e, base, P, L), NEW n \in Nat, L <= n, n < Len(s),
         AttackTally(s, e, base, P, L, n, relayChecker, valChecker, result)
  PROVE  LET o == Outcome(relayChecker, valChecker, s[n + 1], result.refusals)
             r == IF o.reason = "skipped" THEN result
                  ELSE [result EXCEPT !.refusals = Append(@, o.reason)]
         IN  /\ s[n + 1].class # "legitimate"
             /\ AttackTally(s, e, base, P, L, n + 1, o.relay, o.val, r)
<1> DEFINE p == s[n + 1]
           o == Outcome(relayChecker, valChecker, p, result.refusals)
           r == IF o.reason = "skipped" THEN result
                ELSE [result EXCEPT !.refusals = Append(@, o.reason)]
           m == Len(e)
<1>1. s \in Seq(Deliveries) /\ e \in Seq(Refusals) /\ Len(s) \in Nat /\ m \in Nat
  <2>1. s \in Seq(Deliveries) /\ e \in Seq(Refusals)
    BY DEF AttackShape
  <2> QED
    BY <2>1, LenProperties
<1>2. \/ Len(s) = L + m
      \/ /\ Len(s) = L + m + 1 /\ m > 0
         /\ s[L + m + 1].at = "second layer" /\ s[L + m + 1].class = "attack"
  BY DEF AttackShape
<1>3. /\ CheckerOK(relayChecker) /\ relayChecker.last <= base + P
      /\ LastOf(s, RelayTurns(s, L), n, base, relayChecker.last)
      /\ CheckerOK(valChecker) /\ valChecker.last <= base + P
      /\ LastOf(s, ValTurns(s, L), n, base, valChecker.last)
      /\ result \in Results /\ result.rejected["legitimate"] = 0
      /\ Len(result.refusals) = Refused(n, L, m)
      /\ \A k \in 1 .. Len(result.refusals) : result.refusals[k] = e[k]
  BY DEF AttackTally
<1>4. result.refusals \in Seq(Reasons)
  BY <1>3 DEF Results
<1>5. /\ RelayTurns(s, L) \in SUBSET Nat /\ n + 1 \notin RelayTurns(s, L)
      /\ ValTurns(s, L) \in SUBSET Nat /\ n + 1 \notin ValTurns(s, L)
  BY DEF RelayTurns, ValTurns
<1>6. /\ LastOf(s, RelayTurns(s, L), n + 1, base, relayChecker.last)
      /\ LastOf(s, ValTurns(s, L), n + 1, base, valChecker.last)
  BY <1>3, <1>5, LastKept
<1>7. n + 1 \in 0 .. Len(s) /\ n + 1 \in 1 .. Len(s)
  BY <1>1
<1>8. p \in Deliveries
  BY <1>1, <1>7
<1>9. p.seq \in Nat \ {0}
  <2> HIDE DEF p
  <2> QED
    BY <1>8 DEF Deliveries
<1>10. CASE n < L + m
  <2> DEFINE k == n + 1 - L
             v == e[k]
  <2>1. k \in 1 .. m /\ L + k = n + 1 /\ n + 1 <= L + m /\ ~ (n + 1 <= L)
    <3> HIDE DEF m
    <3> QED
      BY <1>1, <1>10
  <2>2. p.class = "attack" /\ Earned(s, L, p, v) /\ v \in Refusals
    <3>1. \A i \in 1 .. m : s[L + i].class = "attack" /\ Earned(s, L, s[L + i], e[i])
      BY DEF AttackShape
    <3>2. v \in Refusals
      BY <1>1, <2>1
    <3> HIDE DEF k, m
    <3> QED
      BY <2>1, <3>1, <3>2
  <2>3. v \in Reasons /\ v # "accepted" /\ v # "skipped"
    BY <2>2 DEF Refusals, Reasons
  <2> HIDE DEF p, v, k
  <2>4. /\ o.reason = v
        /\ CheckerOK(o.relay) /\ o.relay.last = relayChecker.last
        /\ CheckerOK(o.val) /\ o.val.last = valChecker.last
    <3>1. CASE /\ p.at = "relay" /\ v = "integrity_failed"
               /\ \E j \in 1 .. L : s[j].at = "relay" /\ s[j].seq >= p.seq
      <4>1. PICK j \in 1 .. L : s[j].at = "relay" /\ s[j].seq >= p.seq
        BY <3>1
      <4>2. j \in RelayTurns(s, L) /\ j <= n
        BY <4>1 DEF RelayTurns
      <4>3. s[j].seq <= relayChecker.last
        BY <1>3, <4>2 DEF LastOf
      <4>4. s[j].seq \in Nat /\ relayChecker.last \in Nat
        <5>1. s[j].seq \in base + 1 .. base + P
          BY DEF AttackShape
        <5> QED
          BY <1>3, <5>1 DEF CheckerOK, Checkers
      <4>5. p.seq <= relayChecker.last
        BY <1>9, <4>1, <4>3, <4>4
      <4>6. /\ ~ InSequence(relayChecker, p.seq) /\ CheckerOK(Checked(relayChecker, p.seq))
            /\ Checked(relayChecker, p.seq).last = relayChecker.last
        BY <1>3, <1>9, <4>5, RepeatedRefused
      <4>7. /\ o.relay = Checked(relayChecker, p.seq) /\ o.val = valChecker
            /\ o.reason = "integrity_failed"
        BY <3>1, <4>6 DEF Outcome, ProcessAtRelay
      <4> HIDE DEF o
      <4> QED
        BY <1>3, <3>1, <4>6, <4>7
    <3>2. CASE /\ p.at = "validator" /\ Signed(p) /\ v = "sequence_failed"
               /\ \E j \in 1 .. L : s[j].at # "relay" /\ s[j].seq >= p.seq
      <4>1. PICK j \in 1 .. L : s[j].at # "relay" /\ s[j].seq >= p.seq
        BY <3>2
      <4>2. j \in ValTurns(s, L) /\ j <= n
        BY <4>1 DEF ValTurns
      <4>3. s[j].seq <= valChecker.last
        BY <1>3, <4>2 DEF LastOf
      <4>4. s[j].seq \in Nat /\ valChecker.last \in Nat
        <5>1. s[j].seq \in base + 1 .. base + P
          BY DEF AttackShape
        <5> QED
          BY <1>3, <5>1 DEF CheckerOK, Checkers
      <4>5. p.seq <= valChecker.last
        BY <1>9, <4>1, <4>3, <4>4
      <4>6. /\ ~ InSequence(valChecker, p.seq) /\ CheckerOK(Checked(valChecker, p.seq))
            /\ Checked(valChecker, p.seq).last = valChecker.last
        BY <1>3, <1>9, <4>5, RepeatedRefused
      <4>7. /\ o.relay = relayChecker /\ o.val = Checked(valChecker, p.seq)
            /\ o.reason = "sequence_failed"
        BY <3>2, <4>6 DEF Outcome, ProcessAtValidator
      <4> HIDE DEF o
      <4> QED
        BY <1>3, <3>2, <4>6, <4>7
    <3>3. CASE p.at = "validator" /\ ~ Signed(p) /\ v = "signature_failed"
      <4>1. o.relay = relayChecker /\ o.val = valChecker /\ o.reason = v
        BY <3>3 DEF Outcome, ProcessAtValidator
      <4> HIDE DEF o
      <4> QED
        BY <1>3, <4>1
    <3>4. CASE p.at = "zkp" /\ ~ Committed(p) /\ v = "zkp_failed"
      <4>1. o.relay = relayChecker /\ o.val = valChecker /\ o.reason = v
        BY <3>4 DEF Outcome
      <4> HIDE DEF o
      <4> QED
        BY <1>3, <4>1
    <3>5. CASE p.at = "decryptor" /\ ~ Decrypts(p) /\ v = "aead_failed"
      <4>1. o.relay = relayChecker /\ o.val = valChecker /\ o.reason = v
        BY <3>5 DEF Outcome
      <4> HIDE DEF o
      <4> QED
        BY <1>3, <4>1
    <3> QED
      BY <2>2, <3>1, <3>2, <3>3, <3>4, <3>5 DEF Earned
  <2> DEFINE q == Append(result.refusals, v)
  <2>5. Len(result.refusals) = n - L /\ n - L + 1 = k /\ k - 1 = n - L
        /\ Refused(n + 1, L, m) = k /\ k \in Nat
    <3>1. Refused(n, L, m) = n - L
      <4> HIDE DEF m
      <4> QED
        BY <1>1, <1>10 DEF Refused
    <3>2. Refused(n + 1, L, m) = n + 1 - L
      <4> HIDE DEF m
      <4> QED
        BY <1>1, <2>1 DEF Refused
    <3> QED
      BY <1>3, <3>1, <3>2 DEF k
  <2>6. /\ q \in Seq(Reasons) /\ Len(q) = k
        /\ \A i \in 1 .. k - 1 : q[i] = result.refusals[i]
        /\ q[k] = v
    BY <1>4, <2>3, <2>5, AppendProperties
  <2>7. ASSUME NEW i \in 1 .. k PROVE q[i] = e[i]
    <3>1. CASE i = k
      BY <2>6, <3>1 DEF v
    <3>2. CASE i # k
      <4>1. i \in 1 .. k - 1
        BY <2>5, <3>2
      <4>2. i \in 1 .. Len(result.refusals)
        BY <2>5, <4>1
      <4> HIDE DEF q
      <4> QED
        BY <1>3, <2>6, <4>1, <4>2
    <3> QED
      BY <3>1, <3>2
  <2>8. r = [result EXCEPT !.refusals = q]
    BY <2>3, <2>4
  <2> HIDE DEF q, o, r
  <2>9. r \in Results /\ r.refusals = q /\ r.rejected = result.rejected
    BY <1>3, <2>6, <2>8 DEF Results
  <2>10. AttackTally(s, e, base, P, L, n + 1, o.relay, o.val, r)
    BY <1>3, <1>6, <1>7, <2>4, <2>5, <2>6, <2>7, <2>9 DEF AttackTally
  <2>11. p.class # "legitimate"
    BY <2>2
  <2> QED
    BY <2>10, <2>11 DEF p, o, r
<1>11. CASE ~ (n < L + m)
  <2>8. Len(s) = L + m \/ Len(s) = L + m + 1
    BY <1>2
  <2>9. n = L + m /\ Len(s) # L + m
    <3> HIDE DEF m, p, o, r
    <3> QED
      BY <1>1, <1>11, <2>8
  <2>1. m > 0 /\ p.at = "second layer" /\ p.class = "attack"
    <3>1. /\ m > 0 /\ s[L + m + 1].at = "second layer"
          /\ s[L + m + 1].class = "attack"
      BY <1>2, <2>9
    <3> QED
      BY <2>9, <3>1
  <2>10. m > 0
    BY <2>1
  <2>2. Refused(n, L, m) = m /\ Refused(n + 1, L, m) = m
    <3> HIDE DEF m, p, o, r
    <3> QED
      BY <1>1, <2>9, <2>10 DEF Refused
  <2>3. result.refusals # <<>>
    <3>1. Len(result.refusals) > 0
      BY <1>3, <2>1, <2>2
    <3> QED
      BY <1>4, <3>1
  <2> HIDE DEF p
  <2>4. o.relay = relayChecker /\ o.val = valChecker /\ o.reason = "skipped"
    BY <2>1, <2>3 DEF Outcome
  <2>5. r = result
    BY <2>4
  <2> HIDE DEF o, r
  <2>6. AttackTally(s, e, base, P, L, n + 1, o.relay, o.val, r)
    BY <1>3, <1>6, <1>7, <2>2, <2>4, <2>5 DEF AttackTally
  <2>7. p.class # "legitimate"
    BY <2>1
  <2> QED
    BY <2>6, <2>7 DEF p, o, r
<1> QED
  BY <1>10, <1>11

AttackUnderWay ==
  /\ scenario \in 1 .. Len(Scenarios)
  /\ built - Current.packets \in Nat
  /\ \E L \in Nat :
       /\ AttackShape(script, Current.expected, built - Current.packets, Current.packets, L)
       /\ AttackTally(script, Current.expected, built - Current.packets, Current.packets, L,
                      at, relayChecker, valChecker, result)
  /\ phase = "reported" => at = Len(script)

(* The invariant of the attack programs: their checkers never know a       *)
(* number that the builder has not given out.                              *)
AttackInv ==
  /\ scenario \in Nat \ {0}
  /\ Attacking => built \in Nat
  /\ Attacking /\ phase = "next" =>
       /\ CheckerOK(relayChecker) /\ relayChecker.last <= built
       /\ CheckerOK(valChecker) /\ valChecker.last <= built
  /\ Attacking /\ phase \in {"deliver", "reported"} => AttackUnderWay

(* The attack under way is an entry of the program's list.                 *)
LEMMA CurrentAttack ==
  ASSUME Attacking, scenario \in Nat \ {0}, scenario <= Len(Scenarios)
  PROVE  scenario \in 1 .. Len(Scenarios) /\ AttackEntry(Current)
<1>1. CASE program = "replay_attack"
  <2>1. Scenarios = ReplayAttacks
    BY <1>1 DEF Scenarios
  <2>2. Len(ReplayAttacks) \in Nat
    BY DEF ReplayAttacks
  <2>3. scenario \in 1 .. Len(ReplayAttacks)
    BY <2>1, <2>2
  <2> QED
    BY <2>1, <2>3, ReplayEntries DEF Current
<1>2. CASE program = "tampering"
  <2>1. Scenarios = TamperingAttacks
    BY <1>2 DEF Scenarios
  <2>2. Len(TamperingAttacks) \in Nat
    BY DEF TamperingAttacks
  <2>3. scenario \in 1 .. Len(TamperingAttacks)
    BY <2>1, <2>2
  <2> QED
    BY <2>1, <2>3, TamperingEntries DEF Current
<1> QED
  BY <1>1, <1>2 DEF Attacking

(* The attack programs start with fresh checkers.                          *)
LEMMA AttackInvInit == SimInit => AttackInv
<1> SUFFICES ASSUME SimInit PROVE AttackInv
  OBVIOUS
<1>1. DefaultGap \in Nat
  BY LossAssumption
<1>2. /\ scenario = 1 /\ phase = "next" /\ built = 0
      /\ relayChecker = NewChecker(DefaultGap) /\ valChecker = NewChecker(DefaultGap)
  BY DEF SimInit
<1>3. CheckerOK(NewChecker(DefaultGap)) /\ NewChecker(DefaultGap).last = 0
  BY <1>1, NewCheckerOK
<1>4. 0 <= 0 /\ 1 \in Nat \ {0} /\ 0 \in Nat
  OBVIOUS
<1> QED
  BY <1>2, <1>3, <1>4 DEF AttackInv

(* Starting an attack, delivering a packet and reporting keep the          *)
(* invariant of the attack programs, and so does every step of the others. *)
LEMMA AttackInvStep == AttackInv /\ [SimNext]_simVars => AttackInv'
<1> SUFFICES ASSUME AttackInv, [SimNext]_simVars PROVE AttackInv'
  OBVIOUS
<1>1. program' = program
  BY DEF SimNext, NetNext, BeginMeasurement, BeginAttack, Validate, AttackStep, Report,
         NextScenario, Save, RotationStepOfProgram, simVars
<1>2. Attacking' = Attacking /\ Scenarios' = Scenarios /\ (Attacking => ~ Measuring)
  BY <1>1 DEF Measuring, Attacking, Scenarios
<1>3. scenario' = scenario => Current' = Current
  BY <1>2 DEF Current
<1>4. ASSUME UNCHANGED <<scenario, phase, built, relayChecker, valChecker, script, at, result>>
      PROVE  AttackInv'
  <2>1. AttackUnderWay' = AttackUnderWay
    BY <1>2, <1>3, <1>4 DEF AttackUnderWay
  <2> QED
    BY <1>2, <1>4, <2>1 DEF AttackInv
<1>5. ASSUME UNCHANGED simVars \/ RotationStepOfProgram PROVE AttackInv'
  BY <1>4, <1>5 DEF simVars, netVars, RotationStepOfProgram
<1>6. CASE BeginAttack
  <2>1. /\ Attacking /\ phase = "next" /\ scenario <= Len(Scenarios)
        /\ scenario' = scenario /\ phase' = "deliver" /\ at' = 0 /\ result' = BaseResult
        /\ relayChecker' = relayChecker /\ valChecker' = valChecker
        /\ built' = built + Current.packets
        /\ script' = Numbered(Current.script)
    BY <1>6 DEF BeginAttack
  <2>2. /\ scenario \in Nat \ {0} /\ built \in Nat
        /\ CheckerOK(relayChecker) /\ relayChecker.last <= built
        /\ CheckerOK(valChecker) /\ valChecker.last <= built
    BY <2>1 DEF AttackInv
  <2>3. scenario \in 1 .. Len(Scenarios) /\ AttackEntry(Current) /\ Current' = Current
    BY <1>3, <2>1, <2>2, CurrentAttack
  <2>4. PICK L \in Nat : AttackShape(Current.script, Current.expected, 0, Current.packets, L)
    BY <2>3 DEF AttackEntry
  <2>5. Current.packets \in Nat
    BY <2>3 DEF AttackEntry
  <2>6. AttackShape(script', Current.expected, built, Current.packets, L)
    BY <2>1, <2>2, <2>4, <2>5, NumberedShape
  <2>7. AttackTally(script', Current.expected, built, Current.packets, L, 0, relayChecker,
                    valChecker, BaseResult)
    <3>1. script' \in Seq(Deliveries)
      BY <2>6 DEF AttackShape
    <3> QED
      BY <2>2, <2>5, <3>1, AttackTallyStarts
  <2>8. built' - Current.packets = built /\ built' \in Nat
    BY <2>1, <2>2, <2>5
  <2>9. AttackUnderWay'
    BY <1>2, <2>1, <2>2, <2>3, <2>6, <2>7, <2>8 DEF AttackUnderWay
  <2> QED
    BY <1>2, <2>1, <2>2, <2>8, <2>9 DEF AttackInv
<1>7. CASE AttackStep
  <2> DEFINE p == script[at + 1]
             o == Outcome(relayChecker, valChecker, p, result.refusals)
             base == built - Current.packets
             P == Current.packets
             e == Current.expected
  <2>1. /\ Attacking /\ phase = "deliver" /\ at < Len(script)
        /\ UNCHANGED <<scenario, phase, built, script>> /\ at' = at + 1
        /\ relayChecker' = o.relay /\ valChecker' = o.val
        /\ result' = IF p.class = "legitimate" THEN Counted(p, o.reason)
                     ELSE IF o.reason = "skipped" THEN result
                     ELSE [result EXCEPT !.refusals = Append(@, o.reason)]
    BY <1>7 DEF AttackStep
  <2>2. AttackUnderWay /\ scenario \in Nat \ {0} /\ built \in Nat
    BY <2>1 DEF AttackInv
  <2>3. PICK L \in Nat : /\ AttackShape(script, e, base, P, L)
                         /\ AttackTally(script, e, base, P, L, at, relayChecker, valChecker,
                                        result)
    BY <2>2 DEF AttackUnderWay
  <2>4. scenario \in 1 .. Len(Scenarios) /\ base \in Nat /\ P \in Nat
    <3>1. scenario \in 1 .. Len(Scenarios) /\ base \in Nat
      BY <2>2 DEF AttackUnderWay
    <3>2. scenario <= Len(Scenarios)
      BY <3>1
    <3>3. AttackEntry(Current)
      BY <2>1, <2>2, <3>2, CurrentAttack
    <3> QED
      BY <3>1, <3>3 DEF AttackEntry
  <2>5. at \in Nat /\ Len(script) \in Nat
    <3>1. at \in 0 .. Len(script) /\ script \in Seq(Deliveries)
      BY <2>3 DEF AttackTally, AttackShape
    <3> QED
      BY <3>1, LenProperties
  <2> HIDE DEF base, P, e
  <2>6. AttackTally(script, e, base, P, L, at + 1, relayChecker', valChecker', result')
    <3>1. CASE at < L
      <4>1. at + 1 \in 1 .. L
        BY <2>5, <3>1
      <4>2. p.class = "legitimate"
        BY <2>3, <4>1 DEF AttackShape
      <4>3. AttackTally(script, e, base, P, L, at + 1, o.relay, o.val, Counted(p, o.reason))
        BY <2>3, <2>4, <2>5, <3>1, LegitimateStep
      <4> HIDE DEF o, p
      <4> QED
        BY <2>1, <4>2, <4>3
    <3>2. CASE L <= at
      <4> DEFINE r == IF o.reason = "skipped" THEN result
                      ELSE [result EXCEPT !.refusals = Append(@, o.reason)]
      <4>1. p.class # "legitimate"
            /\ AttackTally(script, e, base, P, L, at + 1, o.relay, o.val, r)
        BY <2>1, <2>3, <2>4, <2>5, <3>2, RefusedStep
      <4>2. result' = r
        BY <2>1, <4>1
      <4> HIDE DEF o, p, r
      <4> QED
        BY <2>1, <4>1, <4>2
    <3> QED
      BY <2>5, <3>1, <3>2
  <2>7. Current' = Current
    BY <1>3, <2>1
  <2>8. AttackUnderWay'
    BY <1>2, <2>1, <2>2, <2>3, <2>4, <2>6, <2>7 DEF AttackUnderWay, base, P, e
  <2> QED
    BY <1>2, <2>1, <2>2, <2>8 DEF AttackInv
<1>8. CASE BeginMeasurement \/ Validate
  <2>1. ~ Attacking /\ scenario' = scenario
    BY <1>2, <1>8 DEF BeginMeasurement, Validate
  <2> QED
    BY <1>2, <2>1 DEF AttackInv
<1>9. CASE Report
  <2>1. /\ UNCHANGED <<scenario, built, relayChecker, valChecker, script, at, result>>
        /\ phase = "deliver" /\ phase' = "reported" /\ at = Len(script)
    BY <1>9 DEF Report
  <2>2. AttackUnderWay => AttackUnderWay'
    BY <1>2, <1>3, <2>1 DEF AttackUnderWay
  <2> QED
    BY <1>2, <2>1, <2>2 DEF AttackInv
<1>10. CASE NextScenario
  <2>1. /\ phase = "reported" /\ phase' = "next" /\ scenario' = scenario + 1 /\ built' = built
        /\ relayChecker' = relayChecker /\ (Attacking => valChecker' = valChecker)
    BY <1>2, <1>10 DEF NextScenario
  <2>2. ASSUME Attacking
        PROVE  /\ built \in Nat /\ CheckerOK(relayChecker) /\ relayChecker.last <= built
               /\ CheckerOK(valChecker) /\ valChecker.last <= built
    <3>1. AttackUnderWay /\ built \in Nat /\ scenario \in Nat \ {0}
      BY <2>1, <2>2 DEF AttackInv
    <3>2. scenario <= Len(Scenarios)
      BY <3>1 DEF AttackUnderWay
    <3>3. Current.packets \in Nat
      BY <2>2, <3>1, <3>2, CurrentAttack DEF AttackEntry
    <3>4. PICK L \in Nat :
            AttackTally(script, Current.expected, built - Current.packets, Current.packets, L,
                        at, relayChecker, valChecker, result)
      BY <3>1 DEF AttackUnderWay
    <3>5. (built - Current.packets) + Current.packets = built
      BY <3>1, <3>3
    <3> QED
      BY <3>1, <3>4, <3>5 DEF AttackTally
  <2>3. scenario' \in Nat \ {0}
    BY <2>1 DEF AttackInv
  <2> QED
    BY <1>2, <2>1, <2>2, <2>3 DEF AttackInv
<1>11. CASE Save
  <2>1. scenario' = scenario /\ phase' = "saved" /\ built' = built
    BY <1>11 DEF Save
  <2> QED
    BY <1>2, <2>1 DEF AttackInv
<1> QED
  BY <1>5, <1>6, <1>7, <1>8, <1>9, <1>10, <1>11 DEF SimNext, NetNext

(* When the last packet of an attack has been delivered, the refusals are  *)
(* all of the expected ones.                                               *)
LEMMA AttackInvVerdicts == AttackInv => AttackVerdictsEarned
<1> SUFFICES ASSUME AttackInv, Attacking, Reported
             PROVE  result.refusals = Current.expected /\ result.rejected["legitimate"] = 0
  BY DEF AttackVerdictsEarned
<1> DEFINE e == Current.expected
           base == built - Current.packets
           P == Current.packets
<1>1. AttackUnderWay /\ at = Len(script)
  <2>1. phase = "reported"
    BY DEF Reported
  <2> QED
    BY <2>1 DEF AttackInv, AttackUnderWay
<1>2. PICK L \in Nat : /\ AttackShape(script, e, base, P, L)
                       /\ AttackTally(script, e, base, P, L, at, relayChecker, valChecker,
                                      result)
  BY <1>1 DEF AttackUnderWay
<1> HIDE DEF e, base, P
<1>3. /\ e \in Seq(Refusals) /\ Len(e) \in Nat
      /\ Len(script) = L + Len(e) \/ (Len(script) = L + Len(e) + 1 /\ Len(e) > 0)
  <2>1. e \in Seq(Refusals)
    BY <1>2 DEF AttackShape
  <2>2. Len(script) = L + Len(e) \/ (Len(script) = L + Len(e) + 1 /\ Len(e) > 0)
    BY <1>2 DEF AttackShape
  <2> QED
    BY <2>1, <2>2, LenProperties
<1>4. /\ result \in Results /\ result.rejected["legitimate"] = 0
      /\ Len(result.refusals) = Refused(at, L, Len(e))
      /\ \A k \in 1 .. Len(result.refusals) : result.refusals[k] = e[k]
  BY <1>2 DEF AttackTally
<1>5. Refused(at, L, Len(e)) = Len(e)
  <2> DEFINE m == Len(e)
  <2>1. m \in Nat /\ (at = L + m \/ at = L + m + 1)
    BY <1>1, <1>3
  <2> HIDE DEF m
  <2>2. Refused(at, L, m) = m
    BY <2>1 DEF Refused
  <2> QED
    BY <2>2 DEF m
<1>6. result.refusals \in Seq(Reasons) /\ e \in Seq(Reasons)
  <2>1. Refusals \subseteq Reasons
    BY DEF Refusals
  <2>2. e \in Seq(Reasons)
    BY <1>3, <2>1
  <2> QED
    BY <1>4, <2>2 DEF Results
<1>7. result.refusals = e
  BY <1>4, <1>5, <1>6, SeqEqual
<1> QED
  BY <1>4, <1>7 DEF e

(* For any number of packets: whenever a scenario of the replay and        *)
(* tampering programs has been reported, every attack delivery was refused *)
(* by the stage it was aimed at, and no legitimate packet was refused      *)
(* because of an earlier attack on the same checkers.                      *)
THEOREM AttackVerdictsAlwaysEarned == SimSpec => []AttackVerdictsEarned
<1>1. SimSpec => []AttackInv
  BY AttackInvInit, AttackInvStep, PTL DEF SimSpec
<1> QED
  BY <1>1, AttackInvVerdicts, PTL

-----------------------------------------------------------------------------
(* The corners of a lap.                                                   *)

(* A finite set of integers has a least member: the one that the fewest    *)
(* are below.                                                              *)
LEMMA LeastOfIntegers ==
  ASSUME NEW S \in SUBSET Int, IsFiniteSet(S), S # {}
  PROVE  Min(S) \in S /\ \A y \in S : Min(S) <= y
<1> DEFINE below(x) == {z \in S : z < x}
           ranks == {Cardinality(below(x)) : x \in S}
<1>1. \A x \in S : IsFiniteSet(below(x)) /\ Cardinality(below(x)) \in Nat
  BY FS_Subset, FS_CardinalityType
<1>2. ranks \in SUBSET Nat /\ ranks # {}
  BY <1>1
<1>3. PICK x \in S : \A y \in S : Cardinality(below(x)) <= Cardinality(below(y))
  <2> HIDE DEF below
  <2>1. Min(ranks) \in ranks /\ \A r \in ranks : Min(ranks) <= r
    BY <1>2, MinOfNaturals
  <2> QED
    BY <2>1
<1>4. ASSUME NEW y \in S, y < x PROVE FALSE
  <2>0. x \in Int /\ y \in Int /\ S \subseteq Int
    OBVIOUS
  <2>1. below(y) \in SUBSET below(x) /\ y \in below(x) /\ y \notin below(y)
    <3>1. \A z \in S : z < y => z < x
      BY <1>4, <2>0
    <3>2. y \notin below(y)
      BY <2>0
    <3>3. y \in below(x)
      BY <1>4
    <3>4. \A z \in below(y) : z \in below(x)
      BY <3>1
    <3> HIDE DEF below
    <3> QED
      BY <3>2, <3>3, <3>4
  <2> HIDE DEF below
  <2>2. Cardinality(below(y)) <= Cardinality(below(x))
        /\ Cardinality(below(y)) # Cardinality(below(x))
    BY <1>1, <2>1, FS_Subset
  <2> QED
    BY <1>1, <1>3, <2>2
<1>5. \A y \in S : x <= y
  BY <1>4
<1> QED
  BY <1>5 DEF Min

(* And a greatest one.                                                     *)
LEMMA GreatestOfIntegers ==
  ASSUME NEW S \in SUBSET Int, IsFiniteSet(S), S # {}
  PROVE  Max(S) \in S /\ \A y \in S : Max(S) >= y
<1> DEFINE f == [x \in S |-> 0 - x]
           T == {0 - x : x \in S}
<1>1. f \in Surjection(S, T) /\ T \in SUBSET Int /\ T # {}
  <2>1. \A x \in S : 0 - x \in Int
    OBVIOUS
  <2>2. T \in SUBSET Int /\ T # {}
    BY <2>1
  <2>3. f \in [S -> T] /\ \A t \in T : \E x \in S : f[x] = t
    OBVIOUS
  <2> HIDE DEF f, T
  <2> QED
    BY <2>2, <2>3 DEF Surjection
<1>2. \A x \in S : 0 - x \in T
  OBVIOUS
<1>3. \A t \in T : \E x \in S : t = 0 - x
  OBVIOUS
<1> HIDE DEF f, T
<1>4. IsFiniteSet(T)
  BY <1>1, FS_Surjection
<1>5. Min(T) \in T /\ \A y \in T : Min(T) <= y
  BY <1>1, <1>4, LeastOfIntegers
<1>6. PICK x \in S : Min(T) = 0 - x
  BY <1>3, <1>5
<1>7. \A y \in S : x >= y
  BY <1>2, <1>5, <1>6
<1> QED
  BY <1>7 DEF Max

(* The samples of a stretch are finitely many integers.                    *)
LEMMA SamplesFinite ==
  ASSUME NEW s, NEW K, IsFiniteSet(K), \A k \in K : s[k] \in Int
  PROVE  IsFiniteSet({s[k] : k \in K}) /\ {s[k] : k \in K} \in SUBSET Int
<1> DEFINE f == [k \in K |-> s[k]]
           T == {s[k] : k \in K}
<1>1. f \in Surjection(K, T) /\ T \in SUBSET Int
  BY DEF Surjection
<1> HIDE DEF f, T
<1>2. IsFiniteSet(T)
  BY <1>1, FS_Surjection
<1> QED
  BY <1>1, <1>2 DEF T

(* The lowest speed of a stretch is the speed of one of its samples.       *)
LEMMA LowestOfStretch ==
  ASSUME NEW s, NEW i \in Int, NEW j \in Int, i <= j, \A k \in i .. j : s[k] \in Int
  PROVE  /\ \E k \in i .. j : LowestIn(s, i, j) = s[k]
         /\ \A k \in i .. j : LowestIn(s, i, j) <= s[k]
<1> DEFINE T == {s[k] : k \in i .. j}
<1>1. IsFiniteSet(i .. j)
  BY FS_Interval
<1>2. IsFiniteSet(T) /\ T \in SUBSET Int
  BY <1>1, SamplesFinite
<1>3. T # {} /\ (\A k \in i .. j : s[k] \in T) /\ (\A t \in T : \E k \in i .. j : t = s[k])
  <2>1. i \in i .. j
    OBVIOUS
  <2> QED
    BY <2>1
<1> HIDE DEF T
<1>4. Min(T) \in T /\ \A y \in T : Min(T) <= y
  BY <1>2, <1>3, LeastOfIntegers
<1> QED
  BY <1>3, <1>4 DEF LowestIn, T

(* The apex of a range: its first lowest sample.                           *)
LEMMA ApexOfRange ==
  ASSUME NEW s, NEW r, r[1] \in Nat, r[2] \in Nat, r[1] <= r[2],
         \A k \in r[1] .. r[2] : s[k] \in Int
  PROVE  /\ Apex(s, r) \in r[1] .. r[2]
         /\ s[Apex(s, r)] = LowestIn(s, r[1], r[2])
         /\ \A k \in r[1] .. r[2] : s[Apex(s, r)] <= s[k]
<1> DEFINE T == {i \in r[1] .. r[2] : s[i] = LowestIn(s, r[1], r[2])}
<1>1. /\ \E k \in r[1] .. r[2] : LowestIn(s, r[1], r[2]) = s[k]
      /\ \A k \in r[1] .. r[2] : LowestIn(s, r[1], r[2]) <= s[k]
  BY LowestOfStretch
<1>2. T \in SUBSET Nat /\ T # {}
  BY <1>1
<1>3. Min(T) \in T
  <2> HIDE DEF T
  <2> QED
    BY <1>2, MinOfNaturals
<1>4. Apex(s, r) = Min(T)
  BY DEF Apex
<1> QED
  BY <1>1, <1>3, <1>4

(* A set of numbers up to n that is not empty has a greatest one.          *)
LEMMA GreatestUpTo ==
  ASSUME NEW a \in Nat, NEW n \in Nat, NEW T \in SUBSET (a .. n), T # {}
  PROVE  Max(T) \in T /\ \A y \in T : Max(T) >= y
<1>1. IsFiniteSet(a .. n) /\ T \in SUBSET Int
  BY FS_Interval
<1>2. IsFiniteSet(T)
  BY <1>1, FS_Subset
<1> QED
  BY <1>1, <1>2, GreatestOfIntegers

(* The end of the nearly level stretch that starts at i.                   *)
LEMMA LevelStretch ==
  ASSUME NEW s, Len(s) \in Nat, NEW i \in 1 .. Len(s)
  PROVE  /\ LevelUntil(s, i) \in i .. Len(s)
         /\ \A k \in i .. LevelUntil(s, i) - 1 : Dist(s[k + 1], s[k]) <= Tolerance
<1> DEFINE T == {e \in i .. Len(s) : \A k \in i .. e - 1 : Dist(s[k + 1], s[k]) <= Tolerance}
<1>1. i \in T /\ T \in SUBSET (i .. Len(s)) /\ i \in Nat
  OBVIOUS
<1> HIDE DEF T
<1>2. Max(T) \in T
  BY <1>1, GreatestUpTo
<1> QED
  BY <1>2 DEF LevelUntil, T

(* Entry and exit are samples before and behind the apex, and the apex     *)
(* only when the neighbouring sample lies too far below it.                *)
LEMMA WindowOfApex ==
  ASSUME NEW s, Len(s) \in Nat, NEW a \in 1 .. Len(s)
  PROVE  /\ FindEntry(s, a) \in 1 .. a
         /\ FindExit(s, a) \in a .. Len(s)
         /\ a > 1 /\ s[a - 1] >= s[a] - Tolerance => FindEntry(s, a) < a
         /\ a < Len(s) /\ s[a + 1] >= s[a] - Tolerance => FindExit(s, a) > a
<1> DEFINE E == {e \in 1 .. a : \A k \in e + 1 .. a : s[k - 1] >= s[k] - Tolerance}
           X == {e \in a .. Len(s) : \A k \in a .. e - 1 : s[k + 1] >= s[k] - Tolerance}
<1>1. /\ a \in E /\ E \in SUBSET (1 .. a) /\ a \in Nat
      /\ a \in X /\ X \in SUBSET (a .. Len(s))
  OBVIOUS
<1>2. a > 1 /\ s[a - 1] >= s[a] - Tolerance => a - 1 \in E
  <2> SUFFICES ASSUME a > 1, s[a - 1] >= s[a] - Tolerance PROVE a - 1 \in E
    OBVIOUS
  <2>1. a - 1 \in 1 .. a /\ \A k \in (a - 1) + 1 .. a : k = a
    OBVIOUS
  <2> QED
    BY <2>1
<1>3. a < Len(s) /\ s[a + 1] >= s[a] - Tolerance => a + 1 \in X
  <2> SUFFICES ASSUME a < Len(s), s[a + 1] >= s[a] - Tolerance PROVE a + 1 \in X
    OBVIOUS
  <2>1. a + 1 \in a .. Len(s) /\ \A k \in a .. (a + 1) - 1 : k = a
    OBVIOUS
  <2> QED
    BY <2>1
<1>4. FindEntry(s, a) = Min(E) /\ FindExit(s, a) = Max(X)
  BY DEF FindEntry, FindExit
<1> HIDE DEF E, X
<1>5. Min(E) \in E /\ \A y \in E : Min(E) <= y
  BY <1>1, MinOfNaturals
<1>6. Max(X) \in X /\ \A y \in X : Max(X) >= y
  BY <1>1, GreatestUpTo
<1>7. /\ Min(E) \in 1 .. a /\ Max(X) \in a .. Len(s)
  BY <1>1, <1>5, <1>6
<1>8. a - 1 \in E => Min(E) <= a - 1
  BY <1>5
<1>9. a + 1 \in X => Max(X) >= a + 1
  BY <1>6
<1> QED
  BY <1>1, <1>2, <1>3, <1>4, <1>7, <1>8, <1>9

(* The lap and its smoothed profile; a window of 1 smooths nothing.        *)
LapOK ==
  /\ distances \in DistanceProfiles /\ speeds \in [1 .. N -> Speeds]
  /\ stage \in {"smooth", "scan", "select", "build", "done"}
  /\ position \in Nat /\ position >= 2
  /\ stage # "smooth" =>
       Len(smoothed) = N /\ (window = 1 => smoothed = speeds)

(* Ranges are valleys of the smoothed profile that do not overlap, and a   *)
(* sharp dip that the scan has passed is a range of its own.               *)
RangesOK ==
  /\ stage = "smooth" => ranges = {} /\ position = 2
  /\ \A r \in ranges :
       /\ r \in Nat \X Nat
       /\ 2 <= r[1] /\ r[1] < N /\ r[1] <= r[2] /\ r[2] <= N /\ r[2] < position
       /\ MayStart(smoothed, r[1]) /\ Valley(smoothed, r[1], r[2])
  /\ \A r, q \in ranges : r = q \/ r[2] < q[1] \/ q[2] < r[1]
  /\ window = 1 => \A i \in 1 .. N : Sharp(i) /\ i < position => <<i, i>> \in ranges

(* The facts about the lap that the stages use.                            *)
LEMMA LapFacts ==
  ASSUME LapOK
  PROVE  /\ N \in Nat /\ Len(speeds) = N /\ \A i \in 1 .. N : speeds[i] \in Int
         /\ distances \in Seq(Int) /\ \A i \in 1 .. N : distances[i] \in Int
         /\ \A i, j \in 1 .. N : i <= j => distances[i] <= distances[j]
         /\ Tolerance \in Nat /\ MinProminence \in Nat /\ MinSeparation \in Nat
<1>1. /\ distances \in Seq(Int)
      /\ \A i, j \in 1 .. Len(distances) : i <= j => distances[i] <= distances[j]
      /\ Tolerance \in Nat /\ MinProminence \in Nat /\ MinSeparation \in Nat
      /\ Speeds \subseteq Int
  BY LapAssumption DEF LapOK
<1>2. N = Len(distances) /\ N \in Nat
  BY <1>1 DEF N
<1>3. speeds \in [1 .. N -> Speeds]
  BY DEF LapOK
<1>4. Len(speeds) = N
  BY <1>2, <1>3, FunctionIsSeq
<1>5. \A i \in 1 .. N : speeds[i] \in Int
  BY <1>1, <1>3
<1>6. \A i \in 1 .. N : distances[i] \in Int
  BY <1>1, <1>2
<1> QED
  BY <1>1, <1>2, <1>4, <1>5, <1>6

(* Smoothing leaves the number of samples alone.                           *)
LEMMA SmoothLength ==
  ASSUME NEW n \in Nat, NEW S, NEW s \in [1 .. n -> S], NEW w
  PROVE  Len(SmoothSpeeds(s, w)) = n
<1> DEFINE radius == (IF w % 2 = 0 THEN w + 1 ELSE w) \div 2
           m(i) == Median(SubSeq(s, Max({1, i - radius}), Min({Len(s), i + radius})))
           f == [i \in 1 .. n |-> m(i)]
<1>1. Len(s) = n /\ DOMAIN s = 1 .. n
  BY FunctionIsSeq
<1>2. SmoothSpeeds(s, w) = s \/ SmoothSpeeds(s, w) = f
  BY <1>1 DEF SmoothSpeeds
<1>3. f \in [1 .. n -> {m(i) : i \in 1 .. n}]
  <2> HIDE DEF m
  <2> QED
    OBVIOUS
<1> HIDE DEF f, m
<1>4. Len(f) = n
  BY <1>3, FunctionIsSeq
<1> QED
  BY <1>1, <1>2, <1>4

(* One iteration of the scan: where it goes on, and the range it may add.  *)
LEMMA ScanFacts ==
  ASSUME NEW s, Len(s) \in Nat, NEW i \in Nat, 2 <= i, i < Len(s)
  PROVE  /\ NextStart(s, i) \in i + 1 .. Len(s) + 1
         /\ \A r \in RangesAt(s, i) :
              /\ r = <<i, LevelUntil(s, i)>> /\ LevelUntil(s, i) \in i .. Len(s)
              /\ LevelUntil(s, i) < NextStart(s, i)
              /\ MayStart(s, i) /\ Valley(s, i, LevelUntil(s, i))
         /\ \A k \in i + 1 .. NextStart(s, i) - 1 : Dist(s[k], s[k - 1]) <= Tolerance
<1> DEFINE e == LevelUntil(s, i)
<1>1. i \in 1 .. Len(s)
  OBVIOUS
<1>2. e \in i .. Len(s) /\ \A k \in i .. e - 1 : Dist(s[k + 1], s[k]) <= Tolerance
  BY <1>1, LevelStretch
<1>3. \A r \in RangesAt(s, i) : r = <<i, e>> /\ MayStart(s, i) /\ Valley(s, i, e)
  BY DEF RangesAt
<1> HIDE DEF e
<1>4. NextStart(s, i) = IF MayStart(s, i) THEN e + 1 ELSE i + 1
  BY DEF NextStart, e
<1>5. NextStart(s, i) \in i + 1 .. Len(s) + 1
  BY <1>2, <1>4
<1>6. ASSUME NEW k \in i + 1 .. NextStart(s, i) - 1 PROVE Dist(s[k], s[k - 1]) <= Tolerance
  <2>1. CASE MayStart(s, i)
    <3>1. k - 1 \in i .. e - 1 /\ (k - 1) + 1 = k
      BY <1>2, <1>4, <2>1
    <3> QED
      BY <1>2, <3>1
  <2>2. CASE ~ MayStart(s, i)
    BY <1>4, <2>2
  <2> QED
    BY <2>1, <2>2
<1>7. \A r \in RangesAt(s, i) : e < NextStart(s, i)
  BY <1>2, <1>3, <1>4
<1> QED
  BY <1>2, <1>3, <1>5, <1>6, <1>7 DEF e

(* The lesser and the greater of two integers.                             *)
LEMMA OfTwo ==
  ASSUME NEW a \in Int, NEW b \in Int
  PROVE  /\ Min({a, b}) = IF a <= b THEN a ELSE b
         /\ Max({a, b}) = IF a >= b THEN a ELSE b
<1>1. IsFiniteSet({a, b}) /\ {a, b} \in SUBSET Int /\ {a, b} # {}
  <2>1. IsFiniteSet({a}) /\ {a, b} = {a} \cup {b}
    BY FS_Singleton
  <2>2. IsFiniteSet({a} \cup {b})
    BY <2>1, FS_AddElement
  <2> QED
    BY <2>1, <2>2
<1>2. Min({a, b}) \in {a, b} /\ \A y \in {a, b} : Min({a, b}) <= y
  BY <1>1, LeastOfIntegers
<1>3. Max({a, b}) \in {a, b} /\ \A y \in {a, b} : Max({a, b}) >= y
  BY <1>1, GreatestOfIntegers
<1> QED
  BY <1>2, <1>3

(* A sharp dip is a stretch of its own, and a valley.                      *)
LEMMA SharpIsRange ==
  ASSUME LapOK, NEW i \in 1 .. N, Sharp(i)
  PROVE  /\ <<i, i>> \in RangesAt(speeds, i)
         /\ Dist(speeds[i], speeds[i - 1]) > Tolerance
<1>1. /\ N \in Nat /\ Len(speeds) = N /\ Tolerance \in Nat
      /\ \A k \in 1 .. N : speeds[k] \in Int
  BY LapFacts
<1>2. /\ i - 1 \in 1 .. N /\ i + 1 \in 1 .. N
      /\ speeds[i - 1] > speeds[i] + Tolerance /\ speeds[i + 1] > speeds[i] + Tolerance
  BY <1>1 DEF Sharp
<1>3. speeds[i] \in Int /\ speeds[i - 1] \in Int /\ speeds[i + 1] \in Int
  BY <1>1, <1>2
<1>4. LevelUntil(speeds, i) = i
  <2> DEFINE e == LevelUntil(speeds, i)
  <2>1. e \in i .. N /\ \A k \in i .. e - 1 : Dist(speeds[k + 1], speeds[k]) <= Tolerance
    BY <1>1, LevelStretch
  <2> HIDE DEF e
  <2>2. ASSUME e # i PROVE FALSE
    <3>1. i \in i .. e - 1
      BY <2>1, <2>2
    <3>2. Dist(speeds[i + 1], speeds[i]) <= Tolerance
      BY <2>1, <3>1
    <3> QED
      BY <1>1, <1>2, <1>3, <3>2 DEF Dist
  <2> QED
    BY <2>2 DEF e
<1>5. LowestIn(speeds, i, i) = speeds[i]
  <2>1. \A k \in i .. i : speeds[k] \in Int /\ k = i
    BY <1>3
  <2> QED
    BY <2>1, LowestOfStretch
<1>6. Min({i + 1, Len(speeds)}) = i + 1
  BY <1>1, <1>2, OfTwo
<1>7. MayStart(speeds, i)
  BY <1>1, <1>2, <1>3 DEF MayStart
<1>8. Valley(speeds, i, i)
  BY <1>1, <1>2, <1>3, <1>5, <1>6 DEF Valley
<1>9. <<i, i>> \in RangesAt(speeds, i)
  BY <1>4, <1>7, <1>8 DEF RangesAt
<1>10. Dist(speeds[i], speeds[i - 1]) > Tolerance
  BY <1>1, <1>2, <1>3 DEF Dist
<1> QED
  BY <1>9, <1>10

(* Scanning keeps the ranges apart and passes no sharp dip by.             *)
LEMMA ScanKeeps ==
  ASSUME LapOK, RangesOK, Scan
  PROVE  LapOK' /\ RangesOK'
<1> DEFINE p == NextStart(smoothed, position)
           R == RangesAt(smoothed, position)
<1>1. /\ stage = "scan" /\ position < N /\ ranges' = ranges \cup R /\ position' = p
      /\ UNCHANGED <<speeds, distances, window, stage, smoothed>>
  BY DEF Scan, lapVars
<1>2. /\ position \in Nat /\ 2 <= position /\ Len(smoothed) = N
      /\ window = 1 => smoothed = speeds
  BY <1>1 DEF LapOK
<1>3. N \in Nat /\ N' = N
  BY <1>1, LapFacts DEF N
<1> DEFINE e == LevelUntil(smoothed, position)
<1>4. /\ p \in position + 1 .. N + 1
      /\ \A r \in R : /\ r = <<position, e>> /\ e \in position .. N /\ e < p
                      /\ MayStart(smoothed, position) /\ Valley(smoothed, position, e)
      /\ \A k \in position + 1 .. p - 1 : Dist(smoothed[k], smoothed[k - 1]) <= Tolerance
  BY <1>1, <1>2, <1>3, ScanFacts
<1> HIDE DEF p, e
<1>5. LapOK'
  BY <1>1, <1>2, <1>3, <1>4 DEF LapOK
<1>6. ASSUME NEW r \in ranges'
      PROVE  /\ r \in Nat \X Nat
             /\ 2 <= r[1] /\ r[1] < N /\ r[1] <= r[2] /\ r[2] <= N /\ r[2] < p
             /\ MayStart(smoothed, r[1]) /\ Valley(smoothed, r[1], r[2])
  <2>1. CASE r \in ranges
    <3>1. /\ r \in Nat \X Nat
          /\ 2 <= r[1] /\ r[1] < N /\ r[1] <= r[2] /\ r[2] <= N /\ r[2] < position
          /\ MayStart(smoothed, r[1]) /\ Valley(smoothed, r[1], r[2])
      BY <2>1 DEF RangesOK
    <3>2. r[2] \in Nat
      BY <3>1
    <3>3. r[2] < p
      BY <1>2, <1>4, <3>1, <3>2
    <3> QED
      BY <3>1, <3>3
  <2>2. CASE r \in R
    <3>1. /\ r = <<position, e>> /\ e \in position .. N /\ e < p
          /\ MayStart(smoothed, position) /\ Valley(smoothed, position, e)
      BY <1>4, <2>2
    <3>2. r[1] = position /\ r[2] = e
      BY <3>1
    <3> QED
      BY <1>1, <1>2, <1>3, <3>1, <3>2
  <2> QED
    BY <1>1, <1>6, <2>1, <2>2
<1>7. \A r \in ranges, q \in R : r[2] < q[1]
  <2>1. \A r \in ranges : r[2] < position
    BY DEF RangesOK
  <2>2. \A q \in R : q[1] = position
    BY <1>4
  <2> QED
    BY <2>1, <2>2
<1>8. ASSUME NEW r \in ranges', NEW q \in ranges'
      PROVE  r = q \/ r[2] < q[1] \/ q[2] < r[1]
  <2>1. CASE r \in ranges /\ q \in ranges
    BY <2>1 DEF RangesOK
  <2>2. CASE r \in R /\ q \in R
    BY <1>4, <2>2
  <2> QED
    BY <1>1, <1>7, <2>1, <2>2
<1>9. ASSUME window = 1, NEW i \in 1 .. N, Sharp(i), i < p
      PROVE  <<i, i>> \in ranges'
  <2>1. smoothed = speeds
    BY <1>2, <1>9
  <2>2. <<i, i>> \in RangesAt(speeds, i) /\ Dist(speeds[i], speeds[i - 1]) > Tolerance
    BY <1>9, SharpIsRange
  <2>3. CASE i < position
    BY <1>1, <1>9, <2>3 DEF RangesOK
  <2>4. CASE i = position
    BY <1>1, <2>1, <2>2, <2>4
  <2>5. CASE i > position
    <3>1. i \in position + 1 .. p - 1
      BY <1>2, <1>3, <1>4, <1>9, <2>5
    <3>2. Dist(speeds[i], speeds[i - 1]) <= Tolerance
      BY <1>4, <2>1, <3>1
    <3>3. Dist(speeds[i], speeds[i - 1]) \in Int /\ Tolerance \in Int
      <4>1. /\ \A k \in 1 .. N : speeds[k] \in Int
            /\ Tolerance \in Nat
        BY LapFacts
      <4>2. i - 1 \in 1 .. N /\ i \in 1 .. N
        BY <1>2, <1>3, <2>5
      <4> QED
        BY <4>1, <4>2 DEF Dist
    <3> QED
      BY <2>2, <3>2, <3>3
  <2> QED
    BY <1>2, <2>3, <2>4, <2>5
<1>10. RangesOK'
  <2>1. \A i \in 1 .. N : Sharp(i)' <=> Sharp(i)
    BY <1>1, <1>3 DEF Sharp
  <2>2. /\ \A r \in ranges' :
             /\ r \in Nat \X Nat
             /\ 2 <= r[1] /\ r[1] < N' /\ r[1] <= r[2] /\ r[2] <= N' /\ r[2] < position'
             /\ MayStart(smoothed', r[1]) /\ Valley(smoothed', r[1], r[2])
    BY <1>1, <1>3, <1>6
  <2>3. window' = 1 =>
          \A i \in 1 .. N' : Sharp(i)' /\ i < position' => <<i, i>> \in ranges'
    BY <1>1, <1>3, <1>9, <2>1
  <2>4. stage' # "smooth"
    BY <1>1
  <2> QED
    BY <1>8, <2>2, <2>3, <2>4 DEF RangesOK
<1> QED
  BY <1>5, <1>10

Found == CandidateCorners(speeds, smoothed)

(* A candidate is the lowest sample of its range, by the raw speeds, and   *)
(* its apex determines it.                                                 *)
LEMMA CandidateFacts ==
  ASSUME LapOK, RangesOK, NEW c \in Found
  PROVE  /\ \E r \in ranges :
              /\ c.apex \in r[1] .. r[2]
              /\ speeds[c.apex] = LowestIn(speeds, r[1], r[2])
              /\ \A k \in r[1] .. r[2] : speeds[c.apex] <= speeds[k]
         /\ c.apex \in 2 .. N
         /\ \A d \in Found : d.apex = c.apex => d = c
<1>1. PICK r \in ranges : c = Candidate(speeds, smoothed, r)
  BY DEF Found, CandidateCorners
<1>2. /\ r \in Nat \X Nat /\ 2 <= r[1] /\ r[1] <= r[2] /\ r[2] <= N
  BY DEF RangesOK
<1>3. r[1] \in Nat /\ r[2] \in Nat
  BY <1>2
<1>4. N \in Nat /\ \A k \in r[1] .. r[2] : speeds[k] \in Int
  <2>1. N \in Nat /\ \A k \in 1 .. N : speeds[k] \in Int
    BY LapFacts
  <2> QED
    BY <1>2, <1>3, <2>1
<1>5. /\ Apex(speeds, r) \in r[1] .. r[2]
      /\ speeds[Apex(speeds, r)] = LowestIn(speeds, r[1], r[2])
      /\ \A k \in r[1] .. r[2] : speeds[Apex(speeds, r)] <= speeds[k]
  BY <1>2, <1>3, <1>4, ApexOfRange
<1>6. c.apex = Apex(speeds, r)
  BY <1>1 DEF Candidate
<1>7. c.apex \in 2 .. N
  BY <1>2, <1>3, <1>4, <1>5, <1>6
<1>8. ASSUME NEW d \in Found, d.apex = c.apex PROVE d = c
  <2>1. PICK q \in ranges : d = Candidate(speeds, smoothed, q)
    BY DEF Found, CandidateCorners
  <2>2. Apex(speeds, q) = Apex(speeds, r)
    BY <1>6, <1>8, <2>1 DEF Candidate
  <2> QED
    BY <1>1, <2>1, <2>2 DEF Candidate
<1> QED
  BY <1>5, <1>6, <1>7, <1>8

(* A sharp dip is prominent enough: its neighbours are part of what        *)
(* _prominence looks at.                                                   *)
LEMMA SharpIsFound ==
  ASSUME LapOK, RangesOK, smoothed = speeds, NEW i \in 1 .. N, Sharp(i), <<i, i>> \in ranges
  PROVE  \E c \in Found : c.apex = i
<1> DEFINE r == <<i, i>>
           c == Candidate(speeds, smoothed, r)
           left == {j \in 1 .. i - 1 : \A k \in j + 1 .. i - 1 : ~ (speeds[k - 1] < speeds[k])}
           right == {j \in i + 1 .. N : \A k \in i + 1 .. j - 1 : ~ (speeds[k + 1] < speeds[k])}
           Peaks(side) == {speeds[i]} \cup {speeds[k] : k \in side}
<1>1. /\ N \in Nat /\ Len(speeds) = N /\ MinProminence \in Nat
      /\ \A k \in 1 .. N : speeds[k] \in Int
  BY LapFacts
<1>2. /\ i - 1 \in 1 .. N /\ i + 1 \in 1 .. N
      /\ speeds[i - 1] >= speeds[i] + MinProminence
      /\ speeds[i + 1] >= speeds[i] + MinProminence
  BY <1>1 DEF Sharp
<1>3. Apex(speeds, r) = i
  <2>1. r[1] \in Nat /\ r[2] \in Nat /\ r[1] <= r[2] /\ \A k \in r[1] .. r[2] : k = i /\ speeds[k] \in Int
    BY <1>1
  <2>2. Apex(speeds, r) \in r[1] .. r[2]
    BY <2>1, ApexOfRange
  <2> QED
    BY <2>1, <2>2
<1>4. /\ left \in SUBSET (1 .. N) /\ i - 1 \in left
      /\ right \in SUBSET (1 .. N) /\ i + 1 \in right
  <2>1. left \in SUBSET (1 .. N) /\ right \in SUBSET (1 .. N)
    BY <1>1
  <2>2. i - 1 \in left
    BY <1>1, <1>2
  <2>3. i + 1 \in right
    BY <1>1, <1>2
  <2> QED
    BY <2>1, <2>2, <2>3
<1>5. Prominence(speeds, i) = Min({Max(Peaks(left)), Max(Peaks(right))}) - speeds[i]
  BY <1>1 DEF Prominence
<1> HIDE DEF left, right
<1>6. ASSUME NEW side \in SUBSET (1 .. N), NEW k \in side
      PROVE  Max(Peaks(side)) \in Int /\ Max(Peaks(side)) >= speeds[k]
  <2> DEFINE T == {speeds[l] : l \in side}
  <2>1. IsFiniteSet(side) /\ \A l \in side : speeds[l] \in Int
    <3>1. IsFiniteSet(1 .. N)
      BY <1>1, FS_Interval
    <3> QED
      BY <1>1, <3>1, FS_Subset
  <2>2. IsFiniteSet(T) /\ T \in SUBSET Int
    BY <2>1, SamplesFinite
  <2>3. speeds[k] \in T
    OBVIOUS
  <2>4. Peaks(side) = T \cup {speeds[i]} /\ speeds[i] \in Int
    BY <1>1
  <2> HIDE DEF T, Peaks
  <2>5. IsFiniteSet(Peaks(side)) /\ Peaks(side) \in SUBSET Int /\ speeds[k] \in Peaks(side)
    <3>1. IsFiniteSet(T \cup {speeds[i]})
      BY <2>2, FS_AddElement
    <3> QED
      BY <2>2, <2>3, <2>4, <3>1
  <2>6. Max(Peaks(side)) \in Peaks(side) /\ \A y \in Peaks(side) : Max(Peaks(side)) >= y
    BY <2>5, GreatestOfIntegers
  <2> QED
    BY <2>5, <2>6
<1> HIDE DEF Peaks
<1>7. /\ Max(Peaks(left)) \in Int /\ Max(Peaks(left)) >= speeds[i - 1]
      /\ Max(Peaks(right)) \in Int /\ Max(Peaks(right)) >= speeds[i + 1]
  BY <1>4, <1>6
<1>8. Prominence(speeds, i) >= MinProminence
  <2> DEFINE x == Max(Peaks(left))
             y == Max(Peaks(right))
  <2>1. speeds[i] \in Int /\ speeds[i - 1] \in Int /\ speeds[i + 1] \in Int
    BY <1>1, <1>2
  <2>2. x \in Int /\ y \in Int /\ x >= speeds[i] + MinProminence /\ y >= speeds[i] + MinProminence
    BY <1>1, <1>2, <1>7, <2>1
  <2> HIDE DEF x, y
  <2>3. Min({x, y}) \in Int /\ Min({x, y}) >= speeds[i] + MinProminence
    BY <2>2, OfTwo
  <2>4. Prominence(speeds, i) = Min({x, y}) - speeds[i]
    BY <1>5 DEF x, y
  <2> HIDE DEF Peaks
  <2> QED
    BY <1>1, <2>1, <2>3, <2>4
<1>9. c.apex = i /\ c.prominence = Prominence(speeds, i)
  BY <1>3 DEF Candidate
<1>10. c \in Found
  <2>1. c \in {Candidate(speeds, smoothed, q) : q \in ranges}
    OBVIOUS
  <2> HIDE DEF c
  <2> QED
    BY <1>8, <1>9, <2>1 DEF Found, CandidateCorners
<1> QED
  BY <1>9, <1>10

CornerType == [entry : Nat, apex : Nat, exit : Nat]

(* The middle between two indices.                                         *)
LEMMA MiddleFacts ==
  ASSUME NEW p \in Nat \ {0}, NEW q \in Nat \ {0}
  PROVE  /\ Middle(p, q) \in Nat
         /\ p < q => Middle(p, q) < q /\ p <= Middle(p, q)
         /\ p + 1 < q => p < Middle(p, q)
         /\ \A u, v \in Nat \ {0} : p <= u /\ q <= v => Middle(p, q) <= Middle(u, v)
BY DEF Middle

(* The window of a selected candidate: clipped no further than to the      *)
(* middle between its apex and some neighbour's, and at least so far for   *)
(* every other one.                                                        *)
LEMMA CornerFacts ==
  ASSUME LapOK, \A c \in kept : c.apex \in 2 .. N, NEW c \in kept
  PROVE  LET k == Corner(c)
         IN  /\ k \in CornerType /\ k.apex = c.apex
             /\ k.entry \in 1 .. N /\ k.exit \in 1 .. N
             /\ \A d \in kept : d.apex < c.apex => Middle(d.apex, c.apex) <= k.entry
             /\ \A d \in kept : c.apex < d.apex => k.exit <= Middle(c.apex, d.apex)
             /\ \/ k.entry = FindEntry(speeds, c.apex)
                \/ \E d \in kept : d.apex < c.apex /\ k.entry = Middle(d.apex, c.apex)
             /\ \/ k.exit = FindExit(speeds, c.apex)
                \/ \E d \in kept : c.apex < d.apex /\ k.exit = Middle(c.apex, d.apex)
<1> DEFINE a == c.apex
           before == {k.apex : k \in {d \in kept : d.apex < a}}
           after == {k.apex : k \in {d \in kept : d.apex > a}}
           en == FindEntry(speeds, a)
           ex == FindExit(speeds, a)
           e1 == IF before = {} THEN en ELSE Max({en, Middle(Max(before), a)})
           x1 == IF after = {} THEN ex ELSE Min({ex, Middle(a, Min(after))})
<1>1. N \in Nat /\ Len(speeds) = N
  BY LapFacts
<1>2. a \in 2 .. N /\ a \in 1 .. N /\ a \in Nat \ {0}
  BY <1>1
<1>3. en \in 1 .. a /\ ex \in a .. N
  BY <1>1, <1>2, WindowOfApex
<1>4. Corner(c) = [entry |-> e1, apex |-> a, exit |-> x1]
  BY DEF Corner
<1>5. /\ before \in SUBSET (2 .. N) /\ after \in SUBSET (2 .. N)
      /\ \A d \in kept : d.apex < a => d.apex \in before
      /\ \A d \in kept : a < d.apex => d.apex \in after
      /\ \A p \in before : p < a /\ \E d \in kept : d.apex = p
      /\ \A q \in after : a < q /\ \E d \in kept : d.apex = q
  <2>1. \A d \in kept : d.apex \in Int /\ a \in Int
    BY <1>1
  <2> QED
    BY <2>1
<1> HIDE DEF a, before, after, en, ex
<1>6. /\ e1 \in 1 .. N
      /\ \A p \in before : Middle(p, a) <= e1
      /\ e1 = en \/ \E p \in before : e1 = Middle(p, a)
  <2>1. CASE before = {}
    BY <1>1, <1>2, <1>3, <2>1
  <2>2. CASE before # {}
    <3> DEFINE p == Max(before)
               m == Middle(p, a)
    <3>1. p \in before /\ \A y \in before : p >= y
      BY <1>1, <1>5, <2>2, GreatestUpTo
    <3>2. p \in Nat \ {0} /\ p < a /\ \A y \in before : y \in Nat \ {0} /\ y <= p
      <4> HIDE DEF p
      <4>1. \A y \in before : y \in Nat \ {0}
        BY <1>1, <1>5
      <4>2. p < a
        BY <1>5, <3>1
      <4> QED
        BY <3>1, <4>1, <4>2
    <3>3. m \in Nat /\ m < a /\ p <= m /\ \A y \in before : Middle(y, a) <= m
      <4> HIDE DEF p
      <4>1. m \in Nat /\ m < a /\ p <= m
        BY <1>2, <3>2, MiddleFacts
      <4>2. ASSUME NEW y \in before PROVE Middle(y, a) <= m
        <5>1. y \in Nat \ {0} /\ y <= p /\ a <= a
          BY <1>2, <3>2
        <5> QED
          BY <1>2, <3>2, <5>1, MiddleFacts
      <4> QED
        BY <4>1, <4>2
    <3>4. e1 = IF en >= m THEN en ELSE m
      <4>1. e1 = Max({en, m})
        BY <2>2
      <4> HIDE DEF m, e1
      <4>2. en \in Int /\ m \in Int
        BY <1>3, <3>3
      <4> QED
        BY <4>1, <4>2, OfTwo
    <3>5. \A y \in before : Middle(y, a) \in Nat
      BY <1>2, <3>2, MiddleFacts
    <3>6. e1 \in 1 .. N /\ m <= e1 /\ (e1 = en \/ e1 = m)
      <4> HIDE DEF p, m, e1
      <4> QED
        BY <1>1, <1>2, <1>3, <3>2, <3>3, <3>4
    <3>7. \A y \in before : Middle(y, a) <= e1
      <4> HIDE DEF p, m, e1
      <4> QED
        BY <3>3, <3>5, <3>6
    <3> QED
      BY <3>1, <3>6, <3>7
  <2> QED
    BY <2>1, <2>2
<1>7. /\ x1 \in 1 .. N
      /\ \A q \in after : x1 <= Middle(a, q)
      /\ x1 = ex \/ \E q \in after : x1 = Middle(a, q)
  <2>1. CASE after = {}
    BY <1>1, <1>2, <1>3, <2>1
  <2>2. CASE after # {}
    <3> DEFINE q == Min(after)
               m == Middle(a, q)
    <3>0. after \in SUBSET Nat
      BY <1>1, <1>5
    <3>1. q \in after /\ \A y \in after : q <= y
      BY <2>2, <3>0, MinOfNaturals
    <3>2. q \in Nat \ {0} /\ a < q /\ \A y \in after : y \in Nat \ {0} /\ q <= y
      <4> HIDE DEF q
      <4>1. \A y \in after : y \in Nat \ {0}
        BY <1>1, <1>5
      <4>2. a < q
        BY <1>5, <3>1
      <4> QED
        BY <3>1, <4>1, <4>2
    <3>3. m \in Nat /\ m < q /\ a <= m /\ \A y \in after : m <= Middle(a, y)
      <4> HIDE DEF q
      <4>1. m \in Nat /\ m < q /\ a <= m
        BY <1>2, <3>2, MiddleFacts
      <4>2. ASSUME NEW y \in after PROVE m <= Middle(a, y)
        <5>1. y \in Nat \ {0} /\ q <= y /\ a <= a
          BY <1>2, <3>2
        <5> QED
          BY <1>2, <3>2, <5>1, MiddleFacts
      <4> QED
        BY <4>1, <4>2
    <3>4. x1 = IF ex <= m THEN ex ELSE m
      <4>1. x1 = Min({ex, m})
        BY <2>2
      <4> HIDE DEF m, x1
      <4>2. ex \in Int /\ m \in Int
        BY <1>3, <3>3
      <4> QED
        BY <4>1, <4>2, OfTwo
    <3>5. \A y \in after : Middle(a, y) \in Nat
      BY <1>2, <3>2, MiddleFacts
    <3>6. x1 \in 1 .. N /\ x1 <= m /\ (x1 = ex \/ x1 = m)
      <4> HIDE DEF q, m, x1
      <4> QED
        BY <1>1, <1>2, <1>3, <3>2, <3>3, <3>4
    <3>7. \A y \in after : x1 <= Middle(a, y)
      <4> HIDE DEF q, m, x1
      <4> QED
        BY <3>3, <3>5, <3>6
    <3> QED
      BY <3>1, <3>6, <3>7
  <2> QED
    BY <2>1, <2>2
<1> HIDE DEF e1, x1
<1>8. /\ Corner(c).entry = e1 /\ Corner(c).apex = a /\ Corner(c).exit = x1
      /\ Corner(c) \in CornerType
  BY <1>1, <1>2, <1>4, <1>6, <1>7 DEF CornerType
<1> QED
  BY <1>5, <1>6, <1>7, <1>8 DEF a, en, ex

(* What the selection has done: the candidates kept are apart, and every   *)
(* candidate that is no longer pending is kept or too close to a kept one. *)
SelectionOK ==
  /\ stage \in {"smooth", "scan"} => pending = {} /\ kept = {} /\ corners = <<>>
  /\ stage \in {"select", "build", "done"} =>
       /\ position >= N
       /\ pending \subseteq Found /\ kept \subseteq Found
       /\ \A c \in Found : c \in kept \/ TooClose(c) \/ (stage = "select" /\ c \in pending)
  /\ \A c, d \in kept : c # d =>
       Dist(distances[c.apex], distances[d.apex]) >= MinSeparation
  /\ stage = "select" => corners = <<>>

(* The corners are the valid windows of the candidates built so far, in    *)
(* the order of their apexes.                                              *)
CornersOK ==
  /\ corners \in Seq(CornerType)
  /\ stage \in {"build", "done"} =>
       /\ pending \subseteq kept
       /\ \A i \in 1 .. Len(corners) : \E c \in kept \ pending :
            corners[i] = Corner(c) /\ Valid(Corner(c))
       /\ \A i, j \in 1 .. Len(corners) : i < j => corners[i].apex < corners[j].apex
       /\ \A c \in kept \ pending, d \in pending : c.apex < d.apex
       /\ \A c \in kept \ pending : Valid(Corner(c)) =>
            \E i \in 1 .. Len(corners) : corners[i] = Corner(c)
  /\ stage = "done" => pending = {}

CornerInv == LapOK /\ RangesOK /\ SelectionOK /\ CornersOK

(* Two windows of selected candidates share at most a boundary sample, for *)
(* both are clipped at the middle of some pair of apexes between theirs.   *)
LEMMA CornersInOrder ==
  ASSUME LapOK, \A c \in kept : c.apex \in 2 .. N,
         NEW c \in kept, NEW d \in kept, c.apex < d.apex
  PROVE  Corner(c).exit <= Corner(d).entry
<1>1. N \in Nat
  BY LapFacts
<1>2. c.apex \in Nat \ {0} /\ d.apex \in Nat \ {0}
  BY <1>1
<1>3. Corner(c).exit <= Middle(c.apex, d.apex) /\ Corner(c).exit \in 1 .. N
  BY CornerFacts
<1>4. Middle(c.apex, d.apex) <= Corner(d).entry /\ Corner(d).entry \in 1 .. N
  BY CornerFacts
<1>5. Middle(c.apex, d.apex) \in Nat
  BY <1>2, MiddleFacts
<1> QED
  BY <1>1, <1>3, <1>4, <1>5

(* Without smoothing two apexes are never next to each other: the sample   *)
(* behind a valley is too high to start another.                           *)
LEMMA ApexesApart ==
  ASSUME LapOK, RangesOK, smoothed = speeds, NEW c \in Found, NEW d \in Found,
         c.apex < d.apex
  PROVE  c.apex + 1 < d.apex
<1>1. /\ N \in Nat /\ Len(speeds) = N /\ Tolerance \in Nat
      /\ \A k \in 1 .. N : speeds[k] \in Int
  BY LapFacts
<1>2. c.apex \in 2 .. N /\ d.apex \in 2 .. N
  BY CandidateFacts
<1>3. PICK r \in ranges : /\ c.apex \in r[1] .. r[2]
                          /\ speeds[c.apex] = LowestIn(speeds, r[1], r[2])
                          /\ \A k \in r[1] .. r[2] : speeds[c.apex] <= speeds[k]
  BY CandidateFacts
<1>4. PICK q \in ranges : /\ d.apex \in q[1] .. q[2]
                          /\ speeds[d.apex] = LowestIn(speeds, q[1], q[2])
                          /\ \A k \in q[1] .. q[2] : speeds[d.apex] <= speeds[k]
  BY CandidateFacts
<1>5. /\ r[1] \in Nat /\ r[2] \in Nat /\ q[1] \in Nat /\ q[2] \in Nat
      /\ r[1] <= r[2] /\ q[1] <= q[2] /\ q[1] < N /\ 2 <= q[1] /\ 2 <= r[1] /\ r[2] <= N
  <2>1. r \in Nat \X Nat /\ q \in Nat \X Nat
    BY DEF RangesOK
  <2>2. r[1] \in Nat /\ r[2] \in Nat /\ q[1] \in Nat /\ q[2] \in Nat
    BY <2>1
  <2>3. /\ r[1] <= r[2] /\ q[1] <= q[2] /\ q[1] < N /\ 2 <= q[1] /\ 2 <= r[1] /\ r[2] <= N
    BY DEF RangesOK
  <2> QED
    BY <2>2, <2>3
<1>6. MayStart(speeds, q[1]) /\ Valley(speeds, r[1], r[2])
  BY DEF RangesOK
<1> SUFFICES ASSUME c.apex + 1 = d.apex PROVE FALSE
  BY <1>1, <1>2
<1>7. CASE r = q
  <2>1. speeds[c.apex] = speeds[d.apex]
    BY <1>3, <1>4, <1>7
  <2>2. PICK u \in ranges : c = Candidate(speeds, smoothed, u)
    BY DEF Found, CandidateCorners
  <2>3. PICK v \in ranges : d = Candidate(speeds, smoothed, v)
    BY DEF Found, CandidateCorners
  <2>4. c.apex = Apex(speeds, u) /\ d.apex = Apex(speeds, v)
    BY <2>2, <2>3 DEF Candidate
  <2>5. c.apex \in u[1] .. u[2] /\ d.apex \in v[1] .. v[2]
    <3>1. ASSUME NEW w \in ranges PROVE Apex(speeds, w) \in w[1] .. w[2]
      <4>1. w \in Nat \X Nat /\ 2 <= w[1] /\ w[1] <= w[2] /\ w[2] <= N
        BY DEF RangesOK
      <4>2. w[1] \in Nat /\ w[2] \in Nat
        BY <4>1
      <4>3. \A k \in w[1] .. w[2] : speeds[k] \in Int
        BY <1>1, <4>1, <4>2
      <4> QED
        BY <4>1, <4>2, <4>3, ApexOfRange
    <3> QED
      BY <2>4, <3>1
  <2>6. u = r /\ v = q
    <3>1. \A w \in ranges : w[1] \in Nat /\ w[2] \in Nat /\ w[1] <= w[2]
      <4>1. \A w \in ranges : w \in Nat \X Nat /\ w[1] <= w[2]
        BY DEF RangesOK
      <4> QED
        BY <4>1
    <3>2. u = r \/ u[2] < r[1] \/ r[2] < u[1]
      BY DEF RangesOK
    <3>3. v = q \/ v[2] < q[1] \/ q[2] < v[1]
      BY DEF RangesOK
    <3> QED
      BY <1>3, <1>4, <2>5, <3>1, <3>2, <3>3
  <2>7. c.apex = d.apex
    BY <1>7, <2>4, <2>6
  <2> QED
    BY <1>1, <1>2, <2>7
<1>8. CASE r[2] < q[1]
  <2>1. c.apex = r[2] /\ d.apex = q[1] /\ q[1] = r[2] + 1
    BY <1>2, <1>3, <1>4, <1>5, <1>8
  <2>2. Min({r[2] + 1, Len(speeds)}) = r[2] + 1
    <3>1. r[2] + 1 \in Int /\ Len(speeds) \in Int /\ r[2] + 1 <= Len(speeds)
      BY <1>1, <1>5, <2>1
    <3> QED
      BY <3>1, OfTwo
  <2>3. speeds[c.apex] < speeds[d.apex] - Tolerance
    BY <1>3, <1>6, <2>1, <2>2 DEF Valley
  <2>4. q[1] - 1 = c.apex
    BY <1>5, <2>1
  <2>5. speeds[d.apex] <= speeds[c.apex] + Tolerance
    BY <1>6, <2>1, <2>4 DEF MayStart
  <2>6. speeds[c.apex] \in Int /\ speeds[d.apex] \in Int
    BY <1>1, <1>2
  <2> QED
    BY <1>1, <2>3, <2>5, <2>6
<1>9. CASE q[2] < r[1]
  BY <1>2, <1>3, <1>4, <1>5, <1>9
<1> QED
  BY <1>7, <1>8, <1>9 DEF RangesOK

(* Without smoothing, on samples at distinct distances, every selected     *)
(* candidate becomes a corner.                                             *)
LEMMA KeptIsValid ==
  ASSUME LapOK, RangesOK, smoothed = speeds, kept \subseteq Found,
         \A i, j \in 1 .. N : i < j => distances[i] < distances[j],
         NEW c \in kept
  PROVE  Valid(Corner(c))
<1> DEFINE a == c.apex
           k == Corner(c)
<1>1. /\ N \in Nat /\ Len(speeds) = N /\ Tolerance \in Nat
      /\ \A i \in 1 .. N : speeds[i] \in Int
  BY LapFacts
<1>2. \A d \in kept : d.apex \in 2 .. N
  BY CandidateFacts
<1>3. PICK r \in ranges : /\ a \in r[1] .. r[2]
                          /\ speeds[a] = LowestIn(speeds, r[1], r[2])
                          /\ \A i \in r[1] .. r[2] : speeds[a] <= speeds[i]
  BY CandidateFacts
<1>4. /\ r[1] \in Nat /\ r[2] \in Nat /\ 2 <= r[1] /\ r[1] <= r[2] /\ r[2] <= N
      /\ Valley(speeds, r[1], r[2])
  <2>1. r \in Nat \X Nat
    BY DEF RangesOK
  <2>2. /\ 2 <= r[1] /\ r[1] <= r[2] /\ r[2] <= N /\ Valley(speeds, r[1], r[2])
    BY DEF RangesOK
  <2> QED
    BY <2>1, <2>2
<1>5. a \in Nat \ {0} /\ a \in 2 .. N /\ speeds[a] \in Int
  BY <1>1, <1>2
<1>6. speeds[a - 1] >= speeds[a] - Tolerance
  <2>1. a - 1 \in 1 .. N /\ speeds[a - 1] \in Int
    BY <1>1, <1>5
  <2>2. CASE a = r[1]
    <3>1. speeds[a] < speeds[a - 1] - Tolerance
      BY <1>3, <1>4, <2>2 DEF Valley
    <3> QED
      BY <1>1, <1>5, <2>1, <3>1
  <2>3. CASE a # r[1]
    <3>1. a - 1 \in r[1] .. r[2]
      BY <1>3, <1>4, <1>5, <2>3
    <3>2. speeds[a] <= speeds[a - 1]
      BY <1>3, <3>1
    <3> QED
      BY <1>1, <1>5, <2>1, <3>2
  <2> QED
    BY <2>2, <2>3
<1>7. a < N /\ speeds[a + 1] >= speeds[a] - Tolerance
  <2>1. Min({r[2] + 1, Len(speeds)}) = IF r[2] + 1 <= N THEN r[2] + 1 ELSE N
    BY <1>1, <1>4, OfTwo
  <2>2. CASE r[2] = N
    <3>1. speeds[a] < speeds[N] - Tolerance
      <4>1. Min({r[2] + 1, Len(speeds)}) = N
        BY <1>1, <2>1, <2>2
      <4> QED
        BY <1>3, <1>4, <4>1 DEF Valley
    <3>2. a # N
      BY <1>1, <1>5, <3>1
    <3>3. a + 1 \in r[1] .. r[2] /\ a + 1 \in 1 .. N
      BY <1>1, <1>3, <1>4, <1>5, <2>2, <3>2
    <3>4. speeds[a] <= speeds[a + 1] /\ speeds[a + 1] \in Int
      BY <1>1, <1>3, <3>3
    <3> QED
      BY <1>1, <1>5, <3>2, <3>4
  <2>3. CASE r[2] < N
    <3>1. a < N /\ a + 1 \in 1 .. N /\ speeds[a + 1] \in Int
      BY <1>1, <1>3, <1>4, <1>5, <2>3
    <3>2. CASE a = r[2]
      <4>1. Min({r[2] + 1, Len(speeds)}) = a + 1
        BY <1>1, <1>4, <2>1, <2>3, <3>2
      <4>2. speeds[a] < speeds[a + 1] - Tolerance
        BY <1>3, <1>4, <4>1 DEF Valley
      <4> QED
        BY <1>1, <1>5, <3>1, <4>2
    <3>3. CASE a # r[2]
      <4>1. a + 1 \in r[1] .. r[2]
        BY <1>3, <1>4, <1>5, <3>3
      <4>2. speeds[a] <= speeds[a + 1]
        BY <1>3, <4>1
      <4> QED
        BY <1>1, <1>5, <3>1, <4>2
    <3> QED
      BY <3>2, <3>3
  <2> QED
    BY <1>1, <1>4, <2>2, <2>3
<1>8. FindEntry(speeds, a) \in 1 .. a /\ FindEntry(speeds, a) < a
      /\ FindExit(speeds, a) \in a .. N /\ FindExit(speeds, a) > a
  <2>1. a \in 1 .. Len(speeds) /\ a > 1 /\ a < Len(speeds)
    BY <1>1, <1>5, <1>7
  <2> QED
    BY <1>1, <1>6, <1>7, <2>1, WindowOfApex
<1>9. /\ k.apex = a /\ k.entry \in 1 .. N /\ k.exit \in 1 .. N
      /\ \/ k.entry = FindEntry(speeds, a)
         \/ \E d \in kept : d.apex < a /\ k.entry = Middle(d.apex, a)
      /\ \/ k.exit = FindExit(speeds, a)
         \/ \E d \in kept : a < d.apex /\ k.exit = Middle(a, d.apex)
  BY <1>2, CornerFacts
<1> HIDE DEF a, k
<1>10. k.entry < a
  <2>1. CASE k.entry = FindEntry(speeds, a)
    BY <1>8, <2>1
  <2>2. ASSUME NEW d \in kept, d.apex < a, k.entry = Middle(d.apex, a) PROVE k.entry < a
    <3>1. d.apex \in Nat \ {0}
      BY <1>1, <1>2
    <3> QED
      BY <1>5, <2>2, <3>1, MiddleFacts
  <2> QED
    BY <1>9, <2>1, <2>2
<1>11. a < k.exit
  <2>1. CASE k.exit = FindExit(speeds, a)
    BY <1>5, <1>8, <2>1
  <2>2. ASSUME NEW d \in kept, a < d.apex, k.exit = Middle(a, d.apex) PROVE a < k.exit
    <3>1. d.apex \in Nat \ {0}
      BY <1>1, <1>2
    <3>2. a + 1 < d.apex
      BY <2>2, ApexesApart DEF a
    <3> QED
      BY <1>5, <2>2, <3>1, <3>2, MiddleFacts
  <2> QED
    BY <1>9, <2>1, <2>2
<1>12. distances[k.entry] < distances[a] /\ distances[a] < distances[k.exit]
  BY <1>1, <1>5, <1>9, <1>10, <1>11
<1> QED
  BY <1>9, <1>10, <1>11, <1>12 DEF Valid, k

(* The lap is fixed; after the scan nothing of what it found changes.      *)
LEMMA ScanKept ==
  ASSUME LapOK, RangesOK, stage # "smooth",
         stage' \in {"scan", "select", "build", "done"},
         UNCHANGED <<lapVars, smoothed, position, ranges>>
  PROVE  LapOK' /\ RangesOK' /\ Found' = Found /\ N' = N
<1>1. /\ speeds' = speeds /\ distances' = distances /\ window' = window
      /\ smoothed' = smoothed /\ position' = position /\ ranges' = ranges
  BY DEF lapVars
<1>2. N' = N
  BY <1>1 DEF N
<1>3. Found' = Found
  BY <1>1 DEF Found, CandidateCorners
<1>4. LapOK'
  BY <1>1, <1>2 DEF LapOK
<1>5. \A i \in 1 .. N : Sharp(i)' <=> Sharp(i)
  BY <1>1, <1>2 DEF Sharp
<1>6. RangesOK'
  BY <1>1, <1>2, <1>5 DEF RangesOK
<1> QED
  BY <1>2, <1>3, <1>4, <1>6

(* Distances between samples are natural numbers and symmetric.            *)
LEMMA DistFacts ==
  ASSUME LapOK, NEW i \in 1 .. N, NEW j \in 1 .. N
  PROVE  /\ Dist(distances[i], distances[j]) \in Nat
         /\ Dist(distances[i], distances[j]) = Dist(distances[j], distances[i])
         /\ i < j => Dist(distances[i], distances[j]) = distances[j] - distances[i]
<1>1. distances[i] \in Int /\ distances[j] \in Int
  BY LapFacts
<1>2. i <= j => distances[i] <= distances[j]
  BY LapFacts
<1>3. Dist(distances[i], distances[j]) \in Nat
  BY <1>1 DEF Dist
<1>4. Dist(distances[i], distances[j]) = Dist(distances[j], distances[i])
  BY <1>1 DEF Dist
<1>5. i < j => Dist(distances[i], distances[j]) = distances[j] - distances[i]
  <2>1. i \in Int /\ j \in Int
    OBVIOUS
  <2> QED
    BY <1>1, <1>2, <2>1 DEF Dist
<1> QED
  BY <1>3, <1>4, <1>5

(* A lap starts with nothing found.                                        *)
LEMMA CornerInvInit == Init => CornerInv
<1> SUFFICES ASSUME Init PROVE CornerInv
  OBVIOUS
<1>1. LapOK
  BY DEF Init, LapOK
<1>2. RangesOK
  <2>1. \A i \in 1 .. N : ~ (Sharp(i) /\ i < position)
    BY DEF Init, Sharp
  <2> QED
    BY <2>1 DEF Init, RangesOK
<1>3. SelectionOK
  BY DEF Init, SelectionOK
<1>4. CornersOK
  BY DEF Init, CornersOK
<1> QED
  BY <1>1, <1>2, <1>3, <1>4 DEF CornerInv

(* One candidate is looked at: it is kept, or too close to a kept one.     *)
LEMMA SelectKeeps == CornerInv /\ Select => CornerInv'
<1> SUFFICES ASSUME CornerInv, Select PROVE CornerInv'
  OBVIOUS
<1>1. PICK c \in pending : /\ pending' = pending \ {c}
                           /\ kept' = IF TooClose(c) THEN kept ELSE kept \cup {c}
  BY DEF Select
<1>2. /\ stage = "select" /\ stage' = "select" /\ corners' = corners
      /\ UNCHANGED <<lapVars, smoothed, position, ranges>> /\ distances' = distances
  BY DEF Select, lapVars
<1>3. LapOK /\ RangesOK /\ SelectionOK /\ CornersOK
  BY DEF CornerInv
<1>4. LapOK' /\ RangesOK' /\ Found' = Found /\ N' = N
  BY <1>2, <1>3, ScanKept
<1>5. /\ pending \subseteq Found /\ kept \subseteq Found /\ corners = <<>> /\ position >= N
      /\ \A x \in Found : x \in kept \/ TooClose(x) \/ x \in pending
      /\ \A x, y \in kept : x # y => Dist(distances[x.apex], distances[y.apex]) >= MinSeparation
  BY <1>2, <1>3 DEF SelectionOK
<1>6. \A x \in Found : x.apex \in 1 .. N
  <2>1. \A x \in Found : x.apex \in 2 .. N
    BY <1>3, CandidateFacts
  <2> QED
    BY <2>1
<1>7. pending' \subseteq Found' /\ kept' \subseteq Found' /\ kept \subseteq kept'
  BY <1>1, <1>4, <1>5
<1>8. \A x : TooClose(x) => TooClose(x)'
  BY <1>2, <1>7 DEF TooClose
<1>9. \A x \in Found : x \in kept' \/ TooClose(x)' \/ x \in pending'
  BY <1>1, <1>5, <1>7, <1>8
<1>10. ASSUME NEW x \in kept', NEW y \in kept', x # y
       PROVE  Dist(distances[x.apex], distances[y.apex]) >= MinSeparation
  <2>1. CASE x \in kept /\ y \in kept
    BY <1>5, <1>10, <2>1
  <2>2. CASE ~ (x \in kept /\ y \in kept)
    <3>1. ~ TooClose(c)
      BY <1>1, <1>10, <2>2
    <3>2. (x = c /\ y \in kept) \/ (y = c /\ x \in kept)
      BY <1>1, <1>10, <2>2
    <3>3. ASSUME NEW k \in kept
          PROVE  /\ Dist(distances[c.apex], distances[k.apex]) >= MinSeparation
                 /\ Dist(distances[k.apex], distances[c.apex]) >= MinSeparation
      <4>1. c.apex \in 1 .. N /\ k.apex \in 1 .. N
        BY <1>1, <1>5, <1>6
      <4>2. /\ Dist(distances[c.apex], distances[k.apex]) \in Nat
            /\ Dist(distances[c.apex], distances[k.apex]) = Dist(distances[k.apex], distances[c.apex])
        BY <1>3, <4>1, DistFacts
      <4>3. ~ (Dist(distances[c.apex], distances[k.apex]) < MinSeparation)
        BY <3>1 DEF TooClose
      <4>4. MinSeparation \in Nat
        BY <1>3, LapFacts
      <4> QED
        BY <4>2, <4>3, <4>4
    <3> QED
      BY <3>2, <3>3
  <2> QED
    BY <2>1, <2>2
<1>11. SelectionOK'
  <2>1. \A x, y \in kept' : x # y => Dist(distances'[x.apex], distances'[y.apex]) >= MinSeparation
    BY <1>2, <1>10
  <2>2. position' >= N'
    BY <1>2, <1>4, <1>5
  <2> QED
    BY <1>2, <1>4, <1>5, <1>7, <1>9, <2>1, <2>2 DEF SelectionOK
<1>12. CornersOK'
  BY <1>2, <1>3 DEF CornersOK
<1> QED
  BY <1>4, <1>11, <1>12 DEF CornerInv

(* One candidate is built: it comes after all corners so far.              *)
LEMMA BuildKeeps == CornerInv /\ Build => CornerInv'
<1> SUFFICES ASSUME CornerInv, Build PROVE CornerInv'
  OBVIOUS
<1>1. PICK c \in pending :
        /\ \A d \in pending \ {c} : c.apex < d.apex
        /\ pending' = pending \ {c}
        /\ corners' = IF Valid(Corner(c)) THEN Append(corners, Corner(c)) ELSE corners
  BY DEF Build
<1>2. /\ stage = "build" /\ stage' = "build" /\ kept' = kept
      /\ UNCHANGED <<lapVars, smoothed, position, ranges>>
      /\ distances' = distances /\ speeds' = speeds
  BY DEF Build, lapVars
<1>3. LapOK /\ RangesOK /\ SelectionOK /\ CornersOK
  BY DEF CornerInv
<1>4. LapOK' /\ RangesOK' /\ Found' = Found /\ N' = N
  BY <1>2, <1>3, ScanKept
<1>5. /\ position >= N /\ pending \subseteq Found /\ kept \subseteq Found
      /\ \A x \in Found : x \in kept \/ TooClose(x)
      /\ \A x, y \in kept : x # y => Dist(distances[x.apex], distances[y.apex]) >= MinSeparation
  BY <1>2, <1>3 DEF SelectionOK
<1>6. /\ corners \in Seq(CornerType) /\ pending \subseteq kept
      /\ \A i \in 1 .. Len(corners) : \E d \in kept \ pending :
            corners[i] = Corner(d) /\ Valid(Corner(d))
      /\ \A i, j \in 1 .. Len(corners) : i < j => corners[i].apex < corners[j].apex
      /\ \A d \in kept \ pending, e \in pending : d.apex < e.apex
      /\ \A d \in kept \ pending : Valid(Corner(d)) =>
            \E i \in 1 .. Len(corners) : corners[i] = Corner(d)
  BY <1>2, <1>3 DEF CornersOK
<1>7. \A d \in kept : d.apex \in 2 .. N
  BY <1>3, <1>5, CandidateFacts
<1>8. \A d \in kept : Corner(d) \in CornerType /\ Corner(d).apex = d.apex
  BY <1>3, <1>7, CornerFacts
<1>9. \A d : Corner(d)' = Corner(d)
  BY <1>2 DEF Corner
<1>10. \A d : Valid(Corner(d))' <=> Valid(Corner(d))
  BY <1>2, <1>9 DEF Valid
<1>11. SelectionOK'
  <2>1. \A x : TooClose(x)' <=> TooClose(x)
    BY <1>2 DEF TooClose
  <2>2. pending' \subseteq Found' /\ kept' \subseteq Found' /\ position' >= N'
    BY <1>1, <1>2, <1>4, <1>5
  <2>3. \A x \in Found' : x \in kept' \/ TooClose(x)'
    BY <1>2, <1>4, <1>5, <2>1
  <2>4. \A x, y \in kept' : x # y => Dist(distances'[x.apex], distances'[y.apex]) >= MinSeparation
    BY <1>2, <1>5
  <2> QED
    BY <1>2, <2>2, <2>3, <2>4 DEF SelectionOK
<1>12. c \in kept /\ kept \ pending' = (kept \ pending) \cup {c}
  BY <1>1, <1>6
<1> DEFINE n == Len(corners)
           new == Corner(c)
<1>13. n \in Nat /\ new \in CornerType /\ new.apex = c.apex
  BY <1>6, <1>8, <1>12
<1>14. /\ corners' \in Seq(CornerType)
       /\ \A i \in 1 .. n : corners'[i] = corners[i] /\ i \in 1 .. Len(corners')
       /\ \A i \in 1 .. Len(corners') :
            i \in 1 .. n \/ (i = n + 1 /\ corners'[i] = new /\ Valid(new))
       /\ Valid(new) => n + 1 \in 1 .. Len(corners') /\ corners'[n + 1] = new
  <2> HIDE DEF new
  <2>1. CASE ~ Valid(new)
    BY <1>1, <1>6, <1>13, <2>1 DEF new
  <2>2. CASE Valid(new)
    <3>1. corners' = Append(corners, new)
      BY <1>1, <2>2 DEF new
    <3> QED
      BY <1>6, <1>13, <2>2, <3>1
  <2> QED
    BY <2>1, <2>2
<1> HIDE DEF n, new
<1>15. \A i \in 1 .. n : \E d \in kept \ pending : corners[i] = Corner(d) /\ Valid(Corner(d))
  BY <1>6 DEF n
<1>16. ASSUME NEW i \in 1 .. Len(corners')
       PROVE  \E d \in kept \ pending' : corners'[i] = Corner(d) /\ Valid(Corner(d))
  <2>1. CASE i \in 1 .. n
    BY <1>12, <1>14, <1>15, <2>1
  <2>2. CASE corners'[i] = new /\ Valid(new)
    BY <1>12, <2>2 DEF new
  <2> QED
    BY <1>14, <2>1, <2>2
<1>17. \A i \in 1 .. n : corners[i].apex < new.apex
  <2> SUFFICES ASSUME NEW i \in 1 .. n PROVE corners[i].apex < new.apex
    OBVIOUS
  <2>1. PICK d \in kept \ pending : corners[i] = Corner(d)
    BY <1>15
  <2>2. corners[i].apex = d.apex
    BY <1>8, <2>1
  <2>3. d.apex < c.apex
    BY <1>6, <2>1
  <2> QED
    BY <1>13, <2>2, <2>3
<1>18. ASSUME NEW i \in 1 .. Len(corners'), NEW j \in 1 .. Len(corners'), i < j
       PROVE  corners'[i].apex < corners'[j].apex
  <2>1. i \in 1 .. n
    BY <1>13, <1>14, <1>18
  <2>2. CASE j \in 1 .. n
    BY <1>6, <1>14, <1>18, <2>1, <2>2 DEF n
  <2>3. CASE corners'[j] = new
    BY <1>14, <1>17, <2>1, <2>3
  <2> QED
    BY <1>14, <2>2, <2>3
<1>19. \A d \in kept \ pending', e \in pending' : d.apex < e.apex
  BY <1>1, <1>6, <1>12
<1>20. ASSUME NEW d \in kept \ pending', Valid(Corner(d))
       PROVE  \E i \in 1 .. Len(corners') : corners'[i] = Corner(d)
  <2>1. CASE d = c
    BY <1>14, <1>20, <2>1 DEF new
  <2>2. CASE d \in kept \ pending
    <3>1. PICK i \in 1 .. n : corners[i] = Corner(d)
      BY <1>6, <1>20, <2>2 DEF n
    <3> QED
      BY <1>14, <3>1
  <2> QED
    BY <1>12, <2>1, <2>2
<1>21. CornersOK'
  <2>1. \A i \in 1 .. Len(corners') : \E d \in kept' \ pending' :
          corners'[i] = Corner(d)' /\ Valid(Corner(d))'
    BY <1>2, <1>9, <1>10, <1>16
  <2>2. \A d \in kept' \ pending' : Valid(Corner(d))' =>
          \E i \in 1 .. Len(corners') : corners'[i] = Corner(d)'
    BY <1>2, <1>9, <1>10, <1>20
  <2>3. pending' \subseteq kept'
    BY <1>1, <1>2, <1>6
  <2>4. \A i, j \in 1 .. Len(corners') : i < j => corners'[i].apex < corners'[j].apex
    BY <1>18
  <2>5. \A d \in kept' \ pending', e \in pending' : d.apex < e.apex
    BY <1>2, <1>19
  <2>6. corners' \in Seq(CornerType) /\ stage' # "done"
    BY <1>2, <1>14
  <2> QED
    BY <2>1, <2>2, <2>3, <2>4, <2>5, <2>6 DEF CornersOK
<1> QED
  BY <1>4, <1>11, <1>21 DEF CornerInv

(* Every stage keeps the invariant.                                        *)
LEMMA CornerInvStep == CornerInv /\ [Next]_vars => CornerInv'
<1> SUFFICES ASSUME CornerInv, [Next]_vars PROVE CornerInv'
  OBVIOUS
<1>1. LapOK /\ RangesOK /\ SelectionOK /\ CornersOK
  BY DEF CornerInv
<1>2. CASE Smooth
  <2>1. /\ stage = "smooth" /\ stage' = "scan" /\ smoothed' = SmoothSpeeds(speeds, window)
        /\ speeds' = speeds /\ distances' = distances /\ window' = window
        /\ position' = position /\ ranges' = ranges /\ pending' = pending /\ kept' = kept
        /\ corners' = corners
    BY <1>2 DEF Smooth, lapVars
  <2>2. N' = N /\ N \in Nat
    BY <1>1, <2>1, LapFacts DEF N
  <2>3. Len(smoothed') = N
    <3>1. speeds \in [1 .. N -> Speeds]
      BY <1>1 DEF LapOK
    <3> QED
      BY <2>1, <2>2, <3>1, SmoothLength
  <2>4. window = 1 => smoothed' = speeds
    BY <2>1 DEF SmoothSpeeds
  <2>5. LapOK'
    BY <1>1, <2>1, <2>2, <2>3, <2>4 DEF LapOK
  <2>6. ranges = {} /\ position = 2 /\ pending = {} /\ kept = {} /\ corners = <<>>
    BY <1>1, <2>1 DEF RangesOK, SelectionOK
  <2>7. RangesOK'
    <3>1. \A i \in 1 .. N' : ~ (Sharp(i)' /\ i < position')
      BY <2>1, <2>6 DEF Sharp
    <3> QED
      BY <2>1, <2>6, <3>1 DEF RangesOK
  <2>8. SelectionOK' /\ CornersOK'
    BY <2>1, <2>6 DEF SelectionOK, CornersOK
  <2> QED
    BY <2>5, <2>7, <2>8 DEF CornerInv
<1>3. CASE Scan
  <2>1. LapOK' /\ RangesOK'
    BY <1>1, <1>3, ScanKeeps
  <2>2. /\ stage = "scan" /\ stage' = "scan" /\ pending' = pending /\ kept' = kept
        /\ corners' = corners
    BY <1>3 DEF Scan
  <2>3. pending = {} /\ kept = {} /\ corners = <<>>
    BY <1>1, <2>2 DEF SelectionOK
  <2>4. SelectionOK' /\ CornersOK'
    BY <2>2, <2>3 DEF SelectionOK, CornersOK
  <2> QED
    BY <2>1, <2>4 DEF CornerInv
<1>4. CASE Detect
  <2>1. /\ stage = "scan" /\ stage' = "select" /\ position >= N /\ pending' = Found
        /\ kept' = kept /\ corners' = corners
        /\ UNCHANGED <<lapVars, smoothed, position, ranges>>
    BY <1>4 DEF Detect, Found
  <2>2. LapOK' /\ RangesOK' /\ Found' = Found /\ N' = N
    BY <1>1, <2>1, ScanKept
  <2>3. kept = {} /\ corners = <<>>
    BY <1>1, <2>1 DEF SelectionOK
  <2>4. SelectionOK' /\ CornersOK'
    BY <2>1, <2>2, <2>3 DEF SelectionOK, CornersOK
  <2> QED
    BY <2>2, <2>4 DEF CornerInv
<1>5. CASE Select
  BY <1>5, SelectKeeps
<1>6. CASE Selected
  <2>1. /\ stage = "select" /\ stage' = "build" /\ pending = {} /\ pending' = kept
        /\ kept' = kept /\ corners' = corners /\ distances' = distances
        /\ UNCHANGED <<lapVars, smoothed, position, ranges>>
    BY <1>6 DEF Selected, lapVars
  <2>2. LapOK' /\ RangesOK' /\ Found' = Found /\ N' = N
    BY <1>1, <2>1, ScanKept
  <2>3. corners = <<>> /\ kept \subseteq Found
    BY <1>1, <2>1 DEF SelectionOK
  <2>4. SelectionOK'
    <3>1. \A x : TooClose(x)' <=> TooClose(x)
      BY <2>1 DEF TooClose
    <3> QED
      BY <1>1, <2>1, <2>2, <3>1 DEF SelectionOK
  <2>5. CornersOK'
    <3>1. kept' \ pending' = {} /\ Len(corners') = 0 /\ corners' \in Seq(CornerType)
      BY <2>1, <2>3
    <3> QED
      BY <2>1, <3>1 DEF CornersOK
  <2> QED
    BY <2>2, <2>4, <2>5 DEF CornerInv
<1>7. CASE Build
  BY <1>7, BuildKeeps
<1>8. ASSUME \/ Divide
             \/ UNCHANGED vars /\ stage # "smooth"
      PROVE  CornerInv'
  <2>1. /\ \/ stage = "build" /\ stage' = "done" /\ pending = {}
           \/ stage' = stage
        /\ stage # "smooth"
        /\ pending' = pending /\ kept' = kept /\ corners' = corners
        /\ distances' = distances /\ speeds' = speeds
        /\ UNCHANGED <<lapVars, smoothed, position, ranges>>
    BY <1>8 DEF Divide, vars, lapVars
  <2>2. stage' \in {"scan", "select", "build", "done"}
    BY <1>1, <2>1 DEF LapOK
  <2>3. LapOK' /\ RangesOK' /\ Found' = Found /\ N' = N
    BY <1>1, <2>1, <2>2, ScanKept
  <2>4. SelectionOK'
    <3>1. \A x : TooClose(x)' <=> TooClose(x)
      BY <2>1 DEF TooClose
    <3> QED
      BY <1>1, <2>1, <2>2, <2>3, <3>1 DEF SelectionOK
  <2>5. \A d : Corner(d)' = Corner(d)
    BY <2>1 DEF Corner
  <2>6. \A d : Valid(Corner(d))' <=> Valid(Corner(d))
    BY <2>1, <2>5 DEF Valid
  <2>7. CornersOK'
    BY <1>1, <2>1, <2>5, <2>6 DEF CornersOK
  <2> QED
    BY <2>3, <2>4, <2>7 DEF CornerInv
<1>9. CASE UNCHANGED vars /\ stage = "smooth"
  <2>1. /\ stage' = "smooth" /\ speeds' = speeds /\ distances' = distances
        /\ position' = position /\ ranges' = ranges
        /\ pending' = pending /\ kept' = kept /\ corners' = corners
    BY <1>9 DEF vars, lapVars
  <2>2. ranges = {} /\ position = 2 /\ pending = {} /\ kept = {} /\ corners = <<>>
    BY <1>1, <1>9 DEF RangesOK, SelectionOK
  <2>3. LapOK'
    <3>1. N' = N
      BY <2>1 DEF N
    <3> QED
      BY <1>1, <2>1, <3>1 DEF LapOK
  <2>4. RangesOK'
    <3>1. \A i \in 1 .. N' : ~ (Sharp(i)' /\ i < position')
      BY <2>1, <2>2 DEF Sharp
    <3> QED
      BY <2>1, <2>2, <3>1 DEF RangesOK
  <2>5. SelectionOK' /\ CornersOK'
    BY <2>1, <2>2 DEF SelectionOK, CornersOK
  <2> QED
    BY <2>3, <2>4, <2>5 DEF CornerInv
<1> QED
  BY <1>2, <1>3, <1>4, <1>5, <1>6, <1>7, <1>8, <1>9 DEF Next

(* Corners in apex order are windows of different candidates, so they do   *)
(* not overlap and keep their distance.                                    *)
LEMMA CornerInvDisjoint == CornerInv => CornersDisjoint
<1> SUFFICES ASSUME CornerInv PROVE CornersDisjoint
  OBVIOUS
<1>1. LapOK /\ RangesOK /\ SelectionOK /\ CornersOK
  BY DEF CornerInv
<1>2. DOMAIN corners = 1 .. Len(corners)
  BY <1>1 DEF CornersOK
<1>3. CASE stage \in {"smooth", "scan", "select"}
  <2>1. corners = <<>>
    BY <1>1, <1>3 DEF SelectionOK
  <2> QED
    BY <2>1 DEF CornersDisjoint
<1>4. CASE stage \in {"build", "done"}
  <2>1. /\ kept \subseteq Found
        /\ \A x, y \in kept : x # y => Dist(distances[x.apex], distances[y.apex]) >= MinSeparation
    BY <1>1, <1>4 DEF SelectionOK
  <2>2. /\ \A i \in 1 .. Len(corners) : \E c \in kept : corners[i] = Corner(c) /\ Valid(Corner(c))
        /\ \A i, j \in 1 .. Len(corners) : i < j => corners[i].apex < corners[j].apex
    BY <1>1, <1>4 DEF CornersOK
  <2>3. \A c \in kept : c.apex \in 2 .. N
    BY <1>1, <2>1, CandidateFacts
  <2>4. ASSUME NEW i \in 1 .. Len(corners)
        PROVE  /\ distances[corners[i].entry] < distances[corners[i].apex]
               /\ distances[corners[i].apex] < distances[corners[i].exit]
    BY <2>2 DEF Valid
  <2>5. ASSUME NEW i \in 1 .. Len(corners), NEW j \in 1 .. Len(corners), i < j
        PROVE  /\ corners[i].exit <= corners[j].entry
               /\ distances[corners[j].apex] - distances[corners[i].apex] >= MinSeparation
    <3>1. PICK c \in kept : corners[i] = Corner(c)
      BY <2>2
    <3>2. PICK d \in kept : corners[j] = Corner(d)
      BY <2>2
    <3>3. corners[i].apex = c.apex /\ corners[j].apex = d.apex
      BY <1>1, <2>3, <3>1, <3>2, CornerFacts
    <3>4. c.apex < d.apex
      BY <2>2, <2>5, <3>3
    <3>5. corners[i].exit <= corners[j].entry
      BY <1>1, <2>3, <3>1, <3>2, <3>4, CornersInOrder
    <3>6. c.apex \in 1 .. N /\ d.apex \in 1 .. N
      <4>1. c.apex \in 2 .. N /\ d.apex \in 2 .. N
        BY <2>3
      <4> QED
        BY <4>1
    <3>7. c # d
      BY <3>4, <3>6
    <3>8. Dist(distances[c.apex], distances[d.apex]) >= MinSeparation
      BY <2>1, <3>7
    <3>9. Dist(distances[c.apex], distances[d.apex]) = distances[d.apex] - distances[c.apex]
      BY <1>1, <3>4, <3>6, DistFacts
    <3> QED
      BY <3>3, <3>5, <3>8, <3>9
  <2> QED
    BY <1>2, <2>4, <2>5 DEF CornersDisjoint
<1> QED
  BY <1>1, <1>3, <1>4 DEF LapOK

(* A sharp dip is a range, its apex a candidate, and the candidate kept or *)
(* too close to a kept one, and every kept one is a corner.                *)
LEMMA CornerInvReported == CornerInv => SharpDipsReported
<1> SUFFICES ASSUME CornerInv, stage = "done", window = 1,
                    \A i, j \in 1 .. N : i < j => distances[i] < distances[j],
                    NEW i \in 1 .. N, Sharp(i)
             PROVE  \E k \in DOMAIN corners :
                      \/ corners[k].apex = i
                      \/ Dist(distances[i], distances[corners[k].apex]) < MinSeparation
  BY DEF SharpDipsReported
<1>1. LapOK /\ RangesOK /\ SelectionOK /\ CornersOK
  BY DEF CornerInv
<1>2. DOMAIN corners = 1 .. Len(corners)
  BY <1>1 DEF CornersOK
<1>3. smoothed = speeds
  BY <1>1 DEF LapOK
<1>4. /\ position >= N /\ kept \subseteq Found
      /\ \A c \in Found : c \in kept \/ TooClose(c)
  BY <1>1 DEF SelectionOK
<1>5. <<i, i>> \in ranges
  <2>1. i < position
    <3>1. i < N /\ N \in Nat /\ position \in Nat
      BY <1>1, LapFacts DEF Sharp, LapOK
    <3> QED
      BY <1>4, <3>1
  <2> QED
    BY <1>1, <2>1 DEF RangesOK
<1>6. PICK c \in Found : c.apex = i
  BY <1>1, <1>3, <1>5, SharpIsFound
<1>7. PICK d \in kept : d.apex = i \/ Dist(distances[i], distances[d.apex]) < MinSeparation
  BY <1>4, <1>6 DEF TooClose
<1>8. Valid(Corner(d))
  BY <1>1, <1>3, <1>4, KeptIsValid
<1>9. PICK k \in 1 .. Len(corners) : corners[k] = Corner(d)
  BY <1>1, <1>8 DEF CornersOK
<1>10. corners[k].apex = d.apex
  <2>1. \A x \in kept : x.apex \in 2 .. N
    BY <1>1, <1>4, CandidateFacts
  <2> QED
    BY <1>1, <1>9, <2>1, CornerFacts
<1> QED
  BY <1>2, <1>7, <1>9, <1>10

(* For every lap: any samples at sorted distances, any smoothing window    *)
(* and any thresholds.  The corners _detect_corners_for_lap reports come   *)
(* in order along the track, each entered before its apex and left after   *)
(* it, no two sharing more than a boundary sample and no two apexes closer *)
(* than the minimum separation.                                            *)
THEOREM CornersAlwaysDisjoint == Spec => []CornersDisjoint
<1>1. Init => CornerInv
  BY CornerInvInit
<1>2. CornerInv /\ [Next]_vars => CornerInv'
  BY CornerInvStep
<1>3. CornerInv => CornersDisjoint
  BY CornerInvDisjoint
<1> QED
  BY <1>1, <1>2, <1>3, PTL DEF Spec

(* For every lap without smoothing on samples at distinct distances: no    *)
(* sharp dip is lost by the scan over nearly level stretches, the greedy   *)
(* selection or the clipping of the windows; it is the apex of a reported  *)
(* corner, or closer than the minimum separation to the apex of one.       *)
THEOREM SharpDipsAlwaysReported == Spec => []SharpDipsReported
<1>1. Init => CornerInv
  BY CornerInvInit
<1>2. CornerInv /\ [Next]_vars => CornerInv'
  BY CornerInvStep
<1>3. CornerInv => SharpDipsReported
  BY CornerInvReported
<1> QED
  BY <1>1, <1>2, <1>3, PTL DEF Spec

==============================================================================
