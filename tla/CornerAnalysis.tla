--------------------------- MODULE CornerAnalysis ---------------------------
(***************************************************************************)
(* performance/corner_analysis.py: corner detection on the speed profile   *)
(* of one lap, stage by stage as _detect_corners_for_lap runs it and one   *)
(* step for every iteration of its loops, and                              *)
(* performance/sector_analysis.py's division of the same lap.              *)
(*                                                                         *)
(* A lap is two sequences, speeds and distances, sorted by distance;       *)
(* indices start at 1.  Speeds are even whole numbers, so that the median  *)
(* of an even number of them, which averages two, is whole again.          *)
(***************************************************************************)
EXTENDS Integers, Sequences, SequencesExt, FiniteSetsExt, TLC

CONSTANTS
  Speeds,           (* the speeds a sample may show *)
  DistanceProfiles, (* the distances of a lap's samples *)
  Windows,          (* smoothing windows to try *)
  MinProminence, MinSeparation, Tolerance,
  NumSectors

(* _sorted_by_distance orders a lap's frames before they are divided, and  *)
(* the constructors refuse num_sectors < 1 and negative thresholds.        *)
ASSUME LapAssumption ==
  /\ NumSectors \in Nat \ {0}
  /\ MinProminence \in Nat /\ MinSeparation \in Nat /\ Tolerance \in Nat
  /\ Speeds \subseteq Int
  /\ \A d \in DistanceProfiles :
       /\ d \in Seq(Int)
       /\ \A i, j \in 1 .. Len(d) : i <= j => d[i] <= d[j]

VARIABLES
  speeds, distances,    (* the lap *)
  window,               (* smoothing_window *)
  stage,
  smoothed,
  position, ranges,     (* the scan for minima, and the ranges found *)
  pending, kept,        (* candidates not yet looked at, and selected *)
  corners, sectors

lapVars == <<speeds, distances, window>>
vars == <<lapVars, stage, smoothed, position, ranges, pending, kept, corners, sectors>>

N == Len(distances)
Dist(i, j) == IF i < j THEN j - i ELSE i - j

-----------------------------------------------------------------------------
(* _median: of a non-empty bag of values, given as a sequence.             *)
Median(s) ==
  LET o == SortSeq(s, <)
      n == Len(o)
  IN  IF n % 2 = 1 THEN o[n \div 2 + 1] ELSE (o[n \div 2] + o[n \div 2 + 1]) \div 2

(* _smooth_speeds: the window shrinks at the ends of the lap.              *)
SmoothSpeeds(s, w) ==
  LET radius == (IF w % 2 = 0 THEN w + 1 ELSE w) \div 2
  IN  IF w <= 1 \/ Len(s) <= 2 THEN s
      ELSE [i \in DOMAIN s |-> Median(SubSeq(s, Max({1, i - radius}),
                                                Min({Len(s), i + radius})))]

(* The end of the nearly level stretch that starts at i.                   *)
LevelUntil(s, i) ==
  Max({e \in i .. Len(s) : \A k \in i .. e - 1 : Dist(s[k + 1], s[k]) <= Tolerance})

LowestIn(s, i, j) == Min({s[k] : k \in i .. j})

(* _find_local_minima_ranges, one iteration: a stretch may start at i, it  *)
(* counts when it is a valley, and the scan goes on behind it.             *)
MayStart(s, i) == s[i] <= s[i - 1] + Tolerance /\ s[i] <= s[i + 1] + Tolerance

Valley(s, i, e) ==
  /\ LowestIn(s, i, e) < s[i - 1] - Tolerance
  /\ LowestIn(s, i, e) < s[Min({e + 1, Len(s)})] - Tolerance

RangesAt(s, i) ==
  {r \in {<<i, LevelUntil(s, i)>>} : MayStart(s, i) /\ Valley(s, r[1], r[2])}

(* Faulty variant: the sample after a stretch is never looked at.          *)
NextStartSkipping(s, i) == IF MayStart(s, i) THEN LevelUntil(s, i) + 2 ELSE i + 1

NextStart(s, i) == IF MayStart(s, i) THEN LevelUntil(s, i) + 1 ELSE i + 1

(* _prominence: on each side, as far as the first sample beyond which the  *)
(* speed falls again.                                                      *)
Prominence(s, a) ==
  LET left  == {i \in 1 .. a - 1 : \A k \in i + 1 .. a - 1 : ~ (s[k - 1] < s[k])}
      right == {i \in a + 1 .. Len(s) : \A k \in a + 1 .. i - 1 : ~ (s[k + 1] < s[k])}
      peak(side) == Max({s[a]} \cup {s[i] : i \in side})
  IN  Min({peak(left), peak(right)}) - s[a]

(* _find_entry_index and _find_exit_index.                                 *)
FindEntry(s, a) ==
  Min({e \in 1 .. a : \A k \in e + 1 .. a : s[k - 1] >= s[k] - Tolerance})
FindExit(s, a) ==
  Max({e \in a .. Len(s) : \A k \in a .. e - 1 : s[k + 1] >= s[k] - Tolerance})

(* _candidate_corners: ranges from the smoothed profile, the apex, the     *)
(* first of the lowest samples, from the raw one, the prominence from the  *)
(* smoothed one.                                                           *)
Apex(raw, r) == Min({i \in r[1] .. r[2] : raw[i] = LowestIn(raw, r[1], r[2])})

Candidate(raw, smooth, r) ==
  [apex |-> Apex(raw, r), prominence |-> Prominence(smooth, Apex(raw, r))]

CandidateCorners(raw, smooth) ==
  {c \in {Candidate(raw, smooth, r) : r \in ranges} : c.prominence >= MinProminence}

(* _select_non_overlapping_candidates: strongest first, each kept unless   *)
(* it is too close to one already kept.                                    *)
Stronger(c, d) ==
  c.prominence > d.prominence \/ (c.prominence = d.prominence /\ c.apex < d.apex)

TooClose(c) ==
  \E k \in kept : Dist(distances[c.apex], distances[k.apex]) < MinSeparation

(* Faulty variant: windows are not clipped against their neighbours.       *)
CornerUnclipped(c) ==
  [entry |-> FindEntry(speeds, c.apex), apex |-> c.apex,
   exit |-> FindExit(speeds, c.apex)]

(* (p + q) // 2 of the indices from 0.                                     *)
Middle(p, q) == (p + q - 2) \div 2 + 1

(* The window of a selected candidate, clipped half way to its neighbours. *)
Corner(c) ==
  LET a == c.apex
      before == {k.apex : k \in {d \in kept : d.apex < a}}
      after == {k.apex : k \in {d \in kept : d.apex > a}}
      entry == FindEntry(speeds, a)
      exit == FindExit(speeds, a)
  IN  [entry |-> IF before = {} THEN entry ELSE Max({entry, Middle(Max(before), a)}),
       apex  |-> a,
       exit  |-> IF after = {} THEN exit ELSE Min({exit, Middle(a, Min(after))})]

Valid(c) ==
  /\ c.entry < c.apex /\ c.apex < c.exit
  /\ distances[c.entry] < distances[c.apex] /\ distances[c.apex] < distances[c.exit]

-----------------------------------------------------------------------------
(* Faulty variant: the last sector is half open like the others.           *)
LapSectorsOpen(k) ==
  LET lo == Min(ToSet(distances))
      span == Max(ToSet(distances)) - lo
  IN  {i \in 1 .. N : /\ span * (k - 1) <= (distances[i] - lo) * NumSectors
                      /\ (distances[i] - lo) * NumSectors < span * k}

(* _lap_sectors: the frames of the k-th of NumSectors equal parts of the   *)
(* lap's distance, the last part with its far end.                         *)
LapSectors(k) ==
  LET lo == Min(ToSet(distances))
      span == Max(ToSet(distances)) - lo
      at(i) == (distances[i] - lo) * NumSectors
  IN  {i \in 1 .. N : /\ span * (k - 1) <= at(i)
                      /\ at(i) < span * k \/ (k = NumSectors /\ at(i) = span * k)}

-----------------------------------------------------------------------------
Init ==
  /\ distances \in DistanceProfiles
  /\ speeds \in [1 .. N -> Speeds]
  /\ window \in Windows
  /\ stage = "smooth"
  /\ smoothed = <<>> /\ position = 2 /\ ranges = {} /\ pending = {} /\ kept = {}
  /\ corners = <<>> /\ sectors = <<>>

Smooth ==
  /\ stage = "smooth"
  /\ stage' = "scan"
  /\ smoothed' = SmoothSpeeds(speeds, window)
  /\ UNCHANGED <<lapVars, position, ranges, pending, kept, corners, sectors>>

Scan ==
  /\ stage = "scan"
  /\ position < N
  /\ ranges' = ranges \cup RangesAt(smoothed, position)
  /\ position' = NextStart(smoothed, position)
  /\ UNCHANGED <<lapVars, stage, smoothed, pending, kept, corners, sectors>>

Detect ==
  /\ stage = "scan"
  /\ position >= N
  /\ stage' = "select"
  /\ pending' = CandidateCorners(speeds, smoothed)
  /\ UNCHANGED <<lapVars, smoothed, position, ranges, kept, corners, sectors>>

Select ==
  /\ stage = "select"
  /\ \E c \in pending :
       /\ \A d \in pending \ {c} : Stronger(c, d)
       /\ pending' = pending \ {c}
       /\ kept' = IF TooClose(c) THEN kept ELSE kept \cup {c}
  /\ UNCHANGED <<lapVars, stage, smoothed, position, ranges, corners, sectors>>

Selected ==
  /\ stage = "select"
  /\ pending = {}
  /\ stage' = "build"
  /\ pending' = kept
  /\ UNCHANGED <<lapVars, smoothed, position, ranges, kept, corners, sectors>>

(* In the order of the apexes; a window that is not in order is rejected.  *)
Build ==
  /\ stage = "build"
  /\ \E c \in pending :
       /\ \A d \in pending \ {c} : c.apex < d.apex
       /\ pending' = pending \ {c}
       /\ corners' = IF Valid(Corner(c)) THEN Append(corners, Corner(c)) ELSE corners
  /\ UNCHANGED <<lapVars, stage, smoothed, position, ranges, kept, sectors>>

Divide ==
  /\ stage = "build"
  /\ pending = {}
  /\ stage' = "done"
  /\ sectors' = [k \in 1 .. NumSectors |-> LapSectors(k)]
  /\ UNCHANGED <<lapVars, smoothed, position, ranges, pending, kept, corners>>

Next == Smooth \/ Scan \/ Detect \/ Select \/ Selected \/ Build \/ Divide

Spec == Init /\ [][Next]_vars

-----------------------------------------------------------------------------
(* "Clipped so it can never cross into a neighbouring corner's territory": *)
(* the corners reported for a lap come in order along the track, each with *)
(* entry before apex before exit, no two of them share more than a         *)
(* boundary sample, and no two apexes are closer than the minimum          *)
(* separation.                                                             *)
CornersDisjoint ==
  \A i, j \in DOMAIN corners :
    /\ distances[corners[i].entry] < distances[corners[i].apex]
    /\ distances[corners[i].apex] < distances[corners[i].exit]
    /\ i < j => /\ corners[i].exit <= corners[j].entry
                /\ distances[corners[j].apex] - distances[corners[i].apex]
                     >= MinSeparation

Sharp(i) ==
  /\ i > 1 /\ i < N
  /\ \A k \in {i - 1, i + 1} : /\ speeds[k] > speeds[i] + Tolerance
                               /\ speeds[k] >= speeds[i] + MinProminence

(* No corner is missed: without smoothing, on samples at distinct          *)
(* distances, every sample that lies deep enough below both its neighbours *)
(* is the apex of a reported corner, or is closer than the minimum         *)
(* separation to the apex of one - however the scan's nearly level         *)
(* stretches, the greedy selection and the clipping fall.                  *)
SharpDipsReported ==
  /\ stage = "done"
  /\ window = 1
  /\ \A i, j \in 1 .. N : i < j => distances[i] < distances[j]
  => \A i \in 1 .. N : Sharp(i) =>
       \E k \in DOMAIN corners :
         \/ corners[k].apex = i
         \/ Dist(distances[i], distances[corners[k].apex]) < MinSeparation

(* Every frame of a lap is counted in exactly one sector, also when all    *)
(* frames are at the same distance or sit on a sector's boundary.          *)
SectorsPartition ==
  stage = "done" =>
    \A i \in 1 .. N : Cardinality({k \in 1 .. NumSectors : i \in sectors[k]}) = 1
=============================================================================
