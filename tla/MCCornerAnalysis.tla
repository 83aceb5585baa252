-------------------------- MODULE MCCornerAnalysis --------------------------
(***************************************************************************)
(* CornerAnalysis for TLC: laps of seven samples at four speeds, which is  *)
(* room for two corners also under smoothing, evenly spaced and with       *)
(* repeated distances.                                                     *)
(***************************************************************************)
EXTENDS CornerAnalysis

MCDistanceProfiles ==
  {<<0, 1, 2, 3, 4, 5, 6>>, <<0, 1, 1, 3, 4, 4, 9>>, <<2, 2, 2>>}
=============================================================================
