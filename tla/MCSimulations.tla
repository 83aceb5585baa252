---------------------------- MODULE MCSimulations ----------------------------
(***************************************************************************)
(* Simulations for TLC: six packets per loss scenario, four per jitter    *)
(* scenario, a replay window of two numbers so that it forgets within a    *)
(* scenario, and the jitter program's times scaled to keep their order: a  *)
(* jitter of half the send interval, at which deliveries may tie, one      *)
(* equal to the interval, and one equal to the base delay.                 *)
(***************************************************************************)
EXTENDS Simulations

MCBurstSizes == <<1, 3>>
MCJitterLevels == <<1, 2, 4>>
MCReorderWindows == <<2, 3>>
=============================================================================
