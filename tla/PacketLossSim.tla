---------------------------- MODULE PacketLossSim ----------------------------
(***************************************************************************)
(* simulations/packet_loss_sim.py: the scenarios, each as the set of       *)
(* delivery scripts the network it simulates can make of the packets       *)
(* 1 .. LossPackets of the scenario.  Packets are built and validated in   *)
(* one thread, so building them all before the first is validated changes  *)
(* no result.  random.random() is any outcome.                             *)
(***************************************************************************)
EXTENDS SimPipeline, SequencesExt

CONSTANTS
  LossPackets,          (* packet_count: 100, 200 or 1000 *)
  BurstStart, BurstSizes,   (* 30 and a sequence of 3, 5, 10 *)
  DropPositions, DuplicatePositions,    (* indices, from 0 as in the code *)
  PhasePackets          (* phase_packets: 50 *)

ASSUME LossAssumption ==
  /\ SimWindow \in Nat \ {0} /\ DefaultGap \in Nat \ {0}
  /\ LossPackets \in Nat /\ PhasePackets \in Nat \ {0}
  /\ BurstSizes \in Seq(Nat)

Arrival(i, class) == Delivery(i, class, "validate", "intact")

Indices == 0 .. LossPackets - 1

(* The elements of a finite set, sorted: the p-th is the one that has      *)
(* p - 1 others before it.                                                 *)
Sorted(S, before) ==
  LET rank == [d \in S |-> Cardinality({e \in S : <<e, d>> \in before})]
  IN  [p \in 1 .. Cardinality(S) |-> CHOOSE d \in S : rank[d] = p - 1]

(* Packets that arrive once each, given the order of their numbers.        *)
Arrivals(order) == [k \in DOMAIN order |-> Arrival(order[k], "original")]

(* The packets that are not dropped, in the order they were built in.      *)
Surviving(dropped) ==
  LET kept == {k \in 1 .. LossPackets : k - 1 \notin dropped}
  IN  Arrivals(Sorted(kept, {r \in kept \X kept : r[1] < r[2]}))

Scenario(name, packets, maxGap) ==
  [name |-> name, packets |-> packets, maxGap |-> maxGap, jitter |-> 0, window |-> 0,
   burst |-> 0]

(* Each scenario: its parameters, and the scripts it may produce.  The     *)
(* five loss rates of scenario_random_loss, each with a checker of its     *)
(* own, are one entry: whatever is lost at some rate is one of its scripts.*)
ScenarioRandomLoss == {Surviving(d) : d \in SUBSET Indices}

ScenarioBurstLoss(size) == {Surviving(BurstStart .. BurstStart + size - 1)}

ScenarioSelectiveLoss == {Surviving(DropPositions)}

(* Normal traffic, a phase in which everything is lost, and recovery.      *)
ScenarioRecovery ==
  {[k \in 1 .. 2 * PhasePackets |->
      IF k <= PhasePackets THEN Arrival(k, "normal")
      ELSE Arrival(k + PhasePackets, "recovery")]}

ScenarioHighLoad == {Surviving(d) : d \in SUBSET Indices}

(* Every packet arrives, and those at the chosen positions a second time   *)
(* at once.                                                                *)
ScenarioDuplicatePackets ==
  LET built == 1 .. LossPackets
      all == {Arrival(k, "original") : k \in built}
               \cup {Arrival(k, "duplicate") : k \in {i \in built : i - 1 \in DuplicatePositions}}
  IN  {Sorted(all, {r \in all \X all :
                      \/ r[1].seq < r[2].seq
                      \/ r[1].seq = r[2].seq /\ r[1].class = "original"
                                            /\ r[2].class = "duplicate"})}

LossScripts(s) ==
  CASE s.name = "random_loss"       -> ScenarioRandomLoss
    [] s.name = "burst_loss"        -> ScenarioBurstLoss(s.burst)
    [] s.name = "selective_loss"    -> ScenarioSelectiveLoss
    [] s.name = "recovery"          -> ScenarioRecovery
    [] s.name = "high_load"         -> ScenarioHighLoad
    [] s.name = "duplicate_packets" -> ScenarioDuplicatePackets

(* main() runs them in this order, each on a fresh checker, with one       *)
(* pipeline whose builder numbers the packets of all of them.              *)
LossScenarios ==
  <<Scenario("random_loss", LossPackets, DefaultGap)>>
    \o [k \in 1 .. Len(BurstSizes) |->
          [Scenario("burst_loss", LossPackets, 1) EXCEPT !.burst = BurstSizes[k]]]
    \o <<Scenario("selective_loss", LossPackets, 1),
         Scenario("recovery", 3 * PhasePackets, DefaultGap),
         Scenario("high_load", LossPackets, DefaultGap),
         Scenario("duplicate_packets", LossPackets, DefaultGap)>>
=============================================================================
