------------------------------ MODULE JitterSim ------------------------------
(***************************************************************************)
(* simulations/jitter_sim.py: delivery under variable delay and under      *)
(* reordering, as the delivery scripts each scenario can produce.  Times   *)
(* are whole units; the latencies measured are left out.                   *)
(***************************************************************************)
EXTENDS PacketLossSim, TLC

CONSTANTS
  JitterPackets,        (* packets per scenario: 100, 30 and 50 *)
  SendInterval, BaseDelay,  (* SEND_INTERVAL_MS, BASE_NETWORK_DELAY_MS *)
  JitterLevels, ReorderWindows  (* sequences of 1, 5, 10 and of 2, 5, 10 *)

ASSUME JitterAssumption ==
  /\ JitterPackets \in Nat /\ SendInterval \in Nat /\ BaseDelay \in Nat
  /\ JitterLevels \in Seq(Nat) /\ ReorderWindows \in Seq(Nat \ {0})

JitterIndices == 1 .. JitterPackets

(* max(0.0, BASE_NETWORK_DELAY_MS + jitter)                                *)
NetworkDelays(jitter) ==
  {IF BaseDelay + j < 0 THEN 0 ELSE BaseDelay + j : j \in -jitter .. jitter}

(* The orders that packets 1 .. JitterPackets may be validated in.         *)
Orders == {o \in [JitterIndices -> JitterIndices] : IsInjective(o)}

(* sorted by delivery time, ties by index                                  *)
Delivered(delay, order) ==
  LET time(i) == i * SendInterval + delay[i]
  IN  \A p, q \in JitterIndices :
        p < q => \/ time(order[p]) < time(order[q])
                 \/ time(order[p]) = time(order[q]) /\ order[p] < order[q]

SimTimeJitter(jitter) ==
  {Arrivals(o) : o \in {o \in Orders :
     \E delay \in [JitterIndices -> NetworkDelays(jitter)] : Delivered(delay, o)}}

(* apply_reordering: fixed windows, each shuffled.                         *)
ApplyReordering(window) ==
  {o \in Orders :
     \A i \in JitterIndices : (o[i] - 1) \div window = (i - 1) \div window}

SimPacketReordering(window) == {Arrivals(o) : o \in ApplyReordering(window)}

(* Packets are built, and numbered, but never validated.                   *)
SimPipelineLatency == {<<>>}

SimNoJitterBaseline == {Arrivals([i \in JitterIndices |-> i])}

JitterScripts(s) ==
  CASE s.name = "time_jitter"        -> SimTimeJitter(s.jitter)
    [] s.name = "packet_reordering"  -> SimPacketReordering(s.window)
    [] s.name = "pipeline_latency"   -> SimPipelineLatency
    [] s.name = "no_jitter_baseline" -> SimNoJitterBaseline

JitterScenario(name) == Scenario(name, JitterPackets, DefaultGap)

JitterScenarios ==
  [k \in 1 .. Len(JitterLevels) |->
     [JitterScenario("time_jitter") EXCEPT !.jitter = JitterLevels[k]]]
    \o [k \in 1 .. Len(ReorderWindows) |->
          [JitterScenario("packet_reordering") EXCEPT !.window = ReorderWindows[k]]]
    \o <<JitterScenario("pipeline_latency"), JitterScenario("no_jitter_baseline")>>
=============================================================================
