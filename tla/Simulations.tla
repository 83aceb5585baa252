----------------------------- MODULE Simulations -----------------------------
(***************************************************************************)
(* The evaluation programs under simulations/: packet loss, jitter, replay *)
(* and tampering run their scenarios one after the other over one pipeline *)
(* and report counts and verdicts; the key rotation program is             *)
(* KeyRotationSim.  A behaviour is one run of one program.                 *)
(***************************************************************************)
EXTENDS AttackSims, KeyRotationSim

VARIABLES
  program,      (* which main() runs *)
  scenario,     (* index of the scenario it is at *)
  phase,        (* "next", "deliver", "reported" or "saved" *)
  built,        (* the builder's sequence counter *)
  relayChecker, valChecker,
  script,       (* the current scenario's deliveries, numbered *)
  at,           (* how many of them have been made *)
  result        (* the scenario's result dictionary *)

netVars == <<scenario, phase, built, relayChecker, valChecker, script, at, result>>
simVars == <<program, netVars, rotVars>>

Classes == {"original", "duplicate", "normal", "recovery", "legitimate"}

(* highest and late are last_sequence and out_of_order of sim_time_jitter; *)
(* refusals are the reasons given for the deliveries of class "attack".    *)
BaseResult ==
  [accepted |-> [c \in Classes |-> 0], rejected |-> [c \in Classes |-> 0],
   highest |-> 0, late |-> 0, recovered |-> FALSE, refusals |-> <<>>]

SimInit ==
  /\ program \in {"packet_loss", "jitter", "replay_attack", "tampering", "key_rotation"}
  /\ scenario = 1
  /\ phase = "next"
  /\ built = 0
  /\ relayChecker = NewChecker(DefaultGap)
  /\ valChecker = NewChecker(DefaultGap)
  /\ script = <<>>
  /\ at = 0
  /\ result = BaseResult
  /\ RotInit

Measuring == program \in {"packet_loss", "jitter"}
Attacking == program \in {"replay_attack", "tampering"}

(* The scenario list of the program's main().                              *)
Scenarios ==
  CASE program = "packet_loss"   -> LossScenarios
    [] program = "jitter"        -> JitterScenarios
    [] program = "replay_attack" -> ReplayAttacks
    [] program = "tampering"     -> TamperingAttacks

Current == Scenarios[scenario]

Scripts == IF program = "packet_loss" THEN LossScripts(Current) ELSE JitterScripts(Current)

Numbered(s) == [k \in DOMAIN s |-> [s[k] EXCEPT !.seq = @ + built]]

-----------------------------------------------------------------------------
(* A loss or jitter scenario starts with a checker of its own.             *)
BeginMeasurement ==
  /\ Measuring /\ phase = "next" /\ scenario <= Len(Scenarios)
  /\ \E s \in Scripts : script' = Numbered(s)
  /\ valChecker' = NewChecker(Current.maxGap)
  /\ built' = built + Current.packets
  /\ at' = 0 /\ result' = BaseResult /\ phase' = "deliver"
  /\ UNCHANGED <<program, scenario, relayChecker, rotVars>>

BeginAttack ==
  /\ Attacking /\ phase = "next" /\ scenario <= Len(Scenarios)
  /\ script' = Numbered(Current.script)
  /\ built' = built + Current.packets
  /\ at' = 0 /\ result' = BaseResult /\ phase' = "deliver"
  /\ UNCHANGED <<program, scenario, relayChecker, valChecker, rotVars>>

(* What the loop bodies count.  Out-of-order arrivals are counted against  *)
(* the highest number that has arrived, independently of the checker.      *)
Counted(p, reason) ==
  [result EXCEPT
     !.accepted[p.class] = IF reason = "accepted" THEN @ + 1 ELSE @,
     !.rejected[p.class] = IF reason = "accepted" THEN @ ELSE @ + 1,
     !.late = IF result.highest > 0 /\ p.seq <= result.highest THEN @ + 1 ELSE @,
     !.highest = IF p.seq > @ THEN p.seq ELSE @,
     !.recovered = @ \/ (reason = "accepted" /\ p.class = "recovery")]

Validate ==
  /\ Measuring /\ phase = "deliver" /\ at < Len(script)
  /\ LET p == script[at + 1]
         v == ValidatePacket(valChecker, p)
     IN  valChecker' = v.checker /\ result' = Counted(p, v.reason)
  /\ at' = at + 1
  /\ UNCHANGED <<program, scenario, phase, built, relayChecker, script, rotVars>>

AttackStep ==
  /\ Attacking /\ phase = "deliver" /\ at < Len(script)
  /\ LET p == script[at + 1]
         o == Outcome(relayChecker, valChecker, p, result.refusals)
     IN  /\ relayChecker' = o.relay
         /\ valChecker' = o.val
         /\ result' = IF p.class = "legitimate" THEN Counted(p, o.reason)
                      ELSE IF o.reason = "skipped" THEN result
                      ELSE [result EXCEPT !.refusals = Append(@, o.reason)]
  /\ at' = at + 1
  /\ UNCHANGED <<program, scenario, phase, built, script, rotVars>>

(* The counts are complete; the checker's own counts are read from it.     *)
Report ==
  /\ program # "key_rotation" /\ phase = "deliver" /\ at = Len(script)
  /\ phase' = "reported"
  /\ UNCHANGED <<program, scenario, built, relayChecker, valChecker, script, at,
                 result, rotVars>>

(* The scenario's function returns; its checker, if it made one, is gone.  *)
NextScenario ==
  /\ phase = "reported"
  /\ scenario' = scenario + 1
  /\ phase' = "next"
  /\ script' = <<>> /\ at' = 0 /\ result' = BaseResult
  /\ valChecker' = IF Measuring THEN NewChecker(DefaultGap) ELSE valChecker
  /\ UNCHANGED <<program, built, relayChecker, rotVars>>

Save ==
  /\ program # "key_rotation" /\ phase = "next" /\ scenario > Len(Scenarios)
  /\ phase' = "saved"
  /\ UNCHANGED <<program, scenario, built, relayChecker, valChecker, script, at,
                 result, rotVars>>

NetNext ==
  BeginMeasurement \/ BeginAttack \/ Validate \/ AttackStep \/ Report
    \/ NextScenario \/ Save

RotationStepOfProgram ==
  program = "key_rotation" /\ RotNext /\ UNCHANGED <<program, netVars>>

MainOfRotation ==
  program = "key_rotation" /\ MainStep /\ UNCHANGED <<program, netVars>>

SimNext == NetNext \/ RotationStepOfProgram

(* The programs' main threads keep running; nothing is assumed of the      *)
(* scheduler's background thread.                                          *)
SimSpec ==
  SimInit /\ [][SimNext]_simVars /\ WF_simVars(NetNext) /\ WF_simVars(MainOfRotation)

-----------------------------------------------------------------------------
Reported == phase = "reported"
ReportedOf(names) == Measuring /\ Reported /\ Current.name \in names
First == built - Current.packets + 1
Arrived == {script[k].seq : k \in DOMAIN script}

(* The runs of consecutive lost packets, as their first and last numbers,  *)
(* that lie between two packets that arrived.                              *)
LostRuns ==
  {r \in (First .. built) \X (First .. built) :
     /\ r[1] <= r[2]
     /\ (r[1] .. r[2]) \cap Arrived = {}
     /\ r[1] - 1 \in Arrived
     /\ r[2] + 1 \in Arrived}

(* What packet_loss_sim.py measures is what its network did: loss alone    *)
(* makes the validator refuse nothing, whatever is lost and although every *)
(* scenario goes on with the numbers of the one before on a fresh checker; *)
(* and the sequence gaps reported are exactly the runs of loss between two *)
(* arrivals that are at least as long as the configured gap, so that a     *)
(* loss before the first or after the last arrival is never reported.      *)
LossReportsTrue ==
  ReportedOf({"random_loss", "burst_loss", "selective_loss", "recovery", "high_load",
              "duplicate_packets", "no_jitter_baseline"}) =>
    /\ \A c \in Classes \ {"duplicate"} : result.rejected[c] = 0
    /\ valChecker.gaps =
         Cardinality({r \in LostRuns : r[2] - r[1] + 1 >= Current.maxGap})
    /\ Current.name = "recovery" => result.recovered
    /\ result.accepted["duplicate"] = 0
    /\ valChecker.replays = result.rejected["duplicate"]

(* Under jitter and reordering the validator refuses exactly the packets   *)
(* that a higher number overtook, none of them as a replay; the            *)
(* out-of-order count that sim_time_jitter keeps for itself agrees with    *)
(* the validator's refusals; jitter of at most half the send interval      *)
(* costs nothing; and a shuffle within windows costs at most all but one   *)
(* packet of each window.                                                  *)
OrderReportsTrue ==
  ReportedOf({"time_jitter", "packet_reordering"}) =>
    /\ result.rejected["original"] =
         Cardinality({k \in DOMAIN script :
                        \E j \in 1 .. k - 1 : script[j].seq > script[k].seq})
    /\ result.late = result.rejected["original"]
    /\ valChecker.replays = 0
    /\ Current.name = "time_jitter" /\ 2 * Current.jitter <= SendInterval
         => result.rejected["original"] = 0
    /\ Current.name = "packet_reordering"
         => result.accepted["original"] * Current.window >= Current.packets

(* Every repeated or altered packet of the attack programs is refused by   *)
(* the very stage the scenario's docstring names, and every legitimate     *)
(* one, on its way through the same checkers between the attacks, is       *)
(* accepted: no verdict is owed to what an earlier attack left behind.     *)
AttackVerdictsEarned ==
  Attacking /\ Reported =>
    /\ result.refusals = Current.expected
    /\ result.rejected["legitimate"] = 0

(* The key rotation report is consistent whenever stop() saw the           *)
(* scheduler's thread end: one rotation at most, counted, called back,     *)
(* logged and the packet counter reset, or none of these although the      *)
(* deadline may have passed in the middle of it.                           *)
RotationReportTrue ==
  program = "key_rotation" /\ rotPc = "saved" =>
    /\ rotScenario = "manual_rotation" =>
         rotReport = [count |-> 1, callbacks |-> 1, triggered |-> TRUE,
                      counterReset |-> TRUE]
    /\ joined =>
         /\ rotReport.count = rotReport.callbacks
         /\ rotReport.count = Len(rotationLog)
         /\ rotReport.count \in {0, 1}
         /\ rotReport.triggered = (rotReport.count = 1)
         /\ rotReport.counterReset = rotReport.triggered

(* Each program comes to its end and saves its results, the key rotation   *)
(* program even when the background thread never runs.                     *)
ProgramsFinish == <>(phase = "saved" \/ rotPc = "saved")
=============================================================================
