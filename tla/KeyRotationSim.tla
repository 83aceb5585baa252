--------------------------- MODULE KeyRotationSim ---------------------------
(***************************************************************************)
(* simulations/key_rotation_sim.py: the main thread of the evaluation,     *)
(* driving a KeyScheduler whose background thread it waits for, stops and  *)
(* joins with a time limit.  The two scenarios build an engine and a       *)
(* scheduler each and share nothing, so a behaviour runs one of them.      *)
(* The main thread is the only one that forces a rotation; the callback    *)
(* appends to a list whose length is the scheduler model's count of        *)
(* callbacks.                                                              *)
(***************************************************************************)
EXTENDS KeyScheduler

CONSTANTS
  MainThread,
  ManualPackets     (* packets recorded before force_rotation: 20 *)

ASSUME RotationSimAssumption ==
  /\ Callers = {MainThread}
  /\ CallbackMode = "log"
  /\ ManualPackets \in Nat \ {0}

VARIABLES
  rotPc,        (* where the main thread is *)
  rotScenario,  (* which scenario it runs *)
  joined,       (* whether stop() saw the background thread end *)
  rotReport     (* the result dictionary *)

rotVars == <<engineVars, schedVars, rotation, rotPc, rotScenario, joined, rotReport>>
mainVars == <<rotScenario, joined, rotReport>>

NoReport == [count |-> 0, callbacks |-> 0, triggered |-> FALSE, counterReset |-> FALSE]

RotInit ==
  /\ SchedulerInit
  /\ rotScenario \in {"manual_rotation", "packet_count_rotation"}
  /\ rotPc = "start"
  /\ joined = FALSE
  /\ rotReport = NoReport

At(from, to) == rotPc = from /\ rotPc' = to

(* scheduler.start() in the second scenario only.                          *)
StartScheduler ==
  /\ At("start", "record")
  /\ scheduling' = (rotScenario = "packet_count_rotation")
  /\ UNCHANGED <<engineVars, packetCount, age, rotationCount, rotationLog, rotated,
                 rotation, mainVars>>

ToRecord == IF rotScenario = "manual_rotation" THEN ManualPackets ELSE MaxPackets

(* The for loop over record_packet(); nothing else raises the count, and   *)
(* no rotation resets it before it reaches MaxPackets.                     *)
Record ==
  /\ packetCount < ToRecord
  /\ At("record", IF packetCount + 1 < ToRecord THEN "record"
                  ELSE IF rotScenario = "manual_rotation" THEN "force" ELSE "wait")
  /\ packetCount' = packetCount + 1
  /\ UNCHANGED <<engineVars, age, rotationCount, scheduling, rotationLog, rotated,
                 rotation, mainVars>>

MainForces == At("force", "forcing") /\ ForceRotation(MainThread) /\ UNCHANGED mainVars

Forced ==
  /\ rotation[MainThread].pc = "idle"
  /\ At("forcing", "report")
  /\ UNCHANGED <<engineVars, schedVars, rotation, mainVars>>

(* Faulty variant: the loop has no deadline.                               *)
WaitEndsRotated ==
  /\ rotationCount > 0
  /\ At("wait", "stop")
  /\ UNCHANGED <<engineVars, schedVars, rotation, mainVars>>

(* The polling loop ends when a rotation has been counted or after two     *)
(* seconds.                                                                *)
WaitEnds ==
  /\ At("wait", "stop")
  /\ UNCHANGED <<engineVars, schedVars, rotation, mainVars>>

StopScheduler ==
  /\ At("stop", "join")
  /\ scheduling' = FALSE
  /\ UNCHANGED <<engineVars, packetCount, age, rotationCount, rotationLog, rotated,
                 rotation, mainVars>>

(* Faulty variant: the thread is not waited for.                           *)
JoinNot ==
  /\ At("join", "report")
  /\ joined' = TRUE
  /\ UNCHANGED <<engineVars, schedVars, rotation, rotScenario, rotReport>>

Join ==
  /\ rotation[Background].pc = "idle"
  /\ At("join", "report")
  /\ joined' = TRUE
  /\ UNCHANGED <<engineVars, schedVars, rotation, rotScenario, rotReport>>

(* thread.join(timeout=...) returns although the thread is still at work.  *)
JoinTimesOut ==
  /\ rotation[Background].pc # "idle"
  /\ At("join", "report")
  /\ UNCHANGED <<engineVars, schedVars, rotation, mainVars>>

(* The result dictionary is filled from four reads, each of which takes    *)
(* the scheduler's lock for itself.                                        *)
ReportCounts ==
  /\ At("report", "triggered")
  /\ rotReport' = [rotReport EXCEPT !.count = rotationCount, !.callbacks = rotated]
  /\ UNCHANGED <<engineVars, schedVars, rotation, rotScenario, joined>>

ReportTriggered ==
  /\ At("triggered", "reset")
  /\ rotReport' = [rotReport EXCEPT !.triggered =
                     IF rotScenario = "manual_rotation" THEN rotationCount = 1
                     ELSE rotationCount >= 1]
  /\ UNCHANGED <<engineVars, schedVars, rotation, rotScenario, joined>>

ReportReset ==
  /\ At("reset", "saved")
  /\ rotReport' = [rotReport EXCEPT !.counterReset = (packetCount = 0)]
  /\ UNCHANGED <<engineVars, schedVars, rotation, rotScenario, joined>>

MainStep ==
  \/ StartScheduler
  \/ Record
  \/ MainForces
  \/ RotationStep(MainThread) /\ UNCHANGED <<rotPc, mainVars>>
  \/ Forced
  \/ WaitEnds
  \/ StopScheduler
  \/ Join
  \/ JoinTimesOut
  \/ ReportCounts
  \/ ReportTriggered
  \/ ReportReset

BackgroundStep ==
  /\ CheckRotation \/ RotationStep(Background)
  /\ UNCHANGED <<rotPc, mainVars>>

RotNext == MainStep \/ BackgroundStep
=============================================================================
