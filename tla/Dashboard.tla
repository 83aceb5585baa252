------------------------------ MODULE Dashboard ------------------------------
(***************************************************************************)
(* dashboard/app.py: the session state of the Streamlit application with   *)
(* the feed, the comparison feed and the threat panel it owns.  Every      *)
(* click runs the script again from the top: the click is handled, then,   *)
(* while "running", a batch of packets is processed, and a click on "save" *)
(* is handled only at the end.  A new click interrupts the script between  *)
(* two packets, so left counts the packets the current batch still has to  *)
(* process.  The compare switch may be changed by any click.               *)
(***************************************************************************)
EXTENDS TelemetryFeed, ThreatPanel, FiniteSetsExt

CONSTANTS
  BatchSize,            (* n_packets *)
  ChartCap,             (* 1000 in the code *)
  HistoryCap,           (* 20 in the code *)
  MaxResets,            (* bound on how often the feed is reset *)
  MaxWork               (* bound on the packets of one behaviour *)

ASSUME DashboardAssumption ==
  /\ PanelCap \in Nat /\ ChartCap \in Nat /\ HistoryCap \in Nat
  /\ MaxResets \in Nat

VARIABLES
  feedA, feedB,         (* session_state.feed, feed_b *)
  panel,                (* session_state.threat_panel *)
  running, processed,   (* session_state.running, packets_processed *)
  compare,              (* the compare switch *)
  left,                 (* packets left in the batch *)
  saving,               (* the click being handled is "save" *)
  charts,               (* the chart lists, by generation of the feed *)
  runHistory,           (* session_state.run_history *)
  clean,                (* history: the last start did not fail half way *)
  errors,               (* history: broken frames since the feed was reset *)
  injected,             (* history: attacks injected since then *)
  work                  (* packets processed or injected so far *)

vars == <<feedA, feedB, panel, running, processed, compare, left, saving,
          charts, runHistory, clean, errors, injected, work>>

Gens == 0 .. MaxResets

Init ==
  /\ feedA = ResetState(0) /\ feedB = ResetState(0)
  /\ panel = PanelReset
  /\ running = FALSE /\ processed = 0 /\ compare = FALSE
  /\ left = 0 /\ saving = FALSE
  /\ charts = [g \in Gens |-> <<>>]
  /\ runHistory = <<>>
  /\ clean = TRUE /\ errors = 0 /\ injected = 0 /\ work = 0

(* _reset_state makes new lists; those of earlier generations are only     *)
(* reachable from saved runs.                                              *)
FreshGen == feedA.gen + 1
CanReset == FreshGen \in Gens

-----------------------------------------------------------------------------
(* The Start button.  initialise() resets the feed before it looks for     *)
(* data, and an exception ends the script on the spot.  Without the        *)
(* compare switch the comparison feed keeps what it has.                   *)
StartFails ==
  /\ CanReset
  /\ feedA' = ResetState(FreshGen)
  /\ clean' = FALSE /\ errors' = 0 /\ injected' = 0
  /\ left' = 0 /\ saving' = FALSE
  /\ UNCHANGED <<feedB, panel, running, processed, compare, charts, runHistory, work>>

StartFailsHalfWay ==
  /\ CanReset
  /\ compare
  /\ feedA' = Initialised(FreshGen)
  /\ feedB' = ResetState(FreshGen)
  /\ clean' = FALSE /\ errors' = 0 /\ injected' = 0
  /\ left' = 0 /\ saving' = FALSE
  /\ UNCHANGED <<panel, running, processed, compare, charts, runHistory, work>>

(* Faulty variant: the threat panel keeps the events of the last session.  *)
StartKeepsPanel ==
  /\ CanReset
  /\ feedA' = Initialised(FreshGen)
  /\ feedB' = IF compare THEN Initialised(FreshGen) ELSE feedB
  /\ running' = TRUE /\ processed' = 0
  /\ left' = BatchSize /\ saving' = FALSE
  /\ clean' = TRUE /\ errors' = 0 /\ injected' = 0
  /\ UNCHANGED <<panel, compare, charts, runHistory, work>>

Start ==
  /\ CanReset
  /\ feedA' = Initialised(FreshGen)
  /\ feedB' = IF compare THEN Initialised(FreshGen) ELSE feedB
  /\ panel' = PanelReset
  /\ running' = TRUE /\ processed' = 0
  /\ left' = BatchSize /\ saving' = FALSE
  /\ clean' = TRUE /\ errors' = 0 /\ injected' = 0
  /\ UNCHANGED <<compare, charts, runHistory, work>>

(* Faulty variant: the chart lists are emptied in place.                   *)
ResetInPlace ==
  /\ CanReset
  /\ feedA' = ResetState(FreshGen) /\ feedB' = ResetState(FreshGen)
  /\ panel' = PanelReset
  /\ running' = FALSE /\ processed' = 0
  /\ left' = 0 /\ saving' = FALSE
  /\ charts' = [charts EXCEPT ![feedA.gen] = <<>>]
  /\ clean' = TRUE /\ errors' = 0 /\ injected' = 0
  /\ UNCHANGED <<compare, runHistory, work>>

(* The Reset button.                                                       *)
Reset ==
  /\ CanReset
  /\ feedA' = ResetState(FreshGen) /\ feedB' = ResetState(FreshGen)
  /\ panel' = PanelReset
  /\ running' = FALSE /\ processed' = 0
  /\ left' = 0 /\ saving' = FALSE
  /\ clean' = TRUE /\ errors' = 0 /\ injected' = 0
  /\ UNCHANGED <<compare, charts, runHistory, work>>

Rerun == IF running THEN BatchSize ELSE 0

(* The Inject button, while running.                                       *)
Inject(attack) ==
  LET after == InjectAttack(feedA, attack)
  IN  /\ running
      /\ work < MaxWork /\ work' = work + 1
      /\ feedA' = after.feed
      /\ panel' = IF after.result = NoPacket THEN panel ELSE Ingest(panel, after.result)
      /\ injected' = injected + (IF after.result = NoPacket THEN 0 ELSE 1)
      /\ left' = Rerun /\ saving' = FALSE
      /\ UNCHANGED <<feedB, running, processed, compare, charts, runHistory,
                     clean, errors>>

(* Any other widget: the script runs again, perhaps with compare changed,  *)
(* perhaps because "save" was clicked.                                     *)
Click(other, save) ==
  /\ left = 0
  /\ save => running
  /\ compare' = other
  /\ saving' = save
  /\ left' = Rerun
  /\ UNCHANGED <<feedA, feedB, panel, running, processed, charts, runHistory,
                 clean, errors, injected, work>>

-----------------------------------------------------------------------------
(* One pass of the loop over n_packets.                                    *)
ProcessPacket(kind, kindB) ==
  LET after == ProcessOnePacket(feedA, kind)
      kept == after.result # NoPacket /\ after.result.decision # "REJECT"
  IN  /\ left > 0
      /\ work < MaxWork /\ work' = work + 1
      /\ feedA' = after.feed
      /\ panel' = IF after.result = NoPacket THEN panel ELSE Ingest(panel, after.result)
      /\ processed' = processed + (IF after.result = NoPacket THEN 0 ELSE 1)
      /\ charts' = IF kept THEN [charts EXCEPT ![feedA.gen] =
                                   AppendBounded(@, after.result.seq, ChartCap)]
                   ELSE charts
      /\ errors' = errors + (IF feedA.ready /\ kind = "broken" THEN 1 ELSE 0)
      /\ feedB' = IF compare THEN ProcessOnePacket(feedB, kindB).feed ELSE feedB
      /\ left' = left - 1
      /\ UNCHANGED <<running, compare, saving, runHistory, clean, injected>>

(* The save button is reached after the batch that its click started.  The *)
(* record holds the chart lists themselves, the rest by value.             *)
Save ==
  /\ saving /\ left = 0
  /\ runHistory' = AppendBounded(runHistory,
                     [packets |-> feedA.total, chart |-> feedA.gen,
                      points |-> Len(charts[feedA.gen])], HistoryCap)
  /\ saving' = FALSE
  /\ UNCHANGED <<feedA, feedB, panel, running, processed, compare, left,
                 charts, clean, errors, injected, work>>

Next ==
  \/ Start \/ StartFails \/ StartFailsHalfWay \/ Reset
  \/ \E attack \in Attacks : Inject(attack)
  \/ \E other, save \in BOOLEAN : Click(other, save)
  \/ \E kind \in FrameKinds : ProcessPacket(kind, "normal")
  \/ Save

Spec == Init /\ [][Next]_vars

-----------------------------------------------------------------------------
(* Every injected packet is refused, whatever came before it: a replay     *)
(* because its number was used, a tampered one by the tag, a forged one by *)
(* its signature.                                                          *)
AttacksBlocked ==
  \A i \in 1 .. Len(feedA.recent) :
    feedA.recent[i].attack # "none" => feedA.recent[i].decision = "REJECT"

(* The panel and the feed, which are told of a packet by different calls,  *)
(* agree on the session after a start that did not fail half way: accepted *)
(* packets are the feed's, and every other result was rejected or flagged; *)
(* broken frames are known to the feed only.                               *)
PanelAgrees ==
  clean => /\ panel.accepted = feedA.accepted
           /\ panel.rejected = feedA.rejected + feedA.flagged - errors
           /\ processed + injected = panel.accepted + panel.rejected

(* Trimming happens only when a packet is accepted, and drops one entry:   *)
(* the packet history exceeds its limit at most by the injected packets,   *)
(* the audit history by the rejections.                                    *)
HistoriesBounded ==
  /\ Len(feedA.recent) <= RecentCap + injected
  /\ Len(feedA.audit) <= AuditCap + feedA.rejected
  /\ Len(panel.events) <= PanelCap
  /\ \A g \in Gens : Len(charts[g]) <= ChartCap

(* A saved run shares its chart with the feed while the session lasts, and *)
(* keeps it from then on: starting or resetting never changes the chart of *)
(* a run saved in an earlier session.                                      *)
SavedRunsSettle ==
  [][\A i \in 1 .. Len(runHistory) :
       runHistory[i].chart # feedA'.gen =>
         charts'[runHistory[i].chart] = charts[runHistory[i].chart]]_vars
=============================================================================
