# PitCrypt-F1 in TLA+

PitCrypt-F1 carries a race car's telemetry to a validator in three steps. A car
producer numbers, signs and encrypts frames and rotates its session key while it
does so; a relay decrypts, checks and re-encrypts them; a validator decrypts,
verifies, checks their order and decides. Around them the repository keeps an
access control module, a dashboard that runs a pipeline of its own, programs that
evaluate the protocol under loss, jitter, attack and key rotation, and analyses
of the recorded laps. This directory models all of these, checks them with TLC on
small instances, and proves with TLAPS, for every instance, every safety property
that the passing runs check.

## 1. Inventory

| Component | State | Operations | What is hard | Correct means |
|---|---|---|---|---|
| Car producer, `car_producer/src/main.py` | running flag, socket, packet counter, bounded queue, statistics | `start`, `stop`, producer and transmitter loop | two threads and the scheduler's thread share the engine and the statistics; `stop` joins nobody | every packet built has one fate; packets leave in order; a stopped node stops |
| Key scheduler, `key_scheduler.py`; engine, `crypto_engine.py` | session key pair, session key, packet count, age, rotation number and log | `record_packet`, background check, `force_rotation`, `_do_rotation`, callbacks | the lock covers two fragments of a rotation; the engine has none; the old key goes before the new one exists | rotations are justified, numbered once, and end with one key on both sides |
| Relay, `relay-node/src/main.py`, with parser, decryptor, integrity checker, anomaly filter, re-encryptor | sessions per car, validator session, last number and window per car, rate-of-change baseline, counters of six classes | `process_packet`, session setup and update, `reset_node` | a packet may fail at any of five stages after earlier ones have recorded it | numbers increase between resets; impossible values never pass; counters agree |
| Validator, `validator-node/src/main.py`, with signature verifier, sequence checker, ZKP verifier | relay session, key registry, last number and window per car, counters of five classes, audit trail | `process_packet`, session setup, (de)registration, `reset_node` | the number is recorded before the commitment is verified; sessions and keys change between packets | no number used twice; refused packets leave no trace; every decision on the trail |
| Audit logger, `audit_logger.py` | events, counters, file | `log_accept/reject/flag`, `summary` | the file is written, and the counters are read, outside the lock | every event has one fate; per-thread order; summaries cover the trail |
| IAM module, `iam-module/src` | identities, policies, decisions, event trail, streaks of denials, alert counter | `register`, `register_public_key`, `deregister`, `check`, `enforce`, `record` | `check` reads the store twice without a lock; `_check_alert` runs after the lock is released | nothing is allowed that no identity of the node had; alerts match streaks |
| Dashboard, `dashboard/app.py` with `TelemetryFeed` and `ThreatPanel` | session state: two feeds with their own checkers, counters and histories, a panel, saved runs | start, reset, inject, save, the packet loop | a click interrupts a batch; a start fails half way; saved runs share lists with the feed | panel and feed agree; attacks are refused; saved runs keep their data |
| Simulations, `simulations/*.py` | one pipeline per program, its checkers, the results | scenarios of loss, jitter, reordering, replay, tampering, key rotation, access breaches | scenarios share numbers, checkers and counters; the rotation program polls another thread | what is reported is what happened |
| Performance, `performance/*.py` | none | corner detection, sectors, laps, track, driver comparison | plateaus, ties, clipping, boundaries | segments are disjoint, complete and none is missed |
| ZKP module (Rust crate) | none | commit, prove, verify | algebra | not modelled |
| Benchmarks, forensic scripts | local | measurement, download, plots | - | not modelled |

Calls: the car's `_send_packet` writes to a socket; the relay's `process_packet`
takes the bytes and returns the packet for the validator's `process_packet`. The
key scheduler calls the engine and the registered callbacks from its own thread.
The validator calls the audit logger, whose lock exists because several threads
may log. The dashboard and the simulations call the parts of the three nodes
directly, in one thread, and so bypass `process_packet`: they have models of their
own, which share `ReplayWindow` with the nodes. The key rotation program uses the
key scheduler with its thread, and its model extends `KeyScheduler`.

## 2. Modules

| Module | Models |
|---|---|
| `ReplayWindow` | the tests on one number and one timestamp, and the rolling window, which the relay's and the validator's checkers have in common |
| `SequenceChecker` | `ValidatorSequenceChecker`: `check` (split by outcome into `PassPacket` and `FailPacket`), `reset_node` |
| `ValidatorNode` | extends `SequenceChecker` with the node: one action per exit of `process_packet`, sessions, registry, counters, trail |
| `IntegrityChecker`, `AnomalyFilter` | the relay's two stateful stages |
| `RelayNode` | the relay, instantiating both: one action per exit of `process_packet`, sessions, counters |
| `KeyScheduler` | the crypto engine's session and the rotation, at the grain another thread can observe |
| `CarProducer` | extends `KeyScheduler` with the node's threads, queue, socket and life cycle |
| `AuditLogger` | the logger at the grain of its lock |
| `TelemetryLog` | abstract: what the whole pipeline promises. One trail of entries, kept or refused; the kept numbers of a car increase and were sent |
| `Pipeline` | instantiates `RelayNode` and `ValidatorNode` over two unreliable networks; implements `TelemetryLog` |
| `AccessControl` | `IdentityStore`, `PolicyLoader`, `RBACEngine`, `AccessAuditor` under several threads, one action per step between two lock or store accesses |
| `IamBreach` | extends it with `iam_breach_sim.py`: the seven scenarios in one thread, or a service with several |
| `TelemetryFeed`, `ThreatPanel` | the dashboard's two stateful components, as operators from a record to the record afterwards |
| `Dashboard` | the session state of `app.py`: one action per button, one per packet of the loop |
| `SimPipeline` | what the simulations share: a checker and the checks a packet is put through |
| `PacketLossSim`, `JitterSim`, `AttackSims` | the scenarios: for loss and jitter the set of delivery scripts their network can produce, for the attacks a fixed script and the refusals it expects |
| `KeyRotationSim` | extends `KeyScheduler` with the main thread of `key_rotation_sim.py` |
| `Simulations` | the five programs: begin a scenario, deliver, count, report, save |
| `CornerAnalysis` | corner detection stage by stage, with one step for each iteration of the scan, of the selection and of the building of corners, and the division into sectors |
| `MC*` | constants for TLC |
| `ValidatorNode_proofs`, `RelayNode_proofs`, `CarProducer_proofs`, `AuditLogger_proofs`, `Pipeline_proofs`, `IamBreach_proofs`, `Dashboard_proofs` | the theorems about the module they extend, the first also about `SequenceChecker` (section 4) |
| `Evaluation_proofs` | the theorems about `Simulations` and `CornerAnalysis` |

State corresponds to attributes by name or by the comment beside each
`VARIABLE`. Variables marked *history* (`passedLog`, `resets`, `trail`,
`refused`, `lastSent`, `keyUse`, `lost`, `held` in a call of `AccessControl`,
`clean`, `errors` and `injected` in `Dashboard`) are not in the code; no guard of a
code action reads them, except `resets`, which bounds how often a car is reset.
Operators introduced as *faulty variant* are never part of a specification: each
is a plausible bug of the operator that follows it, kept to show that some
property notices the difference.

### Abstractions

* **Cryptography.** A packet opens under the session key it was encrypted with
  and only when nonce, ciphertext and header are as they were sent; a signature
  verifies under the key that made it. In `KeyScheduler` a key is the pair of the
  two key-pair generations that went into it.
* **Packets** are records of what the code tells apart. `form` in `RelayNode`
  classifies what the parser can meet; `zkp` in `ValidatorNode` says what
  commitment and nonce amount to. The relay's output carries no commitment
  fields, so in the pipeline the commitment stage only ever skips; the paths of
  an invalid commitment are explored in `ValidatorNode`, whose `process_packet`
  accepts packets from any caller.
* **Payloads** in the relay are functions from some of the channels to the values in
  `Readings`, with limits, thresholds and rates as constants.
* **Time** is a clock that jumps forward among a few values. Timestamp checks are
  off in both configuration files and on in the runs of the single nodes.
* **`process_packet`** of relay and validator is not re-entered: the programs call
  it from one thread. Each exit is one atomic action.
* **`reset_node`** is called by tests only. The relay's is an action of
  `RelayNode` and `Pipeline`. The validator's is an action of `SequenceChecker`;
  `ValidatorNode` leaves it out, because the node offers no operation that calls
  it. With it, `NumbersUsedOnce` would hold between resets only, as
  `PassedIncreasing` states.
* **Car producer threads.** Steps are split wherever another thread can observe
  the difference. `_stats[...] += 1` is one step: CPython 3.11 switches
  threads only at calls and backward jumps, of which the statement has none. The
  second `session_established` test, in `CryptoEngine.encrypt`, is merged with
  `PacketEncryptor`'s: failing either has the same effect.
* **The rotation callback** is a parameter: `"log"` is what
  `CarProducerNode._on_key_rotation` does, `"rehandshake"` the exchange of
  `car_producer/tests/test_crypto.py` and ADR 003, `"raise"` one that fails.
* **Access control.** Policies and nodes are those of `iam-module/policies` and
  `config/iam.yaml`; a file that does not load is one of the inputs of `LoadAll`.
  `alerts` keeps, instead of the bare counter, which node each alert was about and
  how long the trail was, so that properties can refer to that moment.
* **Dashboard.** A frame is one of four kinds (normal, flagged, impossible, broken);
  `broken` makes `process_one_packet` end in its `except` clause. The feeds order
  strictly, so the window of seen numbers adds nothing and only the last number is
  kept. Chart lists are kept apart by generation of the feed, because saved runs
  refer to the lists themselves. `reencrypt_failed` and the second AEAD failure of
  `inject_attack` cannot happen with the sessions that `initialise` sets up and are
  left out. Streamlit runs the script again on every click; it may stop the running
  one only where the script calls it, which in the loop is once per packet.
* **Simulations.** `random` is a free choice. A scenario builds its packets before it
  delivers them; as building and validating happen in one thread and share nothing,
  this changes no result. Latencies, rates in per cent and the summaries printed are
  left out. Delays are whole units.
* **Performance.** Speeds are even whole numbers, so that the median of two is whole;
  sector boundaries are compared exactly, as fractions of the span. The code computes
  them in floating point, where the upper end of the last sector may be off by a
  rounding error.

## 3. Runs

All runs use the specification of the module they name; constants are in the
`.cfg` files and `MC*` modules.

| Run | Instance | What it shows |
|---|---|---|
| `validator` | 2 cars, 2 session keys, 2 signing keys, 12 packets that deviate from a good one in one respect, 3 received | the replay window is exactly the last numbers passed (`WindowHoldsRecent`), `NumbersUsedOnce`, `StagesAgree`, `AuditAgreesWithStats`, `GapsAreFlagged`, `RejectionsLeaveNoTrace` |
| `relay` | 1 car, 2 channels, 15 packets, 3 received, 1 reset | numbers, counters of all stages, baseline, no impossible value forwarded |
| `car_rehandshake` | 4 packets, queue of 2, 2 rotations, by age 1 or 2 packets, relay connected, not connected or not wanted | with only the background thread rotating: nothing lost, order of packets and keys, count covers the key, the rotation log is true and in order, both ends agree |
| `car_liveness` | 1 packet, queue of 1, two threads that rotate | the same node under `force_rotation`: encryption comes back, counts come down, a stopped node stops |
| `audit` | 2 writers, 1 reader, 3 events, writes that fail | one fate per event, order per thread, summaries cover |
| `pipeline` | 1 car, 2 packets, 3 handshakes, 1 reset, 4 arrivals at the relay, 3 at the validator | `ImplementsLog` and what relay and validator owe each other |
| `iam` | the configured nodes and policies; the whole breach script; or 2 threads, 4 decisions, 1 change of the store, threshold 2 | `AllowedWhileActive`, `AlertsJustified`, `StreaksAlerted`; `VerdictsEarned` for the script |
| `dashboard` | 5 packets in batches of 2, 2 resets, histories of 1 or 2 entries | attacks refused, panel and feed agree, histories within their slack, saved runs settle |
| `simulations` | 6 packets per loss scenario with every subset lost, 4 per jitter scenario with every delay or shuffle, window 2, 2 packets per key | the reports are true, the verdicts earned, the programs end |
| `performance` | every lap of 7 samples at 4 speeds, 3 distance profiles, smoothing over 1 or 3 samples, 3 sectors | corners disjoint and none missed, sectors a partition |
| `relay_badhex` | as `relay` | violation, see 5 |
| `car_log_only` | 3 packets, 1 rotation | violation, see 5 |

### Why the bounds are enough

The window is 1 or 2 where the code has 50 000, so that eviction happens after
two or three packets; three numbers then suffice for "passed, evicted, repeated",
and gaps of exactly and one more than the limit are among the inputs. Three
packets at a node let one establish state, one disturb it and one reveal it. Two
rotations give three generations of keys; `MaxRotations` is tested when a thread
decides to rotate, so in `car_liveness` the two threads can both be inside
`_do_rotation`. In `car_rehandshake` four packets overflow the queue of two while
the transmitter holds one. `car_liveness` has one packet, because every further
one multiplies the interleavings with two rotating threads; the packets' own
interleavings with a rotation are in `car_rehandshake`. In `pipeline` the networks
keep every packet for ever, so two packets are enough for any repetition and
reordering of two.

In `iam` two is the least threshold that tells a streak from a single denial; two
threads and four decisions let one thread record between another's recording and its
alert test, and one change of the store is what fits between the two reads of one
check. In `dashboard` the histories hold one or two entries so that they overflow
within five packets, and two resets give a saved run a later session to survive. In
`simulations` six packets allow runs of loss of lengths below, at and above the gap
limit with arrivals on both sides; the jitter levels lie at half the send interval,
which is the most that never reorders, at the interval, and at the base delay, where
a packet may take no time at all.
Seven samples hold two corners three samples apart, with a plateau between or beside
them, also after smoothing.

Deadlock is not checked where a behaviour ends by its bounds or by `stop`.

### Fairness

`CarProducer` states weak fairness of `start`, of the closing of
the socket in `stop`, and of each thread's steps. The operating system schedules every
runnable Python thread, none of the steps waits for another thread for ever (`get`
has a timeout, the locks protect a few assignments), and the sleeps end. Nothing
obliges anybody to call `stop` or `force_rotation`, time to pass or a send to
succeed or to fail. `Simulations` assumes that the main thread of a program keeps
running and nothing of the scheduler's thread: `ProgramsFinish` holds because the
polling loop has a deadline and the join a time limit.

## 4. Theorems

All theorems are about the specifications the runs check, with the constants left
open: any sets of cars, numbers, times, keys, packets, threads, nodes and policies,
any limits, thresholds, windows and queue sizes, any value of the bounds.

| Theorem | States | Needs |
|---|---|---|
| `SeqTypeCorrect`, `TypeCorrect`, `RelayTypeCorrect`, `CarTypeCorrect`, `LoggerTypeCorrect`, `IamTypeCorrect` | the type invariant of each component | |
| `PassedNumbersIncrease` | `SeqSpec => []PassedIncreasing` | |
| `WindowAlwaysRecent`, `NodeWindowAlwaysRecent` | `[]WindowHoldsRecent`, for the checker and inside the node | |
| `NumbersNeverReused` | `Spec => []NumbersUsedOnce` | |
| `StagesAlwaysAgree` | `Spec => []StagesAgree` | |
| `RefusedLeavesNoTrace` | `Spec => RejectionsLeaveNoTrace`, an action property | |
| `AuditAlwaysAgrees` | `Spec => []AuditAgreesWithStats` | |
| `GapsAlwaysFlagged` | `Spec => []GapsAreFlagged` | |
| `RelayNumbersNeverReused` | `Spec => []RelayNumbersUsedOnce` | |
| `ReplaysAlwaysOutOfOrder` | `Spec => []ReplaysAreOutOfOrder` | |
| `RelayStagesAlwaysAgree` | `Spec => []RelayStagesAgree` | |
| `ImpossibleNeverForwarded` | `Spec => []NoImpossibleForwarded` | |
| `BaselineAlwaysLastPassed` | `Spec => []BaselineIsLastPassed` | |
| `PacketsNeverLost` | `Spec => []NothingLost` | |
| `AlwaysSentInOrder` | `Spec => SentInOrder`, an action property | |
| `CountAlwaysCovers`, `KeysAlwaysAgree`, `RotationLogAlwaysTrue` | `[]CountCoversKey`, `[]KeysAgree`, `[]RotationLogTrue` | `Callers = {}` |
| `EventsAccountedFor`, `FileKeepsThreadOrder`, `SummariesCover` | `[]EveryEventAccountedFor`, `[]FileOrderPerThread`, `[]SummaryCovers` | |
| `PipelineImplementsLog` | `Spec => ImplementsLog`, the refinement | `StrictOrdering` |
| `RecordedAlwaysForwarded` | `Spec => []RecordedWereForwarded` | |
| `AllowedOnlyWhileActive`, `AlertsAlwaysJustified`, `StreaksAlwaysAlerted` | `[]AllowedWhileActive`, `[]AlertsJustified`, `[]StreaksAlerted` | |
| `VerdictsAlwaysEarned` | `Spec => []VerdictsEarned` | `StormAssumption` |
| `AttacksAlwaysBlocked`, `PanelAlwaysAgrees`, `HistoriesAlwaysBounded` | `[]AttacksBlocked`, `[]PanelAgrees`, `[]HistoriesBounded` | |
| `SavedRunsAlwaysSettle` | `Spec => SavedRunsSettle`, an action property | |
| `RotationReportAlwaysTrue` | `SimSpec => []RotationReportTrue` | `RotationSimAssumption` |
| `OrderReportsAlwaysTrue`, `LossReportsAlwaysTrue` | `SimSpec => []OrderReportsTrue`, `SimSpec => []LossReportsTrue` | `JitterAssumption`, `LossAssumption` |
| `AttackVerdictsAlwaysEarned` | `SimSpec => []AttackVerdictsEarned` | `AttackAssumption` |
| `CornersAlwaysDisjoint`, `SharpDipsAlwaysReported` | `Spec => []CornersDisjoint`, `Spec => []SharpDipsReported` | `LapAssumption` |
| `SectorsAlwaysPartition` | `Spec => []SectorsPartition` | `LapAssumption` |

### Assumptions

The named `ASSUME`s, which TLC evaluates on every run: numbers are integers, times are
naturals and 0 is one of them, limits, caps and bounds are naturals, windows, queues,
rotation limits and the alert threshold are not 0, options are Boolean; `NoKey`,
`Pending`, `None` and `NoPacket` are none of the things they stand in for; the packets
offered have the packet type; the logger has finitely many threads; the nodes that the
breach script and the service ask about are among `NodeIds`.

Those of the evaluation programs say what the programs' own constants are.
`StormAssumption`: the node that probes in the denial storm is not in `iam.yaml`, and
the threshold (3) is at most the number of probes (8). `RotationSimAssumption`: one main
thread, whose callback only notes that it was called. `LossAssumption`,
`JitterAssumption`, `AttackAssumption`: numbers of packets, bursts, delays and jumps
are naturals, windows and gaps are not 0. `LapAssumption`: the samples of a lap are
sorted by distance (`_sorted_by_distance`), there is at least one sector and no
threshold is negative (the constructors refuse both), speeds are integers.

Four theorems have hypotheses of their own. `Callers = {}` says that only the
scheduler's thread rotates, which is how `car_producer/src/main.py` uses it; outside
tests, demonstrations and the rotation program nothing calls `force_rotation`, and
with a second rotating thread the three properties fail (section 5). `NothingLost` and
`SentInOrder` do not need it. `StrictOrdering` is the
validator's default and what every program of the repository uses; without it the checker passes numbers below the last one and the log's
order is not promised. `NumbersUsedOnce`, `PassedIncreasing` and `WindowHoldsRecent`
carry that condition in their statement. `RecordedWereForwarded` holds either way.

### Arguments

*Numbers (validator).* `PassedIncreasing` speaks about the history only and is not
inductive: the next number is compared with `lastSeq`, not with the history. `SeqInv`
adds that every number passed since the reset is at most the car's `lastSeq`, and that
a car that has passed something has a positive one, since the ordering test is off
while it is 0. The window plays no part: under strict ordering the replay test is
redundant, which is why eviction is harmless there. `NumbersUsedOnce` is the same
argument along the audit trail: lemma `StepKinds` reduces the actions of the node to
three kinds (quiet, refused, passed on), and `UsedInv` adds that every event past the
sequence check carries a number at most its car's `lastSeq`. `RefusedLeavesNoTrace`
follows from `StepKinds` alone.

*The window.* `WindowInv` strengthens `WindowHoldsRecent` by the size of the window.
In an increasing history the least of the last numbers is the oldest of them, so that
`Remember`, which discards the least, moves the window on by one
(`RememberMovesWindow`).

*The trail.* `AuditAgreesWithStats` counts positions of the trail with `Cardinality`;
appending one event adds one position to one of the three sets. `GapsAreFlagged`
compares an accepted number with the previous one of its car in the trail, the code
compares it with `lastSeq`: `TrailEnd` says that the two are the same.

*Relay.* `TrailBelowLast` plays the part of `SeqInv`, for the era since the last reset
only: an entry of the current era is at most `lastSequence`, so that a reset makes the
old entries harmless. `WindowBelowLast` gives that every replay is out of order.
`NoImpossibleForwarded` follows from the severity at the moment of forwarding, and
`BaselineIsLastPassed` from the fact that the filter updates the baseline before the
packet's fate is decided. The stages' counters are inductive given the types.

*Car producer.* `NothingLost` is inductive given the types; every thread's step moves a
packet from one place to the next. `SentInOrder` needs the whole line of packets to be
in order: `LineInv` orders the last packet sent, the one being sent and the queue, all
behind the producer, and `HandInv` ties the packet in the producer's hands to the
sequence counter and to the current key generation. `KeyInv` describes each point of a
rotation: between discarding the key and the callback there is none, so nothing can be
encrypted with a key the count does not cover. `LogInv` says that a rotation which has
its number and is not in the log yet is the only one, and that the reason it began for
still holds of the count it saved.

*Audit logger.* An event that a thread has recorded and not written is newer than every
event of that thread in the file and is not lost (`PendingNewest`); what is in the file
or lost was recorded (`WrittenRecorded`). The counters add up to the trail and the
length a summary has taken is not beyond it (`CountersCover`).

*Access control.* `SeenInv` says for each point of a check which identity the thread
has read and that it is among those the node held meanwhile. `RunInv` says that the
streak counter is the size of the run of denials at the end of the trail, which is
what an alert raised after the lock was released relies on. `StreaksAlerted` is
inductive given the types, because the thread that completes a streak is the one that
is still about to test it.

*Pipeline.* `NumbersOK`: packets under way carry numbers their car has given out, and
under strict ordering the validator's last number of a car bounds every number it has
kept. With it every step is a step of `TelemetryLog` or leaves its variables alone
(`LogStep`): a frame sent is `Emit`, a packet at the validator is `Record` or `Refuse`,
and whatever relay, handshakes and registrations do is invisible. For
`RecordedWereForwarded` the invariant adds that the relay's trail is ordered for a car
it never reset (`TrailOrdered`) and that everything on the second leg, the validator's
last numbers and its record were forwarded (`AllForwarded`). A number both forwarded
and used up would stand at two places of an ordered trail.

*Dashboard.* `AttacksBlocked` rests on `ReplayUsed`: the packet kept for a replay has
already moved the relay's checker, in which it is therefore out of order. `PanelAgrees`
and `HistoriesBounded` are inductive given the types; both calls on the feed are
reduced to their effect on its tallies (`ProcessEffect`, `InjectEffect`), and the
session's actions to starting over or working on one packet (`StartsOver`, `Works`).

*The breach script.* `SimInv` follows the script: where the one thread of the program is
(`ScriptPlace`), that every answer it has collected is the engine's decision on the
identities that `iam.yaml` registers (`ScriptAnswers`), and what the verdicts reported
so far rest on (`ScriptVerdicts`). The last verdict is read from a counter which earlier
scenarios have raised. It is earned only because the storm is as long as the threshold
and comes from an unknown node: each probe is denied, the streak reaches the threshold,
and `StreaksAlerted` says that this very streak was alerted about.

*Key rotation program.* `RotInv` says what each place of a rotation has already done
(`WorkDone`), where the main thread can be meanwhile (`MainPlace`), and that the entries
of the report made so far agree with it (`ReportSoFar`). Nothing records packets while
the main thread waits, so that a second rotation never becomes due.

*Loss, jitter, reordering.* `MeasInv` says that the script of deliveries is one that the
scenario's network can produce and that the counters of program and checker are those
of the deliveries made so far (`Tally`). Sorting, loss and shuffling are stated by what
they produce, and positions are counted with `Cardinality`: the gaps the checker counts
are in bijection with the runs of loss between two arrivals; the first packet in a
window that no other of the window overtakes is accepted, which gives one per window;
and with jitter of at most half the interval delivery times keep the order of sending.

*Attacks.* `AttackInv` says that neither checker knows a number the builder has not given
out, and follows each script by its shape (`AttackShape`): legitimate packets first,
then the attacks, each with the stage that must refuse it; `AttackTally` adds what the
checkers have seen after each prefix. Since no delivery takes a checker beyond the
numbers given out, and a scenario's own legitimate packets have higher ones than all
before, no verdict depends on the scenarios before it.

*Corners.* `CornerInv` has one part per stage. `RangesOK`: the ranges found are valleys
behind which the scan has gone on, they do not overlap, and a sharp dip that the scan
has passed is a range of its own (a nearly level stretch cannot reach across it).
`SelectionOK`: candidates kept are apart, and each one looked at is kept or too close to
one that is. `CornersOK`: the corners are the valid windows of the candidates built, in
the order of their apexes. Two windows meet at most at the middle of two apexes
(`CornersInOrder`). That no dip is lost in the building needs more: without smoothing
two apexes are never neighbours (`ApexesApart`), because the sample behind a valley is
too high to start another one; so the middle lies strictly behind the first apex and
clipping rejects no window (`KeptIsValid`).

*Sectors.* One part of a stretch holds a point, by division with remainder (`OnePart`).

The library's induction theorems cannot be used here. Where the argument is an induction
over naturals, the proofs take the least counterexample, which exists because `<` is
well founded (`MinOfNaturals`); least and greatest members of finite sets of integers
come from the number of members below (`LeastOfIntegers`).

### Only model-checked

* The liveness properties `Reestablished`, `CountBounded`, `StopsCompletely` and
  `ProgramsFinish`: fairness and `ENABLED` are out of the prover's reach.
* What smoothing computes: of `_smooth_speeds` the proofs use only that it keeps the
  number of samples and that a window of 1 changes nothing, which is why
  `SharpDipsReported` is about unsmoothed laps; the other lemmas and `CornersDisjoint`
  hold for any smoothed profile of the lap's length.

## 5. Where code and documentation disagree

* **`relay_badhex`**: a field that is not hexadecimal makes
  `PacketParser.parse_json_packet` raise `ValueError`, which `process_packet` does
  not catch. Its docstring knows two outcomes, a packet or `None`.
* **`car_log_only`**: `_on_key_rotation` only logs. After the first rotation the
  engine has no key, and every packet fails until the node is stopped. ADR 003
  promises "no pipeline interruption".

### Observations

These follow from the models but have no run of their own.

* A callback that raises leaves the engine without a key, as in `car_log_only`:
  `rotate_session` has discarded the old one before any callback runs. ADR 003 says
  "If rotation callback fails, old key continues in use" (`CallbackMode = "raise"`).
* When every connection attempt fails, `_connect` leaves the closed socket in
  `_socket`, so the "simulation mode" that `start` announces counts each packet as
  failed (`ConnectOutcomes`, `SendFail`).
* `threat_panel.py` lists replay attacks among what it classifies. A replay that the
  dashboard injects is refused by the relay's check first, with the reason
  `integrity_failed`, which contains none of the words looked for: it is counted as
  rejected and shown as no event (`Classify`).
* `process_one_packet` counts an accepted or a broken packet in `total` and a refused
  one only in `rejected`, so the acceptance rate of the dashboard is not over all
  packets (`RecordReject`).
* An overfull history of the feed never shrinks back to its limit, because an
  accepted packet removes one entry at most (`HistoriesBounded` states the slack).
* Starting without the compare switch leaves the comparison feed as it was (`Start`).
* `alert_fired` of the denial storm is true before the storm starts, since the
  scenarios before it have raised the counter; the storm raises an alert of its own
  all the same (`VerdictsEarned`).
* `driver_comparison.py` documents the fastest completed lap by its lap time; the
  code takes the smallest observed span, incomplete laps included (not modelled).

Three more limits of what holds, which follow from the runs' restrictions.
Without strict ordering the window does not hold the last numbers but
the largest ones (`WindowHoldsRecent` is about strict ordering only).
When `force_rotation` runs between the background thread's check and its rotation,
the second rotation replaces a key that has reached no limit, the log can be out
of order and the two ends can end up with different keys
(`RotationLogTrue` and `KeysAgree` are checked without callers). A `summary()`
taken while another thread logs can show more decisions than events.

## 6. Not modelled

Sensor simulation and corner lookup (numeric replay of recorded data, no protocol
state), the byte layout of packets and the binary parser that `process_packet` does
not use, batch helpers that only repeat the single operation, logging, printing,
statistics output and the self-test blocks. The layout, the charts and the selectors
of the Streamlit application, and the key rotation and audit log views, which the
application does not use. Lap, track and driver analyses: sums, means and differences
over frames, without state. Benchmarks (time) and forensic scripts (downloads,
statistics, plots). The Rust ZKP crate, which the Python nodes do not call: its
control is a straight line and its correctness is algebra over a curve.

## 7. Plan

Done: validator and sequence checker, relay, car producer with key rotation, audit
logger, pipeline with its abstract log, access control, dashboard, simulations,
corner and sector analysis; the theorems above.

Left: an invariant for two rotating threads that says how far apart the two ends of the
car's session can get when `force_rotation` races the background thread.
