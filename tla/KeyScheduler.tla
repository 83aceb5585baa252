---------------------------- MODULE KeyScheduler ----------------------------
(***************************************************************************)
(* car_producer/src/key_scheduler.py and crypto_engine.py: the rotation of *)
(* a car's session key.  _do_rotation runs in the scheduler's background   *)
(* thread, and through force_rotation in any other thread, with nothing    *)
(* but two short critical sections held in common; each of its steps that  *)
(* another thread can observe is an action here.                           *)
(*                                                                         *)
(* A key pair is identified by its generation.  The session key that the   *)
(* car derives is the pair of the two generations that went into it, so    *)
(* the two ends hold the same key exactly when they hold the same pair.    *)
(***************************************************************************)
EXTENDS Naturals, Sequences

CONSTANTS
  Background,       (* the scheduler's thread *)
  Callers,          (* threads that call force_rotation *)
  CallbackMode,     (* what the registered rotation callback does *)
  MaxAge, MaxPackets,   (* the rotation policy *)
  MaxRotations      (* bound on the rotations of one behaviour *)

Rotators == {Background} \cup Callers

(* "log" counts the event, as CarProducerNode._on_key_rotation does.       *)
(* "rehandshake" exchanges keys with the peer in the order of              *)
(* car_producer/tests/test_crypto.py and ADR 003.  "raise" fails, which    *)
(* _do_rotation logs and swallows.                                         *)
CallbackModes == {"log", "rehandshake", "raise"}

ASSUME SchedulerAssumption ==
  /\ Background \notin Callers
  /\ CallbackMode \in CallbackModes
  /\ MaxAge \in Nat \ {0} /\ MaxPackets \in Nat \ {0}
  /\ MaxRotations \in Nat

VARIABLES
  session,          (* generation of the key pair in CryptoEngine._session *)
  key,              (* _session_key, NoKey while it is None *)
  peer,             (* generation of the peer's key pair *)
  peerKey,          (* the key the peer has derived *)
  packetCount,      (* _packet_count *)
  age,              (* time since _session_start, up to MaxAge *)
  rotationCount,    (* _rotation_count *)
  scheduling,       (* _running *)
  rotationLog,      (* _rotation_log *)
  rotation,         (* per thread: where it is in _run or _do_rotation *)
  rotated,          (* CarProducerNode._stats['key_rotations'] *)
  keyUse            (* history: packets encrypted under the engine's key *)

engineVars == <<session, key, peer, peerKey, keyUse>>
schedVars == <<packetCount, age, rotationCount, scheduling, rotationLog, rotated>>

NoKey == <<>>
Established == key # NoKey

Idle == [pc |-> "idle", reason |-> "none", num |-> 0, oldCount |-> 0, pub |-> 0]

SchedulerInit ==
  /\ session = 1 /\ key = NoKey     \* CryptoEngine.new_session in __init__
  /\ peer = 1 /\ peerKey = NoKey
  /\ packetCount = 0
  /\ age = 0
  /\ rotationCount = 0
  /\ scheduling = FALSE
  /\ rotationLog = <<>>
  /\ rotation = [t \in Rotators |-> Idle]
  /\ rotated = 0
  /\ keyUse = 0

-----------------------------------------------------------------------------
(* CryptoEngine.  rotate_session discards the old key at once.             *)
NewSession ==
  /\ session' = session + 1
  /\ key' = NoKey
  /\ keyUse' = 0
  /\ UNCHANGED <<peer, peerKey>>

Goto(t, pc) == rotation' = [rotation EXCEPT ![t].pc = pc]

(* Faulty variant: the count is compared one packet early.                 *)
ShouldRotateEarly == age >= MaxAge \/ packetCount + 1 >= MaxPackets

(* _should_rotate, called by _run.  Age is tested before count.            *)
ShouldRotate == age >= MaxAge \/ packetCount >= MaxPackets

CheckRotation ==
  /\ rotation[Background].pc = "idle"
  /\ scheduling
  /\ ShouldRotate
  /\ rotationCount < MaxRotations
  /\ rotation' = [rotation EXCEPT ![Background].pc = "begin",
                                  ![Background].reason =
                     IF age >= MaxAge THEN "age_exceeded" ELSE "count_exceeded"]
  /\ UNCHANGED <<engineVars, schedVars>>

ForceRotation(t) ==
  /\ rotation[t].pc = "idle"
  /\ rotationCount < MaxRotations
  /\ rotation' = [rotation EXCEPT ![t].pc = "begin", ![t].reason = "manual_force"]
  /\ UNCHANGED <<engineVars, schedVars>>

(* First critical section of _do_rotation.                                 *)
BeginRotation(t) ==
  /\ rotation[t].pc = "begin"
  /\ rotationCount' = rotationCount + 1
  /\ rotation' = [rotation EXCEPT ![t].pc = "rotate",
                                  ![t].num = rotationCount + 1,
                                  ![t].oldCount = packetCount]
  /\ UNCHANGED <<engineVars, packetCount, age, scheduling, rotationLog, rotated>>

RotateSession(t) ==
  /\ rotation[t].pc = "rotate"
  /\ NewSession
  /\ Goto(t, "public")
  /\ UNCHANGED schedVars

(* new_session reads the public key back from the engine's session, which  *)
(* may by then be another thread's.                                        *)
ReadPublicKey(t) ==
  /\ rotation[t].pc = "public"
  /\ rotation' = [rotation EXCEPT ![t].pc = "reset", ![t].pub = session]
  /\ UNCHANGED <<engineVars, schedVars>>

(* Faulty variant: only the session's age starts afresh.                   *)
ResetAge(t) ==
  /\ rotation[t].pc = "reset"
  /\ age' = 0
  /\ Goto(t, "log")
  /\ UNCHANGED <<engineVars, packetCount, rotationCount, scheduling, rotationLog, rotated>>

(* Second critical section.                                                *)
ResetCounters(t) ==
  /\ rotation[t].pc = "reset"
  /\ packetCount' = 0
  /\ age' = 0
  /\ Goto(t, "log")
  /\ UNCHANGED <<engineVars, rotationCount, scheduling, rotationLog, rotated>>

LogRotation(t) ==
  /\ rotation[t].pc = "log"
  /\ rotationLog' = Append(rotationLog, [num |-> rotation[t].num,
                                         reason |-> rotation[t].reason,
                                         oldCount |-> rotation[t].oldCount])
  /\ Goto(t, "callback")
  /\ UNCHANGED <<engineVars, packetCount, age, rotationCount, scheduling, rotated>>

(* Faulty variant: the callback never exchanges keys.                      *)
CallbackWithoutHandshake(t) ==
  /\ rotation[t].pc = "callback"
  /\ rotated' = rotated + 1
  /\ rotation' = [rotation EXCEPT ![t] = Idle]
  /\ UNCHANGED <<engineVars, packetCount, age, rotationCount, scheduling, rotationLog>>

(* The callback.  Re-handshaking, the peer rotates its own key pair, the   *)
(* car completes the handshake on whatever session the engine now holds,   *)
(* and the peer completes it with the public key the callback was given.   *)
Callback(t) ==
  /\ rotation[t].pc = "callback"
  /\ IF CallbackMode = "rehandshake"
     THEN /\ peer' = peer + 1
          /\ key' = <<session, peer + 1>>
          /\ peerKey' = NoKey
          /\ keyUse' = 0
          /\ Goto(t, "peer")
          /\ UNCHANGED <<session, rotated>>
     ELSE /\ rotated' = IF CallbackMode = "log" THEN rotated + 1 ELSE rotated
          /\ rotation' = [rotation EXCEPT ![t] = Idle]
          /\ UNCHANGED engineVars
  /\ UNCHANGED <<packetCount, age, rotationCount, scheduling, rotationLog>>

(* Faulty variants: the peer never completes its half; the counters are    *)
(* reset only after the new key is in use.                                 *)
PeerHandshakeMissing(t) ==
  /\ rotation[t].pc = "peer"
  /\ rotation' = [rotation EXCEPT ![t] = Idle]
  /\ UNCHANGED <<engineVars, schedVars>>
PeerHandshakeThenReset(t) ==
  /\ rotation[t].pc = "peer"
  /\ peerKey' = <<rotation[t].pub, peer>>
  /\ packetCount' = 0 /\ age' = 0
  /\ rotation' = [rotation EXCEPT ![t] = Idle]
  /\ UNCHANGED <<session, key, peer, keyUse, rotationCount, scheduling, rotationLog, rotated>>

PeerHandshake(t) ==
  /\ rotation[t].pc = "peer"
  /\ peerKey' = <<rotation[t].pub, peer>>
  /\ rotation' = [rotation EXCEPT ![t] = Idle]
  /\ UNCHANGED <<session, key, peer, keyUse, schedVars>>

RotationStep(t) ==
  \/ BeginRotation(t)
  \/ RotateSession(t)
  \/ ReadPublicKey(t)
  \/ ResetCounters(t)
  \/ LogRotation(t)
  \/ Callback(t)
  \/ PeerHandshake(t)

(* Time passes; beyond MaxAge it makes no difference.                      *)
GrowOld ==
  /\ age < MaxAge
  /\ age' = age + 1
  /\ UNCHANGED <<engineVars, rotation, packetCount, rotationCount, scheduling,
                 rotationLog, rotated>>
=============================================================================
