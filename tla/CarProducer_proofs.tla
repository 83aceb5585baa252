------------------------- MODULE CarProducer_proofs -------------------------
(***************************************************************************)
(* Proofs about the car producer and its key scheduler.                    *)
(***************************************************************************)
EXTENDS CarProducer, SequenceTheorems, TLAPS

Pcs == {"idle", "begin", "rotate", "public", "reset", "log", "callback", "peer"}

(* Thread t's place in _do_rotation becomes what is given, and no other    *)
(* thread's changes.                                                       *)
Moves(t, pc, reason, num, oldCount, pub) ==
  /\ rotation' \in [Rotators -> RotationType]
  /\ rotation'[t].pc = pc /\ rotation'[t].reason = reason /\ rotation'[t].num = num
  /\ rotation'[t].oldCount = oldCount /\ rotation'[t].pub = pub
  /\ \A u \in Rotators : u # t => rotation'[u] = rotation[u]

(* How each step of the scheduler moves the thread that takes it.          *)
LEMMA RotationMoves ==
  ASSUME TypeOK, NEW t \in Rotators
  PROVE  LET r == rotation[t]
         IN  /\ CheckRotation /\ t = Background =>
                  Moves(t, "begin",
                        IF age >= MaxAge THEN "age_exceeded" ELSE "count_exceeded",
                        r.num, r.oldCount, r.pub)
             /\ ForceRotation(t) =>
                  Moves(t, "begin", "manual_force", r.num, r.oldCount, r.pub)
             /\ BeginRotation(t) =>
                  Moves(t, "rotate", r.reason, rotationCount + 1, packetCount, r.pub)
             /\ RotateSession(t) =>
                  Moves(t, "public", r.reason, r.num, r.oldCount, r.pub)
             /\ ReadPublicKey(t) =>
                  Moves(t, "reset", r.reason, r.num, r.oldCount, session)
             /\ ResetCounters(t) =>
                  Moves(t, "log", r.reason, r.num, r.oldCount, r.pub)
             /\ LogRotation(t) =>
                  Moves(t, "callback", r.reason, r.num, r.oldCount, r.pub)
             /\ Callback(t) =>
                  IF CallbackMode = "rehandshake"
                  THEN Moves(t, "peer", r.reason, r.num, r.oldCount, r.pub)
                  ELSE Moves(t, "idle", "none", 0, 0, 0)
             /\ PeerHandshake(t) => Moves(t, "idle", "none", 0, 0, 0)
<1> DEFINE r == rotation[t]
<1>1. /\ rotation \in [Rotators -> RotationType]
      /\ session \in Nat /\ rotationCount \in Nat /\ packetCount \in Nat
  BY DEF TypeOK, RotationType
<1>0. ASSUME rotation' = [rotation EXCEPT ![t] = Idle]
      PROVE  Moves(t, "idle", "none", 0, 0, 0)
  <2>1. Idle \in RotationType
    BY DEF Idle, RotationType, Reasons
  <2>2. rotation' \in [Rotators -> RotationType] /\ rotation'[t] = Idle
    BY <1>0, <1>1, <2>1
  <2>3. \A u \in Rotators : u # t => rotation'[u] = rotation[u]
    BY <1>0, <1>1
  <2>4. QED
    BY <2>2, <2>3 DEF Moves, Idle
<1>2. ASSUME CheckRotation, t = Background
      PROVE  Moves(t, "begin",
                   IF age >= MaxAge THEN "age_exceeded" ELSE "count_exceeded",
                   r.num, r.oldCount, r.pub)
  <2> DEFINE s == "begin"
             w == IF age >= MaxAge THEN "age_exceeded" ELSE "count_exceeded"
  <2>1. rotation' = [rotation EXCEPT ![t].pc = s, ![t].reason = w]
    BY <1>2 DEF CheckRotation
  <2>2. s \in Pcs /\ w \in Reasons
    BY DEF Pcs, Reasons
  <2> HIDE DEF s, w
  <2>3. Moves(t, s, w, r.num, r.oldCount, r.pub)
    BY <1>1, <2>1, <2>2 DEF Moves, RotationType, Pcs
  <2>4. QED
    BY <2>3 DEF s, w
<1>3. ASSUME ForceRotation(t)
      PROVE  Moves(t, "begin", "manual_force", r.num, r.oldCount, r.pub)
  <2> DEFINE s == "begin"
             w == "manual_force"
  <2>1. rotation' = [rotation EXCEPT ![t].pc = s, ![t].reason = w]
    BY <1>3 DEF ForceRotation
  <2>2. s \in Pcs /\ w \in Reasons
    BY DEF Pcs, Reasons
  <2> HIDE DEF s, w
  <2>3. Moves(t, s, w, r.num, r.oldCount, r.pub)
    BY <1>1, <2>1, <2>2 DEF Moves, RotationType, Pcs
  <2>4. QED
    BY <2>3 DEF s, w
<1>4. ASSUME BeginRotation(t)
      PROVE  Moves(t, "rotate", r.reason, rotationCount + 1, packetCount, r.pub)
  <2> DEFINE s == "rotate"
             n == rotationCount + 1
  <2>1. rotation' = [rotation EXCEPT ![t].pc = s, ![t].num = n,
                                      ![t].oldCount = packetCount]
    BY <1>4 DEF BeginRotation
  <2>2. s \in Pcs /\ n \in Nat
    BY <1>1 DEF Pcs
  <2> HIDE DEF s, n
  <2>3. Moves(t, s, r.reason, n, packetCount, r.pub)
    BY <1>1, <2>1, <2>2 DEF Moves, RotationType, Pcs
  <2>4. QED
    BY <2>3 DEF s, n
<1>5. ASSUME RotateSession(t)
      PROVE  Moves(t, "public", r.reason, r.num, r.oldCount, r.pub)
  <2> DEFINE s == "public"
  <2>1. rotation' = [rotation EXCEPT ![t].pc = s]
    BY <1>5 DEF RotateSession, Goto
  <2>2. s \in Pcs
    BY DEF Pcs
  <2> HIDE DEF s
  <2>3. Moves(t, s, r.reason, r.num, r.oldCount, r.pub)
    BY <1>1, <2>1, <2>2 DEF Moves, RotationType, Pcs
  <2>4. QED
    BY <2>3 DEF s
<1>6. ASSUME ReadPublicKey(t)
      PROVE  Moves(t, "reset", r.reason, r.num, r.oldCount, session)
  <2> DEFINE s == "reset"
  <2>1. rotation' = [rotation EXCEPT ![t].pc = s, ![t].pub = session]
    BY <1>6 DEF ReadPublicKey
  <2>2. s \in Pcs
    BY DEF Pcs
  <2> HIDE DEF s
  <2>3. Moves(t, s, r.reason, r.num, r.oldCount, session)
    BY <1>1, <2>1, <2>2 DEF Moves, RotationType, Pcs
  <2>4. QED
    BY <2>3 DEF s
<1>7. ASSUME ResetCounters(t)
      PROVE  Moves(t, "log", r.reason, r.num, r.oldCount, r.pub)
  <2> DEFINE s == "log"
  <2>1. rotation' = [rotation EXCEPT ![t].pc = s]
    BY <1>7 DEF ResetCounters, Goto
  <2>2. s \in Pcs
    BY DEF Pcs
  <2> HIDE DEF s
  <2>3. Moves(t, s, r.reason, r.num, r.oldCount, r.pub)
    BY <1>1, <2>1, <2>2 DEF Moves, RotationType, Pcs
  <2>4. QED
    BY <2>3 DEF s
<1>8. ASSUME LogRotation(t)
      PROVE  Moves(t, "callback", r.reason, r.num, r.oldCount, r.pub)
  <2> DEFINE s == "callback"
  <2>1. rotation' = [rotation EXCEPT ![t].pc = s]
    BY <1>8 DEF LogRotation, Goto
  <2>2. s \in Pcs
    BY DEF Pcs
  <2> HIDE DEF s
  <2>3. Moves(t, s, r.reason, r.num, r.oldCount, r.pub)
    BY <1>1, <2>1, <2>2 DEF Moves, RotationType, Pcs
  <2>4. QED
    BY <2>3 DEF s
<1>9. ASSUME Callback(t)
      PROVE  IF CallbackMode = "rehandshake"
             THEN Moves(t, "peer", r.reason, r.num, r.oldCount, r.pub)
             ELSE Moves(t, "idle", "none", 0, 0, 0)
  <2>1. ASSUME CallbackMode = "rehandshake"
        PROVE  Moves(t, "peer", r.reason, r.num, r.oldCount, r.pub)
    <3> DEFINE s == "peer"
    <3>1. rotation' = [rotation EXCEPT ![t].pc = s]
      BY <1>9, <2>1 DEF Callback, Goto
    <3>2. s \in Pcs
      BY DEF Pcs
    <3> HIDE DEF s
    <3>3. Moves(t, s, r.reason, r.num, r.oldCount, r.pub)
      BY <1>1, <3>1, <3>2 DEF Moves, RotationType, Pcs
    <3>4. QED
      BY <3>3 DEF s
  <2>2. ASSUME CallbackMode # "rehandshake"
        PROVE  Moves(t, "idle", "none", 0, 0, 0)
    BY <1>0, <1>9, <2>2 DEF Callback
  <2>3. QED
    BY <2>1, <2>2
<1>10. ASSUME PeerHandshake(t)
       PROVE  Moves(t, "idle", "none", 0, 0, 0)
  BY <1>0, <1>10 DEF PeerHandshake
<1>11. QED
  BY <1>2, <1>3, <1>4, <1>5, <1>6, <1>7, <1>8, <1>9, <1>10

-----------------------------------------------------------------------------
(* Counting in _stats keeps every counter a natural number.                *)
LEMMA BumpStats ==
  ASSUME TypeOK, NEW fields, Bump(fields)
  PROVE  /\ stats' \in [StatFields -> Nat]
         /\ \A f \in StatFields :
              stats'[f] = IF f \in fields THEN stats[f] + 1 ELSE stats[f]
BY DEF TypeOK, Bump

(* The packets the producer has in hand.                                   *)
LEMMA PacketFields ==
  ASSUME TypeOK
  PROVE  /\ [NoPacket EXCEPT !.seq = sequence + 1] = [seq |-> sequence + 1, key |-> NoKey]
         /\ [producer.packet EXCEPT !.key = key] = [seq |-> producer.packet.seq, key |-> key]
         /\ [transmitter EXCEPT !.pc = "done"] = [pc |-> "done", packet |-> transmitter.packet]
         /\ producer.packet \in Packet /\ transmitter.packet \in Packet
<1>1. [NoPacket EXCEPT !.seq = sequence + 1] = [seq |-> sequence + 1, key |-> NoKey]
  BY DEF NoPacket
<1>2. producer.packet \in Packet /\ transmitter.packet \in Packet
  BY DEF TypeOK
<1>3. [producer.packet EXCEPT !.key = key] = [seq |-> producer.packet.seq, key |-> key]
  BY <1>2 DEF Packet
<1>4. [transmitter EXCEPT !.pc = "done"] = [pc |-> "done", packet |-> transmitter.packet]
  BY DEF TypeOK
<1>5. QED
  BY <1>1, <1>2, <1>3, <1>4

(* A packet out of the queue, and the queue after it.                      *)
LEMMA QueueFacts ==
  ASSUME TypeOK
  PROVE  /\ Len(queue) \in Nat
         /\ \A i \in 1 .. Len(queue) : queue[i] \in Packet
         /\ \A p \in Packet :
              /\ Append(queue, p) \in Seq(Packet)
              /\ Len(Append(queue, p)) = Len(queue) + 1
              /\ \A i \in 1 .. Len(queue) + 1 :
                   Append(queue, p)[i] = IF i = Len(queue) + 1 THEN p ELSE queue[i]
         /\ queue # <<>> =>
              /\ Len(queue) >= 1 /\ Head(queue) = queue[1]
              /\ Tail(queue) \in Seq(Packet) /\ Len(Tail(queue)) = Len(queue) - 1
              /\ \A i \in 1 .. Len(queue) - 1 : Tail(queue)[i] = queue[i + 1]
<1>1. queue \in Seq(Packet)
  BY DEF TypeOK
<1>2. \A p \in Packet :
        /\ Append(queue, p) \in Seq(Packet)
        /\ Len(Append(queue, p)) = Len(queue) + 1
        /\ \A i \in 1 .. Len(queue) + 1 :
             Append(queue, p)[i] = IF i = Len(queue) + 1 THEN p ELSE queue[i]
  BY <1>1
<1>3. Len(queue) \in Nat /\ \A i \in 1 .. Len(queue) : queue[i] \in Packet
  BY <1>1
<1>4. ASSUME queue # <<>>
      PROVE  /\ Len(queue) >= 1 /\ Head(queue) = queue[1]
             /\ Tail(queue) \in Seq(Packet) /\ Len(Tail(queue)) = Len(queue) - 1
             /\ \A i \in 1 .. Len(queue) - 1 : Tail(queue)[i] = queue[i + 1]
  BY <1>1, <1>4, EmptySeq, HeadTailProperties
<1>5. QED
  BY <1>2, <1>3, <1>4

(* What the scheduler and the engine hold.                                 *)
SchedulerType ==
  /\ session \in Nat /\ peer \in Nat /\ key \in Key /\ peerKey \in Key
  /\ packetCount \in Nat /\ age \in 0 .. MaxAge /\ rotationCount \in Nat
  /\ scheduling \in BOOLEAN /\ rotated \in Nat
  /\ rotationLog \in Seq([num : Nat, reason : Reasons, oldCount : Nat])
  /\ rotation \in [Rotators -> RotationType] /\ keyUse \in Nat

(* What the node's own threads hold.                                       *)
NodeType ==
  /\ running \in {"new", "yes", "stopping", "stopped"}
  /\ socket \in {"none", "open", "closed"}
  /\ sequence \in Nat
  /\ producer \in [pc : {"loop", "check", "encrypt", "record", "put", "done"},
                   packet : Packet]
  /\ transmitter \in [pc : {"loop", "send", "done"}, packet : Packet]
  /\ queue \in Seq(Packet) /\ lastSent \in Packet
  /\ refused \in Nat
  /\ stats \in [StatFields -> Nat]

(* The two together are the type invariant.                                *)
LEMMA TypeParts == TypeOK <=> SchedulerType /\ NodeType
BY DEF TypeOK, SchedulerType, NodeType

(* Every step of a rotation keeps the scheduler's fields well typed.       *)
LEMMA RotationTypeStep ==
  ASSUME TypeOK, NEW t \in Rotators, RotationStep(t)
  PROVE  SchedulerType'
<1> USE DEF engineVars, schedVars
<1>0. SchedulerType
  BY TypeParts
<1>1. CASE BeginRotation(t)
  <2>1. rotation' \in [Rotators -> RotationType]
    BY <1>1, RotationMoves DEF Moves
  <2>2. QED
    BY <1>0, <1>1, <2>1 DEF BeginRotation, SchedulerType
<1>2. CASE RotateSession(t)
  BY <1>0, <1>2, RotationMoves DEF RotateSession, NewSession, Moves, SchedulerType, Key
<1>3. CASE ReadPublicKey(t)
  BY <1>0, <1>3, RotationMoves DEF ReadPublicKey, Moves, SchedulerType
<1>4. CASE ResetCounters(t)
  BY <1>0, <1>4, RotationMoves, SchedulerAssumption DEF ResetCounters, Moves, SchedulerType
<1>5. CASE LogRotation(t)
  <2>1. [num |-> rotation[t].num, reason |-> rotation[t].reason,
         oldCount |-> rotation[t].oldCount] \in [num : Nat, reason : Reasons, oldCount : Nat]
    BY <1>0 DEF SchedulerType, RotationType
  <2>2. rotationLog' \in Seq([num : Nat, reason : Reasons, oldCount : Nat])
    BY <1>0, <1>5, <2>1 DEF LogRotation, SchedulerType
  <2>3. QED
    BY <1>0, <1>5, <2>2, RotationMoves DEF LogRotation, Moves, SchedulerType
<1>6. CASE Callback(t)
  <2>1. rotation' \in [Rotators -> RotationType]
    BY <1>6, RotationMoves DEF Moves
  <2>2. CASE CallbackMode = "rehandshake"
    BY <1>0, <1>6, <2>1, <2>2 DEF Callback, SchedulerType, Key
  <2>3. CASE CallbackMode # "rehandshake"
    BY <1>0, <1>6, <2>1, <2>3 DEF Callback, SchedulerType
  <2>4. QED
    BY <2>2, <2>3
<1>7. CASE PeerHandshake(t)
  <2>1. rotation' \in [Rotators -> RotationType]
    BY <1>7, RotationMoves DEF Moves
  <2>2. rotation[t].pub \in Nat
    BY <1>0 DEF SchedulerType, RotationType
  <2>3. QED
    BY <1>0, <1>7, <2>1, <2>2 DEF PeerHandshake, SchedulerType, Key
<1>8. QED
  BY <1>1, <1>2, <1>3, <1>4, <1>5, <1>6, <1>7 DEF RotationStep

(* So does every other step, and every step keeps the rest well typed.     *)
LEMMA CarTypeStep == TypeOK /\ [Next]_vars => TypeOK'
<1> SUFFICES ASSUME TypeOK, [Next]_vars
             PROVE  SchedulerType' /\ NodeType'
  BY TypeParts DEF TypeOK, SchedulerType, NodeType
<1> USE DEF engineVars, schedVars, nodeVars
<1>0. SchedulerType /\ NodeType
  BY TypeParts
<1>a. NoPacket \in Packet /\ NoKey \in Key
  BY DEF NoPacket, Packet, Key
<1>1. ASSUME NEW connectToRelay \in BOOLEAN, Start(connectToRelay)
      PROVE  SchedulerType' /\ NodeType'
  BY <1>0, <1>1 DEF Start, ConnectOutcomes, SchedulerType, NodeType, Key
<1>2. CASE Stop
  BY <1>0, <1>2 DEF Stop, SchedulerType, NodeType
<1>3. CASE CloseSocket
  BY <1>0, <1>3 DEF CloseSocket, SchedulerType, NodeType
<1>4. CASE Produce
  <2> SUFFICES SchedulerType' /\ NodeType'
    OBVIOUS
  <2>1. CASE Build
    <3>1. SchedulerType'
      BY <1>0, <2>1 DEF Build, SchedulerType
    <3>2. stats' \in [StatFields -> Nat]
      BY <2>1, BumpStats DEF Build
    <3>3. producer' = [pc |-> "check", packet |-> [seq |-> sequence + 1, key |-> NoKey]]
      BY <2>1, PacketFields DEF Build, ProducerAt
    <3>4. [seq |-> sequence + 1, key |-> NoKey] \in Packet
      BY <1>0, <1>a DEF NodeType, Packet
    <3>5. QED
      BY <1>0, <2>1, <3>1, <3>2, <3>3, <3>4 DEF Build, NodeType
  <2>2. CASE CheckEstablished
    BY <1>0, <2>2, PacketFields DEF CheckEstablished, ProducerAt, SchedulerType, NodeType
  <2>3. CASE Encrypt
    <3>1. SchedulerType'
      BY <1>0, <2>3 DEF Encrypt, SchedulerType
    <3>2. stats' \in [StatFields -> Nat]
      BY <2>3, BumpStats DEF Encrypt
    <3>3. producer' = [pc |-> "record", packet |-> [seq |-> producer.packet.seq, key |-> key]]
      BY <2>3, PacketFields DEF Encrypt, ProducerAt
    <3>4. [seq |-> producer.packet.seq, key |-> key] \in Packet
      BY <1>0, PacketFields DEF SchedulerType, Packet
    <3>5. QED
      BY <1>0, <2>3, <3>1, <3>2, <3>3, <3>4 DEF Encrypt, NodeType
  <2>4. CASE FailToEncrypt
    <3>1. stats' \in [StatFields -> Nat]
      BY <2>4, BumpStats DEF FailToEncrypt
    <3>2. QED
      BY <1>0, <1>a, <2>4, <3>1 DEF FailToEncrypt, SchedulerType, NodeType
  <2>5. CASE RecordPacket
    BY <1>0, <2>5, PacketFields DEF RecordPacket, ProducerAt, SchedulerType, NodeType
  <2>6. CASE Put
    <3>1. SchedulerType'
      BY <1>0, <2>6 DEF Put, SchedulerType
    <3>2. queue' \in Seq(Packet)
      <4>1. producer.packet \in Packet /\ queue \in Seq(Packet)
        BY <1>0, PacketFields DEF NodeType
      <4>2. queue' = queue \/ queue' = Append(queue, producer.packet)
        BY <2>6 DEF Put
      <4>3. QED
        BY <4>1, <4>2, QueueFacts
    <3>3. QED
      BY <1>0, <1>a, <2>6, <3>1, <3>2 DEF Put, ProducerAt, NodeType
  <2>7. CASE ProducerExit
    BY <1>0, <1>a, <2>7 DEF ProducerExit, ProducerAt, SchedulerType, NodeType
  <2>8. QED
    BY <1>4, <2>1, <2>2, <2>3, <2>4, <2>5, <2>6, <2>7 DEF Produce
<1>5. CASE Transmit
  <2>1. CASE Get
    <3>1. Tail(queue) \in Seq(Packet) /\ Head(queue) \in Packet
      BY <2>1, QueueFacts DEF Get
    <3>2. QED
      BY <1>0, <2>1, <3>1 DEF Get, SchedulerType, NodeType
  <2>2. ASSUME NEW outcome, Sent(outcome), lastSent' \in {lastSent, transmitter.packet}
        PROVE  SchedulerType' /\ NodeType'
    <3>1. stats' \in [StatFields -> Nat]
      BY <2>2, BumpStats DEF Sent
    <3>2. QED
      BY <1>0, <1>a, <2>2, <3>1, PacketFields DEF Sent, SchedulerType, NodeType
  <2>3. CASE TransmitterExit
    <3>1. transmitter' = [pc |-> "done", packet |-> transmitter.packet]
      BY <2>3, PacketFields DEF TransmitterExit
    <3>2. QED
      BY <1>0, <2>3, <3>1, PacketFields DEF TransmitterExit, SchedulerType, NodeType
  <2>4. QED
    BY <1>5, <2>1, <2>2, <2>3 DEF Transmit, SendNowhere, SendOk, SendFail
<1>6. CASE CheckSchedule
  <2>1. rotation' \in [Rotators -> RotationType]
    BY <1>6, RotationMoves DEF CheckSchedule, Moves, Rotators
  <2>2. QED
    BY <1>0, <1>6, <2>1 DEF CheckSchedule, CheckRotation, SchedulerType, NodeType
<1>7. ASSUME NEW t \in Callers, ForceRotation(t), UNCHANGED nodeVars
      PROVE  SchedulerType' /\ NodeType'
  <2>1. rotation' \in [Rotators -> RotationType]
    BY <1>7, RotationMoves DEF Moves, Rotators
  <2>2. QED
    BY <1>0, <1>7, <2>1 DEF ForceRotation, SchedulerType, NodeType
<1>8. ASSUME NEW t \in Rotators, Rotate(t)
      PROVE  SchedulerType' /\ NodeType'
  BY <1>0, <1>8, RotationTypeStep DEF Rotate, NodeType
<1>9. CASE GrowOld /\ UNCHANGED nodeVars
  BY <1>0, <1>9, SchedulerAssumption DEF GrowOld, SchedulerType, NodeType
<1>10. CASE UNCHANGED vars
  BY <1>0, <1>10 DEF vars, SchedulerType, NodeType
<1>11. QED
  BY <1>1, <1>2, <1>3, <1>4, <1>5, <1>6, <1>7, <1>8, <1>9, <1>10 DEF Next

(* Every field of the car's node, its scheduler and its threads always has *)
(* the shape the code gives it.                                            *)
THEOREM CarTypeCorrect == Spec => []TypeOK
<1>1. Init => TypeOK
  <2> SUFFICES ASSUME Init PROVE SchedulerType /\ NodeType
    BY TypeParts
  <2>1. NoPacket \in Packet /\ NoKey \in Key
    BY DEF NoPacket, Packet, Key
  <2>2. Idle \in RotationType
    BY DEF Idle, RotationType, Reasons
  <2>3. SchedulerType
    <3>1. rotation \in [Rotators -> RotationType]
      BY <2>2 DEF Init, SchedulerInit
    <3>2. rotationLog \in Seq([num : Nat, reason : Reasons, oldCount : Nat])
      BY DEF Init, SchedulerInit
    <3>3. age \in 0 .. MaxAge
      BY SchedulerAssumption DEF Init, SchedulerInit
    <3>4. QED
      BY <2>1, <3>1, <3>2, <3>3 DEF Init, SchedulerInit, SchedulerType
  <2>4. NodeType
    BY <2>1 DEF Init, NodeType
  <2>5. QED
    BY <2>3, <2>4
<1>2. QED
  BY <1>1, CarTypeStep, PTL DEF Spec

-----------------------------------------------------------------------------
(* A thread holds one packet or none.                                      *)
LEMMA HoldingNat ==
  ASSUME NEW thread, NEW pcs
  PROVE  Holding(thread, pcs) \in {0, 1}
BY DEF Holding

(* The packets the two threads have in hand.                               *)
InHand == Holding(producer, {"check", "encrypt", "record", "put"})
InSend == Holding(transmitter, {"send"})

(* Every packet built is in exactly one place, for any queue size, number  *)
(* of packets and interleaving of the producer, the transmitter and any    *)
(* number of rotating threads.                                             *)
THEOREM PacketsNeverLost == Spec => []NothingLost
<1>1. Init => NothingLost
  BY ProducerAssumption DEF Init, NothingLost, StatFields, Holding
<1>2. TypeOK /\ NothingLost /\ [Next]_vars => NothingLost'
  <2> SUFFICES ASSUME TypeOK, NothingLost, [Next]_vars
               PROVE  NothingLost'
    OBVIOUS
  <2> USE DEF engineVars, schedVars, nodeVars
  <2> DEFINE b == stats["built"]
             st == stats["sent"]
             fl == stats["failed"]
             q == Len(queue)
             h == InHand
             x == InSend
  <2>0. /\ b \in Nat /\ st \in Nat /\ fl \in Nat /\ q \in Nat /\ refused \in Nat
        /\ sequence \in Nat /\ h \in {0, 1} /\ x \in {0, 1}
    BY HoldingNat DEF TypeOK, StatFields, InHand, InSend
  <2>1. /\ b = sequence /\ b = st + fl + q + refused + h + x /\ q <= QueueSize
    BY DEF NothingLost, InHand, InSend
  <2>2. ASSUME NEW nb, NEW ns, NEW nf, NEW nq, NEW nr, NEW nh, NEW nx,
               stats'["built"] = nb, stats'["sent"] = ns, stats'["failed"] = nf,
               Len(queue') = nq, refused' = nr, InHand' = nh, InSend' = nx,
               sequence' = nb, nb = ns + nf + nq + nr + nh + nx, nq <= QueueSize
        PROVE  NothingLost'
    BY <2>2 DEF NothingLost, InHand, InSend
  <2>3. CASE UNCHANGED <<stats, sequence, queue, refused, producer, transmitter>>
    BY <2>3 DEF NothingLost, Holding
  <2>4. CASE Build
    <3>1. /\ stats'["built"] = b + 1 /\ stats'["sent"] = st /\ stats'["failed"] = fl
      BY <2>4, BumpStats DEF Build, StatFields
    <3>2. /\ Len(queue') = q /\ refused' = refused /\ sequence' = sequence + 1
          /\ InHand = 0 /\ InHand' = 1 /\ InSend' = InSend
      BY <2>4 DEF Build, ProducerAt, InHand, InSend, Holding
    <3> HIDE DEF b, st, fl, q
    <3>3. b + 1 = st + fl + q + refused + 1 + x
      BY <2>0, <2>1, <3>2
    <3>4. QED
      BY <2>1, <2>2, <3>1, <3>2, <3>3
  <2>5. CASE /\ CheckEstablished \/ Encrypt \/ RecordPacket \/ ProducerExit
             /\ producer.pc # "put"
    <3>1. /\ stats'["built"] = b /\ stats'["sent"] = st /\ stats'["failed"] = fl
      BY <2>5, BumpStats
      DEF CheckEstablished, Encrypt, RecordPacket, ProducerExit, StatFields
    <3>2. /\ Len(queue') = q /\ refused' = refused /\ sequence' = sequence
          /\ InHand' = InHand /\ InSend' = InSend
      BY <2>5
      DEF CheckEstablished, Encrypt, RecordPacket, ProducerExit, ProducerAt, InHand,
          InSend, Holding
    <3>3. QED
      BY <2>1, <2>2, <3>1, <3>2
  <2>6. CASE FailToEncrypt
    <3>1. /\ stats'["built"] = b /\ stats'["sent"] = st /\ stats'["failed"] = fl + 1
      BY <2>6, BumpStats DEF FailToEncrypt, StatFields
    <3>2. /\ Len(queue') = q /\ refused' = refused /\ sequence' = sequence
          /\ InHand = 1 /\ InHand' = 0 /\ InSend' = InSend
      BY <2>6 DEF FailToEncrypt, InHand, InSend, Holding
    <3> HIDE DEF b, st, fl, q
    <3>3. b = st + (fl + 1) + q + refused + 0 + x
      BY <2>0, <2>1, <3>2
    <3>4. QED
      BY <2>1, <2>2, <3>1, <3>2, <3>3
  <2>7. CASE Put
    <3>1. /\ stats'["built"] = b /\ stats'["sent"] = st /\ stats'["failed"] = fl
          /\ sequence' = sequence
          /\ InHand = 1 /\ InHand' = 0 /\ InSend' = InSend
      BY <2>7 DEF Put, ProducerAt, InHand, InSend, Holding
    <3>2. \/ Len(queue') = q + 1 /\ refused' = refused /\ q < QueueSize
          \/ Len(queue') = q /\ refused' = refused + 1
      BY <2>7, PacketFields, QueueFacts DEF Put
    <3> HIDE DEF b, st, fl, q
    <3>3. /\ b = st + fl + (q + 1) + refused + 0 + x
          /\ b = st + fl + q + (refused + 1) + 0 + x
          /\ q < QueueSize => q + 1 <= QueueSize
      BY <2>0, <2>1, <3>1, ProducerAssumption
    <3>4. CASE Len(queue') = q + 1 /\ refused' = refused /\ q < QueueSize
      BY <2>1, <2>2, <3>1, <3>3, <3>4
    <3>5. CASE Len(queue') = q /\ refused' = refused + 1
      <4> DEFINE r == refused + 1
      <4>1. /\ stats'["built"] = b /\ stats'["sent"] = st /\ stats'["failed"] = fl
            /\ Len(queue') = q /\ refused' = r /\ InHand' = 0 /\ InSend' = x
            /\ sequence' = b /\ b = st + fl + q + r + 0 + x /\ q <= QueueSize
        BY <2>1, <3>1, <3>3, <3>5
      <4> HIDE DEF r, x
      <4>2. QED
        BY <2>2, <4>1
    <3>6. QED
      BY <3>2, <3>4, <3>5
  <2>8. CASE Get
    <3>1. /\ stats'["built"] = b /\ stats'["sent"] = st /\ stats'["failed"] = fl
          /\ sequence' = sequence /\ refused' = refused
          /\ InHand' = InHand /\ InSend = 0 /\ InSend' = 1
      BY <2>8 DEF Get, InHand, InSend, Holding
    <3>2. Len(queue') = q - 1
      BY <2>8, QueueFacts DEF Get
    <3> HIDE DEF b, st, fl, q
    <3>3. /\ b = st + fl + (q - 1) + refused + h + 1
          /\ q - 1 <= QueueSize
      BY <2>0, <2>1, <3>1, ProducerAssumption
    <3>4. QED
      BY <2>1, <2>2, <3>1, <3>2, <3>3
  <2>10. ASSUME NEW outcome \in {"sent", "failed"}, Sent(outcome)
         PROVE  NothingLost'
    <3>1. /\ stats'["built"] = b
          /\ \/ stats'["sent"] = st + 1 /\ stats'["failed"] = fl
             \/ stats'["sent"] = st /\ stats'["failed"] = fl + 1
      BY <2>10, BumpStats DEF Sent, StatFields
    <3>2. /\ Len(queue') = q /\ refused' = refused /\ sequence' = sequence
          /\ InHand' = InHand /\ InSend = 1 /\ InSend' = 0
      BY <2>10 DEF Sent, InHand, InSend, Holding
    <3> HIDE DEF b, st, fl, q
    <3>3. /\ b = (st + 1) + fl + q + refused + h + 0
          /\ b = st + (fl + 1) + q + refused + h + 0
      BY <2>0, <2>1, <3>2
    <3>4. QED
      BY <2>1, <2>2, <3>1, <3>2, <3>3
  <2>11. CASE TransmitterExit
    <3>1. transmitter' = [pc |-> "done", packet |-> transmitter.packet]
      BY <2>11, PacketFields DEF TransmitterExit
    <3>2. InSend' = InSend /\ InHand' = InHand
      BY <2>11, <3>1 DEF TransmitterExit, InSend, InHand, Holding
    <3>3. QED
      BY <2>11, <3>2 DEF TransmitterExit, NothingLost, InSend, InHand
  <2>12. CASE Produce
    BY <2>4, <2>5, <2>6, <2>7, <2>12
    DEF Produce, CheckEstablished, Encrypt, RecordPacket, ProducerExit, ProducerAt
  <2>13. CASE Transmit
    BY <2>8, <2>10, <2>11, <2>13 DEF Transmit, SendNowhere, SendOk, SendFail
  <2>14. QED
    BY <2>3, <2>12, <2>13
    DEF Next, vars, Start, Stop, CloseSocket, CheckSchedule, Rotate
<1>3. QED
  BY <1>1, <1>2, CarTypeCorrect, PTL DEF Spec

-----------------------------------------------------------------------------
(* The scheduler's own thread.                                             *)
Own == rotation[Background]

(* What holds of the keys at each point of _do_rotation, as long as only   *)
(* the background thread rotates: there is no key from the moment the      *)
(* session is replaced until the callback, and the public key handed to    *)
(* the callback is the current session's.                                  *)
KeyInv ==
  /\ running = "new" =>
       keyUse = 0 /\ ~ scheduling /\ ~ Established /\ Own.pc = "idle"
  /\ Own.pc \in {"public", "reset", "log", "callback"} => ~ Established
  /\ Own.pc \in {"reset", "log", "callback", "peer"} => Own.pub = session
  /\ Own.pc = "peer" => key = <<session, peer>>

Unrecorded == Holding(producer, {"record"})

(* With a single rotating thread, KeysAgree is about that thread.          *)
LEMMA SoleRotator ==
  ASSUME Callers = {}
  PROVE  /\ Rotators = {Background}
         /\ KeysAgree <=> (Own.pc \in {"idle", "begin", "rotate"}
                             => (key = peerKey \/ ~ Established))
         /\ KeysAgree' <=> (Own'.pc \in {"idle", "begin", "rotate"}
                              => (key' = peerKey' \/ ~ Established'))
BY DEF Rotators, KeysAgree, Own

(* A pair of generations is a key.                                         *)
LEMMA PairIsKey == \A a, b \in Nat : <<a, b>> # NoKey
BY DEF NoKey

(* One step of a rotation keeps the three invariants of the keys.          *)
LEMMA RotationKeepsKeys ==
  ASSUME Callers = {}, TypeOK, KeyInv, CountCoversKey, KeysAgree,
         RotationStep(Background), UNCHANGED nodeVars
  PROVE  KeyInv' /\ CountCoversKey' /\ KeysAgree'
<1> USE DEF engineVars, schedVars, nodeVars, Own
<1>0. Background \in Rotators
  BY DEF Rotators
<1>1. CASE BeginRotation(Background)
  <2>1. Own.pc = "begin" /\ Own'.pc = "rotate"
    BY <1>0, <1>1, RotationMoves DEF BeginRotation, Moves
  <2>2. QED
    BY <1>1, <2>1, SoleRotator DEF BeginRotation, KeyInv, CountCoversKey, Established
<1>2. CASE RotateSession(Background)
  <2>1. Own.pc = "rotate" /\ Own'.pc = "public"
    BY <1>0, <1>2, RotationMoves DEF RotateSession, Moves
  <2>2. QED
    BY <1>2, <2>1, SoleRotator
    DEF RotateSession, NewSession, KeyInv, CountCoversKey, Established
<1>3. CASE ReadPublicKey(Background)
  <2>1. Own.pc = "public" /\ Own'.pc = "reset" /\ Own'.pub = session
    BY <1>0, <1>3, RotationMoves DEF ReadPublicKey, Moves
  <2>2. QED
    BY <1>3, <2>1, SoleRotator DEF ReadPublicKey, KeyInv, CountCoversKey, Established
<1>4. CASE ResetCounters(Background)
  <2>1. Own.pc = "reset" /\ Own'.pc = "log" /\ Own'.pub = Own.pub
    BY <1>0, <1>4, RotationMoves DEF ResetCounters, Moves
  <2>2. QED
    BY <1>4, <2>1, SoleRotator DEF ResetCounters, KeyInv, CountCoversKey, Established
<1>5. CASE LogRotation(Background)
  <2>1. Own.pc = "log" /\ Own'.pc = "callback" /\ Own'.pub = Own.pub
    BY <1>0, <1>5, RotationMoves DEF LogRotation, Moves
  <2>2. QED
    BY <1>5, <2>1, SoleRotator DEF LogRotation, KeyInv, CountCoversKey, Established
<1>6. CASE Callback(Background)
  <2>1. CASE CallbackMode = "rehandshake"
    <3>1. /\ Own.pc = "callback" /\ Own'.pc = "peer" /\ Own'.pub = Own.pub
      BY <1>0, <1>6, <2>1, RotationMoves DEF Callback, Moves
    <3>2. /\ session' = session /\ key' = <<session, peer + 1>> /\ peer' = peer + 1
          /\ keyUse' = 0 /\ packetCount' = packetCount
      BY <1>6, <2>1 DEF Callback
    <3>3. Unrecorded' \in {0, 1} /\ packetCount \in Nat
      BY HoldingNat DEF TypeOK, Unrecorded
    <3>4. CountCoversKey'
      BY <3>2, <3>3 DEF CountCoversKey, Unrecorded
    <3>5. QED
      BY <3>1, <3>2, <3>4, SoleRotator DEF KeyInv
  <2>2. CASE CallbackMode # "rehandshake"
    <3>1. Own.pc = "callback" /\ Own'.pc = "idle"
      BY <1>0, <1>6, <2>2, RotationMoves DEF Callback, Moves
    <3>2. QED
      BY <1>6, <2>2, <3>1, SoleRotator DEF Callback, KeyInv, CountCoversKey, Established
  <2>3. QED
    BY <2>1, <2>2
<1>7. CASE PeerHandshake(Background)
  <2>1. Own.pc = "peer" /\ Own'.pc = "idle"
    BY <1>0, <1>7, RotationMoves DEF PeerHandshake, Moves
  <2>2. peerKey' = key /\ key' = key
    BY <1>7, <2>1 DEF PeerHandshake, KeyInv
  <2>3. CountCoversKey'
    BY <1>7 DEF PeerHandshake, CountCoversKey, Established
  <2>4. QED
    BY <1>7, <2>1, <2>2, <2>3, SoleRotator DEF PeerHandshake, KeyInv
<1>8. QED
  BY <1>1, <1>2, <1>3, <1>4, <1>5, <1>6, <1>7 DEF RotationStep

(* Every other step keeps them too.                                        *)
LEMMA StepKeepsKeys ==
  ASSUME Callers = {}, TypeOK, KeyInv, CountCoversKey, KeysAgree, [Next]_vars
  PROVE  KeyInv' /\ CountCoversKey' /\ KeysAgree'
<1> USE DEF engineVars, schedVars, nodeVars
<1> DEFINE Quiet == /\ UNCHANGED <<session, key, peer, peerKey, keyUse, packetCount, rotation>>
                    /\ scheduling' => scheduling
                    /\ running' = "new" => running = "new"
                    /\ Unrecorded' = Unrecorded
<1>1. CASE Quiet
  BY <1>1 DEF KeyInv, CountCoversKey, KeysAgree, Own, Established, Unrecorded
<1>2. Stop \/ CloseSocket \/ Transmit \/ (GrowOld /\ UNCHANGED nodeVars) \/ UNCHANGED vars
        => Quiet
  BY DEF Stop, CloseSocket, Transmit, Get, SendNowhere, SendOk, SendFail, Sent,
         TransmitterExit, GrowOld, vars, Unrecorded, Holding
<1>3. Build \/ CheckEstablished \/ FailToEncrypt \/ Put \/ ProducerExit => Quiet
  BY DEF Build, CheckEstablished, FailToEncrypt, Put, ProducerExit, ProducerAt,
         Unrecorded, Holding
<1>4. ASSUME NEW connectToRelay \in BOOLEAN, Start(connectToRelay)
      PROVE  KeyInv' /\ CountCoversKey' /\ KeysAgree'
  <2>1. keyUse' = 0 /\ key' = peerKey' /\ packetCount' = packetCount
        /\ rotation' = rotation /\ running' = "yes" /\ Own.pc = "idle"
    BY <1>4 DEF Start, KeyInv
  <2>2. Unrecorded' \in {0, 1} /\ packetCount \in Nat
    BY HoldingNat DEF TypeOK, Unrecorded
  <2>3. QED
    BY <2>1, <2>2 DEF KeyInv, CountCoversKey, KeysAgree, Own, Unrecorded
<1>5. CASE Encrypt
  <2>1. /\ Established /\ keyUse' = keyUse + 1 /\ Unrecorded = 0 /\ Unrecorded' = 1
        /\ UNCHANGED <<session, key, peer, peerKey, packetCount, rotation, running>>
    BY <1>5 DEF Encrypt, ProducerAt, Unrecorded, Holding
  <2>2. keyUse <= packetCount + 0 /\ keyUse \in Nat /\ packetCount \in Nat
    BY <2>1 DEF CountCoversKey, Unrecorded, TypeOK
  <2>3. keyUse' <= packetCount' + Unrecorded'
    BY <2>1, <2>2
  <2>4. QED
    BY <2>1, <2>3 DEF KeyInv, CountCoversKey, KeysAgree, Own, Unrecorded, Established
<1>6. CASE RecordPacket
  <2>1. /\ packetCount' = packetCount + 1 /\ Unrecorded = 1 /\ Unrecorded' = 0
        /\ UNCHANGED <<session, key, peer, peerKey, keyUse, rotation, running, scheduling>>
    BY <1>6 DEF RecordPacket, ProducerAt, Unrecorded, Holding
  <2>2. CountCoversKey'
    BY <2>1 DEF CountCoversKey, Unrecorded, TypeOK, Established
  <2>3. QED
    BY <2>1, <2>2 DEF KeyInv, KeysAgree, Own, Established
<1>7. CASE CheckSchedule
  <2>1. Own.pc = "idle" /\ Own'.pc = "begin" /\ scheduling
    BY <1>7, RotationMoves DEF CheckSchedule, CheckRotation, Moves, Own, Rotators
  <2>2. QED
    BY <1>7, <2>1, SoleRotator
    DEF CheckSchedule, CheckRotation, KeyInv, CountCoversKey, Established
<1>8. ASSUME NEW t \in Rotators, Rotate(t)
      PROVE  KeyInv' /\ CountCoversKey' /\ KeysAgree'
  BY <1>8, SoleRotator, RotationKeepsKeys DEF Rotate
<1> HIDE DEF Quiet
<1>9. CASE Produce
  BY <1>1, <1>3, <1>5, <1>6, <1>9 DEF Produce
<1>10. CASE Stop \/ CloseSocket \/ Transmit \/ (GrowOld /\ UNCHANGED nodeVars)
              \/ UNCHANGED vars
  BY <1>1, <1>2, <1>10
<1>11. CASE Next
  BY <1>4, <1>7, <1>8, <1>9, <1>10, <1>11 DEF Next
<1>12. QED
  BY <1>10, <1>11

(* They hold in every reachable state.                                     *)
LEMMA KeysKept ==
  ASSUME Callers = {}
  PROVE  Spec => [](KeyInv /\ CountCoversKey /\ KeysAgree)
<1>1. Init => KeyInv /\ CountCoversKey /\ KeysAgree
  BY DEF Init, SchedulerInit, KeyInv, CountCoversKey, KeysAgree, Own, Established, Idle,
         Rotators
<1>2. TypeOK /\ (KeyInv /\ CountCoversKey /\ KeysAgree) /\ [Next]_vars
        => (KeyInv /\ CountCoversKey /\ KeysAgree)'
  BY StepKeepsKeys
<1>3. QED
  BY <1>1, <1>2, CarTypeCorrect, PTL DEF Spec

(* Count-based rotation sees every packet of the current key but the one   *)
(* just encrypted, whatever the queue size, the policy and the callback,   *)
(* when only the scheduler's own thread rotates.                           *)
THEOREM CountAlwaysCovers ==
  ASSUME Callers = {}
  PROVE  Spec => []CountCoversKey
BY KeysKept, PTL

(* Between two rotations by the scheduler's own thread, the car and its    *)
(* peer hold the same key or the car has none, whatever the producer does  *)
(* meanwhile.                                                              *)
THEOREM KeysAlwaysAgree ==
  ASSUME Callers = {}
  PROVE  Spec => []KeysAgree
BY KeysKept, PTL

-----------------------------------------------------------------------------
(* What holds of the log at each point of _do_rotation, when only the      *)
(* background thread rotates: a rotation that has its number and is not    *)
(* yet in the log is the only one, and the reason it was begun for still   *)
(* holds of the count it will replace.                                     *)
LogInv ==
  /\ Own.pc \in {"rotate", "public", "reset", "log"} =>
       /\ Own.num = rotationCount /\ rotationCount = Len(rotationLog) + 1
       /\ Own.reason = "count_exceeded" => Own.oldCount >= MaxPackets
  /\ Own.pc \in {"idle", "begin", "callback", "peer"} => rotationCount = Len(rotationLog)
  /\ Own.pc = "begin" /\ Own.reason = "count_exceeded" => packetCount >= MaxPackets

(* Every step keeps LogInv and the truth of the log.                       *)
LEMMA LogStep ==
  ASSUME Callers = {}, TypeOK, LogInv, RotationLogTrue, [Next]_vars
  PROVE  LogInv' /\ RotationLogTrue'
<1> USE DEF engineVars, schedVars, nodeVars
<1>0. Background \in Rotators /\ Rotators = {Background}
  BY SoleRotator
<1>1. CASE UNCHANGED <<rotation, rotationCount, rotationLog, packetCount>>
  BY <1>1 DEF LogInv, RotationLogTrue, Own
<1>2. CASE RecordPacket
  <2>1. packetCount \in Nat /\ packetCount' = packetCount + 1 /\ MaxPackets \in Nat
    BY <1>2, SchedulerAssumption DEF RecordPacket, TypeOK
  <2>2. packetCount >= MaxPackets => packetCount' >= MaxPackets
    BY <2>1
  <2>3. UNCHANGED <<rotation, rotationCount, rotationLog>>
    BY <1>2 DEF RecordPacket
  <2>4. QED
    BY <2>2, <2>3 DEF LogInv, RotationLogTrue, Own
<1>3. CASE CheckSchedule
  <2>1. /\ Own.pc = "idle" /\ Own'.pc = "begin"
        /\ Own'.reason = IF age >= MaxAge THEN "age_exceeded" ELSE "count_exceeded"
    BY <1>0, <1>3, RotationMoves DEF CheckSchedule, CheckRotation, Moves, Own
  <2>2. /\ UNCHANGED <<rotationCount, rotationLog, packetCount>>
        /\ age >= MaxAge \/ packetCount >= MaxPackets
    BY <1>3 DEF CheckSchedule, CheckRotation, ShouldRotate
  <2>3. QED
    BY <2>1, <2>2 DEF LogInv, RotationLogTrue
<1>4. ASSUME NEW t \in Rotators, Rotate(t)
      PROVE  LogInv' /\ RotationLogTrue'
  <2>0. t = Background /\ RotationStep(Background)
    BY <1>0, <1>4 DEF Rotate
  <2>1. CASE BeginRotation(Background)
    <3>1. /\ Own.pc = "begin" /\ Own'.pc = "rotate" /\ Own'.num = rotationCount + 1
          /\ Own'.reason = Own.reason /\ Own'.oldCount = packetCount
      BY <1>0, <2>1, RotationMoves DEF BeginRotation, Moves, Own
    <3>2. /\ UNCHANGED <<rotationLog, packetCount>> /\ rotationCount' = rotationCount + 1
      BY <2>1 DEF BeginRotation
    <3>3. QED
      BY <3>1, <3>2 DEF LogInv, RotationLogTrue
  <2>2. CASE RotateSession(Background)
    <3>1. /\ Own.pc = "rotate" /\ Own'.pc = "public" /\ Own'.num = Own.num
          /\ Own'.reason = Own.reason /\ Own'.oldCount = Own.oldCount
      BY <1>0, <2>2, RotationMoves DEF RotateSession, Moves, Own
    <3>2. QED
      BY <2>2, <3>1 DEF RotateSession, LogInv, RotationLogTrue
  <2>3. CASE ReadPublicKey(Background)
    <3>1. /\ Own.pc = "public" /\ Own'.pc = "reset" /\ Own'.num = Own.num
          /\ Own'.reason = Own.reason /\ Own'.oldCount = Own.oldCount
      BY <1>0, <2>3, RotationMoves DEF ReadPublicKey, Moves, Own
    <3>2. QED
      BY <2>3, <3>1 DEF ReadPublicKey, LogInv, RotationLogTrue
  <2>4. CASE ResetCounters(Background)
    <3>1. /\ Own.pc = "reset" /\ Own'.pc = "log" /\ Own'.num = Own.num
          /\ Own'.reason = Own.reason /\ Own'.oldCount = Own.oldCount
      BY <1>0, <2>4, RotationMoves DEF ResetCounters, Moves, Own
    <3>2. QED
      BY <2>4, <3>1 DEF ResetCounters, LogInv, RotationLogTrue
  <2>5. CASE LogRotation(Background)
    <3> DEFINE e == [num |-> Own.num, reason |-> Own.reason, oldCount |-> Own.oldCount]
               n == Len(rotationLog)
    <3>1. Own.pc = "log" /\ Own'.pc = "callback"
      BY <1>0, <2>5, RotationMoves DEF LogRotation, Moves, Own
    <3>2. rotationLog' = Append(rotationLog, e) /\ rotationCount' = rotationCount
      BY <2>5 DEF LogRotation, Own
    <3>3. /\ e \in [num : Nat, reason : Reasons, oldCount : Nat]
          /\ rotationLog \in Seq([num : Nat, reason : Reasons, oldCount : Nat])
      BY <1>0 DEF TypeOK, RotationType, Own
    <3>4. /\ e.num = n + 1 /\ n \in Nat
          /\ e.reason = "count_exceeded" => e.oldCount >= MaxPackets
      BY <3>1, <3>3 DEF LogInv
    <3> HIDE DEF e
    <3>5. /\ Len(rotationLog') = n + 1
          /\ \A i \in 1 .. n + 1 : rotationLog'[i] = IF i = n + 1 THEN e ELSE rotationLog[i]
      BY <3>2, <3>3
    <3>6. RotationLogTrue'
      BY <3>4, <3>5 DEF RotationLogTrue
    <3>7. LogInv'
      BY <3>1, <3>2, <3>5 DEF LogInv
    <3>8. QED
      BY <3>6, <3>7
  <2>6. CASE Callback(Background)
    <3>1. Own.pc = "callback" /\ Own'.pc \in {"peer", "idle"}
      BY <1>0, <2>6, RotationMoves DEF Callback, Moves, Own
    <3>2. UNCHANGED <<rotationCount, rotationLog, packetCount>>
      BY <2>6 DEF Callback
    <3>3. QED
      BY <3>1, <3>2 DEF LogInv, RotationLogTrue
  <2>7. CASE PeerHandshake(Background)
    <3>1. Own.pc = "peer" /\ Own'.pc = "idle"
      BY <1>0, <2>7, RotationMoves DEF PeerHandshake, Moves, Own
    <3>2. QED
      BY <2>7, <3>1 DEF PeerHandshake, LogInv, RotationLogTrue
  <2>8. QED
    BY <2>0, <2>1, <2>2, <2>3, <2>4, <2>5, <2>6, <2>7 DEF RotationStep
<1>5. CASE Stop \/ CloseSocket \/ Transmit \/ (GrowOld /\ UNCHANGED nodeVars)
             \/ UNCHANGED vars
  BY <1>1, <1>5
  DEF Stop, CloseSocket, Transmit, Get, SendNowhere, SendOk, SendFail, Sent,
      TransmitterExit, GrowOld, vars
<1>6. CASE Produce
  BY <1>1, <1>2, <1>6
  DEF Produce, Build, CheckEstablished, Encrypt, FailToEncrypt, Put, ProducerExit
<1>7. ASSUME NEW connectToRelay \in BOOLEAN, Start(connectToRelay)
      PROVE  LogInv' /\ RotationLogTrue'
  BY <1>1, <1>7 DEF Start
<1>8. CASE Next
  BY <1>3, <1>4, <1>5, <1>6, <1>7, <1>8 DEF Next
<1>9. QED
  BY <1>5, <1>8

(* The rotation log lists every rotation once, in the order of their       *)
(* numbers and with a reason that held, for any rotation policy and any    *)
(* number of rotations, when only the scheduler's own thread rotates.      *)
THEOREM RotationLogAlwaysTrue ==
  ASSUME Callers = {}
  PROVE  Spec => []RotationLogTrue
<1>1. Init => LogInv /\ RotationLogTrue
  BY DEF Init, SchedulerInit, LogInv, RotationLogTrue, Own, Idle, Rotators
<1>2. TypeOK /\ (LogInv /\ RotationLogTrue) /\ [Next]_vars => (LogInv /\ RotationLogTrue)'
  BY LogStep
<1>3. QED
  BY <1>1, <1>2, CarTypeCorrect, PTL DEF Spec

-----------------------------------------------------------------------------
(* The generation of the car's key pair that a packet was encrypted under. *)
Gen(p) == IF p.key = NoKey THEN 0 ELSE p.key[1]

Holds == producer.pc \in {"check", "encrypt", "record", "put"}
Sealed == producer.pc \in {"record", "put"}

(* The largest number, and the newest generation, a packet can have that   *)
(* the producer has handed on.                                             *)
SeqTop == IF Holds THEN sequence - 1 ELSE sequence
GenTop == IF Sealed THEN Gen(producer.packet) ELSE session

(* The packet in the producer's hands carries the last number, and a key   *)
(* that was the engine's; the engine's key is of its current session.      *)
HandInv ==
  /\ Established => key[1] = session
  /\ Holds => producer.packet.seq = sequence
  /\ Sealed => producer.packet.key # NoKey /\ Gen(producer.packet) <= session

Before(p, q) == p.seq < q.seq /\ Gen(p) <= Gen(q)
Behind(p) == p.seq <= SeqTop /\ Gen(p) <= GenTop

(* The last packet sent, the one being sent and the queue are in order,    *)
(* and all of them are behind the producer.                                *)
LineInv ==
  /\ Behind(lastSent) /\ (lastSent # NoPacket => lastSent.key # NoKey)
  /\ transmitter.pc = "send" =>
       /\ Behind(transmitter.packet) /\ transmitter.packet.key # NoKey
       /\ Before(lastSent, transmitter.packet)
  /\ \A i \in 1 .. Len(queue) :
       /\ Behind(queue[i]) /\ queue[i].key # NoKey
       /\ Before(lastSent, queue[i])
       /\ transmitter.pc = "send" => Before(transmitter.packet, queue[i])
  /\ \A i, j \in 1 .. Len(queue) : i < j => Before(queue[i], queue[j])

(* Generations are natural numbers.                                        *)
LEMMA GenNat == \A p \in Packet : p.seq \in Nat /\ Gen(p) \in Nat
BY DEF Packet, Key, Gen, NoKey

(* So are the numbers the packets in the pipeline are compared with.       *)
LEMMA TopsInt ==
  ASSUME TypeOK
  PROVE  /\ SeqTop \in Int /\ GenTop \in Nat /\ Gen(producer.packet) \in Nat
         /\ producer.packet.seq \in Nat /\ sequence \in Nat /\ session \in Nat
<1>1. sequence \in Nat /\ session \in Nat
  BY DEF TypeOK
<1>2. Gen(producer.packet) \in Nat /\ producer.packet.seq \in Nat
  BY PacketFields, GenNat
<1>3. QED
  BY <1>1, <1>2 DEF SeqTop, GenTop

(* No step takes the producer's hand back.                                 *)
LEMMA HandStep ==
  ASSUME TypeOK, HandInv, [Next]_vars
  PROVE  HandInv' /\ SeqTop' >= SeqTop /\ GenTop' >= GenTop
<1> USE DEF engineVars, schedVars, nodeVars
<1>0. /\ SeqTop \in Int /\ GenTop \in Nat /\ Gen(producer.packet) \in Nat
      /\ producer.packet.seq \in Nat /\ sequence \in Nat /\ session \in Nat
      /\ peer \in Nat
  BY TopsInt DEF TypeOK
<1>1. ASSUME UNCHANGED <<producer, sequence>>, session' >= session, session' \in Nat,
             Established' => key'[1] = session'
      PROVE  HandInv' /\ SeqTop' >= SeqTop /\ GenTop' >= GenTop
  <2>1. Holds' = Holds /\ Sealed' = Sealed /\ Gen(producer.packet)' = Gen(producer.packet)
    BY <1>1 DEF Holds, Sealed, Gen
  <2>2. SeqTop' = SeqTop
    BY <1>1, <2>1 DEF SeqTop
  <2>3. GenTop' >= GenTop
    BY <1>0, <1>1, <2>1 DEF GenTop
  <2>4. HandInv'
    <3>1. Sealed => Gen(producer.packet) <= session'
      BY <1>0, <1>1 DEF HandInv
    <3>2. QED
      BY <1>1, <2>1, <3>1 DEF HandInv
  <2>5. QED
    BY <1>0, <2>2, <2>3, <2>4
<1>2. CASE UNCHANGED <<producer, sequence, session, key>>
  BY <1>0, <1>1, <1>2 DEF HandInv, Established
<1>3. ASSUME NEW connectToRelay \in BOOLEAN, Start(connectToRelay)
      PROVE  HandInv' /\ SeqTop' >= SeqTop /\ GenTop' >= GenTop
  BY <1>0, <1>1, <1>3 DEF Start
<1>4. CASE Build
  <2>1. /\ producer' = [pc |-> "check", packet |-> [seq |-> sequence + 1, key |-> NoKey]]
        /\ sequence' = sequence + 1 /\ session' = session /\ key' = key
        /\ producer.pc = "loop"
    BY <1>4, PacketFields DEF Build, ProducerAt
  <2>2. Holds' /\ ~ Holds /\ ~ Sealed' /\ ~ Sealed
    BY <2>1 DEF Holds, Sealed
  <2>3. SeqTop' = SeqTop /\ GenTop' = GenTop
    BY <1>0, <2>1, <2>2 DEF SeqTop, GenTop
  <2>4. QED
    BY <1>0, <2>1, <2>2, <2>3 DEF HandInv, Established
<1>5. CASE CheckEstablished
  <2>1. /\ producer.pc = "check" /\ producer'.pc = "encrypt"
        /\ producer'.packet = producer.packet
        /\ sequence' = sequence /\ session' = session /\ key' = key
    BY <1>5 DEF CheckEstablished, ProducerAt
  <2>2. Holds' /\ Holds /\ ~ Sealed' /\ ~ Sealed
    BY <2>1 DEF Holds, Sealed
  <2>3. QED
    BY <1>0, <2>1, <2>2 DEF HandInv, Established, SeqTop, GenTop
<1>6. CASE Encrypt
  <2>1. /\ producer.pc = "encrypt" /\ sequence' = sequence /\ session' = session
        /\ key' = key /\ key # NoKey
        /\ producer' = [pc |-> "record", packet |-> [seq |-> producer.packet.seq, key |-> key]]
    BY <1>6, PacketFields DEF Encrypt, ProducerAt, Established
  <2>2. Holds' /\ Holds /\ Sealed' /\ ~ Sealed
    BY <2>1 DEF Holds, Sealed
  <2>3. producer'.packet.key = key /\ producer'.packet.seq = producer.packet.seq
    BY <2>1
  <2>4. Gen(producer.packet)' = session
    BY <2>1, <2>3 DEF Gen, HandInv, Established
  <2>5. QED
    BY <1>0, <2>1, <2>2, <2>3, <2>4 DEF HandInv, Established, SeqTop, GenTop
<1>7. CASE RecordPacket
  <2>1. /\ producer.pc = "record" /\ producer'.pc = "put"
        /\ producer'.packet = producer.packet
        /\ sequence' = sequence /\ session' = session /\ key' = key
    BY <1>7 DEF RecordPacket, ProducerAt
  <2>2. Holds' /\ Holds /\ Sealed' /\ Sealed
    BY <2>1 DEF Holds, Sealed
  <2>3. QED
    BY <1>0, <2>1, <2>2 DEF HandInv, Established, SeqTop, GenTop, Gen
<1>8. CASE FailToEncrypt \/ Put \/ ProducerExit
  <2>1. /\ producer'.pc \in {"loop", "done"}
        /\ sequence' = sequence /\ session' = session /\ key' = key
    BY <1>8 DEF FailToEncrypt, Put, ProducerExit, ProducerAt
  <2>2. ~ Holds' /\ ~ Sealed'
    BY <2>1 DEF Holds, Sealed
  <2>3. SeqTop' = sequence /\ GenTop' = session
    BY <2>1, <2>2 DEF SeqTop, GenTop
  <2>4. SeqTop <= sequence /\ GenTop <= session
    BY <1>0 DEF SeqTop, GenTop, HandInv
  <2>5. QED
    BY <1>0, <2>1, <2>2, <2>3, <2>4 DEF HandInv, Established
<1>9. CASE Produce
  BY <1>4, <1>5, <1>6, <1>7, <1>8, <1>9 DEF Produce
<1>10. ASSUME NEW t \in Rotators, Rotate(t)
       PROVE  HandInv' /\ SeqTop' >= SeqTop /\ GenTop' >= GenTop
  <2>1. CASE RotateSession(t)
    BY <1>0, <1>1, <1>10, <2>1 DEF Rotate, RotateSession, NewSession, Established
  <2>2. CASE Callback(t)
    <3>1. session' = session /\ (key' = key \/ key' = <<session, peer + 1>>)
      BY <2>2 DEF Callback
    <3>2. Established' => key'[1] = session'
      BY <3>1 DEF Established, HandInv
    <3>3. QED
      BY <1>0, <1>1, <1>10, <3>1, <3>2 DEF Rotate
  <2>3. QED
    BY <1>2, <1>10, <2>1, <2>2
    DEF Rotate, RotationStep, BeginRotation, ReadPublicKey, ResetCounters, LogRotation,
        PeerHandshake
<1>11. CASE \/ Stop \/ CloseSocket \/ Transmit \/ CheckSchedule
            \/ (GrowOld /\ UNCHANGED nodeVars) \/ UNCHANGED vars
  BY <1>2, <1>11
  DEF Stop, CloseSocket, Transmit, Get, SendNowhere, SendOk, SendFail, Sent,
      TransmitterExit, CheckSchedule, CheckRotation, GrowOld, vars
<1>12. ASSUME NEW t \in Callers, ForceRotation(t), UNCHANGED nodeVars
       PROVE  HandInv' /\ SeqTop' >= SeqTop /\ GenTop' >= GenTop
  BY <1>2, <1>12 DEF ForceRotation
<1>13. CASE Next
  BY <1>3, <1>9, <1>10, <1>11, <1>12, <1>13 DEF Next
<1>14. QED
  BY <1>11, <1>13

(* A packet that is behind the producer stays behind it.                   *)
LEMMA StaysBehind ==
  ASSUME TypeOK, TypeOK', SeqTop' >= SeqTop, GenTop' >= GenTop,
         NEW p \in Packet, Behind(p)
  PROVE  p.seq <= SeqTop' /\ Gen(p) <= GenTop'
<1>1. /\ SeqTop \in Int /\ GenTop \in Int /\ SeqTop' \in Int /\ GenTop' \in Int
      /\ p.seq \in Int /\ Gen(p) \in Int
  <2>1. SeqTop \in Int /\ GenTop \in Nat
    BY TopsInt
  <2>2. SeqTop' \in Int /\ GenTop' \in Nat
    <3>1. /\ producer' \in [pc : {"loop", "check", "encrypt", "record", "put", "done"},
                            packet : Packet]
          /\ sequence' \in Nat /\ session' \in Nat
      BY DEF TypeOK
    <3>2. Gen(producer.packet)' \in Nat
      BY <3>1, GenNat DEF Gen
    <3>3. QED
      BY <3>1, <3>2 DEF SeqTop, GenTop
  <2>3. QED
    BY <2>1, <2>2, GenNat
<1>2. p.seq <= SeqTop /\ Gen(p) <= GenTop
  BY DEF Behind
<1>3. QED
  BY <1>1, <1>2

(* The pipeline stays in order: packets enter it behind the producer and   *)
(* leave it at the other end.                                              *)
LEMMA LineStep ==
  ASSUME TypeOK, TypeOK', HandInv, LineInv, [Next]_vars
  PROVE  LineInv'
<1> USE DEF engineVars, schedVars, nodeVars
<1>0. SeqTop' >= SeqTop /\ GenTop' >= GenTop
  BY HandStep
<1>a. ASSUME NEW p \in Packet, Behind(p)
      PROVE  p.seq <= SeqTop' /\ Gen(p) <= GenTop'
  BY <1>0, <1>a, StaysBehind
<1>b. /\ lastSent \in Packet /\ transmitter.packet \in Packet
      /\ \A i \in 1 .. Len(queue) : queue[i] \in Packet
  BY PacketFields, QueueFacts DEF TypeOK
<1>c. Len(queue) \in Nat
  BY QueueFacts
<1>1. ASSUME UNCHANGED <<lastSent, queue>>,
             transmitter'.pc = "send" => transmitter' = transmitter
      PROVE  LineInv'
  BY <1>a, <1>b, <1>1 DEF LineInv, Behind, Before, Gen
<1>2. CASE Put
  <2> DEFINE p == producer.packet
             n == Len(queue)
  <2>1. /\ UNCHANGED <<lastSent, transmitter>> /\ producer.pc = "put"
        /\ \/ queue' = queue
           \/ queue' = Append(queue, p)
    BY <1>2 DEF Put, ProducerAt
  <2>2. CASE queue' = queue
    BY <1>1, <2>1, <2>2
  <2>3. CASE queue' = Append(queue, p)
    <3>1. /\ p \in Packet /\ Len(queue') = n + 1
          /\ \A i \in 1 .. n + 1 : queue'[i] = IF i = n + 1 THEN p ELSE queue[i]
      BY <2>3, PacketFields, QueueFacts
    <3>2. /\ p.seq = sequence /\ p.key # NoKey /\ SeqTop = p.seq - 1 /\ GenTop = Gen(p)
          /\ Gen(p) <= session
      BY <2>1 DEF HandInv, Holds, Sealed, SeqTop, GenTop
    <3>3. SeqTop' = sequence /\ GenTop' = session
      BY <1>2 DEF Put, ProducerAt, SeqTop, GenTop, Holds, Sealed
    <3>4. p.seq <= SeqTop' /\ Gen(p) <= GenTop'
      BY <3>1, <3>2, <3>3, GenNat
    <3>5. \A x \in Packet : Behind(x) => Before(x, p)
      BY <3>1, <3>2, GenNat DEF Behind, Before
    <3> HIDE DEF p, n
    <3>6. /\ \A i \in 1 .. n : queue[i] \in Packet
          /\ n \in Nat
      BY <1>b, <1>c DEF n
    <3>7. \A i \in 1 .. n + 1 :
            /\ queue'[i].seq <= SeqTop' /\ Gen(queue'[i]) <= GenTop'
            /\ queue'[i].key # NoKey
            /\ Before(lastSent, queue'[i])
            /\ transmitter.pc = "send" => Before(transmitter.packet, queue'[i])
      BY <1>a, <1>b, <3>1, <3>2, <3>4, <3>5, <3>6 DEF LineInv, n
    <3>8. \A i, j \in 1 .. n + 1 : i < j => Before(queue'[i], queue'[j])
      BY <3>1, <3>5, <3>6 DEF LineInv, n
    <3>9. QED
      BY <1>a, <1>b, <2>1, <3>1, <3>7, <3>8 DEF LineInv, Behind, Before, Gen
  <2>4. QED
    BY <2>1, <2>2, <2>3
<1>3. CASE Get
  <2> DEFINE n == Len(queue)
             h == queue[1]
  <2>1. /\ n >= 1 /\ n \in Nat /\ Len(queue') = n - 1
        /\ \A i \in 1 .. n - 1 : queue'[i] = queue[i + 1]
        /\ transmitter'.packet = h /\ transmitter'.pc = "send"
        /\ lastSent' = lastSent
    BY <1>3, QueueFacts DEF Get
  <2>2. /\ h.seq <= SeqTop' /\ Gen(h) <= GenTop' /\ h.key # NoKey /\ Before(lastSent, h)
    BY <1>a, <1>b, <2>1 DEF LineInv
  <2>3. \A i \in 1 .. n - 1 :
          /\ queue'[i].seq <= SeqTop' /\ Gen(queue'[i]) <= GenTop'
          /\ queue'[i].key # NoKey
          /\ Before(lastSent, queue'[i]) /\ Before(h, queue'[i])
    <3>1. \A i \in 1 .. n - 1 : i + 1 \in 1 .. n /\ 1 \in 1 .. n /\ 1 < i + 1
      BY <2>1
    <3>2. QED
      BY <1>a, <1>b, <2>1, <3>1 DEF LineInv
  <2>4. \A i, j \in 1 .. n - 1 : i < j => Before(queue'[i], queue'[j])
    <3>1. \A i, j \in 1 .. n - 1 :
            i < j => i + 1 \in 1 .. n /\ j + 1 \in 1 .. n /\ i + 1 < j + 1
      BY <2>1
    <3>2. QED
      BY <2>1, <3>1 DEF LineInv
  <2> HIDE DEF n, h
  <2>5. QED
    BY <1>a, <1>b, <2>1, <2>2, <2>3, <2>4 DEF LineInv, Behind, Before, Gen
<1>4. CASE SendOk
  <2>1. /\ lastSent' = transmitter.packet /\ queue' = queue /\ transmitter.pc = "send"
        /\ transmitter'.pc = "loop"
    BY <1>4 DEF SendOk, Sent
  <2>2. QED
    BY <1>a, <1>b, <2>1 DEF LineInv, Behind, Before, Gen
<1>5. CASE SendNowhere \/ SendFail \/ TransmitterExit
  <2>1. transmitter'.pc # "send" /\ UNCHANGED <<lastSent, queue>>
    BY <1>5, PacketFields DEF SendNowhere, SendFail, Sent, TransmitterExit
  <2>2. QED
    BY <1>1, <2>1
<1>6. CASE UNCHANGED <<lastSent, queue, transmitter>>
  BY <1>1, <1>6
<1>7. CASE Produce
  BY <1>2, <1>6, <1>7
  DEF Produce, Build, CheckEstablished, Encrypt, FailToEncrypt, RecordPacket, ProducerExit
<1>8. CASE Transmit
  BY <1>3, <1>4, <1>5, <1>8 DEF Transmit
<1>9. QED
  BY <1>6, <1>7, <1>8
  DEF Next, Start, Stop, CloseSocket, CheckSchedule, Rotate, vars

(* The pipeline is always in order.                                        *)
LEMMA PipelineInOrder == Spec => [](HandInv /\ LineInv)
<1>1. Init => HandInv /\ LineInv
  <2> SUFFICES ASSUME Init PROVE HandInv /\ LineInv
    OBVIOUS
  <2>1. /\ producer.pc = "loop" /\ transmitter.pc = "loop" /\ queue = <<>>
        /\ sequence = 0 /\ session = 1 /\ key = NoKey /\ lastSent = NoPacket
    BY DEF Init, SchedulerInit
  <2>2. lastSent.seq = 0 /\ Gen(lastSent) = 0
    BY <2>1 DEF NoPacket, Gen
  <2>3. QED
    BY <2>1, <2>2 DEF HandInv, LineInv, Behind, SeqTop, GenTop, Holds, Sealed, Established
<1>2. TypeOK /\ TypeOK' /\ (HandInv /\ LineInv) /\ [Next]_vars => (HandInv /\ LineInv)'
  BY HandStep, LineStep
<1>3. QED
  BY <1>1, <1>2, CarTypeCorrect, PTL DEF Spec

(* What reaches the relay over an open socket carries strictly increasing  *)
(* numbers and keys that never go back a generation, for any queue size    *)
(* and any number of threads that rotate the key under the producer.       *)
THEOREM AlwaysSentInOrder == Spec => SentInOrder
<1>1. ASSUME TypeOK, HandInv, LineInv, [Next]_vars, lastSent' # lastSent
      PROVE  /\ lastSent'.seq > lastSent.seq
             /\ lastSent # NoPacket => lastSent'.key[1] >= lastSent.key[1]
  <2>1. SendOk
    BY <1>1
    DEF Next, vars, engineVars, schedVars, nodeVars, Start, Stop, CloseSocket, Produce,
        Build, CheckEstablished, Encrypt, FailToEncrypt, RecordPacket, Put, ProducerExit,
        Transmit, Get, SendNowhere, SendFail, TransmitterExit, CheckSchedule, Rotate
  <2>2. lastSent' = transmitter.packet /\ transmitter.pc = "send"
    BY <2>1 DEF SendOk, Sent
  <2>3. /\ lastSent.seq < lastSent'.seq /\ Gen(lastSent) <= Gen(transmitter.packet)
        /\ lastSent # NoPacket => lastSent.key # NoKey
        /\ transmitter.packet.key # NoKey
    BY <1>1, <2>2 DEF LineInv, Before
  <2>4. lastSent.seq \in Nat /\ lastSent'.seq \in Nat
    BY <1>1, <2>2, PacketFields, GenNat DEF TypeOK
  <2>5. lastSent'.seq > lastSent.seq
    BY <2>3, <2>4
  <2>6. ASSUME lastSent # NoPacket
        PROVE  lastSent'.key[1] >= lastSent.key[1]
    <3>1. Gen(lastSent) = lastSent.key[1] /\ Gen(transmitter.packet) = lastSent'.key[1]
      BY <2>2, <2>3, <2>6 DEF Gen
    <3>2. Gen(lastSent) \in Nat /\ Gen(transmitter.packet) \in Nat
      BY <1>1, PacketFields, GenNat DEF TypeOK
    <3>3. QED
      BY <2>3, <3>1, <3>2
  <2>7. QED
    BY <2>5, <2>6
<1>2. QED
  BY <1>1, CarTypeCorrect, PipelineInOrder, PTL DEF Spec, SentInOrder
=============================================================================
