----------------------------- MODULE CarProducer -----------------------------
(***************************************************************************)
(* car_producer/src/main.py: CarProducerNode.  Its producer thread builds, *)
(* signs and encrypts one packet after the other and queues it; its        *)
(* transmitter thread takes packets from the bounded queue and sends them; *)
(* the key scheduler's thread rotates the session key under both, without  *)
(* a lock on the crypto engine.                                            *)
(***************************************************************************)
EXTENDS KeyScheduler

CONSTANTS
  QueueSize,        (* max_queue_size *)
  MaxSeq            (* bound on the packets one behaviour builds *)

ASSUME ProducerAssumption ==
  /\ QueueSize \in Nat \ {0}
  /\ MaxSeq \in Nat

VARIABLES
  running,          (* _running, and the main thread's progress in stop() *)
  socket,           (* _socket: None, connected, or closed but not None *)
  sequence,         (* PacketBuilder._sequence *)
  producer,         (* the producer thread: pc and the packet in hand *)
  transmitter,      (* the transmitter thread: pc and the packet in hand *)
  queue,            (* _packet_queue *)
  stats,            (* _stats *)
  refused,          (* history: how many packets the full queue refused *)
  lastSent          (* history: the last packet sent over an open socket *)

nodeVars == <<running, socket, sequence, producer, transmitter, queue, stats,
              refused, lastSent>>
vars == <<engineVars, schedVars, rotation, nodeVars>>

NoPacket == [seq |-> 0, key |-> NoKey]

StatFields == {"built", "signed", "encrypted", "sent", "failed"}

Init ==
  /\ SchedulerInit
  /\ running = "new"
  /\ socket = "none"
  /\ sequence = 0
  /\ producer = [pc |-> "loop", packet |-> NoPacket]
  /\ transmitter = [pc |-> "loop", packet |-> NoPacket]
  /\ queue = <<>>
  /\ stats = [f \in StatFields |-> 0]
  /\ refused = 0 /\ lastSent = NoPacket

Bump(fields) ==
  stats' = [f \in StatFields |-> IF f \in fields THEN stats[f] + 1 ELSE stats[f]]

-----------------------------------------------------------------------------
(* start(): the simulated handshake, the connection attempts, the          *)
(* scheduler, the two threads.  When every attempt fails, _socket is left  *)
(* holding the last, closed, socket.                                       *)
ConnectOutcomes(connectToRelay) ==
  IF connectToRelay THEN {"open", "closed"} ELSE {"none"}

Start(connectToRelay) ==
  /\ running = "new"
  /\ key' = <<session, peer>>
  /\ peerKey' = <<session, peer>>
  /\ socket' \in ConnectOutcomes(connectToRelay)
  /\ scheduling' = TRUE
  /\ running' = "yes"
  /\ UNCHANGED <<session, peer, keyUse, packetCount, age, rotationCount,
                 rotationLog, rotated, rotation, sequence, producer, transmitter, queue,
                 stats, refused, lastSent>>

(* stop(): the flags first, then, once the scheduler's thread has been     *)
(* waited for or the wait has timed out, the socket.  Nobody waits for the *)
(* other two threads and nobody empties the queue.                         *)
Stop ==
  /\ running = "yes"
  /\ running' = "stopping"
  /\ scheduling' = FALSE
  /\ UNCHANGED <<engineVars, packetCount, age, rotationCount, rotationLog, rotated,
                 rotation, socket, sequence, producer, transmitter, queue, stats,
                 refused, lastSent>>

CloseSocket ==
  /\ running = "stopping"
  /\ running' = "stopped"
  /\ socket' = IF socket = "none" THEN "none" ELSE "closed"
  /\ UNCHANGED <<engineVars, schedVars, rotation, sequence, producer, transmitter,
                 queue, stats, refused, lastSent>>

-----------------------------------------------------------------------------
(* The producer thread, one pass of _producer_loop.                        *)

ProducerAt(from, to, packet) ==
  /\ producer.pc = from
  /\ producer' = [pc |-> to, packet |-> packet]

(* get_next_frame, build, sign_packet.                                     *)
Build ==
  /\ running = "yes"
  /\ sequence < MaxSeq
  /\ ProducerAt("loop", "check", [NoPacket EXCEPT !.seq = sequence + 1])
  /\ sequence' = sequence + 1
  /\ Bump({"built", "signed"})
  /\ UNCHANGED <<engineVars, schedVars, rotation, running, socket, transmitter,
                 queue, refused, lastSent>>

(* session_established is asked twice, by PacketEncryptor and again by     *)
(* CryptoEngine; a rotation between the two has the same effect as one     *)
(* after the second, so they are one step.                                 *)
CheckEstablished ==
  /\ Established
  /\ ProducerAt("check", "encrypt", producer.packet)
  /\ UNCHANGED <<engineVars, schedVars, rotation, running, socket, sequence,
                 transmitter, queue, stats, refused, lastSent>>

(* session_key is read after the check.                                    *)
Encrypt ==
  /\ Established
  /\ ProducerAt("encrypt", "record", [producer.packet EXCEPT !.key = key])
  /\ keyUse' = keyUse + 1
  /\ Bump({"encrypted"})
  /\ UNCHANGED <<session, key, peer, peerKey, schedVars, rotation, running, socket, sequence,
                 transmitter, queue, refused, lastSent>>

(* Either test raises when there is no key; _build_and_encrypt counts the  *)
(* failure and the packet, its number included, is lost.                   *)
FailToEncrypt ==
  /\ ~ Established
  /\ producer.pc \in {"check", "encrypt"}
  /\ producer' = [pc |-> "loop", packet |-> NoPacket]
  /\ Bump({"failed"})
  /\ UNCHANGED <<engineVars, schedVars, rotation, running, socket, sequence,
                 transmitter, queue, refused, lastSent>>

RecordPacket ==
  /\ ProducerAt("record", "put", producer.packet)
  /\ packetCount' = packetCount + 1
  /\ UNCHANGED <<engineVars, age, rotationCount, scheduling, rotationLog, rotated,
                 rotation, running, socket, sequence, transmitter, queue, stats,
                 refused, lastSent>>

(* Faulty variant: the queue is not bounded.                               *)
PutUnbounded ==
  /\ ProducerAt("put", "loop", NoPacket)
  /\ queue' = Append(queue, producer.packet)
  /\ UNCHANGED <<engineVars, schedVars, rotation, running, socket, sequence,
                 transmitter, stats, refused, lastSent>>

(* put_nowait: a full queue drops the packet with a log line and no count. *)
Put ==
  /\ ProducerAt("put", "loop", NoPacket)
  /\ IF Len(queue) < QueueSize
     THEN queue' = Append(queue, producer.packet) /\ UNCHANGED refused
     ELSE refused' = refused + 1 /\ UNCHANGED queue
  /\ UNCHANGED <<engineVars, schedVars, rotation, running, socket, sequence,
                 transmitter, stats, lastSent>>

ProducerExit ==
  /\ running # "yes" /\ running # "new"
  /\ ProducerAt("loop", "done", NoPacket)
  /\ UNCHANGED <<engineVars, schedVars, rotation, running, socket, sequence,
                 transmitter, queue, stats, refused, lastSent>>

-----------------------------------------------------------------------------
(* The transmitter thread, one pass of _transmitter_loop.                  *)

(* Faulty variant: the newest packet is taken first.                       *)
GetNewest ==
  /\ running = "yes"
  /\ transmitter.pc = "loop"
  /\ queue # <<>>
  /\ transmitter' = [pc |-> "send", packet |-> queue[Len(queue)]]
  /\ queue' = SubSeq(queue, 1, Len(queue) - 1)
  /\ UNCHANGED <<engineVars, schedVars, rotation, running, socket, sequence,
                 producer, stats, refused, lastSent>>

Get ==
  /\ running = "yes"
  /\ transmitter.pc = "loop"
  /\ queue # <<>>
  /\ transmitter' = [pc |-> "send", packet |-> Head(queue)]
  /\ queue' = Tail(queue)
  /\ UNCHANGED <<engineVars, schedVars, rotation, running, socket, sequence,
                 producer, stats, refused, lastSent>>

Sent(outcome) ==
  /\ transmitter.pc = "send"
  /\ transmitter' = [pc |-> "loop", packet |-> NoPacket]
  /\ Bump({outcome})
  /\ UNCHANGED <<engineVars, schedVars, rotation, running, socket, sequence,
                 producer, queue, refused>>

(* Without a socket the packet is "log only" and counted as sent.          *)
SendNowhere == socket = "none" /\ Sent("sent") /\ UNCHANGED lastSent

SendOk == socket = "open" /\ Sent("sent") /\ lastSent' = transmitter.packet

(* sendall raises OSError, on a broken connection or a closed socket.      *)
SendFail == socket # "none" /\ Sent("failed") /\ UNCHANGED lastSent

(* Faulty variant: the transmitter waits for an empty queue.               *)
TransmitterExitDrained ==
  /\ running # "yes" /\ running # "new"
  /\ transmitter.pc = "loop" /\ queue = <<>>
  /\ transmitter' = [transmitter EXCEPT !.pc = "done"]
  /\ UNCHANGED <<engineVars, schedVars, rotation, running, socket, sequence,
                 producer, queue, stats, refused, lastSent>>

TransmitterExit ==
  /\ running # "yes" /\ running # "new"
  /\ transmitter.pc = "loop"
  /\ transmitter' = [transmitter EXCEPT !.pc = "done"]
  /\ UNCHANGED <<engineVars, schedVars, rotation, running, socket, sequence,
                 producer, queue, stats, refused, lastSent>>

-----------------------------------------------------------------------------
Produce == Build \/ CheckEstablished \/ Encrypt \/ FailToEncrypt
             \/ RecordPacket \/ Put \/ ProducerExit
Transmit == Get \/ SendNowhere \/ SendOk \/ SendFail \/ TransmitterExit
Rotate(t) == RotationStep(t) /\ UNCHANGED nodeVars
CheckSchedule == CheckRotation /\ UNCHANGED nodeVars

Next ==
  \/ \E connectToRelay \in BOOLEAN : Start(connectToRelay)
  \/ Stop
  \/ CloseSocket
  \/ Produce
  \/ Transmit
  \/ CheckSchedule
  \/ \E t \in Callers : ForceRotation(t) /\ UNCHANGED nodeVars
  \/ \E t \in Rotators : Rotate(t)
  \/ GrowOld /\ UNCHANGED nodeVars

(* The operating system keeps running every thread; nobody is obliged to   *)
(* stop the node, to force a rotation or to lose a connection.             *)
Fairness ==
  /\ WF_vars(\E connectToRelay \in BOOLEAN : Start(connectToRelay))
  /\ WF_vars(CloseSocket)
  /\ WF_vars(Produce)
  /\ WF_vars(Transmit)
  /\ WF_vars(CheckSchedule)
  /\ \A t \in Rotators : WF_vars(Rotate(t))

Spec == Init /\ [][Next]_vars /\ Fairness

-----------------------------------------------------------------------------
Key == {NoKey} \cup (Nat \X Nat)
Packet == [seq : Nat, key : Key]
Reasons == {"none", "age_exceeded", "count_exceeded", "manual_force"}
RotationType ==
  [pc : {"idle", "begin", "rotate", "public", "reset", "log", "callback", "peer"},
   reason : Reasons, num : Nat, oldCount : Nat, pub : Nat]

(* Every field of the node, its scheduler and its threads has the shape    *)
(* the code gives it.                                                      *)
TypeOK ==
  /\ session \in Nat /\ peer \in Nat /\ key \in Key /\ peerKey \in Key
  /\ packetCount \in Nat /\ age \in 0 .. MaxAge /\ rotationCount \in Nat
  /\ scheduling \in BOOLEAN /\ rotated \in Nat
  /\ rotationLog \in Seq([num : Nat, reason : Reasons, oldCount : Nat])
  /\ rotation \in [Rotators -> RotationType]
  /\ running \in {"new", "yes", "stopping", "stopped"}
  /\ socket \in {"none", "open", "closed"}
  /\ sequence \in Nat
  /\ producer \in [pc : {"loop", "check", "encrypt", "record", "put", "done"},
                   packet : Packet]
  /\ transmitter \in [pc : {"loop", "send", "done"}, packet : Packet]
  /\ queue \in Seq(Packet) /\ lastSent \in Packet
  /\ refused \in Nat /\ keyUse \in Nat
  /\ stats \in [StatFields -> Nat]

(* The packets that reach the relay carry strictly increasing numbers and  *)
(* keys of non-decreasing generation: neither the queue nor a rotation     *)
(* reorders them, so the relay never meets an old key after a new one.     *)
SentInOrder ==
  [][lastSent' # lastSent => /\ lastSent'.seq > lastSent.seq
                             /\ lastSent # NoPacket =>
                                  lastSent'.key[1] >= lastSent.key[1]]_vars

Holding(thread, pcs) == IF thread.pc \in pcs THEN 1 ELSE 0

(* Every packet built is in exactly one place: with the producer, in the   *)
(* queue, with the transmitter, refused by the full queue, or counted as   *)
(* sent or failed.  "failed" also counts the packets that could not be     *)
(* encrypted; what the full queue drops is counted nowhere.                *)
NothingLost ==
  /\ stats["built"] = sequence
  /\ stats["built"] = stats["sent"] + stats["failed"]
                      + Len(queue) + refused
                      + Holding(producer, {"check", "encrypt", "record", "put"})
                      + Holding(transmitter, {"send"})
  /\ Len(queue) <= QueueSize

(* The packet counter never falls behind the use of the current key: apart *)
(* from the one packet the producer has encrypted and not yet recorded, it *)
(* counts at least the packets encrypted under that key.  (It may count a  *)
(* packet of the previous key as well.)  Count-based rotation needs this.  *)
CountCoversKey ==
  Established => keyUse <= packetCount + Holding(producer, {"record"})

(* The rotation log, appended outside the lock, lists the rotations in the *)
(* order of their numbers, none missing, each with the reason that held    *)
(* when it began: one for the count replaces a key on which at least       *)
(* max_packets were counted.  This needs the background thread to be the   *)
(* only one that rotates: a force_rotation between _should_rotate and      *)
(* _do_rotation would empty the count in between.                          *)
RotationLogTrue ==
  \A i \in 1 .. Len(rotationLog) :
    /\ rotationLog[i].num = i
    /\ rotationLog[i].reason = "count_exceeded" => rotationLog[i].oldCount >= MaxPackets

(* Between the rotations of the background thread, whatever the producer   *)
(* does meanwhile, the car and its peer hold the same key.                 *)
KeysAgree ==
  (\A t \in Rotators : rotation[t].pc \in {"idle", "begin", "rotate"})
    => (key = peerKey \/ ~ Established)

(* A rotation is never the end of encryption: whenever the engine has no   *)
(* key while the node runs, it gets one again or the node is stopped.      *)
Reestablished ==
  (running = "yes" /\ ~ Established) ~> (Established \/ running # "yes")

(* A key that has reached its packet limit is replaced: the counter comes  *)
(* down again unless the scheduler is stopped first.                       *)
CountBounded ==
  (scheduling /\ packetCount >= MaxPackets /\ rotationCount < MaxRotations)
    ~> (packetCount < MaxPackets \/ ~ scheduling)

(* Once the node is told to stop, its threads end and its socket is        *)
(* closed, whatever is still queued.                                       *)
StopsCompletely ==
  (running = "stopping")
    ~> (/\ running = "stopped" /\ socket # "open"
        /\ producer.pc = "done" /\ transmitter.pc = "done")
=============================================================================
