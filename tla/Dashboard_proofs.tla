--------------------------- MODULE Dashboard_proofs ---------------------------
(***************************************************************************)
(* Proofs about the dashboard's session: for any limits of its histories,  *)
(* any batch size and any order of clicks, attacks and frames.             *)
(***************************************************************************)
EXTENDS Dashboard, TLAPS

(* A result that AttacksBlocked has nothing to say against.                *)
Blocked == {r \in ResultType : r.attack # "none" => r.decision = "REJECT"}

FeedType ==
  [ready : BOOLEAN, gen : Nat, next : Nat \ {0}, relayLast : Nat, valLast : Nat,
   lastEncrypted : PacketType \cup {NoPacket}, frames : Nat,
   total : Nat, accepted : Nat, rejected : Nat, flagged : Nat,
   recent : Seq(Blocked), audit : Seq(ResultType)]

(* The packet kept for a replay has already moved the relay's checker.     *)
ReplayUsed(f) ==
  f.lastEncrypted # NoPacket =>
    0 < f.lastEncrypted.seq /\ f.lastEncrypted.seq <= f.relayLast

FeedOK(f) == f \in FeedType /\ ReplayUsed(f)

One(b) == IF b THEN 1 ELSE 0

(* What a call does to the feed, as far as the session can tell: g is the  *)
(* feed afterwards, r the result; broken tells of a frame without one.     *)
Effect(f, g, r, broken) ==
  /\ FeedOK(g) /\ g.gen = f.gen
  /\ r \in Blocked \cup {NoPacket}
  /\ g.accepted = f.accepted + One(r # NoPacket /\ r.decision = "ACCEPT")
  /\ g.flagged = f.flagged + One(r # NoPacket /\ r.decision = "FLAG")
  /\ g.rejected = f.rejected + One(r # NoPacket /\ r.decision = "REJECT") + One(broken)
  /\ Len(f.audit) <= AuditCap + f.rejected => Len(g.audit) <= AuditCap + g.rejected

-----------------------------------------------------------------------------
(* A bounded list grows by one until it is full, and not beyond.           *)
LEMMA BoundedAppend ==
  ASSUME NEW S, NEW s \in Seq(S), NEW x \in S, NEW cap \in Nat
  PROVE  LET u == AppendBounded(s, x, cap)
         IN  /\ u \in Seq(S)
             /\ Len(u) \in Nat /\ Len(s) \in Nat
             /\ \A k \in Nat : Len(s) <= cap + k => Len(u) <= cap + k
<1>1. /\ Append(s, x) \in Seq(S) /\ Len(Append(s, x)) = Len(s) + 1 /\ Len(s) \in Nat
      /\ Append(s, x) # <<>>
  OBVIOUS
<1>2. Tail(Append(s, x)) \in Seq(S) /\ Len(Tail(Append(s, x))) = Len(s)
  BY <1>1
<1>3. QED
  BY <1>1, <1>2 DEF AppendBounded

(* Declaring a feed ready changes nothing else of it.                      *)
LEMMA MadeReady ==
  ASSUME NEW f \in FeedType, NEW b \in BOOLEAN
  PROVE  LET g == [f EXCEPT !.ready = b]
         IN  /\ g \in FeedType
             /\ g.gen = f.gen /\ g.accepted = f.accepted /\ g.rejected = f.rejected
             /\ g.flagged = f.flagged /\ g.recent = f.recent /\ g.audit = f.audit
             /\ g.lastEncrypted = f.lastEncrypted
BY DEF FeedType

(* A feed that has just been reset or initialised.                         *)
LEMMA FreshFeed ==
  ASSUME NEW gen \in Nat
  PROVE  \A f \in {ResetState(gen), Initialised(gen)} :
           /\ FeedOK(f)
           /\ f.gen = gen /\ f.accepted = 0 /\ f.rejected = 0 /\ f.flagged = 0
           /\ f.recent = <<>> /\ f.audit = <<>>
<1> DEFINE z == ResetState(gen)
<1>1. z \in FeedType
  BY DEF ResetState, FeedType
<1>2. /\ z.gen = gen /\ z.accepted = 0 /\ z.rejected = 0 /\ z.flagged = 0
      /\ z.recent = <<>> /\ z.audit = <<>> /\ z.lastEncrypted = NoPacket
  BY DEF ResetState
<1>3. Initialised(gen) = [z EXCEPT !.ready = TRUE] /\ TRUE \in BOOLEAN
  BY DEF Initialised
<1> HIDE DEF z
<1>4. LET g == [z EXCEPT !.ready = TRUE]
      IN  /\ g \in FeedType
          /\ g.gen = gen /\ g.accepted = 0 /\ g.rejected = 0 /\ g.flagged = 0
          /\ g.recent = <<>> /\ g.audit = <<>> /\ g.lastEncrypted = NoPacket
  <2>1. \A b \in BOOLEAN :
          LET g == [z EXCEPT !.ready = b]
          IN  /\ g \in FeedType
              /\ g.gen = gen /\ g.accepted = 0 /\ g.rejected = 0 /\ g.flagged = 0
              /\ g.recent = <<>> /\ g.audit = <<>> /\ g.lastEncrypted = NoPacket
    BY <1>1, <1>2, MadeReady
  <2>2. QED
    BY <1>3, <2>1, Zenon
<1>5. \A f \in {z, [z EXCEPT !.ready = TRUE]} : f \in FeedType /\ f.lastEncrypted = NoPacket
  BY <1>1, <1>2, <1>4, Zenon
<1>6. \A f \in {z, [z EXCEPT !.ready = TRUE]} : FeedOK(f)
  BY <1>5, Zenon DEF FeedOK, ReplayUsed
<1>7. \A f \in {z, [z EXCEPT !.ready = TRUE]} :
        /\ FeedOK(f)
        /\ f.gen = gen /\ f.accepted = 0 /\ f.rejected = 0 /\ f.flagged = 0
        /\ f.recent = <<>> /\ f.audit = <<>>
  BY <1>2, <1>4, <1>6, Zenon
<1>8. QED
  BY <1>3, <1>7, Zenon DEF z

-----------------------------------------------------------------------------
(* The steps a call is made of.  SameTallies: what the session looks at.   *)
SameTallies(f, g) ==
  /\ g.gen = f.gen /\ g.ready = f.ready /\ g.accepted = f.accepted
  /\ g.rejected = f.rejected /\ g.flagged = f.flagged
  /\ g.recent = f.recent /\ g.audit = f.audit

(* The car side takes the next number and leaves the rest alone.           *)
LEMMA TakenFeed ==
  ASSUME NEW f \in FeedType
  PROVE  /\ Taken(f) \in FeedType /\ SameTallies(f, Taken(f))
         /\ Taken(f).lastEncrypted = f.lastEncrypted
         /\ Taken(f).relayLast = f.relayLast
<1> DEFINE n == f.next + 1
           m == f.frames + 1
<1>1. f.next \in Nat \ {0} /\ f.frames \in Nat
  BY DEF FeedType
<1>2. n \in Nat \ {0} /\ m \in Nat
  BY <1>1
<1>3. Taken(f) = [f EXCEPT !.next = n, !.frames = m]
  BY DEF Taken
<1> HIDE DEF n, m
<1>4. QED
  BY <1>2, <1>3 DEF FeedType, SameTallies

(* Counting an injected packet.                                            *)
LEMMA CountedFeed ==
  ASSUME NEW f \in FeedType
  PROVE  LET g == [f EXCEPT !.total = @ + 1]
         IN  /\ g \in FeedType /\ SameTallies(f, g)
             /\ g.lastEncrypted = f.lastEncrypted /\ g.relayLast = f.relayLast
<1> DEFINE n == f.total + 1
<1>1. f.total \in Nat
  BY DEF FeedType
<1>2. n \in Nat
  BY <1>1
<1> HIDE DEF n
<1>3. LET g == [f EXCEPT !.total = n]
      IN  /\ g \in FeedType /\ SameTallies(f, g)
          /\ g.lastEncrypted = f.lastEncrypted /\ g.relayLast = f.relayLast
  BY <1>2 DEF FeedType, SameTallies
<1>4. QED
  BY <1>3 DEF n

(* The checkers move and nothing else does.                                *)
LEMMA MovedFeed ==
  ASSUME NEW f \in FeedType, NEW p \in PacketType, NEW reason, NEW first
  PROVE  LET g == Moved(f, p, reason, first)
         IN  /\ g \in FeedType /\ SameTallies(f, g)
             /\ g.lastEncrypted = f.lastEncrypted
             /\ reason \in {"aead_failed", "integrity_failed"} => g.relayLast = f.relayLast
             /\ reason \notin {"aead_failed", "integrity_failed"} => g.relayLast = p.seq
<1> DEFINE a == IF reason \in {"aead_failed", "integrity_failed"}
                THEN f.relayLast ELSE p.seq
           b == IF \/ reason = "all_checks_passed"
                   \/ reason = "sig_failed" /\ first
                THEN p.seq ELSE f.valLast
<1>1. p.seq \in Nat
  BY DEF PacketType
<1>2. f.relayLast \in Nat /\ f.valLast \in Nat
  BY DEF FeedType
<1>3. a \in Nat /\ b \in Nat
  BY <1>1, <1>2
<1>4. Moved(f, p, reason, first) = [f EXCEPT !.relayLast = a, !.valLast = b]
  BY DEF Moved
<1> HIDE DEF a, b
<1>5. LET g == [f EXCEPT !.relayLast = a, !.valLast = b]
      IN  /\ g \in FeedType /\ SameTallies(f, g)
          /\ g.lastEncrypted = f.lastEncrypted /\ g.relayLast = a
  BY <1>3 DEF FeedType, SameTallies
<1>6. QED
  BY <1>4, <1>5 DEF a

(* What _make_result returns.                                              *)
LEMMA ResultShape ==
  ASSUME NEW p \in PacketType, NEW d \in {"ACCEPT", "FLAG", "REJECT"},
         NEW reason \in {"aead_failed", "integrity_failed", "anomaly_rejected",
                         "sig_failed", "sequence_failed", "all_checks_passed"},
         NEW attack \in Attacks \cup {"none"},
         attack # "none" => d = "REJECT"
  PROVE  /\ Result(p, d, reason, attack) \in Blocked
         /\ Result(p, d, reason, attack) \in ResultType
         /\ Result(p, d, reason, attack).decision = d
<1>1. p.seq \in Nat
  BY DEF PacketType
<1>2. /\ Result(p, d, reason, attack) \in ResultType
      /\ Result(p, d, reason, attack).decision = d
      /\ Result(p, d, reason, attack).attack = attack
  BY <1>1 DEF Result, ResultType
<1>3. QED
  BY <1>2 DEF Blocked

(* A rejection is counted and logged.                                      *)
LEMMA RejectedFeed ==
  ASSUME NEW f \in FeedType, NEW p \in PacketType,
         NEW reason \in {"aead_failed", "integrity_failed", "anomaly_rejected",
                         "sig_failed", "sequence_failed", "all_checks_passed"}
  PROVE  LET g == RecordReject(f, p, reason)
         IN  /\ g \in FeedType
             /\ g.gen = f.gen /\ g.accepted = f.accepted /\ g.flagged = f.flagged
             /\ g.rejected = f.rejected + 1 /\ g.recent = f.recent
             /\ Len(g.audit) = Len(f.audit) + 1
             /\ g.lastEncrypted = f.lastEncrypted /\ g.relayLast = f.relayLast
<1> DEFINE r == Result(p, "REJECT", reason, "none")
           s == Append(f.audit, r)
           n == f.rejected + 1
           g == [f EXCEPT !.rejected = n, !.audit = s]
<1>1. r \in ResultType
  BY ResultShape
<1> HIDE DEF r
<1>2. f.audit \in Seq(ResultType) /\ f.rejected \in Nat
  BY DEF FeedType
<1>3. s \in Seq(ResultType) /\ Len(s) = Len(f.audit) + 1 /\ n \in Nat /\ n = f.rejected + 1
  BY <1>1, <1>2
<1>4. RecordReject(f, p, reason) = g
  BY DEF RecordReject, r
<1> HIDE DEF s, n
<1>5. /\ g \in FeedType
      /\ g.gen = f.gen /\ g.accepted = f.accepted /\ g.flagged = f.flagged
      /\ g.rejected = n /\ g.recent = f.recent /\ g.audit = s
      /\ g.lastEncrypted = f.lastEncrypted /\ g.relayLast = f.relayLast
  BY <1>2, <1>3 DEF FeedType
<1> HIDE DEF g
<1>6. QED
  BY <1>3, <1>4, <1>5

(* An accepted or flagged packet is counted, kept for a replay and added   *)
(* to both histories.                                                      *)
LEMMA AcceptedFeed ==
  ASSUME NEW f \in FeedType, NEW p \in PacketType, NEW r \in Blocked
  PROVE  LET g == RecordAccept(f, p, r)
         IN  /\ g \in FeedType
             /\ g.gen = f.gen /\ g.rejected = f.rejected
             /\ g.accepted = f.accepted + One(r.decision = "ACCEPT")
             /\ g.flagged = f.flagged + One(r.decision = "FLAG")
             /\ \A k \in Nat : Len(f.recent) <= RecentCap + k => Len(g.recent) <= RecentCap + k
             /\ \A k \in Nat : Len(f.audit) <= AuditCap + k => Len(g.audit) <= AuditCap + k
             /\ g.lastEncrypted = p /\ g.relayLast = f.relayLast
<1> DEFINE s == AppendBounded(f.recent, r, RecentCap)
           u == AppendBounded(f.audit, r, AuditCap)
           a == f.accepted + (IF r.decision = "ACCEPT" THEN 1 ELSE 0)
           b == f.flagged + (IF r.decision = "FLAG" THEN 1 ELSE 0)
           t == f.total + 1
           g == [f EXCEPT !.accepted = a, !.flagged = b, !.total = t,
                          !.recent = s, !.lastEncrypted = p, !.audit = u]
<1>1. /\ f.recent \in Seq(Blocked) /\ f.audit \in Seq(ResultType)
      /\ f.accepted \in Nat /\ f.flagged \in Nat /\ f.total \in Nat
  BY DEF FeedType
<1>2. r \in ResultType
  BY DEF Blocked
<1>3. RecentCap \in Nat /\ AuditCap \in Nat
  BY FeedAssumption
<1>4. /\ s \in Seq(Blocked)
      /\ \A k \in Nat : Len(f.recent) <= RecentCap + k => Len(s) <= RecentCap + k
  BY <1>1, <1>3, BoundedAppend
<1>5. /\ u \in Seq(ResultType)
      /\ \A k \in Nat : Len(f.audit) <= AuditCap + k => Len(u) <= AuditCap + k
  BY <1>1, <1>2, <1>3, BoundedAppend
<1>6. RecordAccept(f, p, r) = g
  BY DEF RecordAccept
<1>7. /\ a = f.accepted + One(r.decision = "ACCEPT")
      /\ b = f.flagged + One(r.decision = "FLAG")
      /\ a \in Nat /\ b \in Nat /\ t \in Nat
  BY <1>1 DEF One
<1> HIDE DEF s, u, a, b, t
<1>8. /\ g \in FeedType
      /\ g.gen = f.gen /\ g.rejected = f.rejected
      /\ g.accepted = a /\ g.flagged = b
      /\ g.recent = s /\ g.audit = u
      /\ g.lastEncrypted = p /\ g.relayLast = f.relayLast
  BY <1>4, <1>5, <1>7 DEF FeedType
<1> HIDE DEF g
<1>9. QED
  BY <1>4, <1>5, <1>6, <1>7, <1>8

(* The packet the car builds next.                                         *)
LEMMA BuiltPacket ==
  ASSUME NEW f \in FeedType, NEW kind \in FrameKinds
  PROVE  Built(f, kind) \in PacketType /\ Built(f, kind).seq = f.next
<1>1. f.next \in Nat /\ f.gen \in Nat
  BY DEF FeedType
<1>2. \A b \in BOOLEAN : \A k, n \in Nat :
        [seq |-> n, key |-> k, intact |-> b, signed |-> b, kind |-> kind] \in PacketType
  BY DEF PacketType
<1>3. TRUE \in BOOLEAN
  OBVIOUS
<1>4. Built(f, kind) \in PacketType
  BY <1>1, <1>2, <1>3, Zenon DEF Built
<1>5. QED
  BY <1>4 DEF Built

(* The reasons the checks may give.                                        *)
LEMMA ReasonShape ==
  ASSUME NEW f, NEW p
  PROVE  \A r \in {ProcessReason(f, p), InjectReason(f, p)} :
           r \in {"aead_failed", "integrity_failed", "anomaly_rejected", "sig_failed",
                  "sequence_failed", "all_checks_passed"}
<1>1. ProcessReason(f, p) \in {"aead_failed", "integrity_failed", "anomaly_rejected",
                               "sig_failed", "sequence_failed", "all_checks_passed"}
  BY DEF ProcessReason
<1>2. InjectReason(f, p) \in {"aead_failed", "integrity_failed", "anomaly_rejected",
                              "sig_failed", "sequence_failed", "all_checks_passed"}
  BY DEF InjectReason
<1>3. QED
  BY <1>1, <1>2

(* A packet that gets past the relay's checker is above the one kept.      *)
LEMMA ReplayStaysUsed ==
  ASSUME NEW f \in FeedType, ReplayUsed(f), NEW p \in PacketType, NEW g, NEW stopped,
         g.lastEncrypted = f.lastEncrypted,
         g.relayLast = IF stopped THEN f.relayLast ELSE p.seq,
         ~ stopped => f.relayLast = 0 \/ f.relayLast < p.seq
  PROVE  ReplayUsed(g)
<1>1. CASE f.lastEncrypted = NoPacket
  BY <1>1 DEF ReplayUsed
<1>2. CASE f.lastEncrypted # NoPacket
  <2>1. f.lastEncrypted \in PacketType
    BY <1>2 DEF FeedType
  <2>2. f.lastEncrypted.seq \in Nat /\ p.seq \in Nat /\ f.relayLast \in Nat
    BY <2>1 DEF PacketType, FeedType
  <2>3. 0 < f.lastEncrypted.seq /\ f.lastEncrypted.seq <= f.relayLast
    BY <1>2 DEF ReplayUsed
  <2>4. QED
    BY <2>2, <2>3 DEF ReplayUsed
<1>3. QED
  BY <1>1, <1>2

(* process_one_packet.                                                     *)
LEMMA ProcessEffect ==
  ASSUME NEW f, FeedOK(f), NEW kind \in FrameKinds
  PROVE  LET o == ProcessOnePacket(f, kind)
         IN  /\ Effect(f, o.feed, o.result, f.ready /\ kind = "broken")
             /\ \A k \in Nat : Len(f.recent) <= RecentCap + k
                                 => Len(o.feed.recent) <= RecentCap + k
<1> DEFINE p == Built(f, kind)
           reason == ProcessReason(f, p)
           moved == Moved(Taken(f), p, reason, FALSE)
           decision == IF reason # "all_checks_passed" THEN "REJECT"
                       ELSE IF kind = "flag" THEN "FLAG" ELSE "ACCEPT"
           r == Result(p, decision, reason, "none")
           o == ProcessOnePacket(f, kind)
<1>1. f \in FeedType /\ ReplayUsed(f)
  BY DEF FeedOK
<1>2. p \in PacketType /\ p.seq = f.next
  BY <1>1, BuiltPacket
<1>3. reason \in {"aead_failed", "integrity_failed", "anomaly_rejected", "sig_failed",
                  "sequence_failed", "all_checks_passed"}
  BY ReasonShape
<1>4. /\ moved \in FeedType /\ SameTallies(f, moved)
      /\ moved.lastEncrypted = f.lastEncrypted
      /\ moved.relayLast = IF reason \in {"aead_failed", "integrity_failed"}
                           THEN f.relayLast ELSE p.seq
  <2>1. /\ Taken(f) \in FeedType /\ SameTallies(f, Taken(f))
        /\ Taken(f).lastEncrypted = f.lastEncrypted
        /\ Taken(f).relayLast = f.relayLast
    BY <1>1, TakenFeed
  <2> HIDE DEF p, reason
  <2>2. /\ moved \in FeedType /\ SameTallies(Taken(f), moved)
        /\ moved.lastEncrypted = Taken(f).lastEncrypted
        /\ reason \in {"aead_failed", "integrity_failed"}
             => moved.relayLast = Taken(f).relayLast
        /\ reason \notin {"aead_failed", "integrity_failed"} => moved.relayLast = p.seq
    BY <1>2, <2>1, MovedFeed, Zenon
  <2> HIDE DEF moved
  <2>3. QED
    BY <2>1, <2>2 DEF SameTallies
<1>5. decision \in {"ACCEPT", "FLAG", "REJECT"}
  OBVIOUS
<1>6. r \in Blocked /\ r \in ResultType /\ r.decision = decision
  BY <1>2, <1>3, <1>5, ResultShape
<1>7. r # NoPacket
  BY <1>6, FeedAssumption
<1>8. f.next \in Nat \ {0} /\ f.relayLast \in Nat
  BY <1>1 DEF FeedType
<1>9. reason \notin {"aead_failed", "integrity_failed"}
        => f.relayLast = 0 \/ f.relayLast < p.seq
  BY <1>2, <1>8 DEF ProcessReason, OutOfOrder
<1>10. ReplayUsed(moved)
  <2> HIDE DEF p, reason, moved
  <2>1. QED
    BY <1>1, <1>2, <1>4, <1>9, ReplayStaysUsed
<1>11. o = IF ~ f.ready THEN [feed |-> f, result |-> NoPacket]
           ELSE IF kind = "broken"
           THEN [feed |-> [f EXCEPT !.rejected = @ + 1, !.total = @ + 1],
                 result |-> NoPacket]
           ELSE IF decision = "REJECT"
           THEN [feed |-> RecordReject(moved, p, reason), result |-> r]
           ELSE [feed |-> RecordAccept(moved, p, r), result |-> r]
  BY DEF ProcessOnePacket
<1>12. f.rejected \in Nat /\ f.accepted \in Nat /\ f.flagged \in Nat /\ f.total \in Nat
       /\ Len(f.audit) \in Nat /\ Len(f.recent) \in Nat
  <2>1. f.audit \in Seq(ResultType) /\ f.recent \in Seq(Blocked)
    BY <1>1 DEF FeedType
  <2>2. QED
    BY <1>1, <2>1 DEF FeedType
<1> HIDE DEF p, reason, moved, r, o
<1>13. CASE ~ f.ready
  <2>1. o.feed = f /\ o.result = NoPacket
    BY <1>11, <1>13
  <2>2. QED
    BY <1>12, <1>13, <2>1 DEF Effect, One, o
<1>14. CASE f.ready /\ kind = "broken"
  <2> DEFINE n == f.rejected + 1
             t == f.total + 1
             g == [f EXCEPT !.rejected = n, !.total = t]
  <2>1. n \in Nat /\ t \in Nat /\ n = f.rejected + 1
    BY <1>12
  <2>2. o.feed = g /\ o.result = NoPacket
    BY <1>11, <1>14
  <2> HIDE DEF n, t
  <2>3. /\ g \in FeedType /\ g.gen = f.gen /\ g.accepted = f.accepted
        /\ g.flagged = f.flagged /\ g.rejected = n /\ g.audit = f.audit
        /\ g.recent = f.recent
        /\ g.lastEncrypted = f.lastEncrypted /\ g.relayLast = f.relayLast
    BY <1>1, <2>1 DEF FeedType
  <2> HIDE DEF g
  <2>4. FeedOK(g)
    BY <1>1, <2>3 DEF FeedOK, ReplayUsed
  <2>5. Effect(f, g, NoPacket, TRUE)
    BY <1>12, <2>1, <2>3, <2>4, FeedAssumption DEF Effect, One
  <2>6. QED
    BY <1>14, <2>2, <2>3, <2>5 DEF o
<1>15. CASE f.ready /\ kind # "broken" /\ decision = "REJECT"
  <2> DEFINE g == RecordReject(moved, p, reason)
  <2>1. o.feed = g /\ o.result = r
    BY <1>11, <1>15
  <2>2. /\ g \in FeedType
        /\ g.gen = f.gen /\ g.accepted = f.accepted /\ g.flagged = f.flagged
        /\ g.rejected = f.rejected + 1 /\ g.recent = f.recent
        /\ Len(g.audit) = Len(f.audit) + 1
        /\ g.lastEncrypted = moved.lastEncrypted /\ g.relayLast = moved.relayLast
    <3>1. /\ g \in FeedType
          /\ g.gen = moved.gen /\ g.accepted = moved.accepted /\ g.flagged = moved.flagged
          /\ g.rejected = moved.rejected + 1 /\ g.recent = moved.recent
          /\ Len(g.audit) = Len(moved.audit) + 1
          /\ g.lastEncrypted = moved.lastEncrypted /\ g.relayLast = moved.relayLast
      BY <1>2, <1>3, <1>4, RejectedFeed
    <3> HIDE DEF g
    <3>2. QED
      BY <1>4, <3>1 DEF SameTallies
  <2> HIDE DEF g
  <2>3. FeedOK(g)
    BY <1>10, <2>2 DEF FeedOK, ReplayUsed
  <2>4. Effect(f, g, r, FALSE)
    BY <1>6, <1>7, <1>12, <1>15, <2>2, <2>3, FeedAssumption DEF Effect, One
  <2>5. QED
    BY <1>15, <2>1, <2>2, <2>4 DEF o
<1>16. CASE f.ready /\ kind # "broken" /\ decision # "REJECT"
  <2> DEFINE g == RecordAccept(moved, p, r)
  <2>1. o.feed = g /\ o.result = r
    BY <1>11, <1>16
  <2>2. /\ g \in FeedType
        /\ g.gen = f.gen /\ g.rejected = f.rejected
        /\ g.accepted = f.accepted + One(r.decision = "ACCEPT")
        /\ g.flagged = f.flagged + One(r.decision = "FLAG")
        /\ \A k \in Nat : Len(f.recent) <= RecentCap + k => Len(g.recent) <= RecentCap + k
        /\ \A k \in Nat : Len(f.audit) <= AuditCap + k => Len(g.audit) <= AuditCap + k
        /\ g.lastEncrypted = p /\ g.relayLast = p.seq
    BY <1>2, <1>4, <1>6, <1>16, AcceptedFeed DEF SameTallies
  <2> HIDE DEF g
  <2>3. FeedOK(g)
    BY <1>2, <1>8, <2>2 DEF FeedOK, ReplayUsed
  <2>4. Effect(f, g, r, FALSE)
    BY <1>6, <1>7, <1>12, <1>16, <2>2, <2>3, FeedAssumption DEF Effect, One
  <2>5. QED
    BY <1>16, <2>1, <2>2, <2>4 DEF o
<1>17. QED
  BY <1>13, <1>14, <1>15, <1>16

(* Whatever inject_attack sends, one of its checks refuses it.             *)
LEMMA AttackRefused ==
  ASSUME NEW f, FeedOK(f), NEW attack \in Attacks, AttackPacket(f, attack) # NoPacket
  PROVE  /\ AttackPacket(f, attack) \in PacketType
         /\ InjectReason(f, AttackPacket(f, attack)) # "all_checks_passed"
<1> DEFINE p == AttackPacket(f, attack)
           q == Built(f, "normal")
<1>1. f \in FeedType /\ ReplayUsed(f)
  BY DEF FeedOK
<1>2. q \in PacketType
  <2>1. "normal" \in FrameKinds
    BY DEF FrameKinds
  <2>2. QED
    BY <1>1, <2>1, BuiltPacket
<1>3. CASE attack = "replay"
  <2>1. p = f.lastEncrypted
    BY <1>3 DEF AttackPacket
  <2>2. p \in PacketType /\ f.relayLast \in Nat
    BY <1>1, <2>1 DEF FeedType
  <2>3. p.seq \in Nat /\ 0 < p.seq /\ p.seq <= f.relayLast
    BY <1>1, <2>1, <2>2 DEF PacketType, ReplayUsed
  <2> HIDE DEF p
  <2>4. InjectReason(f, p) # "all_checks_passed"
    BY <2>2, <2>3 DEF InjectReason, OutOfOrder
  <2>5. QED
    BY <2>2, <2>4 DEF p
<1>4. CASE attack = "tamper"
  <2>1. p = [q EXCEPT !.intact = FALSE]
    BY <1>4 DEF AttackPacket
  <2> HIDE DEF p, q
  <2>2. \A b \in BOOLEAN : [q EXCEPT !.intact = b] \in PacketType
                           /\ [q EXCEPT !.intact = b].intact = b
    BY <1>2 DEF PacketType
  <2>3. p \in PacketType /\ ~ p.intact
    <3>1. FALSE \in BOOLEAN
      OBVIOUS
    <3>2. QED
      BY <2>1, <2>2, <3>1, Zenon
  <2>4. InjectReason(f, p) # "all_checks_passed"
    BY <2>3 DEF InjectReason
  <2>5. QED
    BY <2>3, <2>4 DEF p
<1>5. CASE attack = "forge"
  <2>1. p = [q EXCEPT !.signed = FALSE]
    BY <1>5 DEF AttackPacket
  <2> HIDE DEF p, q
  <2>2. \A b \in BOOLEAN : [q EXCEPT !.signed = b] \in PacketType
                           /\ [q EXCEPT !.signed = b].signed = b
    BY <1>2 DEF PacketType
  <2>3. p \in PacketType /\ ~ p.signed
    <3>1. FALSE \in BOOLEAN
      OBVIOUS
    <3>2. QED
      BY <2>1, <2>2, <3>1, Zenon
  <2>4. InjectReason(f, p) # "all_checks_passed"
    BY <2>3 DEF InjectReason
  <2>5. QED
    BY <2>3, <2>4 DEF p
<1>6. QED
  BY <1>3, <1>4, <1>5 DEF Attacks

(* inject_attack.                                                          *)
LEMMA InjectEffect ==
  ASSUME NEW f, FeedOK(f), NEW attack \in Attacks
  PROVE  LET o == InjectAttack(f, attack)
         IN  /\ Effect(f, o.feed, o.result, FALSE)
             /\ Len(o.feed.recent) = Len(f.recent) + One(o.result # NoPacket)
<1> DEFINE p == AttackPacket(f, attack)
           o == InjectAttack(f, attack)
<1>1. f \in FeedType /\ ReplayUsed(f)
  BY DEF FeedOK
<1>2. f.rejected \in Nat /\ f.accepted \in Nat /\ f.flagged \in Nat
      /\ Len(f.audit) \in Nat /\ Len(f.recent) \in Nat /\ f.relayLast \in Nat
  <2>1. f.audit \in Seq(ResultType) /\ f.recent \in Seq(Blocked)
    BY <1>1 DEF FeedType
  <2>2. QED
    BY <1>1, <2>1 DEF FeedType
<1>3. CASE ~ f.ready \/ p = NoPacket
  <2>1. o.feed = f /\ o.result = NoPacket
    BY <1>3 DEF InjectAttack
  <2> HIDE DEF o
  <2>2. QED
    BY <1>2, <2>1 DEF Effect, One, o
<1>4. CASE f.ready /\ p # NoPacket
  <2> DEFINE taken == [IF attack = "replay" THEN f ELSE Taken(f) EXCEPT !.total = @ + 1]
             reason == InjectReason(f, p)
             moved == Moved(taken, p, reason, TRUE)
             r == Result(p, "REJECT", reason, attack)
             counted == RecordReject(moved, p, reason)
             g == [counted EXCEPT !.recent = Append(@, r)]
  <2>1. p \in PacketType /\ reason # "all_checks_passed"
    BY <1>4, AttackRefused
  <2>2. reason \in {"aead_failed", "integrity_failed", "anomaly_rejected", "sig_failed",
                    "sequence_failed", "all_checks_passed"}
    BY ReasonShape
  <2>3. o.feed = g /\ o.result = r
    <3>1. (IF reason = "all_checks_passed" THEN "ACCEPT" ELSE "REJECT") = "REJECT"
      BY <2>1
    <3>2. r.decision # "ACCEPT"
      BY DEF Result
    <3> HIDE DEF reason, moved, taken
    <3>3. o = [feed |-> g, result |-> r]
      BY <1>4, <3>1, <3>2 DEF InjectAttack, reason, moved, taken
    <3> HIDE DEF o, g, r
    <3>4. QED
      BY <3>3
  <2>4. /\ taken \in FeedType /\ SameTallies(f, taken)
        /\ taken.lastEncrypted = f.lastEncrypted /\ taken.relayLast = f.relayLast
    <3> DEFINE h == IF attack = "replay" THEN f ELSE Taken(f)
    <3>1. /\ h \in FeedType /\ SameTallies(f, h)
          /\ h.lastEncrypted = f.lastEncrypted /\ h.relayLast = f.relayLast
      BY <1>1, TakenFeed DEF SameTallies
    <3>2. taken = [h EXCEPT !.total = @ + 1]
      OBVIOUS
    <3> HIDE DEF h, taken
    <3>3. /\ taken \in FeedType /\ SameTallies(h, taken)
          /\ taken.lastEncrypted = h.lastEncrypted /\ taken.relayLast = h.relayLast
      BY <3>1, <3>2, CountedFeed
    <3>4. QED
      BY <3>1, <3>3 DEF SameTallies
  <2> HIDE DEF p, reason, taken
  <2>5. /\ moved \in FeedType /\ SameTallies(taken, moved)
        /\ moved.lastEncrypted = taken.lastEncrypted
        /\ reason \in {"aead_failed", "integrity_failed"}
             => moved.relayLast = taken.relayLast
        /\ reason \notin {"aead_failed", "integrity_failed"} => moved.relayLast = p.seq
    BY <2>1, <2>4, MovedFeed, Zenon
  <2> HIDE DEF moved
  <2>6. /\ moved.lastEncrypted = f.lastEncrypted
        /\ moved.relayLast = IF reason \in {"aead_failed", "integrity_failed"}
                             THEN f.relayLast ELSE p.seq
    BY <2>4, <2>5
  <2>7. reason \notin {"aead_failed", "integrity_failed"}
          => f.relayLast = 0 \/ f.relayLast < p.seq
    <3>1. p.seq \in Nat
      BY <2>1 DEF PacketType
    <3>2. QED
      BY <1>2, <3>1 DEF reason, InjectReason, OutOfOrder
  <2>8. ReplayUsed(moved)
    BY <1>1, <2>1, <2>6, <2>7, ReplayStaysUsed
  <2>9. r \in Blocked /\ r \in ResultType /\ r.decision = "REJECT"
    BY <2>1, <2>2, ResultShape
  <2>10. r # NoPacket
    BY <2>9, FeedAssumption
  <2>11. /\ counted \in FeedType
         /\ counted.gen = moved.gen /\ counted.accepted = moved.accepted
         /\ counted.flagged = moved.flagged /\ counted.rejected = moved.rejected + 1
         /\ counted.recent = moved.recent /\ Len(counted.audit) = Len(moved.audit) + 1
         /\ counted.lastEncrypted = moved.lastEncrypted
         /\ counted.relayLast = moved.relayLast
    BY <2>1, <2>2, <2>5, RejectedFeed
  <2> HIDE DEF counted, r
  <2>12. /\ g \in FeedType
         /\ g.gen = counted.gen /\ g.accepted = counted.accepted
         /\ g.flagged = counted.flagged /\ g.rejected = counted.rejected
         /\ g.audit = counted.audit /\ Len(g.recent) = Len(counted.recent) + 1
         /\ g.lastEncrypted = counted.lastEncrypted /\ g.relayLast = counted.relayLast
    <3> DEFINE s == Append(counted.recent, r)
    <3>1. counted.recent \in Seq(Blocked)
      BY <2>11 DEF FeedType
    <3>2. s \in Seq(Blocked) /\ Len(s) = Len(counted.recent) + 1
      BY <2>9, <3>1
    <3>3. g = [counted EXCEPT !.recent = s]
      OBVIOUS
    <3> HIDE DEF s, g
    <3>4. QED
      BY <2>11, <3>2, <3>3 DEF FeedType
  <2> HIDE DEF g
  <2>13. FeedOK(g)
    BY <2>8, <2>11, <2>12 DEF FeedOK, ReplayUsed
  <2>14. Effect(f, g, r, FALSE)
    BY <1>2, <2>4, <2>5, <2>9, <2>10, <2>11, <2>12, <2>13, FeedAssumption
       DEF Effect, One, SameTallies
  <2>15. Len(g.recent) = Len(f.recent) + One(r # NoPacket)
    BY <2>4, <2>5, <2>10, <2>11, <2>12 DEF One, SameTallies
  <2> HIDE DEF o
  <2>16. QED
    BY <2>3, <2>14, <2>15 DEF o
<1>5. QED
  BY <1>3, <1>4

-----------------------------------------------------------------------------
PanelType ==
  [events : Seq([type : ThreatTypes, seq : Nat]), counts : [ThreatTypes -> Nat],
   last : Nat, accepted : Nat, rejected : Nat]

(* The classification is a type of threat or none.                         *)
LEMMA ClassifyShape ==
  ASSUME NEW r
  PROVE  Classify(r) = "none" \/ Classify(r) \in ThreatTypes
BY DEF Classify, ThreatTypes

(* An event more, and the oldest one less when the panel is full.          *)
LEMMA AddEventEffect ==
  ASSUME NEW w \in PanelType, NEW type \in ThreatTypes, NEW seq \in Nat,
         Len(w.events) <= PanelCap
  PROVE  LET q == AddEvent(w, type, seq)
         IN  /\ q \in PanelType /\ Len(q.events) <= PanelCap
             /\ q.accepted = w.accepted /\ q.rejected = w.rejected
<1> DEFINE x == [type |-> type, seq |-> seq]
           T == [type : ThreatTypes, seq : Nat]
           grown == Append(w.events, x)
           s == IF Len(grown) > PanelCap THEN Tail(grown) ELSE grown
           n == w.counts[type] + 1
           c == [w.counts EXCEPT ![type] = n]
<1>1. x \in T
  OBVIOUS
<1>2. /\ w.events \in Seq(T) /\ w.counts \in [ThreatTypes -> Nat]
      /\ w.accepted \in Nat /\ w.rejected \in Nat
  BY DEF PanelType
<1>3. c \in [ThreatTypes -> Nat]
  BY <1>2
<1> HIDE DEF x, T
<1>4. /\ grown \in Seq(T) /\ Len(grown) = Len(w.events) + 1 /\ Len(w.events) \in Nat
      /\ grown # <<>>
  BY <1>1, <1>2
<1> HIDE DEF grown
<1>5. Tail(grown) \in Seq(T) /\ Len(Tail(grown)) = Len(w.events)
  BY <1>4
<1>6. s \in Seq(T) /\ Len(s) <= PanelCap
  BY <1>4, <1>5, DashboardAssumption
<1>7. AddEvent(w, type, seq) = [w EXCEPT !.events = s, !.counts = c]
  BY DEF AddEvent, grown, x
<1> HIDE DEF s, c
<1> DEFINE q == [w EXCEPT !.events = s, !.counts = c]
<1>8. /\ q \in PanelType /\ q.events = s
      /\ q.accepted = w.accepted /\ q.rejected = w.rejected
  BY <1>3, <1>6 DEF PanelType, T
<1> HIDE DEF q
<1>9. QED
  BY <1>6, <1>7, <1>8 DEF q

(* ingest_packet counts the result once, and keeps the events bounded.     *)
LEMMA IngestEffect ==
  ASSUME NEW w \in PanelType, NEW r \in ResultType, Len(w.events) <= PanelCap
  PROVE  LET q == Ingest(w, r)
         IN  /\ q \in PanelType /\ Len(q.events) <= PanelCap
             /\ q.accepted = w.accepted + One(r.decision = "ACCEPT")
             /\ q.rejected = w.rejected + One(r.decision # "ACCEPT")
<1> DEFINE a == w.accepted + (IF r.decision = "ACCEPT" THEN 1 ELSE 0)
           b == w.rejected + (IF r.decision = "ACCEPT" THEN 0 ELSE 1)
           l == IF r.seq > w.last THEN r.seq ELSE w.last
           counted == [w EXCEPT !.accepted = a, !.rejected = b, !.last = l]
           q == Ingest(w, r)
<1>1. r.seq \in Nat
  BY DEF ResultType
<1>2. w.accepted \in Nat /\ w.rejected \in Nat /\ w.last \in Nat
  BY DEF PanelType
<1>3. /\ a \in Nat /\ b \in Nat /\ l \in Nat
      /\ a = w.accepted + One(r.decision = "ACCEPT")
      /\ b = w.rejected + One(r.decision # "ACCEPT")
  BY <1>1, <1>2 DEF One
<1>4. q = IF Classify(r) = "none" THEN counted
          ELSE AddEvent(counted, Classify(r), r.seq)
  BY DEF Ingest
<1> HIDE DEF a, b, l
<1>5. /\ counted \in PanelType /\ counted.events = w.events
      /\ counted.accepted = a /\ counted.rejected = b
  BY <1>3 DEF PanelType
<1> HIDE DEF counted, q
<1>6. CASE Classify(r) = "none"
  BY <1>3, <1>4, <1>5, <1>6 DEF q
<1>7. CASE Classify(r) # "none"
  <2>1. Classify(r) \in ThreatTypes
    BY <1>7, ClassifyShape
  <2>2. /\ q \in PanelType /\ Len(q.events) <= PanelCap
        /\ q.accepted = a /\ q.rejected = b
    BY <1>1, <1>4, <1>5, <1>7, <2>1, AddEventEffect
  <2>3. QED
    BY <1>3, <2>2 DEF q
<1>8. QED
  BY <1>6, <1>7

(* The panel before anything has happened.                                 *)
LEMMA FreshPanel ==
  /\ PanelReset \in PanelType /\ PanelReset.events = <<>>
  /\ PanelReset.accepted = 0 /\ PanelReset.rejected = 0
BY DEF PanelReset, PanelType

-----------------------------------------------------------------------------
(* The shape of the session.                                               *)
RunType == [packets : Nat, chart : Gens, points : Nat]

SessionOK ==
  /\ FeedOK(feedA) /\ feedA.gen \in Gens
  /\ panel \in PanelType
  /\ processed \in Nat /\ injected \in Nat /\ errors \in Nat
  /\ charts \in [Gens -> Seq(Nat)]
  /\ runHistory \in Seq(RunType)

SessionInv == SessionOK /\ PanelAgrees /\ HistoriesBounded

(* The four ways of starting over.                                         *)
StartsOver ==
  /\ \E gen \in Gens : feedA' \in {ResetState(gen), Initialised(gen)}
  /\ errors' = 0 /\ injected' = 0
  /\ \/ panel' = PanelReset /\ processed' = 0
     \/ panel' = panel /\ processed' = processed /\ ~ clean'
  /\ UNCHANGED <<charts, runHistory>>

(* Starting over leaves nothing for the feed and the panel to disagree on. *)
LEMMA StartsOverStep ==
  ASSUME SessionInv, StartsOver
  PROVE  SessionInv'
<1>1. PICK gen \in Gens : feedA' \in {ResetState(gen), Initialised(gen)}
  BY DEF StartsOver
<1>2. gen \in Nat
  BY DashboardAssumption DEF Gens
<1>3. /\ FeedOK(feedA') /\ feedA'.gen = gen /\ feedA'.accepted = 0
      /\ feedA'.rejected = 0 /\ feedA'.flagged = 0
      /\ feedA'.recent = <<>> /\ feedA'.audit = <<>>
  BY <1>1, <1>2, FreshFeed
<1>4. FeedOK(feedA)'
  BY <1>3 DEF FeedOK, ReplayUsed
<1>5. /\ panel' \in PanelType /\ Len(panel'.events) <= PanelCap
      /\ processed' \in Nat /\ injected' = 0 /\ errors' = 0
      /\ UNCHANGED <<charts, runHistory>>
  BY FreshPanel, DashboardAssumption DEF StartsOver, SessionInv, SessionOK, HistoriesBounded
<1>6. SessionOK'
  BY <1>1, <1>3, <1>4, <1>5 DEF SessionInv, SessionOK, Gens
<1>7. HistoriesBounded'
  BY <1>3, <1>5, FeedAssumption DEF SessionInv, HistoriesBounded, Gens
<1>8. PanelAgrees'
  BY <1>3, <1>5, FreshPanel DEF StartsOver, PanelAgrees
<1>9. QED
  BY <1>6, <1>7, <1>8 DEF SessionInv

(* A packet that was processed, or injected, or came to nothing: g and r   *)
(* are feed and result, and the session has been told.                     *)
Works(g, r, i, e) ==
  /\ Effect(feedA, g, r, e = 1)
  /\ feedA' = g
  /\ panel' = IF r = NoPacket THEN panel ELSE Ingest(panel, r)
  /\ i \in {0, 1} /\ e \in {0, 1}
  /\ processed' = processed + (IF r = NoPacket THEN 0 ELSE 1 - i)
  /\ injected' = injected + (IF r = NoPacket THEN 0 ELSE i)
  /\ errors' = errors + e
  /\ clean' = clean
  /\ runHistory' = runHistory
  /\ charts' \in [Gens -> Seq(Nat)]
  /\ \A c \in Gens : Len(charts'[c]) <= ChartCap
  /\ Len(feedA.recent) <= RecentCap + injected => Len(g.recent) <= RecentCap + injected'

(* Feed and panel count the packet the same way.                           *)
LEMMA WorksStep ==
  ASSUME SessionInv, NEW g, NEW r, NEW i, NEW e, Works(g, r, i, e)
  PROVE  SessionInv'
<1>1. /\ FeedOK(g) /\ g.gen = feedA.gen /\ r \in Blocked \cup {NoPacket}
      /\ g.accepted = feedA.accepted + One(r # NoPacket /\ r.decision = "ACCEPT")
      /\ g.flagged = feedA.flagged + One(r # NoPacket /\ r.decision = "FLAG")
      /\ g.rejected = feedA.rejected + One(r # NoPacket /\ r.decision = "REJECT") + One(e = 1)
      /\ Len(feedA.audit) <= AuditCap + feedA.rejected => Len(g.audit) <= AuditCap + g.rejected
  BY DEF Works, Effect
<1>2. feedA.accepted \in Nat /\ feedA.flagged \in Nat /\ feedA.rejected \in Nat
  BY DEF SessionInv, SessionOK, FeedOK, FeedType
<1>3. panel \in PanelType /\ Len(panel.events) <= PanelCap
  BY DEF SessionInv, SessionOK, HistoriesBounded
<1>4. panel.accepted \in Nat /\ panel.rejected \in Nat
  BY <1>3 DEF PanelType
<1>5. processed \in Nat /\ injected \in Nat /\ errors \in Nat
  BY DEF SessionInv, SessionOK
<1>6. r # NoPacket => r \in ResultType
  BY <1>1 DEF Blocked
<1>7. /\ panel' \in PanelType /\ Len(panel'.events) <= PanelCap
      /\ panel'.accepted = panel.accepted + One(r # NoPacket /\ r.decision = "ACCEPT")
      /\ panel'.rejected = panel.rejected + One(r # NoPacket /\ r.decision # "ACCEPT")
  <2>1. CASE r = NoPacket
    BY <1>3, <1>4, <2>1 DEF Works, One
  <2>2. CASE r # NoPacket
    <3>1. panel' = Ingest(panel, r)
      BY <2>2 DEF Works
    <3>2. QED
      BY <1>3, <1>6, <2>2, <3>1, IngestEffect DEF One
  <2>3. QED
    BY <2>1, <2>2
<1>8. FeedOK(feedA)'
  BY <1>1 DEF Works, FeedOK, ReplayUsed
<1>9. SessionOK'
  BY <1>1, <1>5, <1>7, <1>8 DEF SessionInv, SessionOK, Works, Gens, RunType
<1>10. HistoriesBounded'
  BY <1>1, <1>7 DEF SessionInv, HistoriesBounded, Works, Gens
<1>11. r # NoPacket => r.decision \in {"ACCEPT", "FLAG", "REJECT"}
  BY <1>6 DEF ResultType
<1>12. ASSUME clean'
       PROVE  /\ panel'.accepted = feedA'.accepted
              /\ panel'.rejected = feedA'.rejected + feedA'.flagged - errors'
              /\ processed' + injected' = panel'.accepted + panel'.rejected
  <2>1. /\ panel.accepted = feedA.accepted
        /\ panel.rejected = feedA.rejected + feedA.flagged - errors
        /\ processed + injected = panel.accepted + panel.rejected
    BY <1>12 DEF SessionInv, PanelAgrees, Works
  <2>2. /\ feedA' = g /\ i \in {0, 1} /\ e \in {0, 1}
        /\ processed' = processed + (IF r = NoPacket THEN 0 ELSE 1 - i)
        /\ injected' = injected + (IF r = NoPacket THEN 0 ELSE i)
        /\ errors' = errors + e
    BY DEF Works
  <2> DEFINE a == One(r # NoPacket /\ r.decision = "ACCEPT")
             b == One(r # NoPacket /\ r.decision = "FLAG")
             c == One(r # NoPacket /\ r.decision = "REJECT")
             d == One(r # NoPacket /\ r.decision # "ACCEPT")
             n == One(r # NoPacket)
  <2>3. /\ a \in Nat /\ b \in Nat /\ c \in Nat /\ d \in Nat /\ n \in Nat
        /\ d = b + c /\ n = a + d /\ One(e = 1) = e
    BY <1>11, <2>2 DEF One
  <2>4. processed' + injected' = processed + injected + n
    BY <1>5, <2>2 DEF One
  <2>5. /\ feedA'.accepted = feedA.accepted + a /\ feedA'.flagged = feedA.flagged + b
        /\ feedA'.rejected = feedA.rejected + c + e
        /\ panel'.accepted = panel.accepted + a /\ panel'.rejected = panel.rejected + d
    BY <1>1, <1>7, <2>2, <2>3
  <2> HIDE DEF a, b, c, d, n
  <2>6. QED
    BY <1>2, <1>4, <1>5, <2>1, <2>2, <2>3, <2>4, <2>5
<1>13. PanelAgrees'
  BY <1>12 DEF PanelAgrees
<1>14. QED
  BY <1>9, <1>10, <1>13 DEF SessionInv

(* The Inject button is such a step.                                       *)
LEMMA InjectWorks ==
  ASSUME SessionInv, NEW attack \in Attacks, Inject(attack)
  PROVE  \E g, r : Works(g, r, 1, 0)
<1> DEFINE o == InjectAttack(feedA, attack)
           g == o.feed
           r == o.result
<1>1. FeedOK(feedA)
  BY DEF SessionInv, SessionOK
<1>2. Effect(feedA, g, r, FALSE) /\ Len(g.recent) = Len(feedA.recent) + One(r # NoPacket)
  BY <1>1, InjectEffect
<1>3. /\ feedA' = g /\ panel' = IF r = NoPacket THEN panel ELSE Ingest(panel, r)
      /\ injected' = injected + (IF r = NoPacket THEN 0 ELSE 1)
      /\ UNCHANGED <<processed, charts, runHistory, clean, errors>>
  BY DEF Inject
<1> HIDE DEF o, g, r
<1>4. Effect(feedA, g, r, 0 = 1)
  BY <1>2 DEF Effect, One
<1>5. /\ charts \in [Gens -> Seq(Nat)] /\ \A c \in Gens : Len(charts[c]) <= ChartCap
      /\ injected \in Nat /\ processed \in Nat /\ errors \in Nat
  BY DEF SessionInv, SessionOK, HistoriesBounded
<1>6. Len(feedA.recent) \in Nat
  <2>1. feedA.recent \in Seq(Blocked)
    BY <1>1 DEF FeedOK, FeedType
  <2>2. QED
    BY <2>1
<1>7. Len(feedA.recent) <= RecentCap + injected => Len(g.recent) <= RecentCap + injected'
  <2> DEFINE n == One(r # NoPacket)
  <2>1. /\ n \in {0, 1} /\ injected' = injected + n
        /\ Len(g.recent) = Len(feedA.recent) + n
    BY <1>2, <1>3 DEF One
  <2>2. RecentCap \in Nat
    BY FeedAssumption
  <2> HIDE DEF n
  <2>3. QED
    BY <1>5, <1>6, <2>1, <2>2
<1>8. Works(g, r, 1, 0)
  BY <1>3, <1>4, <1>5, <1>7 DEF Works
<1>9. QED
  BY <1>8

(* So is every pass of the packet loop.                                    *)
LEMMA ProcessWorks ==
  ASSUME SessionInv, NEW kind \in FrameKinds, NEW kindB, ProcessPacket(kind, kindB)
  PROVE  \E g, r, e : Works(g, r, 0, e)
<1> DEFINE o == ProcessOnePacket(feedA, kind)
           g == o.feed
           r == o.result
           e == IF feedA.ready /\ kind = "broken" THEN 1 ELSE 0
           kept == r # NoPacket /\ r.decision # "REJECT"
<1>1. FeedOK(feedA)
  BY DEF SessionInv, SessionOK
<1>2. /\ Effect(feedA, g, r, feedA.ready /\ kind = "broken")
      /\ \A k \in Nat : Len(feedA.recent) <= RecentCap + k => Len(g.recent) <= RecentCap + k
  BY <1>1, ProcessEffect
<1>3. /\ feedA' = g /\ panel' = IF r = NoPacket THEN panel ELSE Ingest(panel, r)
      /\ processed' = processed + (IF r = NoPacket THEN 0 ELSE 1)
      /\ errors' = errors + e
      /\ charts' = IF kept THEN [charts EXCEPT ![feedA.gen] =
                                   AppendBounded(@, r.seq, ChartCap)]
                   ELSE charts
      /\ UNCHANGED <<runHistory, clean, injected>>
  BY DEF ProcessPacket
<1> HIDE DEF o, g, r
<1>4. Effect(feedA, g, r, e = 1) /\ e \in {0, 1}
  BY <1>2 DEF Effect, One
<1> HIDE DEF e
<1>5. /\ charts \in [Gens -> Seq(Nat)] /\ \A c \in Gens : Len(charts[c]) <= ChartCap
      /\ injected \in Nat /\ processed \in Nat /\ errors \in Nat /\ feedA.gen \in Gens
  BY DEF SessionInv, SessionOK, HistoriesBounded
<1>6. /\ charts' \in [Gens -> Seq(Nat)]
      /\ \A c \in Gens : Len(charts'[c]) <= ChartCap
  <2>1. CASE ~ kept
    BY <1>3, <1>5, <2>1
  <2>2. CASE kept
    <3> DEFINE s == AppendBounded(charts[feedA.gen], r.seq, ChartCap)
    <3>1. r \in ResultType
      BY <1>2, <2>2 DEF Effect, Blocked
    <3>2. r.seq \in Nat
      BY <3>1 DEF ResultType
    <3>3. charts[feedA.gen] \in Seq(Nat) /\ ChartCap \in Nat
      BY <1>5, DashboardAssumption
    <3>4. s \in Seq(Nat) /\ Len(s) \in Nat
          /\ \A k \in Nat : Len(charts[feedA.gen]) <= ChartCap + k => Len(s) <= ChartCap + k
      BY <3>2, <3>3, BoundedAppend
    <3>5. charts' = [charts EXCEPT ![feedA.gen] = s]
      BY <1>3, <2>2
    <3> HIDE DEF s
    <3>6. Len(s) <= ChartCap
      <4>1. Len(charts[feedA.gen]) <= ChartCap + 0
        BY <1>5, <3>3
      <4>2. Len(s) <= ChartCap + 0
        BY <3>4, <4>1
      <4>3. QED
        BY <3>3, <3>4, <4>2
    <3>7. QED
      BY <1>5, <3>4, <3>5, <3>6
  <2>3. QED
    BY <2>1, <2>2
<1>7. Works(g, r, 0, e)
  BY <1>2, <1>3, <1>4, <1>5, <1>6 DEF Works
<1>8. QED
  BY <1>7

(* Every step of the session keeps its invariant.                          *)
LEMMA SessionStep ==
  ASSUME SessionInv, [Next]_vars
  PROVE  SessionInv'
<1>1. CASE Start \/ StartFails \/ StartFailsHalfWay \/ Reset
  <2>1. CanReset => FreshGen \in Gens
    BY DEF CanReset
  <2>2. CASE Start \/ Reset
    BY <2>1, <2>2, StartsOverStep DEF Start, Reset, StartsOver
  <2>3. CASE StartFails \/ StartFailsHalfWay
    BY <2>1, <2>3, StartsOverStep DEF StartFails, StartFailsHalfWay, StartsOver
  <2>4. QED
    BY <1>1, <2>2, <2>3
<1>2. ASSUME NEW attack \in Attacks, Inject(attack)
      PROVE  SessionInv'
  BY <1>2, InjectWorks, WorksStep
<1>3. ASSUME NEW kind \in FrameKinds, ProcessPacket(kind, "normal")
      PROVE  SessionInv'
  BY <1>3, ProcessWorks, WorksStep
<1>4. CASE Save
  <2> DEFINE x == [packets |-> feedA.total, chart |-> feedA.gen,
                   points |-> Len(charts[feedA.gen])]
  <2>1. /\ runHistory' = AppendBounded(runHistory, x, HistoryCap)
        /\ UNCHANGED <<feedA, panel, processed, charts, clean, errors, injected>>
    BY <1>4 DEF Save
  <2>2. feedA \in FeedType /\ feedA.gen \in Gens /\ charts \in [Gens -> Seq(Nat)]
        /\ runHistory \in Seq(RunType)
    BY DEF SessionInv, SessionOK, FeedOK
  <2>3. feedA.total \in Nat /\ charts[feedA.gen] \in Seq(Nat)
    BY <2>2 DEF FeedType
  <2>4. x \in RunType
    BY <2>2, <2>3 DEF RunType
  <2> HIDE DEF x
  <2>5. runHistory' \in Seq(RunType)
    BY <2>1, <2>2, <2>4, BoundedAppend, DashboardAssumption
  <2>6. QED
    BY <2>1, <2>5 DEF SessionInv, SessionOK, FeedOK, ReplayUsed, RunType, Gens,
                      PanelAgrees, HistoriesBounded
<1>5. CASE UNCHANGED vars \/ \E other, save \in BOOLEAN : Click(other, save)
  <2>1. UNCHANGED <<feedA, panel, processed, charts, runHistory, clean, errors, injected>>
    BY <1>5 DEF vars, Click
  <2>2. QED
    BY <2>1 DEF SessionInv, SessionOK, FeedOK, ReplayUsed, RunType, Gens,
                PanelAgrees, HistoriesBounded
<1>6. QED
  BY <1>1, <1>2, <1>3, <1>4, <1>5 DEF Next

(* The first state of the session.                                         *)
LEMMA SessionInit == Init => SessionInv
<1> SUFFICES ASSUME Init PROVE SessionInv
  OBVIOUS
<1>1. /\ FeedOK(feedA) /\ feedA.gen = 0 /\ feedA.accepted = 0 /\ feedA.rejected = 0
      /\ feedA.flagged = 0 /\ feedA.recent = <<>> /\ feedA.audit = <<>>
  <2>1. feedA = ResetState(0) /\ 0 \in Nat
    BY DEF Init
  <2>2. QED
    BY <2>1, FreshFeed
<1>2. /\ panel \in PanelType /\ panel.events = <<>>
      /\ panel.accepted = 0 /\ panel.rejected = 0
  BY FreshPanel DEF Init
<1>3. /\ processed = 0 /\ injected = 0 /\ errors = 0 /\ runHistory = <<>>
      /\ charts = [c \in Gens |-> <<>>]
  BY DEF Init
<1>4. SessionOK
  BY <1>1, <1>2, <1>3, DashboardAssumption DEF SessionOK, Gens
<1>5. PanelAgrees
  BY <1>1, <1>2, <1>3 DEF PanelAgrees
<1>6. HistoriesBounded
  BY <1>1, <1>2, <1>3, DashboardAssumption, FeedAssumption DEF HistoriesBounded
<1>7. QED
  BY <1>4, <1>5, <1>6 DEF SessionInv

-----------------------------------------------------------------------------
(* However many packets were processed before it and however often the     *)
(* session was started over, an injected packet is refused: a replay       *)
(* because the packet kept for it has moved the relay's checker.           *)
THEOREM AttacksAlwaysBlocked == Spec => []AttacksBlocked
<1>1. SessionInv => AttacksBlocked
  <2> SUFFICES ASSUME SessionInv, NEW i \in 1 .. Len(feedA.recent),
                      feedA.recent[i].attack # "none"
               PROVE  feedA.recent[i].decision = "REJECT"
    BY DEF AttacksBlocked
  <2>1. feedA.recent \in Seq(Blocked)
    BY DEF SessionInv, SessionOK, FeedOK, FeedType
  <2>2. feedA.recent[i] \in Blocked
    BY <2>1
  <2>3. QED
    BY <2>2 DEF Blocked
<1>2. QED
  BY <1>1, SessionInit, SessionStep, PTL DEF Spec

(* After a start that did not fail half way the panel and the feed count   *)
(* the same packets, however clicks interrupt the batches.                 *)
THEOREM PanelAlwaysAgrees == Spec => []PanelAgrees
<1>1. SessionInv => PanelAgrees
  BY DEF SessionInv
<1>2. QED
  BY <1>1, SessionInit, SessionStep, PTL DEF Spec

(* The histories stay within their limits, the packet history but for the  *)
(* injected packets and the audit history but for the rejections.          *)
THEOREM HistoriesAlwaysBounded == Spec => []HistoriesBounded
<1>1. SessionInv => HistoriesBounded
  BY DEF SessionInv
<1>2. QED
  BY <1>1, SessionInit, SessionStep, PTL DEF Spec

(* No step changes the chart of a run that was saved in an earlier         *)
(* session.                                                                *)
THEOREM SavedRunsAlwaysSettle == Spec => SavedRunsSettle
<1> DEFINE Settles == \A i \in 1 .. Len(runHistory) :
             runHistory[i].chart # feedA'.gen =>
               charts'[runHistory[i].chart] = charts[runHistory[i].chart]
<1>1. ASSUME SessionInv, Next PROVE Settles
  <2>1. CASE charts' = charts
    BY <2>1
  <2>2. ASSUME NEW kind \in FrameKinds, ProcessPacket(kind, "normal"),
               NEW i \in 1 .. Len(runHistory), runHistory[i].chart # feedA'.gen
        PROVE  charts'[runHistory[i].chart] = charts[runHistory[i].chart]
    <3>1. FeedOK(feedA) /\ charts \in [Gens -> Seq(Nat)] /\ runHistory \in Seq(RunType)
      BY <1>1 DEF SessionInv, SessionOK
    <3>2. feedA'.gen = feedA.gen
      <4>1. feedA' = ProcessOnePacket(feedA, kind).feed
        BY <2>2 DEF ProcessPacket
      <4>2. QED
        BY <3>1, <4>1, ProcessEffect DEF Effect
    <3>3. runHistory[i] \in RunType
      BY <3>1
    <3>4. runHistory[i].chart \in Gens
      BY <3>3 DEF RunType
    <3>5. \E s : charts' = [charts EXCEPT ![feedA.gen] = s] \/ charts' = charts
      BY <2>2 DEF ProcessPacket
    <3>6. QED
      BY <2>2, <3>1, <3>2, <3>4, <3>5
  <2>3. QED
    BY <1>1, <2>1, <2>2 DEF Next, Start, StartFails, StartFailsHalfWay, Reset, Inject,
                            Click, Save
<1>2. SessionInv /\ [Next]_vars => [Settles]_vars
  BY <1>1
<1>3. QED
  BY <1>2, SessionInit, SessionStep, PTL DEF Spec, SavedRunsSettle
=============================================================================
