------------------------- MODULE AuditLogger_proofs -------------------------
(***************************************************************************)
(* Proofs about the audit logger, for any threads, readers and number of   *)
(* events, with and without a log file.                                    *)
(***************************************************************************)
EXTENDS AuditLogger, FiniteSetTheorems, TLAPS

(* What _record hands to the trail and to the file.                        *)
NewEvent(t, d) == [by |-> t, id |-> Len(events) + 1, decision |-> d]

(* A thread holds at most its own event, which is the newest one that it   *)
(* recorded and not one whose write has failed already.                    *)
PendingNewest ==
  \A t \in Threads : writing[t] # None =>
    /\ writing[t].by = t
    /\ writing[t].id <= Len(events)
    /\ writing[t] \notin lost
    /\ \A i \in 1 .. Len(file) : file[i].by = t => file[i].id < writing[t].id

(* What has reached the file, or failed to, was recorded before.           *)
WrittenRecorded ==
  /\ \A i \in 1 .. Len(file) : file[i].id <= Len(events)
  /\ \A e \in lost : e.id <= Len(events)

(* The counters add up to the length of the trail, and the length that a   *)
(* summary has taken is not beyond it.                                     *)
CountersCover ==
  /\ counts["ACCEPT"] + counts["REJECT"] + counts["FLAG"] = Len(events)
  /\ \A r \in Readers : summary[r].pc = "counts" => summary[r].total <= Len(events)

-----------------------------------------------------------------------------
(* No event is the None of a thread with nothing to write, and a new event *)
(* has the shape of one.                                                   *)
LEMMA EventShape ==
  ASSUME TypeOK
  PROVE  /\ None \notin EventType
         /\ \A t \in Threads, d \in Decisions :
              Len(events) < MaxEvents => NewEvent(t, d) \in EventType
         /\ \A t \in Threads : writing[t] # None => writing[t] \in EventType
<1>1. None \notin EventType
  BY DEF None, EventType
<1>2. Len(events) \in Nat
  BY DEF TypeOK
<1>3. \A t \in Threads, d \in Decisions :
        Len(events) < MaxEvents => NewEvent(t, d) \in EventType
  BY <1>2, LoggerAssumption DEF NewEvent, EventType
<1>4. QED
  BY <1>1, <1>3 DEF TypeOK

(* Appending keeps what was there and puts the new element last.           *)
LEMMA AppendFacts ==
  ASSUME NEW S, NEW s \in Seq(S), NEW e \in S
  PROVE  /\ Append(s, e) \in Seq(S)
         /\ Len(s) \in Nat /\ Len(Append(s, e)) = Len(s) + 1
         /\ Append(s, e)[Len(s) + 1] = e
         /\ \A i \in 1 .. Len(s) : Append(s, e)[i] = s[i]
         /\ \A i \in 1 .. Len(s) + 1 : i = Len(s) + 1 \/ i \in 1 .. Len(s)
OBVIOUS

(* A step of the logger keeps its fields well typed.                       *)
LEMMA LoggerTypeStep == TypeOK /\ [Next]_vars => TypeOK'
<1> SUFFICES ASSUME TypeOK, [Next]_vars PROVE TypeOK'
  OBVIOUS
<1>1. ASSUME NEW t \in Threads, NEW d \in Decisions, Record(t, d) PROVE TypeOK'
  <2>1. NewEvent(t, d) \in EventType
    BY <1>1, EventShape DEF Record
  <2>2. events' \in Seq(EventType) /\ writing' \in [Threads -> EventType \cup {None}]
    BY <1>1, <2>1 DEF Record, NewEvent, TypeOK
  <2>3. counts' \in [Decisions -> Nat]
    BY <1>1 DEF Record, TypeOK
  <2>4. QED
    BY <1>1, <2>2, <2>3 DEF Record, TypeOK
<1>2. ASSUME NEW t \in Threads, WriteToFile(t) PROVE TypeOK'
  BY <1>2, EventShape DEF WriteToFile, TypeOK
<1>3. ASSUME NEW t \in Threads, FileWriteError(t) PROVE TypeOK'
  BY <1>3, EventShape DEF FileWriteError, TypeOK
<1>4. ASSUME NEW r \in Readers, SummaryTotal(r) PROVE TypeOK'
  <2>1. Len(events) \in Nat
    BY DEF TypeOK
  <2>2. summary' \in [Readers -> [pc : {"idle", "counts", "done"}, total : Nat,
                                  counts : [Decisions -> Nat]]]
    BY <1>4, <2>1 DEF SummaryTotal, TypeOK
  <2>3. QED
    BY <1>4, <2>2 DEF SummaryTotal, TypeOK
<1>5. ASSUME NEW r \in Readers, SummaryCounts(r) PROVE TypeOK'
  BY <1>5 DEF SummaryCounts, TypeOK
<1>6. ASSUME NEW r \in Readers, SummaryReturn(r) PROVE TypeOK'
  BY <1>6 DEF SummaryReturn, NoSummary, TypeOK
<1>7. CASE UNCHANGED vars
  BY <1>7 DEF vars, TypeOK
<1>8. QED
  BY <1>1, <1>2, <1>3, <1>4, <1>5, <1>6, <1>7 DEF Next

(* Every field of the audit logger always has the shape the code gives it. *)
THEOREM LoggerTypeCorrect == Spec => []TypeOK
<1>1. Init => TypeOK
  BY DEF Init, TypeOK, NoSummary
<1>2. QED
  BY <1>1, LoggerTypeStep, PTL DEF Spec

-----------------------------------------------------------------------------
(* summary() reads the length under the lock and the counters after it:    *)
(* what it returns never shows fewer decisions than events.                *)
THEOREM SummariesCover == Spec => []SummaryCovers
<1>1. Init => CountersCover /\ SummaryCovers
  BY DEF Init, CountersCover, SummaryCovers, NoSummary, Decisions
<1>2. TypeOK /\ CountersCover /\ SummaryCovers /\ [Next]_vars
        => (CountersCover /\ SummaryCovers)'
  <2> SUFFICES ASSUME TypeOK, CountersCover, SummaryCovers, [Next]_vars
               PROVE  (CountersCover /\ SummaryCovers)'
    OBVIOUS
  <2>1. ASSUME NEW t \in Threads, NEW d \in Decisions, Record(t, d)
        PROVE  (CountersCover /\ SummaryCovers)'
    <3>1. /\ Len(events') = Len(events) + 1 /\ Len(events) \in Nat
          /\ summary' = summary
      BY <2>1 DEF Record, TypeOK
    <3>2. counts'["ACCEPT"] + counts'["REJECT"] + counts'["FLAG"] = Len(events')
      BY <2>1, <3>1 DEF Record, TypeOK, CountersCover, Decisions
    <3>3. QED
      BY <3>1, <3>2 DEF CountersCover, SummaryCovers, TypeOK
  <2>2. ASSUME NEW t \in Threads, WriteToFile(t) \/ FileWriteError(t)
        PROVE  (CountersCover /\ SummaryCovers)'
    BY <2>2 DEF WriteToFile, FileWriteError, CountersCover, SummaryCovers
  <2>3. ASSUME NEW r \in Readers, SummaryTotal(r)
        PROVE  (CountersCover /\ SummaryCovers)'
    <3>1. /\ summary'[r].pc = "counts" /\ summary'[r].total = Len(events)
          /\ \A q \in Readers : q # r => summary'[q] = summary[q]
          /\ UNCHANGED <<events, counts>> /\ Len(events) \in Nat
      BY <2>3 DEF SummaryTotal, TypeOK
    <3>2. CountersCover'
      BY <3>1 DEF CountersCover
    <3>3. SummaryCovers'
      BY <3>1 DEF SummaryCovers
    <3>4. QED
      BY <3>2, <3>3
  <2>4. ASSUME NEW r \in Readers, SummaryCounts(r)
        PROVE  (CountersCover /\ SummaryCovers)'
    BY <2>4 DEF SummaryCounts, CountersCover, SummaryCovers, TypeOK
  <2>5. ASSUME NEW r \in Readers, SummaryReturn(r)
        PROVE  (CountersCover /\ SummaryCovers)'
    BY <2>5 DEF SummaryReturn, NoSummary, CountersCover, SummaryCovers, TypeOK
  <2>6. CASE UNCHANGED vars
    BY <2>6 DEF vars, CountersCover, SummaryCovers
  <2>7. QED
    BY <2>1, <2>2, <2>3, <2>4, <2>5, <2>6 DEF Next
<1>3. QED
  BY <1>1, <1>2, LoggerTypeCorrect, PTL DEF Spec

-----------------------------------------------------------------------------
(* A step keeps what the file theorems rest on.                            *)
LEMMA PendingStep ==
  ASSUME TypeOK, PendingNewest, WrittenRecorded, [Next]_vars
  PROVE  PendingNewest' /\ WrittenRecorded'
<1>1. ASSUME NEW t \in Threads, NEW d \in Decisions, Record(t, d)
      PROVE  PendingNewest' /\ WrittenRecorded'
  <2>1. /\ Len(events') = Len(events) + 1 /\ Len(events) \in Nat
        /\ file' = file /\ lost' = lost
        /\ \A u \in Threads : writing'[u] \in {writing[u], NewEvent(u, d)}
        /\ \A u \in Threads : u # t => writing'[u] = writing[u]
    BY <1>1 DEF Record, NewEvent, TypeOK
  <2>2. \A i \in 1 .. Len(file) : file[i].id \in Nat
    <3> SUFFICES ASSUME NEW i \in 1 .. Len(file) PROVE file[i].id \in Nat
      OBVIOUS
    <3>1. file[i] \in EventType
      BY DEF TypeOK
    <3>2. QED
      BY <3>1 DEF EventType
  <2>3. \A e \in lost : e.id \in Nat
    BY DEF TypeOK, EventType
  <2>4. WrittenRecorded'
    BY <2>1, <2>2, <2>3 DEF WrittenRecorded
  <2>5. \A u \in Threads : /\ NewEvent(u, d).by = u
                           /\ NewEvent(u, d).id = Len(events) + 1
                           /\ NewEvent(u, d) \notin lost
    BY <2>1, <2>3 DEF NewEvent, WrittenRecorded
  <2>6. ASSUME NEW u \in Threads, writing'[u] # None
        PROVE  /\ writing'[u].by = u
               /\ writing'[u].id <= Len(events')
               /\ writing'[u] \notin lost'
               /\ \A i \in 1 .. Len(file') :
                    file'[i].by = u => file'[i].id < writing'[u].id
    <3>1. CASE writing'[u] = writing[u]
      <4>1. writing[u].id \in Nat
        BY <2>6, <3>1, EventShape DEF EventType
      <4>2. QED
        BY <2>1, <2>6, <3>1, <4>1 DEF PendingNewest
    <3>2. CASE writing'[u] = NewEvent(u, d)
      BY <2>1, <2>2, <2>5, <3>2 DEF WrittenRecorded
    <3>3. QED
      BY <2>1, <3>1, <3>2
  <2>7. QED
    BY <2>4, <2>6 DEF PendingNewest
<1>2. ASSUME NEW t \in Threads, WriteToFile(t)
      PROVE  PendingNewest' /\ WrittenRecorded'
  <2>1. /\ file' = Append(file, writing[t]) /\ writing[t] # None
        /\ events' = events /\ lost' = lost
        /\ writing'[t] = None
        /\ \A u \in Threads : u # t => writing'[u] = writing[u]
    BY <1>2 DEF WriteToFile, TypeOK
  <2>2. \A i \in 1 .. Len(file') : \/ i \in 1 .. Len(file) /\ file'[i] = file[i]
                                   \/ file'[i] = writing[t]
    BY <2>1, EventShape, AppendFacts DEF TypeOK
  <2>3. WrittenRecorded'
    BY <2>1, <2>2 DEF WrittenRecorded, PendingNewest
  <2>4. PendingNewest'
    BY <2>1, <2>2 DEF PendingNewest
  <2>5. QED
    BY <2>3, <2>4
<1>3. ASSUME NEW t \in Threads, FileWriteError(t)
      PROVE  PendingNewest' /\ WrittenRecorded'
  <2>1. /\ file' = file /\ events' = events /\ lost' = lost \cup {writing[t]}
        /\ writing[t] # None /\ writing'[t] = None
        /\ \A u \in Threads : u # t => writing'[u] = writing[u]
    BY <1>3 DEF FileWriteError, TypeOK
  <2>2. WrittenRecorded'
    BY <2>1 DEF WrittenRecorded, PendingNewest
  <2>3. \A u \in Threads : u # t /\ writing[u] # None => writing[u] # writing[t]
    BY <2>1 DEF PendingNewest
  <2>4. PendingNewest'
    BY <2>1, <2>3 DEF PendingNewest
  <2>5. QED
    BY <2>2, <2>4
<1>4. ASSUME NEW r \in Readers, SummaryTotal(r) \/ SummaryCounts(r) \/ SummaryReturn(r)
      PROVE  PendingNewest' /\ WrittenRecorded'
  BY <1>4 DEF SummaryTotal, SummaryCounts, SummaryReturn, PendingNewest, WrittenRecorded
<1>5. CASE UNCHANGED vars
  BY <1>5 DEF vars, PendingNewest, WrittenRecorded
<1>6. QED
  BY <1>1, <1>2, <1>3, <1>4, <1>5 DEF Next

(* No thread ever holds another thread's event, or one older than what it  *)
(* has written.                                                            *)
LEMMA PendingAlwaysNewest == Spec => [](PendingNewest /\ WrittenRecorded)
<1>1. Init => PendingNewest /\ WrittenRecorded
  BY DEF Init, PendingNewest, WrittenRecorded
<1>2. QED
  BY <1>1, PendingStep, LoggerTypeCorrect, PTL DEF Spec

(* The file shows the events of one thread in the order the thread         *)
(* recorded them, although it is written outside the lock.                 *)
THEOREM FileKeepsThreadOrder == Spec => []FileOrderPerThread
<1>1. Init => FileOrderPerThread
  BY DEF Init, FileOrderPerThread
<1>2. TypeOK /\ PendingNewest /\ FileOrderPerThread /\ [Next]_vars
        => FileOrderPerThread'
  <2> SUFFICES ASSUME TypeOK, PendingNewest, FileOrderPerThread, [Next]_vars
               PROVE  FileOrderPerThread'
    OBVIOUS
  <2>1. ASSUME NEW t \in Threads, WriteToFile(t) PROVE FileOrderPerThread'
    <3>1. file' = Append(file, writing[t]) /\ writing[t] # None
      BY <2>1 DEF WriteToFile
    <3>2. /\ Len(file') = Len(file) + 1 /\ Len(file) \in Nat
          /\ file'[Len(file) + 1] = writing[t]
          /\ \A i \in 1 .. Len(file) : file'[i] = file[i]
      BY <3>1 DEF TypeOK
    <3>3. QED
      BY <3>1, <3>2 DEF FileOrderPerThread, PendingNewest
  <2>2. CASE UNCHANGED file
    BY <2>2 DEF FileOrderPerThread
  <2>3. QED
    BY <2>1, <2>2 DEF Next, Record, FileWriteError, SummaryTotal, SummaryCounts,
                      SummaryReturn, vars
<1>3. QED
  BY <1>1, <1>2, LoggerTypeCorrect, PendingAlwaysNewest, PTL DEF Spec

-----------------------------------------------------------------------------
(* The events still to be written are finitely many.                       *)
LEMMA PendingFinite == IsFiniteSet(Pending)
<1> DEFINE held == {writing[t] : t \in Threads}
<1>1. [t \in Threads |-> writing[t]] \in Surjection(Threads, held)
  BY DEF Surjection
<1>2. IsFiniteSet(held)
  BY <1>1, LoggerAssumption, FS_Surjection
<1>3. QED
  BY <1>2, FS_RemoveElement DEF Pending

(* When a thread has dealt with its event, just that event is no longer    *)
(* pending.                                                                *)
LEMMA PendingLoses ==
  ASSUME TypeOK, PendingNewest, NEW t \in Threads, writing[t] # None,
         writing' = [writing EXCEPT ![t] = None]
  PROVE  /\ Pending' = Pending \ {writing[t]}
         /\ writing[t] \in Pending
         /\ Cardinality(Pending') = Cardinality(Pending) - 1
<1>1. \A u \in Threads : u # t /\ writing[u] # None => writing[u] # writing[t]
  BY DEF PendingNewest
<1>2. \A u \in Threads : writing'[u] = IF u = t THEN None ELSE writing[u]
  BY DEF TypeOK
<1>3. writing[t] \in Pending
  BY DEF Pending
<1>4. Pending' = Pending \ {writing[t]}
  BY <1>1, <1>2 DEF Pending
<1>5. QED
  BY <1>3, <1>4, PendingFinite, FS_RemoveElement

(* What Events does when an element is appended.                           *)
LEMMA EventsAppend ==
  ASSUME NEW s \in Seq(EventType), NEW e \in EventType
  PROVE  Events(Append(s, e)) = Events(s) \cup {e}
BY AppendFacts DEF Events

(* With a log file, every event of the trail is on one line of it, still   *)
(* to be written by one thread, or among those whose write failed: none is *)
(* dropped, written twice or invented, whatever the threads' interleaving. *)
THEOREM EventsAccountedFor == Spec => []EveryEventAccountedFor
<1> DEFINE Accounted == EveryEventAccountedFor /\ IsFiniteSet(lost)
<1>1. Init => Accounted
  <2> SUFFICES ASSUME Init PROVE Accounted
    OBVIOUS
  <2>1. Pending = {} /\ Events(events) = {} /\ Events(file) = {}
    BY DEF Init, Pending, Events
  <2>2. QED
    BY <2>1, FS_EmptySet DEF Init, EveryEventAccountedFor
<1>2. TypeOK /\ PendingNewest /\ WrittenRecorded /\ Accounted /\ [Next]_vars => Accounted'
  <2> SUFFICES ASSUME TypeOK, PendingNewest, WrittenRecorded, Accounted, [Next]_vars
               PROVE  Accounted'
    OBVIOUS
  <2>0. Cardinality(Pending) \in Nat /\ Cardinality(lost) \in Nat
    BY PendingFinite, FS_CardinalityType
  <2>1. ASSUME NEW t \in Threads, NEW d \in Decisions, Record(t, d)
        PROVE  Accounted'
    <3> DEFINE e == NewEvent(t, d)
    <3>1. /\ e \in EventType /\ e # None /\ e.id = Len(events) + 1
          /\ Len(events) \in Nat
      BY <2>1, EventShape DEF Record, NewEvent, TypeOK
    <3>2. events' = Append(events, e) /\ file' = file /\ lost' = lost
      BY <2>1 DEF Record, NewEvent
    <3>3. SUFFICES ASSUME LogToFile PROVE EveryEventAccountedFor'
      BY <3>2 DEF EveryEventAccountedFor
    <3>4. writing' = [writing EXCEPT ![t] = e] /\ writing[t] = None
      BY <2>1, <3>3 DEF Record, NewEvent
    <3>5. e \notin Pending
      <4>1. \A u \in Threads : writing[u] # None => writing[u].id <= Len(events)
        BY DEF PendingNewest
      <4>2. QED
        BY <3>1, <4>1 DEF Pending
    <3>6. Pending' = Pending \cup {e}
      <4> HIDE DEF e
      <4>1. \A u \in Threads : writing'[u] = IF u = t THEN e ELSE writing[u]
        BY <3>4 DEF TypeOK
      <4>2. QED
        BY <3>1, <3>4, <4>1 DEF Pending
    <3>7. Cardinality(Pending') = Cardinality(Pending) + 1
      BY <3>5, <3>6, PendingFinite, FS_AddElement
    <3>8. Events(events') = Events(events) \cup {e} /\ Len(events') = Len(events) + 1
      <4> HIDE DEF e
      <4>1. QED
        BY <3>1, <3>2, EventsAppend, AppendFacts DEF TypeOK
    <3>9. Events(events') = Events(file') \cup Pending' \cup lost'
      BY <3>2, <3>3, <3>6, <3>8 DEF EveryEventAccountedFor
    <3>10. Len(file) \in Nat
      BY DEF TypeOK
    <3>11. Len(events') = Len(file') + Cardinality(Pending') + Cardinality(lost')
      BY <2>0, <3>2, <3>3, <3>7, <3>8, <3>10 DEF EveryEventAccountedFor
    <3>12. QED
      BY <3>9, <3>11 DEF EveryEventAccountedFor
  <2>2. ASSUME NEW t \in Threads, WriteToFile(t)
        PROVE  Accounted'
    <3>1. /\ writing[t] # None /\ file' = Append(file, writing[t])
          /\ writing' = [writing EXCEPT ![t] = None]
          /\ events' = events /\ lost' = lost
      BY <2>2 DEF WriteToFile
    <3>2. /\ Pending' = Pending \ {writing[t]} /\ writing[t] \in Pending
          /\ Cardinality(Pending') = Cardinality(Pending) - 1
      BY <3>1, PendingLoses
    <3>3. /\ Events(file') = Events(file) \cup {writing[t]}
          /\ Len(file') = Len(file) + 1 /\ Len(file) \in Nat
      BY <3>1, EventShape, EventsAppend, AppendFacts DEF TypeOK
    <3>4. LogToFile => Events(events') = Events(file') \cup Pending' \cup lost'
      BY <3>1, <3>2, <3>3 DEF EveryEventAccountedFor
    <3>5. LogToFile =>
            Len(events') = Len(file') + Cardinality(Pending') + Cardinality(lost')
      BY <2>0, <3>1, <3>2, <3>3 DEF EveryEventAccountedFor
    <3>6. QED
      BY <3>1, <3>4, <3>5 DEF EveryEventAccountedFor
  <2>3. ASSUME NEW t \in Threads, FileWriteError(t)
        PROVE  Accounted'
    <3>1. /\ writing[t] # None /\ lost' = lost \cup {writing[t]}
          /\ writing' = [writing EXCEPT ![t] = None]
          /\ events' = events /\ file' = file
      BY <2>3 DEF FileWriteError
    <3>2. /\ Pending' = Pending \ {writing[t]} /\ writing[t] \in Pending
          /\ Cardinality(Pending') = Cardinality(Pending) - 1
      BY <3>1, PendingLoses
    <3>3. writing[t] \notin lost
      BY <3>1 DEF PendingNewest
    <3>4. IsFiniteSet(lost') /\ Cardinality(lost') = Cardinality(lost) + 1
      BY <3>1, <3>3, FS_AddElement
    <3>5. LogToFile => Events(events') = Events(file') \cup Pending' \cup lost'
      BY <3>1, <3>2 DEF EveryEventAccountedFor
    <3>6. Len(file) \in Nat
      BY DEF TypeOK
    <3>7. LogToFile =>
            Len(events') = Len(file') + Cardinality(Pending') + Cardinality(lost')
      BY <2>0, <3>1, <3>2, <3>4, <3>6 DEF EveryEventAccountedFor
    <3>8. QED
      BY <3>4, <3>5, <3>7 DEF EveryEventAccountedFor
  <2>4. CASE UNCHANGED <<events, file, writing, lost>>
    BY <2>4 DEF EveryEventAccountedFor, Pending
  <2>5. QED
    BY <2>1, <2>2, <2>3, <2>4 DEF Next, SummaryTotal, SummaryCounts, SummaryReturn, vars
<1>3. QED
  BY <1>1, <1>2, LoggerTypeCorrect, PendingAlwaysNewest, PTL DEF Spec
=============================================================================
