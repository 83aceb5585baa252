----------------------------- MODULE AuditLogger -----------------------------
(***************************************************************************)
(* validator-node/src/audit_logger.py: AuditLogger, shared by the threads  *)
(* of a validator.  _record keeps the trail and its counters under a lock  *)
(* and writes the file after releasing it; summary() takes the length of   *)
(* the trail under the lock and reads the counters after releasing it.     *)
(***************************************************************************)
EXTENDS Naturals, Sequences, FiniteSets

CONSTANTS
  Threads,          (* callers of log_accept, log_reject and log_flag *)
  Readers,          (* callers of summary *)
  LogToFile,        (* the log_to_file option *)
  MaxEvents         (* bound on the events of one behaviour *)

Decisions == {"ACCEPT", "REJECT", "FLAG"}

ASSUME LoggerAssumption ==
  /\ IsFiniteSet(Threads)
  /\ LogToFile \in BOOLEAN
  /\ MaxEvents \in Nat

VARIABLES
  events,           (* _events *)
  counts,           (* _accept_count, _reject_count, _flag_count *)
  file,             (* the lines of the JSONL file *)
  writing,          (* per thread: the event it has yet to write, or None *)
  lost,             (* history: the events whose write failed *)
  summary           (* per reader: where summary() is, and its result *)

vars == <<events, counts, file, writing, lost, summary>>

None == [by |-> "none", id |-> 0, decision |-> "none"]

NoSummary == [pc |-> "idle", total |-> 0, counts |-> [d \in Decisions |-> 0]]

Init ==
  /\ events = <<>>
  /\ counts = [d \in Decisions |-> 0]
  /\ file = <<>>
  /\ writing = [t \in Threads |-> None]
  /\ lost = {}
  /\ summary = [r \in Readers |-> NoSummary]

-----------------------------------------------------------------------------
(* Faulty variant: flags are not counted.                                  *)
RecordFlagUncounted(t, d) ==
  LET event == [by |-> t, id |-> Len(events) + 1, decision |-> d]
  IN  /\ writing[t] = None
      /\ Len(events) < MaxEvents
      /\ events' = Append(events, event)
      /\ counts' = IF d = "FLAG" THEN counts ELSE [counts EXCEPT ![d] = @ + 1]
      /\ writing' = IF LogToFile THEN [writing EXCEPT ![t] = event] ELSE writing
      /\ UNCHANGED <<file, lost, summary>>

(* log_accept, log_reject, log_flag: the locked part of _record.           *)
Record(t, d) ==
  LET event == [by |-> t, id |-> Len(events) + 1, decision |-> d]
  IN  /\ writing[t] = None
      /\ Len(events) < MaxEvents
      /\ events' = Append(events, event)
      /\ counts' = [counts EXCEPT ![d] = @ + 1]
      /\ writing' = IF LogToFile THEN [writing EXCEPT ![t] = event] ELSE writing
      /\ UNCHANGED <<file, lost, summary>>

(* Faulty variants: the line goes to the front of the file; the event is   *)
(* written again.                                                          *)
WriteToFront(t) ==
  /\ writing[t] # None
  /\ file' = <<writing[t]>> \o file
  /\ writing' = [writing EXCEPT ![t] = None]
  /\ UNCHANGED <<events, counts, lost, summary>>
WriteAgain(t) ==
  /\ writing[t] # None
  /\ Len(file) < MaxEvents
  /\ file' = Append(file, writing[t])
  /\ UNCHANGED <<events, counts, writing, lost, summary>>

(* _write_to_file appends one line, or logs an error and gives up.         *)
WriteToFile(t) ==
  /\ writing[t] # None
  /\ file' = Append(file, writing[t])
  /\ writing' = [writing EXCEPT ![t] = None]
  /\ UNCHANGED <<events, counts, lost, summary>>

FileWriteError(t) ==
  /\ writing[t] # None
  /\ lost' = lost \cup {writing[t]}
  /\ writing' = [writing EXCEPT ![t] = None]
  /\ UNCHANGED <<events, counts, file, summary>>

SummaryTotal(r) ==
  /\ summary[r].pc = "idle"
  /\ summary' = [summary EXCEPT ![r].pc = "counts", ![r].total = Len(events)]
  /\ UNCHANGED <<events, counts, file, writing, lost>>

SummaryCounts(r) ==
  /\ summary[r].pc = "counts"
  /\ summary' = [summary EXCEPT ![r].pc = "done", ![r].counts = counts]
  /\ UNCHANGED <<events, counts, file, writing, lost>>

SummaryReturn(r) ==
  /\ summary[r].pc = "done"
  /\ summary' = [summary EXCEPT ![r] = NoSummary]
  /\ UNCHANGED <<events, counts, file, writing, lost>>

Next ==
  \/ \E t \in Threads, d \in Decisions : Record(t, d)
  \/ \E t \in Threads : WriteToFile(t) \/ FileWriteError(t)
  \/ \E r \in Readers : SummaryTotal(r) \/ SummaryCounts(r) \/ SummaryReturn(r)

Spec == Init /\ [][Next]_vars

-----------------------------------------------------------------------------
Events(s) == {s[i] : i \in 1 .. Len(s)}
Pending == {writing[t] : t \in Threads} \ {None}

EventType == [by : Threads, id : 1 .. MaxEvents, decision : Decisions]

(* Every field of the logger has the shape the code gives it.              *)
TypeOK ==
  /\ events \in Seq(EventType)
  /\ counts \in [Decisions -> Nat]
  /\ file \in Seq(EventType)
  /\ writing \in [Threads -> EventType \cup {None}]
  /\ lost \subseteq EventType
  /\ summary \in [Readers -> [pc : {"idle", "counts", "done"}, total : Nat,
                              counts : [Decisions -> Nat]]]

(* With a log file, every event of the trail has exactly one fate: it is   *)
(* on one line of the file, it is still to be written, or its write        *)
(* failed; and the file holds nothing that is not in the trail.            *)
EveryEventAccountedFor ==
  LogToFile =>
    /\ Events(events) = Events(file) \cup Pending \cup lost
    /\ Len(events) = Len(file) + Cardinality(Pending) + Cardinality(lost)

(* The file may show the events of different threads in another order than *)
(* the trail, but those of one thread in the order it recorded them.       *)
FileOrderPerThread ==
  \A i, j \in 1 .. Len(file) :
    i < j /\ file[i].by = file[j].by => file[i].id < file[j].id

(* A summary never shows fewer decisions than events: what it counts after *)
(* releasing the lock covers what it counted under it.  (It may show more, *)
(* when an event is recorded between the two reads.)                       *)
SummaryCovers ==
  \A r \in Readers : summary[r].pc = "done" =>
    summary[r].counts["ACCEPT"] + summary[r].counts["REJECT"]
      + summary[r].counts["FLAG"] >= summary[r].total
=============================================================================
