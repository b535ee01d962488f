-------------------------- MODULE EventStoreProofs --------------------------
(***************************************************************************)
(* Proofs about EventStore, for any writers, streams, event ids and bounds.*)
(***************************************************************************)
EXTENDS EventStore, SequenceTheorems, TLAPS

\* A batch is a nonempty sequence of event ids.
LEMMA BatchIsSeq ==
  ASSUME NEW b \in Batch
  PROVE  /\ b \in Seq(EventId)
         /\ Len(b) \in Nat \ {0}
         /\ DOMAIN b = 1..Len(b)
         /\ \A i \in 1..Len(b) : b[i] \in EventId
<1>1. PICK n \in 1..MaxBatch : b \in [1..n -> EventId]
  BY DEF Batch
<1>2. b \in Seq(EventId) /\ Len(b) = n
  BY <1>1, EventStoreAssumption
<1>. QED  BY <1>1, <1>2, EventStoreAssumption

\* The default call is a call.
LEMMA NoCallType == NoCall \in Call
  BY EventStoreAssumption DEF NoCall, Call

\* What TypeOK says of one writer's call.
LEMMA CallType ==
  ASSUME TypeOK, NEW w \in Writer
  PROVE  /\ call[w] \in Call
         /\ call[w].stream \in Stream
         /\ call[w].expected \in Nat \cup {-1}
         /\ call[w].expected \in Int
  BY DEF TypeOK, Call

\* Every row of a running append is a row of the table.
LEMMA RowAtType ==
  ASSUME TypeOK, BatchProgress, NEW w \in Writer, pc[w] # "idle",
         NEW i \in 1..Len(call[w].batch)
  PROVE  RowAt(w, i) \in Row
<1>1. call[w].batch \in Batch
  BY DEF BatchProgress
<1>2. call[w].batch[i] \in EventId
  BY <1>1, BatchIsSeq
<1>3. call[w].expected + i \in Nat
  <2>1. i \in Nat \ {0}
    BY <1>1, BatchIsSeq
  <2>. QED  BY <2>1, CallType
<1>. QED  BY <1>2, <1>3, CallType DEF RowAt, Row

\* A step that leaves the table alone leaves what is read from it alone.
LEMMA ReadsUnchanged ==
  ASSUME UNCHANGED events
  PROVE  /\ \A s \in Stream : RowsOf(s)' = RowsOf(s)
         /\ \A s \in Stream : Revisions(s)' = Revisions(s)
         /\ \A s \in Stream : CurrentRevision(s)' = CurrentRevision(s)
  BY DEF RowsOf, Revisions, CurrentRevision

\* The tables are empty at first.
LEMMA InitHistory == Init => HistoryInvariant
<1>. SUFFICES ASSUME Init PROVE HistoryInvariant
  OBVIOUS
<1>1. TypeOK
  BY NoCallType DEF Init, TypeOK, Statement, Outcome
<1>2. \A s \in Stream : RowsOf(s) = {} /\ Revisions(s) = {} /\ CurrentRevision(s) = -1
  BY DEF Init, RowsOf, Revisions, CurrentRevision
<1>3. StreamsAreSegments /\ HistoryIsContiguous
  <2>1. 0..-1 = {}
    OBVIOUS
  <2>. QED  BY <1>2, <2>1 DEF StreamsAreSegments, HistoryIsContiguous
<1>4. LockIsHeld /\ RevisionIsCurrent /\ OutboxMatchesHistory /\ OnlyDeclaredErrors
  BY DEF Init, LockIsHeld, RevisionIsCurrent, OutboxMatchesHistory, OnlyDeclaredErrors
<1>5. BatchProgress
  <2>1. \A w \in Writer : call[w].batch = <<>> /\ eventsIn[w] = 0 /\ outboxIn[w] = 0 /\ pc[w] = "idle"
    BY DEF Init, NoCall
  <2>. QED  BY <2>1 DEF BatchProgress
<1>. QED  BY <1>1, <1>3, <1>4, <1>5 DEF HistoryInvariant

\* Every action but Commit leaves the tables alone: what is left to show is
\* that the writers' part of the invariant is kept.
LEMMA TablesKept ==
  ASSUME HistoryInvariant, UNCHANGED <<events, outbox>>
  PROVE  /\ StreamsAreSegments'
         /\ HistoryIsContiguous'
         /\ OutboxMatchesHistory'
<1>1. HistoryIsContiguous'
  BY ReadsUnchanged DEF HistoryInvariant, HistoryIsContiguous
<1>2. StreamsAreSegments'
  BY ReadsUnchanged DEF HistoryInvariant, StreamsAreSegments
<1>3. OutboxMatchesHistory'
  BY DEF HistoryInvariant, OutboxMatchesHistory
<1>. QED  BY <1>1, <1>2, <1>3

LEMMA BeginKeeps ==
  ASSUME HistoryInvariant, NEW w \in Writer, NEW s \in Stream,
         NEW r \in -1..(MaxLength - 1), NEW b \in Batch, Begin(w, s, r, b)
  PROVE  HistoryInvariant'
<1>. USE DEF HistoryInvariant
<1>. DEFINE c == [stream |-> s, expected |-> r, batch |-> b]
<1>1. c \in Call
  BY EventStoreAssumption DEF Call
<1>2. /\ pc' = [pc EXCEPT ![w] = "lock"]
      /\ call' = [call EXCEPT ![w] = c]
      /\ UNCHANGED <<events, outbox, lock, eventsIn, outboxIn, outcome>>
  BY DEF Begin, Goto
<1>3. TypeOK'
  BY <1>1, <1>2 DEF TypeOK, Statement
<1>4. eventsIn[w] = 0 /\ outboxIn[w] = 0
  BY DEF Begin, BatchProgress
<1>5. LockIsHeld'
  BY <1>2, <1>4 DEF LockIsHeld, TypeOK
<1>6. RevisionIsCurrent'
  BY <1>2, ReadsUnchanged DEF RevisionIsCurrent, TypeOK, Call
<1>7. BatchProgress'
  BY <1>2, <1>4, BatchIsSeq DEF BatchProgress, TypeOK
<1>8. OnlyDeclaredErrors'
  BY <1>2 DEF OnlyDeclaredErrors
<1>. QED  BY <1>2, <1>3, <1>5, <1>6, <1>7, <1>8, TablesKept

LEMMA LockStreamKeeps ==
  ASSUME HistoryInvariant, NEW w \in Writer, LockStream(w)
  PROVE  HistoryInvariant'
<1>. USE DEF HistoryInvariant
<1>1. TypeOK'
  BY CallType, NoCallType DEF LockStream, LockIsFree, Goto, TypeOK, Statement, Outcome
<1>2. LockIsHeld'
  BY CallType, EventStoreAssumption DEF LockStream, LockIsFree, Goto, LockIsHeld, TypeOK, BatchProgress
<1>3. RevisionIsCurrent'
  BY ReadsUnchanged, CallType DEF LockStream, LockIsFree, Goto, RevisionIsCurrent, TypeOK
<1>4. BatchProgress'
  BY BatchIsSeq DEF LockStream, LockIsFree, Goto, BatchProgress, TypeOK
<1>5. OnlyDeclaredErrors'
  BY DEF LockStream, LockIsFree, Goto, OnlyDeclaredErrors, TypeOK
<1>6. UNCHANGED <<events, outbox>>
  BY DEF LockStream, LockIsFree, Goto
<1>. QED  BY <1>1, <1>2, <1>3, <1>4, <1>5, <1>6, TablesKept

LEMMA ReadRevisionKeeps ==
  ASSUME HistoryInvariant, NEW w \in Writer, ReadRevision(w)
  PROVE  HistoryInvariant'
<1>. USE DEF HistoryInvariant
<1>1. /\ pc[w] = "read"
      /\ UNCHANGED <<events, outbox, lock, call, eventsIn, outboxIn>>
      /\ \/ /\ ExpectedIsCurrent(w)
            /\ pc' = [pc EXCEPT ![w] = "event"]
            /\ UNCHANGED outcome
         \/ /\ pc' = [pc EXCEPT ![w] = "rollback"]
            /\ outcome' = [outcome EXCEPT ![w] = "concurrency"]
  BY DEF ReadRevision, Raise, Goto
<1>2. TypeOK'
  BY <1>1 DEF TypeOK, Statement, Outcome
<1>3. LockIsHeld'
  BY <1>1 DEF LockIsHeld, TypeOK, BatchProgress
<1>4. RevisionIsCurrent'
  <2>1. ExpectedIsCurrent(w) => Revisions(call[w].stream) = 0..call[w].expected
    BY CallType DEF ExpectedIsCurrent, StreamsAreSegments
  <2>. QED  BY <1>1, <2>1, ReadsUnchanged, CallType DEF RevisionIsCurrent, TypeOK
<1>5. BatchProgress'
  <2>1. 0 < Len(call[w].batch)
    BY <1>1, BatchIsSeq DEF BatchProgress
  <2>. QED  BY <1>1, <2>1 DEF BatchProgress, TypeOK
<1>6. OnlyDeclaredErrors'
  BY <1>1 DEF OnlyDeclaredErrors, TypeOK
<1>. QED  BY <1>1, <1>2, <1>3, <1>4, <1>5, <1>6, TablesKept

\* The lock keeps other appends off the stream, so the next row of a batch
\* finds its revision free: the revision constraint never fires.
LEMMA RevisionIsFree ==
  ASSUME HistoryInvariant, NEW w \in Writer, pc[w] = "event",
         NEW row \in events \cup InFlight(w)
  PROVE  ~SameRevision(row, NextRow(w))
<1>. USE DEF HistoryInvariant
<1>1. NextRow(w).revision = call[w].expected + eventsIn[w] + 1
  BY CallType DEF NextRow, RowAt, TypeOK
<1>2. CASE row \in events
  <2>1. ASSUME row.stream = call[w].stream
        PROVE  row.revision \in 0..call[w].expected
    BY <1>2, <2>1 DEF RevisionIsCurrent, Revisions, RowsOf
  <2>. QED  BY <1>1, <2>1, CallType DEF SameRevision, NextRow, RowAt, TypeOK
<1>3. CASE row \in InFlight(w)
  <2>1. PICK i \in 1..eventsIn[w] : row.revision = call[w].expected + i
    BY <1>3 DEF InFlight, RowAt
  <2>. QED  BY <1>1, <2>1, CallType DEF SameRevision, TypeOK
<1>. QED  BY <1>2, <1>3

LEMMA InsertEventKeeps ==
  ASSUME HistoryInvariant, NEW w \in Writer, InsertEvent(w)
  PROVE  HistoryInvariant'
<1>. USE DEF HistoryInvariant
<1>1. /\ pc[w] = "event"
      /\ UNCHANGED <<events, outbox, lock, call, outboxIn>>
      /\ \/ /\ pc' = [pc EXCEPT ![w] = "rollback"]
            /\ outcome' = [outcome EXCEPT ![w] = "duplicate"]
            /\ UNCHANGED eventsIn
         \/ /\ pc' = [pc EXCEPT ![w] = "outbox"]
            /\ eventsIn' = [eventsIn EXCEPT ![w] = @ + 1]
            /\ UNCHANGED outcome
  BY RevisionIsFree DEF InsertEvent, Raise, Goto
<1>2. TypeOK'
  BY <1>1 DEF TypeOK, Statement, Outcome
<1>3. LockIsHeld'
  BY <1>1 DEF LockIsHeld, TypeOK
<1>4. RevisionIsCurrent'
  BY <1>1, ReadsUnchanged, CallType DEF RevisionIsCurrent, TypeOK
<1>5. BatchProgress'
  <2>1. Len(call[w].batch) \in Nat
    BY <1>1, BatchIsSeq DEF BatchProgress
  <2>. QED  BY <1>1, <2>1 DEF BatchProgress, TypeOK
<1>6. OnlyDeclaredErrors'
  BY <1>1 DEF OnlyDeclaredErrors, TypeOK
<1>. QED  BY <1>1, <1>2, <1>3, <1>4, <1>5, <1>6, TablesKept

LEMMA InsertOutboxKeeps ==
  ASSUME HistoryInvariant, NEW w \in Writer, InsertOutbox(w)
  PROVE  HistoryInvariant'
<1>. USE DEF HistoryInvariant
<1>1. TypeOK'
  BY CallType, NoCallType DEF InsertOutbox, Goto, TypeOK, Statement, Outcome
<1>2. LockIsHeld'
  BY CallType, EventStoreAssumption DEF InsertOutbox, Goto, LockIsHeld, TypeOK, BatchProgress
<1>3. RevisionIsCurrent'
  BY ReadsUnchanged, CallType DEF InsertOutbox, Goto, RevisionIsCurrent, TypeOK
<1>4. BatchProgress'
  BY BatchIsSeq DEF InsertOutbox, Goto, BatchProgress, TypeOK
<1>5. OnlyDeclaredErrors'
  BY DEF InsertOutbox, Goto, OnlyDeclaredErrors, TypeOK
<1>6. UNCHANGED <<events, outbox>>
  BY DEF InsertOutbox, Goto
<1>. QED  BY <1>1, <1>2, <1>3, <1>4, <1>5, <1>6, TablesKept

LEMMA RollbackKeeps ==
  ASSUME HistoryInvariant, NEW w \in Writer, Rollback(w)
  PROVE  HistoryInvariant'
<1>. USE DEF HistoryInvariant
<1>1. TypeOK'
  BY CallType, NoCallType DEF Rollback, Release, Goto, TypeOK, Statement, Outcome
<1>2. LockIsHeld'
  BY CallType, EventStoreAssumption DEF Rollback, Release, Goto, LockIsHeld, TypeOK, BatchProgress
<1>3. RevisionIsCurrent'
  BY ReadsUnchanged, CallType DEF Rollback, Release, Goto, RevisionIsCurrent, TypeOK
<1>4. BatchProgress'
  BY BatchIsSeq DEF Rollback, Release, Goto, BatchProgress, TypeOK
<1>5. OnlyDeclaredErrors'
  BY DEF Rollback, Release, Goto, OnlyDeclaredErrors, TypeOK
<1>6. UNCHANGED <<events, outbox>>
  BY DEF Rollback, Release, Goto
<1>. QED  BY <1>1, <1>2, <1>3, <1>4, <1>5, <1>6, TablesKept

LEMMA ConnectionLostKeeps ==
  ASSUME HistoryInvariant, NEW w \in Writer, ConnectionLost(w)
  PROVE  HistoryInvariant'
<1>. USE DEF HistoryInvariant
<1>1. TypeOK'
  BY CallType, NoCallType DEF ConnectionLost, Release, Goto, TypeOK, Statement, Outcome
<1>2. LockIsHeld'
  BY CallType, EventStoreAssumption DEF ConnectionLost, Release, Goto, LockIsHeld, TypeOK, BatchProgress
<1>3. RevisionIsCurrent'
  BY ReadsUnchanged, CallType DEF ConnectionLost, Release, Goto, RevisionIsCurrent, TypeOK
<1>4. BatchProgress'
  BY BatchIsSeq DEF ConnectionLost, Release, Goto, BatchProgress, TypeOK
<1>5. OnlyDeclaredErrors'
  BY DEF ConnectionLost, Release, Goto, OnlyDeclaredErrors, TypeOK
<1>6. UNCHANGED <<events, outbox>>
  BY DEF ConnectionLost, Release, Goto
<1>. QED  BY <1>1, <1>2, <1>3, <1>4, <1>5, <1>6, TablesKept

LEMMA ReturnKeeps ==
  ASSUME HistoryInvariant, NEW w \in Writer, Return(w)
  PROVE  HistoryInvariant'
<1>. USE DEF HistoryInvariant
<1>1. TypeOK'
  BY CallType, NoCallType DEF Return, Goto, TypeOK, Statement, Outcome
<1>2. LockIsHeld'
  BY CallType, EventStoreAssumption DEF Return, Goto, LockIsHeld, TypeOK, BatchProgress
<1>3. RevisionIsCurrent'
  BY ReadsUnchanged, CallType DEF Return, Goto, RevisionIsCurrent, TypeOK
<1>4. BatchProgress'
  BY BatchIsSeq DEF Return, Goto, BatchProgress, TypeOK
<1>5. OnlyDeclaredErrors'
  BY DEF Return, Goto, OnlyDeclaredErrors, TypeOK
<1>6. UNCHANGED <<events, outbox>>
  BY DEF Return, Goto
<1>. QED  BY <1>1, <1>2, <1>3, <1>4, <1>5, <1>6, TablesKept

LEMMA DeadlockAbortKeeps ==
  ASSUME HistoryInvariant, NEW w \in Writer, DeadlockAbort(w)
  PROVE  HistoryInvariant'
<1>. USE DEF HistoryInvariant
<1>1. pc[w] \in {"event", "lock"}
  BY DEF DeadlockAbort, Deadlocked, WaitsFor, WaitsForRow, WaitsForLock
<1>2. /\ UNCHANGED <<events, outbox, lock, call, eventsIn, outboxIn>>
      /\ pc' = [pc EXCEPT ![w] = "rollback"]
      /\ outcome' = [outcome EXCEPT ![w] = "failed"]
  BY DEF DeadlockAbort, Raise, Goto
<1>3. TypeOK'
  BY <1>2 DEF TypeOK, Statement, Outcome
<1>4. LockIsHeld'
  BY <1>1, <1>2 DEF LockIsHeld, TypeOK
<1>5. RevisionIsCurrent'
  BY <1>2, ReadsUnchanged, CallType DEF RevisionIsCurrent, TypeOK
<1>6. BatchProgress'
  BY <1>1, <1>2 DEF BatchProgress, TypeOK
<1>7. OnlyDeclaredErrors'
  BY <1>2 DEF OnlyDeclaredErrors, TypeOK
<1>. QED  BY <1>2, <1>3, <1>4, <1>5, <1>6, <1>7, TablesKept

\* What COMMIT does to the tables: the stream of the transaction grows from
\* its expected revision by the whole batch, the others stay as they are.
LEMMA CommittedRows ==
  ASSUME HistoryInvariant, NEW w \in Writer, Commit(w),
         NEW s \in Stream, s = call[w].stream,
         NEW r \in Nat \cup {-1}, r = call[w].expected,
         NEW n, n = Len(call[w].batch)
  PROVE  /\ InFlight(w) \subseteq Row
         /\ \A t \in Stream \ {s} : RowsOf(t)' = RowsOf(t)
         /\ RowsOf(s)' = RowsOf(s) \cup InFlight(w)
         /\ Revisions(s) = 0..r
         /\ Revisions(s)' = 0..(r + n)
         /\ n \in Nat \ {0}
         /\ eventsIn[w] = n
<1>. USE DEF HistoryInvariant
<1>1. /\ pc[w] = "commit"
      /\ events' = events \cup InFlight(w)
  BY DEF Commit
<1>2. n \in Nat \ {0} /\ eventsIn[w] = n
  BY <1>1, BatchIsSeq DEF BatchProgress
<1>3. InFlight(w) = {RowAt(w, i) : i \in 1..n}
  BY <1>2 DEF InFlight
<1>4. InFlight(w) \subseteq Row
  BY <1>1, <1>3, RowAtType
<1>5. \A row \in InFlight(w) : row.stream = s
  BY <1>3 DEF RowAt
<1>6. RowsOf(s)' = RowsOf(s) \cup InFlight(w)
  BY <1>1, <1>5 DEF RowsOf
<1>7. \A t \in Stream \ {s} : RowsOf(t)' = RowsOf(t)
  BY <1>1, <1>5 DEF RowsOf
<1>8. Revisions(s) = 0..r
  BY <1>1 DEF RevisionIsCurrent
<1>9. Revisions(s)' = 0..(r + n)
  <2>1. Revisions(s)' = Revisions(s) \cup {RowAt(w, i).revision : i \in 1..n}
    BY <1>3, <1>6 DEF Revisions
  <2>2. {RowAt(w, i).revision : i \in 1..n} = {r + i : i \in 1..n}
    BY DEF RowAt
  <2>3. 0..(r + n) = (0..r) \cup {r + i : i \in 1..n}
    <3>1. ASSUME NEW q \in (r + 1)..(r + n)
          PROVE  q \in {r + i : i \in 1..n}
      <4>1. q - r \in 1..n /\ q = r + (q - r)
        BY <1>2, CallType
      <4>. QED  BY <4>1
    <3>2. \A q \in {r + i : i \in 1..n} : q \in (r + 1)..(r + n)
      BY <1>2, CallType
    <3>3. 0..(r + n) = (0..r) \cup ((r + 1)..(r + n))
      BY <1>2, CallType
    <3>. QED  BY <3>1, <3>2, <3>3, <1>2, CallType
  <2>. QED  BY <1>8, <2>1, <2>2, <2>3
<1>. QED  BY <1>2, <1>4, <1>6, <1>7, <1>8, <1>9

LEMMA CommitKeeps ==
  ASSUME HistoryInvariant, NEW w \in Writer, Commit(w)
  PROVE  HistoryInvariant'
<1>. USE DEF HistoryInvariant
<1>. PICK s \in Stream, r \in Nat \cup {-1} :
       s = call[w].stream /\ r = call[w].expected
  BY CallType
<1>. PICK n : n = Len(call[w].batch)
  OBVIOUS
<1>0. /\ InFlight(w) \subseteq Row
      /\ \A t \in Stream \ {s} : RowsOf(t)' = RowsOf(t)
      /\ RowsOf(s)' = RowsOf(s) \cup InFlight(w)
      /\ Revisions(s) = 0..r
      /\ Revisions(s)' = 0..(r + n)
      /\ n \in Nat \ {0}
      /\ eventsIn[w] = n
  BY CommittedRows
<1>1. /\ pc[w] = "commit"
      /\ events' = events \cup InFlight(w)
      /\ outbox' = outbox \cup InFlightOutbox(w)
      /\ pc' = [pc EXCEPT ![w] = "done"]
      /\ UNCHANGED call
      /\ lock' = [t \in Stream |-> IF lock[t] = w THEN NoWriter ELSE lock[t]]
      /\ eventsIn' = [eventsIn EXCEPT ![w] = 0]
      /\ outboxIn' = [outboxIn EXCEPT ![w] = 0]
      /\ \E result \in {"appended", "failed"} :
           outcome' = [outcome EXCEPT ![w] = result]
  BY DEF Commit, Goto, Release
<1>2. /\ n \in Nat \ {0}
      /\ eventsIn[w] = n
      /\ outboxIn[w] = n
      /\ call[w].batch \in Batch
  BY <1>1, <1>0 DEF BatchProgress
<1>3. TypeOK'
  <2>1. InFlightOutbox(w) \subseteq EventId
    BY <1>2, BatchIsSeq DEF InFlightOutbox
  <2>. QED  BY <1>1, <2>1, <1>0 DEF TypeOK, Statement, Outcome
<1>4. LockIsHeld'
  BY <1>1, CallType, EventStoreAssumption DEF LockIsHeld, TypeOK
<1>5. RevisionIsCurrent'
  <2>. SUFFICES ASSUME NEW v \in Writer, pc'[v] \in {"event", "outbox", "commit"},
                       NEW u \in Stream, u = call[v].stream
                PROVE  Revisions(u)' = 0..call[v].expected
    BY <1>1, CallType DEF RevisionIsCurrent
  <2>1. v # w /\ pc[v] \in {"event", "outbox", "commit"}
    BY <1>1 DEF TypeOK
  <2>2. u # s
    BY <1>1, <2>1 DEF LockIsHeld
  <2>3. Revisions(u)' = Revisions(u)
    BY <2>2, CallType, <1>0 DEF Revisions
  <2>. QED  BY <2>1, <2>3 DEF RevisionIsCurrent
<1>6. BatchProgress'
  BY <1>1, <1>2 DEF BatchProgress, TypeOK
<1>7. OnlyDeclaredErrors'
  BY <1>1 DEF OnlyDeclaredErrors, TypeOK
<1>8. StreamsAreSegments'
  <2>. SUFFICES ASSUME NEW t \in Stream
                PROVE  /\ CurrentRevision(t)' \in Nat \cup {-1}
                       /\ Revisions(t)' = 0..CurrentRevision(t)'
    BY DEF StreamsAreSegments
  <2>1. CASE t = s
    <3>1. CurrentRevision(s)' = r + n
      BY <1>2, CallType, <1>0 DEF CurrentRevision
    <3>. QED  BY <2>1, <3>1, <1>2, CallType, <1>0
  <2>2. CASE t # s
    <3>1. Revisions(t)' = Revisions(t) /\ CurrentRevision(t)' = CurrentRevision(t)
      BY <2>2, <1>0 DEF Revisions, CurrentRevision
    <3>. QED  BY <3>1 DEF StreamsAreSegments
  <2>. QED  BY <2>1, <2>2
<1>9. HistoryIsContiguous'
  <2>. SUFFICES ASSUME NEW t \in Stream
                PROVE  /\ \A q \in Revisions(t)' : 0..q \subseteq Revisions(t)'
                       /\ \A a, b \in RowsOf(t)' : a.revision = b.revision => a = b
    BY DEF HistoryIsContiguous
  <2>1. \A q \in Revisions(t)' : 0..q \subseteq Revisions(t)'
    BY <1>8 DEF StreamsAreSegments
  <2>2. CASE t # s
    BY <2>1, <2>2, <1>0 DEF HistoryIsContiguous
  <2>3. CASE t = s
    <3>1. \A row \in RowsOf(s) : row.revision \in 0..r
      BY <2>3, <1>0 DEF Revisions
    <3>2. \A row \in InFlight(w) : \E i \in 1..n : row = RowAt(w, i) /\ row.revision = r + i
      BY <1>2 DEF InFlight, RowAt
    <3>3. ASSUME NEW a \in InFlight(w), NEW b \in InFlight(w), a.revision = b.revision
          PROVE  a = b
      <4>1. PICK i \in 1..n : a = RowAt(w, i) /\ a.revision = r + i
        BY <3>2
      <4>2. PICK j \in 1..n : b = RowAt(w, j) /\ b.revision = r + j
        BY <3>2
      <4>3. i = j
        BY <3>3, <4>1, <4>2, <1>2, CallType
      <4>. QED  BY <4>1, <4>2, <4>3
    <3>4. \A a \in RowsOf(s), b \in InFlight(w) : a.revision # b.revision
      BY <3>1, <3>2, <1>2, CallType
    <3>. QED  BY <2>1, <2>3, <3>3, <3>4, <1>0 DEF HistoryIsContiguous
  <2>. QED  BY <2>2, <2>3
<1>10. OutboxMatchesHistory'
  <2>1. InFlightOutbox(w) = {row.id : row \in InFlight(w)}
    <3>1. InFlight(w) = {RowAt(w, i) : i \in 1..n}
      BY <1>2 DEF InFlight
    <3>2. InFlightOutbox(w) = {RowAt(w, i).id : i \in 1..n}
      BY <1>2 DEF InFlightOutbox, RowAt
    <3>. QED  BY <3>1, <3>2
  <2>. QED  BY <1>1, <2>1 DEF OutboxMatchesHistory
<1>. QED  BY <1>3, <1>4, <1>5, <1>6, <1>7, <1>8, <1>9, <1>10

\* No step of a writer, no lost connection and no new call breaks the
\* invariant.
LEMMA NextKeepsHistory == HistoryInvariant /\ [Next]_vars => HistoryInvariant'
<1>. SUFFICES ASSUME HistoryInvariant, [Next]_vars PROVE HistoryInvariant'
  OBVIOUS
<1>1. CASE UNCHANGED vars
  <2>. USE <1>1 DEF vars, HistoryInvariant
  <2>1. TypeOK'
    BY DEF TypeOK
  <2>2. LockIsHeld' /\ BatchProgress' /\ OnlyDeclaredErrors'
    BY DEF LockIsHeld, BatchProgress, OnlyDeclaredErrors
  <2>3. RevisionIsCurrent'
    BY ReadsUnchanged, CallType DEF RevisionIsCurrent
  <2>. QED  BY <2>1, <2>2, <2>3, TablesKept
<1>2. ASSUME NEW w \in Writer, NEW s \in Stream, NEW r \in -1..(MaxLength - 1),
             NEW b \in Batch, Begin(w, s, r, b)
      PROVE  HistoryInvariant'
  BY <1>2, BeginKeeps
<1>3. ASSUME NEW w \in Writer, Statements(w)
      PROVE  HistoryInvariant'
  BY <1>3, LockStreamKeeps, ReadRevisionKeeps, InsertEventKeeps, InsertOutboxKeeps,
     CommitKeeps, RollbackKeeps, DeadlockAbortKeeps, ReturnKeeps DEF Statements
<1>4. ASSUME NEW w \in Writer, ConnectionLost(w)
      PROVE  HistoryInvariant'
  BY <1>4, ConnectionLostKeeps
<1>. QED  BY <1>1, <1>2, <1>3, <1>4 DEF Next

THEOREM HistoryInvariantHolds == Spec => []HistoryInvariant
  BY InitHistory, NextKeepsHistory, PTL DEF Spec

\* Type correctness.
THEOREM TypeCorrectness == Spec => []TypeOK
  BY HistoryInvariantHolds, PTL DEF HistoryInvariant

\* Concurrent appends leave no gap and no fork in any stream.
THEOREM ContiguousHistory == Spec => []HistoryIsContiguous
  BY HistoryInvariantHolds, PTL DEF HistoryInvariant

\* Events and outbox records are stored together or not at all.
THEOREM AtomicOutbox == Spec => []OutboxMatchesHistory
  BY HistoryInvariantHolds, PTL DEF HistoryInvariant

\* The raw revision constraint is never what stops an append.
THEOREM DeclaredErrors == Spec => []OnlyDeclaredErrors
  BY HistoryInvariantHolds, PTL DEF HistoryInvariant

-----------------------------------------------------------------------------
\* Success.

\* Only the end of a call that was committed answers "appended".
AppendedProgress ==
  \A w \in Writer :
    outcome[w] = "appended" =>
      /\ pc[w] = "done"
      /\ \A i \in 1..Len(call[w].batch) : RowAt(w, i) \in events

LEMMA CommitAnswers ==
  ASSUME HistoryInvariant, AppendedProgress, NEW w \in Writer, Commit(w)
  PROVE  AppendedProgress'
<1>1. /\ events' = events \cup InFlight(w) /\ call' = call
      /\ pc' = [pc EXCEPT ![w] = "done"]
      /\ \A v \in Writer : v # w => outcome'[v] = outcome[v]
  BY DEF Commit, Goto, HistoryInvariant, TypeOK
<1>2. \A v \in Writer : \A i : RowAt(v, i)' = RowAt(v, i)
  BY <1>1 DEF RowAt
<1>3. \A i \in 1..Len(call[w].batch) : RowAt(w, i) \in InFlight(w)
  BY DEF Commit, HistoryInvariant, BatchProgress, InFlight
<1>. QED  BY <1>1, <1>2, <1>3 DEF AppendedProgress, HistoryInvariant, TypeOK

\* The other steps of a call give no such answer and delete no row.
LEMMA OthersAnswer ==
  ASSUME HistoryInvariant, AppendedProgress, NEW w \in Writer,
         pc[w] # "done", events' = events,
         \A v \in Writer : v # w => pc'[v] = pc[v] /\ call'[v] = call[v] /\ outcome'[v] = outcome[v],
         outcome'[w] # "appended" \/ outcome'[w] = outcome[w]
  PROVE  AppendedProgress'
<1>1. \A v \in Writer : \A i : v # w => RowAt(v, i)' = RowAt(v, i)
  BY DEF RowAt
<1>. QED  BY <1>1 DEF AppendedProgress

LEMMA AppendedStep ==
  HistoryInvariant /\ AppendedProgress /\ [Next]_vars => AppendedProgress'
<1>. SUFFICES ASSUME HistoryInvariant, AppendedProgress, [Next]_vars PROVE AppendedProgress'
  OBVIOUS
<1>1. ASSUME NEW w \in Writer, NEW s \in Stream, NEW r \in -1..(MaxLength - 1),
             NEW b \in Batch, Begin(w, s, r, b)
      PROVE  AppendedProgress'
  BY <1>1, OthersAnswer DEF Begin, Goto, HistoryInvariant, TypeOK
<1>2. ASSUME NEW w \in Writer, Statements(w)
      PROVE  AppendedProgress'
  <2>. USE DEF Goto, Raise, HistoryInvariant, TypeOK
  <2>1. CASE LockStream(w)
    BY <2>1, OthersAnswer DEF LockStream
  <2>2. CASE ReadRevision(w)
    BY <2>2, OthersAnswer DEF ReadRevision
  <2>3. CASE InsertEvent(w)
    BY <2>3, OthersAnswer DEF InsertEvent
  <2>4. CASE InsertOutbox(w)
    BY <2>4, OthersAnswer DEF InsertOutbox
  <2>5. CASE Commit(w)
    BY <2>5, CommitAnswers
  <2>6. CASE Rollback(w)
    BY <2>6, OthersAnswer DEF Rollback
  <2>7. CASE DeadlockAbort(w)
    <3>1. pc[w] # "done"
      BY <2>7 DEF DeadlockAbort, Deadlocked, WaitsFor, WaitsForRow, WaitsForLock
    <3>. QED  BY <2>7, <3>1, OthersAnswer DEF DeadlockAbort
  <2>8. CASE Return(w)
    <3>1. /\ outcome'[w] = "pending" /\ events' = events
          /\ \A v \in Writer : v # w => /\ pc'[v] = pc[v] /\ call'[v] = call[v]
                                        /\ outcome'[v] = outcome[v]
      BY <2>8 DEF Return
    <3>2. \A v \in Writer : \A i : v # w => RowAt(v, i)' = RowAt(v, i)
      BY <3>1 DEF RowAt
    <3>. SUFFICES ASSUME NEW v \in Writer, outcome'[v] = "appended"
                  PROVE  /\ pc'[v] = "done"
                         /\ \A i \in 1..Len(call'[v].batch) : RowAt(v, i)' \in events'
      BY DEF AppendedProgress
    <3>3. v # w
      BY <3>1
    <3>. QED  BY <3>1, <3>2, <3>3 DEF AppendedProgress
  <2>. QED  BY <1>2, <2>1, <2>2, <2>3, <2>4, <2>5, <2>6, <2>7, <2>8 DEF Statements
<1>3. ASSUME NEW w \in Writer, ConnectionLost(w)
      PROVE  AppendedProgress'
  BY <1>3, OthersAnswer DEF ConnectionLost, Goto, HistoryInvariant, TypeOK
<1>4. CASE UNCHANGED vars
  BY <1>4 DEF vars, AppendedProgress, RowAt
<1>. QED  BY <1>1, <1>2, <1>3, <1>4 DEF Next

\* A call that answers success has stored every event of its batch, at the
\* revision it was asked for.
THEOREM StoredAppends == Spec => []AppendedIsStored
<1>1. Init => AppendedProgress
  BY DEF Init, AppendedProgress
<1>2. HistoryInvariant /\ AppendedProgress => AppendedIsStored
  <2>. SUFFICES ASSUME HistoryInvariant, AppendedProgress, NEW w \in Writer,
                       outcome[w] = "appended", NEW i \in DOMAIN call[w].batch
                PROVE  RowAt(w, i) \in events
    BY DEF AppendedIsStored
  <2>1. call[w].batch \in Batch
    BY DEF AppendedProgress, HistoryInvariant, BatchProgress
  <2>2. i \in 1..Len(call[w].batch)
    BY <2>1, BatchIsSeq
  <2>. QED  BY <2>2 DEF AppendedProgress
<1>. QED  BY HistoryInvariantHolds, AppendedStep, <1>1, <1>2, PTL DEF Spec

-----------------------------------------------------------------------------
\* Event identities.

LEMMA InitIds == Init => IdsAreUnique
  BY DEF Init, IdsAreUnique

\* Ids stay unique when a step adds no row: each writer keeps its call and
\* its rows in flight, or gives all of them up.
LEMMA IdsKept ==
  ASSUME HistoryInvariant, IdsAreUnique, UNCHANGED events,
         \A v \in Writer :
           \/ eventsIn'[v] = 0
           \/ eventsIn'[v] = eventsIn[v] /\ call'[v] = call[v]
  PROVE  IdsAreUnique'
  BY DEF IdsAreUnique

LEMMA InsertKeepsIds ==
  ASSUME HistoryInvariant, IdsAreUnique, NEW w \in Writer, InsertEvent(w)
  PROVE  IdsAreUnique'
<1>. USE DEF HistoryInvariant
<1>. DEFINE k == eventsIn[w] + 1
            id == call[w].batch[k]
<1>1. CASE eventsIn' = eventsIn
  BY <1>1, IdsKept DEF InsertEvent, Raise
<1>2. CASE eventsIn' # eventsIn
  <2>1. /\ UNCHANGED <<events, call>>
        /\ eventsIn' = [eventsIn EXCEPT ![w] = k]
        /\ ~\E v \in Writer : WaitsForRow(w, v)
        /\ \A row \in events \cup InFlight(w) : ~SameId(row, NextRow(w))
        /\ pc[w] = "event"
        /\ eventsIn[w] \in Nat
    BY <1>2 DEF InsertEvent, Raise, Clash, TypeOK
  <2>2. NextRow(w).id = id
    BY DEF NextRow, RowAt
  <2>3. \A row \in events : row.id # id
    BY <2>1, <2>2 DEF SameId
  <2>4. \A i \in 1..eventsIn[w] : call[w].batch[i] # id
    <3>1. \A i \in 1..eventsIn[w] : RowAt(w, i) \in InFlight(w) /\ RowAt(w, i).id = call[w].batch[i]
      BY DEF InFlight, RowAt
    <3>. QED  BY <2>1, <2>2, <3>1 DEF SameId
  <2>5. \A v \in Writer \ {w} : \A j \in 1..eventsIn[v] : call[v].batch[j] # id
    <3>1. \A v \in Writer : \A j \in 1..eventsIn[v] :
            RowAt(v, j) \in InFlight(v) /\ RowAt(v, j).id = call[v].batch[j]
      BY DEF InFlight, RowAt
    <3>2. \A v \in Writer \ {w} : \A row \in InFlight(v) : row.id # id
      BY <2>1, <2>2 DEF WaitsForRow, Clash, SameId
    <3>. QED  BY <3>1, <3>2
  <2>6. /\ \A i \in 1..k : i = k \/ i \in 1..eventsIn[w]
        /\ eventsIn'[w] = k
        /\ \A v \in Writer \ {w} : eventsIn'[v] = eventsIn[v]
    BY <2>1 DEF TypeOK
  <2>7. \A i, j \in 1..k : call[w].batch[i] = call[w].batch[j] => i = j
    BY <2>4, <2>6 DEF IdsAreUnique
  <2>8. \A i \in 1..k : \A row \in events : row.id # call[w].batch[i]
    BY <2>3, <2>6 DEF IdsAreUnique
  <2>9. \A i \in 1..k : \A v \in Writer \ {w} : \A j \in 1..eventsIn[v] :
          call[v].batch[j] # call[w].batch[i]
    BY <2>5, <2>6 DEF IdsAreUnique
  <2>. QED  BY <2>1, <2>6, <2>7, <2>8, <2>9 DEF IdsAreUnique
<1>. QED  BY <1>1, <1>2

LEMMA CommitKeepsIds ==
  ASSUME HistoryInvariant, IdsAreUnique, NEW w \in Writer, Commit(w)
  PROVE  IdsAreUnique'
<1>. USE DEF HistoryInvariant
<1>1. /\ events' = events \cup InFlight(w)
      /\ eventsIn' = [eventsIn EXCEPT ![w] = 0]
      /\ UNCHANGED call
  BY DEF Commit, Release
<1>2. \A row \in InFlight(w) : \E i \in 1..eventsIn[w] :
        row = RowAt(w, i) /\ row.id = call[w].batch[i]
  BY DEF InFlight, RowAt
<1>3. \A a, b \in events' : a.id = b.id => a = b
  BY <1>1, <1>2 DEF IdsAreUnique
<1>4. \A v \in Writer \ {w} : eventsIn'[v] = eventsIn[v]
  BY <1>1 DEF TypeOK
<1>5. eventsIn'[w] = 0
  BY <1>1 DEF TypeOK
<1>6. \A v \in Writer \ {w} : \A i \in 1..eventsIn[v] : \A row \in events' :
        row.id # call[v].batch[i]
  BY <1>1, <1>2 DEF IdsAreUnique
<1>. QED  BY <1>1, <1>3, <1>4, <1>5, <1>6 DEF IdsAreUnique

LEMMA NextKeepsIds ==
  StoreInvariant /\ [Next]_vars => IdsAreUnique'
<1>. SUFFICES ASSUME HistoryInvariant, IdsAreUnique, [Next]_vars PROVE IdsAreUnique'
  BY DEF StoreInvariant
<1>. USE DEF HistoryInvariant
<1>1. CASE UNCHANGED vars
  BY <1>1, IdsKept DEF vars
<1>2. ASSUME NEW w \in Writer, NEW s \in Stream, NEW r \in -1..(MaxLength - 1),
             NEW b \in Batch, Begin(w, s, r, b)
      PROVE  IdsAreUnique'
  BY <1>2, IdsKept DEF Begin, BatchProgress, TypeOK
<1>3. ASSUME NEW w \in Writer, Return(w)
      PROVE  IdsAreUnique'
  BY <1>3, IdsKept DEF Return, BatchProgress, TypeOK
<1>4. ASSUME NEW w \in Writer, Rollback(w) \/ ConnectionLost(w)
      PROVE  IdsAreUnique'
  BY <1>4, IdsKept DEF Rollback, ConnectionLost, Release, TypeOK
<1>5. ASSUME NEW w \in Writer, LockStream(w) \/ ReadRevision(w) \/ InsertOutbox(w)
                               \/ DeadlockAbort(w)
      PROVE  IdsAreUnique'
  BY <1>5, IdsKept DEF LockStream, ReadRevision, InsertOutbox, DeadlockAbort, Raise, TypeOK
<1>. QED  BY <1>1, <1>2, <1>3, <1>4, <1>5, InsertKeepsIds, CommitKeepsIds
          DEF Next, Statements

THEOREM StoreInvariantHolds == Spec => []StoreInvariant
<1>1. Init => StoreInvariant
  BY InitHistory, InitIds DEF StoreInvariant
<1>2. StoreInvariant /\ [Next]_vars => StoreInvariant'
  BY NextKeepsHistory, NextKeepsIds DEF StoreInvariant
<1>. QED  BY <1>1, <1>2, PTL DEF Spec

-----------------------------------------------------------------------------
\* The transactions implement the atomic log.

\* In a set of rows that holds each revision once, the row of a revision is
\* the one CHOOSE picks.
LEMMA RowOfRevision ==
  ASSUME NEW R, \A a, b \in R : a.revision = b.revision => a = b,
         NEW row \in R, row.revision \in Nat, \A a \in R : a.revision \in Nat
  PROVE  (CHOOSE a \in R : a.revision + 1 = row.revision + 1) = row
<1>1. \A a \in R : a.revision + 1 = row.revision + 1 => a = row
  OBVIOUS
<1>. QED  BY <1>1

\* The ids the log knows are those of the committed events.
LEMMA LogKnows ==
  ASSUME HistoryInvariant
  PROVE  Log!Known \subseteq {row.id : row \in events}
<1>. USE DEF HistoryInvariant
<1>. SUFFICES ASSUME NEW s \in Stream, NEW i \in 1..(CurrentRevision(s) + 1)
              PROVE  HistoryOf(s)[i] \in {row.id : row \in events}
  BY DEF Log!Known, Log!Range, HistoryOf
<1>1. i - 1 \in Revisions(s)
  BY DEF StreamsAreSegments
<1>2. PICK row \in RowsOf(s) : row.revision = i - 1
  BY <1>1 DEF Revisions
<1>3. (CHOOSE a \in RowsOf(s) : a.revision + 1 = i) \in RowsOf(s)
  BY <1>2, i - 1 + 1 = i
<1>. QED  BY <1>3 DEF HistoryOf, RowsOf

\* A step that leaves the tables alone leaves the log alone.
LEMMA LogUnchanged ==
  ASSUME UNCHANGED <<events, outbox>>
  PROVE  UNCHANGED Log!logVars
  BY DEF Log!logVars, HistoryOf, CurrentRevision, Revisions, RowsOf

\* A function from an initial segment is a sequence.
LEMMA SegmentIsSeq ==
  ASSUME NEW T, NEW k \in Nat, NEW f \in [1..k -> T]
  PROVE  f \in Seq(T) /\ Len(f) = k
  OBVIOUS

\* A commit is an append of the whole batch at the expected revision.
LEMMA CommitAppends ==
  ASSUME StoreInvariant, StoreInvariant', NEW w \in Writer, Commit(w)
  PROVE  Log!AppendBatch(call[w].stream, call[w].expected, call[w].batch)
<1>. USE DEF StoreInvariant, HistoryInvariant
<1>. PICK s \in Stream, r \in Nat \cup {-1} :
       s = call[w].stream /\ r = call[w].expected
  BY CallType
<1>. PICK n : n = Len(call[w].batch)
  OBVIOUS
<1>. PICK b \in Batch : b = call[w].batch
  BY DEF Commit, BatchProgress
<1>0. /\ InFlight(w) \subseteq Row
      /\ \A t \in Stream \ {s} : RowsOf(t)' = RowsOf(t)
      /\ RowsOf(s)' = RowsOf(s) \cup InFlight(w)
      /\ Revisions(s) = 0..r
      /\ Revisions(s)' = 0..(r + n)
      /\ n \in Nat \ {0}
      /\ eventsIn[w] = n
  BY CommittedRows
<1>1. DOMAIN b = 1..n /\ Len(b) = n
  BY BatchIsSeq
<1>2. CurrentRevision(s) = r
  BY <1>0 DEF StreamsAreSegments, CurrentRevision
<1>3. CurrentRevision(s)' = r + n
  BY <1>0 DEF StreamsAreSegments, CurrentRevision
<1>4. r = Log!Revision(s)
  <2>1. HistoryOf(s) = [i \in 1..(r + 1) |->
                          (CHOOSE row \in RowsOf(s) : row.revision + 1 = i).id]
    BY <1>2 DEF HistoryOf
  <2>2. Len(HistoryOf(s)) = r + 1
    BY <2>1
  <2>. QED  BY <2>2 DEF Log!Revision
<1>5. Log!IsInjective(b)
  BY <1>0, <1>1 DEF Log!IsInjective, IdsAreUnique
<1>6. Log!Range(b) \cap Log!Known = {}
  BY <1>0, <1>1, LogKnows DEF Log!Range, IdsAreUnique
<1>7. outbox' = outbox \cup Log!Range(b)
  <2>1. outboxIn[w] = n
    BY <1>0 DEF Commit, BatchProgress
  <2>2. InFlightOutbox(w) = {b[i] : i \in 1..n}
    BY <2>1 DEF InFlightOutbox
  <2>. QED  BY <1>1, <2>2 DEF Commit, Log!Range
<1>8. \A t \in Stream \ {s} : HistoryOf(t)' = HistoryOf(t)
  <2>. TAKE t \in Stream \ {s}
  <2>1. RowsOf(t)' = RowsOf(t)
    BY <1>0
  <2>2. CurrentRevision(t)' = CurrentRevision(t)
    BY <2>1 DEF CurrentRevision, Revisions
  <2>. QED  BY <2>1, <2>2 DEF HistoryOf
<1>9. HistoryOf(s)' = HistoryOf(s) \o b
  <2>1. HistoryOf(s) = [i \in 1..(r + 1) |->
                          (CHOOSE row \in RowsOf(s) : row.revision + 1 = i).id]
    BY <1>2 DEF HistoryOf
  <2>2. HistoryOf(s)' = [i \in 1..(r + n + 1) |->
                          (CHOOSE row \in RowsOf(s)' : row.revision + 1 = i).id]
    BY <1>3 DEF HistoryOf
  <2>3. b \in [1..n -> EventId]
    BY <1>0, <1>1, BatchIsSeq DEF Batch
  <2>4. /\ \A x, y \in RowsOf(s) : x.revision = y.revision => x = y
        /\ \A x, y \in RowsOf(s)' : x.revision = y.revision => x = y
        /\ \A x \in RowsOf(s) : x.revision \in Nat
        /\ \A x \in RowsOf(s)' : x.revision \in Nat
    BY DEF HistoryIsContiguous, TypeOK, RowsOf, Row
  <2>5. ASSUME NEW i \in 1..(r + 1)
        PROVE  HistoryOf(s)'[i] = HistoryOf(s)[i] /\ HistoryOf(s)[i] \in EventId
    <3>1. i - 1 \in 0..r
      OBVIOUS
    <3>2. PICK row \in RowsOf(s) : row.revision = i - 1
      BY <1>0, <3>1 DEF Revisions
    <3>3. row.revision + 1 = i /\ row \in RowsOf(s)'
      BY <3>2, <1>0
    <3>4. (CHOOSE x \in RowsOf(s) : x.revision + 1 = i) = row
      BY <2>4, <3>2, <3>3
    <3>5. (CHOOSE x \in RowsOf(s)' : x.revision + 1 = i) = row
      BY <2>4, <3>2, <3>3
    <3>6. row.id \in EventId
      BY DEF TypeOK, RowsOf, Row
    <3>. QED  BY <1>0, <2>1, <2>2, <3>4, <3>5, <3>6
  <2>6. ASSUME NEW i \in (r + 2)..(r + n + 1)
        PROVE  HistoryOf(s)'[i] = b[i - (r + 1)]
    <3>0. r \in Int /\ n \in Nat /\ i \in Int
      BY <1>0
    <3>1. PICK k \in 1..n : i - (r + 1) = k /\ r + k + 1 = i
      BY ONLY <3>0, i \in (r + 2)..(r + n + 1)
    <3>2. RowAt(w, k) \in RowsOf(s)' /\ RowAt(w, k).revision + 1 = i
      BY <1>0, <3>1 DEF InFlight, RowAt
    <3>3. (CHOOSE x \in RowsOf(s)' : x.revision + 1 = i) = RowAt(w, k)
      BY <2>4, <3>2
    <3>4. RowAt(w, k).id = b[k]
      BY DEF RowAt
    <3>5. i \in 1..(r + n + 1)
      BY ONLY <3>0, i \in (r + 2)..(r + n + 1), r \in Nat \cup {-1}
    <3>6. HistoryOf(s)'[i] = (CHOOSE x \in RowsOf(s)' : x.revision + 1 = i).id
      BY <2>2, <3>5
    <3>. QED  BY <3>1, <3>3, <3>4, <3>6
  <2>7. PICK m : m = r + 1
    OBVIOUS
  <2>8. m \in Nat /\ n \in Nat /\ r + n + 1 = m + n /\ r + 2 = m + 1
    BY ONLY <2>7, <1>0, r \in Nat \cup {-1}
  <2>9. PICK h : h = HistoryOf(s)
    OBVIOUS
  <2>10. PICK g : g = HistoryOf(s)'
    OBVIOUS
  <2>11. \A i \in 1..m : g[i] = h[i]
    BY ONLY <2>5, <2>7, <2>9, <2>10
  <2>12. h \in [1..m -> EventId] /\ g \in [1..(m + n) -> EventId]
    <3>1. \A i \in 1..m : h[i] \in EventId
      BY ONLY <2>5, <2>7, <2>9
    <3>2. \A i \in (m + 1)..(m + n) : g[i] = b[i - m] /\ b[i - m] \in EventId
      BY ONLY <2>6, <2>7, <2>8, <2>10, <2>3
    <3>3. \A i \in 1..(m + n) : g[i] \in EventId
      BY ONLY <3>1, <3>2, <2>8, <2>11
    <3>. QED  BY ONLY <2>1, <2>2, <2>7, <2>8, <2>9, <2>10, <3>1, <3>3
  <2>13. \A i \in (m + 1)..(m + n) : g[i] = b[i - m]
    BY ONLY <2>6, <2>7, <2>8, <2>10
  <2>14. h \in Seq(EventId) /\ Len(h) = m
    BY ONLY <2>8, <2>12, SegmentIsSeq
  <2>15. b \in Seq(EventId) /\ Len(b) = n
    BY ONLY <2>3, <2>8, SegmentIsSeq
  <2>16. g \in Seq(EventId) /\ Len(g) = m + n
    BY ONLY <2>8, <2>12, m + n \in Nat, SegmentIsSeq
  <2>17. PICK c : c = h \o b
    OBVIOUS
  <2>18. /\ c \in Seq(EventId) /\ Len(c) = m + n
         /\ \A i \in 1..(m + n) : c[i] = IF i <= m THEN h[i] ELSE b[i - m]
    BY ONLY <2>14, <2>15, <2>17, ConcatProperties
  <2>19. \A i \in 1..(m + n) : g[i] = c[i]
    BY ONLY <2>8, <2>11, <2>13, <2>18
  <2>20. g = c
    BY ONLY <2>16, <2>18, <2>19, SeqEqual
  <2>. QED  BY ONLY <2>9, <2>10, <2>17, <2>20
<1>10. [t \in Stream |-> HistoryOf(t)]' =
         [[t \in Stream |-> HistoryOf(t)] EXCEPT ![s] = @ \o b]
  BY <1>8, <1>9
<1>. QED  BY <1>4, <1>5, <1>6, <1>7, <1>10 DEF Log!AppendBatch

LEMMA InitIsLogInit == Init => Log!LogInit
<1>. SUFFICES ASSUME Init PROVE Log!LogInit
  OBVIOUS
<1>1. \A s \in Stream : CurrentRevision(s) = -1
  BY DEF Init, CurrentRevision, Revisions, RowsOf
<1>2. \A s \in Stream : HistoryOf(s) = <<>>
  BY <1>1, 1..(-1 + 1) = {} DEF HistoryOf
<1>. QED  BY <1>2 DEF Log!LogInit, Init

LEMMA NextIsLogNext ==
  StoreInvariant /\ StoreInvariant' /\ [Next]_vars => [Log!LogNext]_(Log!logVars)
<1>. SUFFICES ASSUME StoreInvariant, StoreInvariant', [Next]_vars
              PROVE  Log!LogNext \/ UNCHANGED Log!logVars
  OBVIOUS
<1>1. ASSUME NEW w \in Writer, Commit(w)
      PROVE  Log!LogNext
  <2>1. Log!AppendBatch(call[w].stream, call[w].expected, call[w].batch)
    BY <1>1, CommitAppends
  <2>2. /\ call[w].stream \in Stream
        /\ call[w].batch \in Log!Batches
        /\ call[w].expected = Log!Revision(call[w].stream)
    BY <1>1, <2>1, CallType
       DEF StoreInvariant, HistoryInvariant, Commit, BatchProgress, Batch,
           Log!Batches, Log!AppendBatch
  <2>. QED  BY <2>1, <2>2 DEF Log!LogNext
<1>2. ASSUME NEW w \in Writer,
             \/ LockStream(w) \/ ReadRevision(w) \/ InsertEvent(w) \/ InsertOutbox(w)
             \/ Rollback(w) \/ DeadlockAbort(w) \/ Return(w) \/ ConnectionLost(w)
      PROVE  UNCHANGED <<events, outbox>>
  BY <1>2 DEF LockStream, ReadRevision, InsertEvent, InsertOutbox, Rollback,
              DeadlockAbort, Return, ConnectionLost
<1>3. ASSUME NEW w \in Writer, NEW s \in Stream, NEW r, NEW b \in Batch, Begin(w, s, r, b)
      PROVE  UNCHANGED <<events, outbox>>
  BY <1>3 DEF Begin
<1>4. CASE UNCHANGED vars
  BY <1>4, LogUnchanged DEF vars
<1>. QED  BY <1>1, <1>2, <1>3, <1>4, LogUnchanged DEF Next, Statements

\* Every behaviour of the transactions is one of the atomic log.
THEOREM Refinement == Spec => ImplementsEventLog
<1>1. Init => Log!LogInit
  BY InitIsLogInit
<1>2. StoreInvariant /\ StoreInvariant' /\ [Next]_vars => [Log!LogNext]_(Log!logVars)
  BY NextIsLogNext
<1>. QED  BY <1>1, <1>2, StoreInvariantHolds, PTL DEF Spec, ImplementsEventLog, Log!LogSpec
=============================================================================
