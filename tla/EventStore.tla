----------------------------- MODULE EventStore -----------------------------
(***************************************************************************)
(* PostgresEventStore.append, statement by statement.  Every writer is a   *)
(* pooled connection that runs one append at a time as one READ COMMITTED  *)
(* transaction: lock the stream, read its revision, compare, insert the    *)
(* events and their outbox rows one by one, commit.  Writers interleave    *)
(* between statements, a connection can be lost at any of them, and the    *)
(* acknowledgement of a commit can be lost after it took effect.           *)
(*                                                                         *)
(* Of PostgreSQL the model keeps: transaction-scoped advisory locks,       *)
(* unique constraints (an INSERT whose key is held by a transaction in     *)
(* flight waits for it), rows invisible to others until COMMIT, and the    *)
(* deadlock detector.                                                      *)
(***************************************************************************)
EXTENDS Integers, Sequences, FiniteSets

CONSTANTS Writer,    \* pooled connections that may run append
          NoWriter,  \* the holder of a free lock
          Stream,    \* stream identities
          EventId,   \* event identities callers may use
          MaxBatch,  \* bound: longest batch of one append
          MaxLength  \* bound: longest stream a caller expects to append to

ASSUME EventStoreAssumption ==
  /\ NoWriter \notin Writer
  /\ Stream # {}
  /\ MaxBatch \in Nat \ {0}
  /\ MaxLength \in Nat

VARIABLES events,    \* committed rows of event_store_events
          outbox,    \* event ids of the committed rows of event_store_outbox
          lock,      \* holder of each stream's advisory lock
          pc,        \* the statement each writer runs next
          call,      \* the arguments of each writer's append
          eventsIn,  \* event rows the transaction has inserted
          outboxIn,  \* outbox rows the transaction has inserted
          outcome    \* how the writer's append ended

vars == <<events, outbox, lock, pc, call, eventsIn, outboxIn, outcome>>

-----------------------------------------------------------------------------
Row == [id : EventId, stream : Stream, revision : Nat]

Batch == UNION {[1..n -> EventId] : n \in 1..MaxBatch}

Call == [stream : Stream, expected : Nat \cup {-1}, batch : Batch \cup {<<>>}]

NoCall == [stream |-> CHOOSE s \in Stream : TRUE, expected |-> -1, batch |-> <<>>]

Statement == {"idle", "lock", "read", "event", "outbox", "commit", "rollback", "done"}

\* Pending: the call runs or has not begun.  Declared errors are Concurrency
\* and Duplicate; Constraint is a violation of events_stream_revision_unique,
\* which append lets through as a raw database error; Failed is a connection
\* error or a deadlock victim.
Outcome == {"pending", "appended", "concurrency", "duplicate", "constraint", "failed"}

TypeOK ==
  /\ events \in SUBSET Row
  /\ outbox \in SUBSET EventId
  /\ lock \in [Stream -> Writer \cup {NoWriter}]
  /\ pc \in [Writer -> Statement]
  /\ call \in [Writer -> Call]
  /\ eventsIn \in [Writer -> Nat]
  /\ outboxIn \in [Writer -> Nat]
  /\ outcome \in [Writer -> Outcome]

Init ==
  /\ events = {}
  /\ outbox = {}
  /\ lock = [s \in Stream |-> NoWriter]
  /\ pc = [w \in Writer |-> "idle"]
  /\ call = [w \in Writer |-> NoCall]
  /\ eventsIn = [w \in Writer |-> 0]
  /\ outboxIn = [w \in Writer |-> 0]
  /\ outcome = [w \in Writer |-> "pending"]

-----------------------------------------------------------------------------
\* What a writer sees of the tables.

RowsOf(s) == {row \in events : row.stream = s}

Revisions(s) == {row.revision : row \in RowsOf(s)}

\* SELECT COALESCE(MAX(aggregate_revision), -1) over the committed rows.
CurrentRevision(s) ==
  CHOOSE r \in Revisions(s) \cup {-1} : \A q \in Revisions(s) : q <= r

\* The i-th event of the writer's batch as a row, numbered from the expected
\* revision (the comparison has shown it to be the actual one).
RowAt(w, i) ==
  [id |-> call[w].batch[i], stream |-> call[w].stream,
   revision |-> call[w].expected + i]

\* The uncommitted rows of a writer's transaction.
InFlight(w) == {RowAt(w, i) : i \in 1..eventsIn[w]}

\* Mutant: one outbox row for the whole batch.
FirstOutboxRow(w) == {call[w].batch[1]}

InFlightOutbox(w) == {call[w].batch[i] : i \in 1..outboxIn[w]}

NextRow(w) == RowAt(w, eventsIn[w] + 1)

\* Mutant: no UNIQUE (event_id).
IdsNotUnique(a, b) == FALSE

SameId(a, b) == a.id = b.id
SameRevision(a, b) == a.stream = b.stream /\ a.revision = b.revision
Clash(a, b) == SameId(a, b) \/ SameRevision(a, b)

\* An INSERT waits while another transaction holds one of its unique keys.
WaitsForRow(w, v) ==
  /\ pc[w] = "event"
  /\ w # v
  /\ \E row \in InFlight(v) : Clash(row, NextRow(w))

WaitsForLock(w, v) == pc[w] = "lock" /\ lock[call[w].stream] = v

WaitsFor(w, v) == WaitsForRow(w, v) \/ WaitsForLock(w, v)

\* A transaction waits for a single key, so a set of writers in which each
\* waits for one of the set and is waited for by one of the set is made of
\* cycles.
Deadlocked(w) ==
  \E S \in SUBSET Writer :
    /\ w \in S
    /\ \A v \in S : /\ \E u \in S : WaitsFor(v, u)
                    /\ \E u \in S : WaitsFor(u, v)

-----------------------------------------------------------------------------
\* Mutant: a session-scoped lock, which outlives the transaction.
KeepLock(w) ==
  /\ eventsIn' = [eventsIn EXCEPT ![w] = 0]
  /\ outboxIn' = [outboxIn EXCEPT ![w] = 0]
  /\ UNCHANGED lock

\* The end of a transaction releases its advisory lock and forgets its rows.
Release(w) ==
  /\ lock' = [s \in Stream |-> IF lock[s] = w THEN NoWriter ELSE lock[s]]
  /\ eventsIn' = [eventsIn EXCEPT ![w] = 0]
  /\ outboxIn' = [outboxIn EXCEPT ![w] = 0]

Goto(w, statement) == pc' = [pc EXCEPT ![w] = statement]

\* Leave the transaction with an error: ROLLBACK is the next statement.
Raise(w, error) ==
  /\ Goto(w, "rollback")
  /\ outcome' = [outcome EXCEPT ![w] = error]
  /\ UNCHANGED <<eventsIn, outboxIn>>

\* append is called: take a connection and BEGIN.  An empty batch is refused
\* before this.
Begin(w, s, expected, batch) ==
  /\ pc[w] = "idle"
  /\ call' = [call EXCEPT ![w] = [stream |-> s, expected |-> expected, batch |-> batch]]
  /\ Goto(w, "lock")
  /\ UNCHANGED <<events, outbox, lock, eventsIn, outboxIn, outcome>>

\* Mutant: the stream is not locked.
NoLock(s) == TRUE

LockIsFree(s) == lock[s] = NoWriter

\* SELECT pg_advisory_xact_lock(...): waits until the stream is free.
LockStream(w) ==
  /\ pc[w] = "lock"
  /\ LockIsFree(call[w].stream)
  /\ lock' = [lock EXCEPT ![call[w].stream] = w]
  /\ Goto(w, "read")
  /\ UNCHANGED <<events, outbox, call, eventsIn, outboxIn, outcome>>

\* Mutant: only a stale expectation is refused.
ExpectedIsNotStale(w) == call[w].expected >= CurrentRevision(call[w].stream)

ExpectedIsCurrent(w) == call[w].expected = CurrentRevision(call[w].stream)

\* Read the revision under the lock and compare it with the expected one.
ReadRevision(w) ==
  /\ pc[w] = "read"
  /\ \/ /\ ExpectedIsCurrent(w)
        /\ Goto(w, "event")
        /\ UNCHANGED <<eventsIn, outboxIn, outcome>>
     \/ /\ ~ExpectedIsCurrent(w)
        /\ Raise(w, "concurrency")
  /\ UNCHANGED <<events, outbox, lock, call>>

\* INSERT INTO event_store_events: waits for keys in flight, then fails on a
\* key that is taken (by a committed row or an earlier row of the batch) or
\* adds the row.
InsertEvent(w) ==
  /\ pc[w] = "event"
  /\ ~\E v \in Writer : WaitsForRow(w, v)
  /\ LET taken == events \cup InFlight(w) IN
     \/ /\ \E row \in taken : SameId(row, NextRow(w))
        /\ Raise(w, "duplicate")
     \/ /\ \A row \in taken : ~SameId(row, NextRow(w))
        /\ \E row \in taken : SameRevision(row, NextRow(w))
        /\ Raise(w, "constraint")
     \/ /\ \A row \in taken : ~Clash(row, NextRow(w))
        /\ eventsIn' = [eventsIn EXCEPT ![w] = @ + 1]
        /\ Goto(w, "outbox")
        /\ UNCHANGED <<outboxIn, outcome>>
  /\ UNCHANGED <<events, outbox, lock, call>>

\* Mutant: the loop ends one event early.
InsertOutboxStopsEarly(w) ==
  /\ pc[w] = "outbox"
  /\ outboxIn' = [outboxIn EXCEPT ![w] = @ + 1]
  /\ Goto(w, IF eventsIn[w] + 1 < Len(call[w].batch) THEN "event" ELSE "commit")
  /\ UNCHANGED <<events, outbox, lock, call, eventsIn, outcome>>

\* INSERT INTO event_store_outbox for the row just inserted; then the next
\* event of the batch, or COMMIT after the last.
InsertOutbox(w) ==
  /\ pc[w] = "outbox"
  /\ outboxIn' = [outboxIn EXCEPT ![w] = @ + 1]
  /\ Goto(w, IF eventsIn[w] < Len(call[w].batch) THEN "event" ELSE "commit")
  /\ UNCHANGED <<events, outbox, lock, call, eventsIn, outcome>>

\* COMMIT makes every row of the transaction visible at once.  The server may
\* have committed although the acknowledgement never reaches the caller.
Commit(w) ==
  /\ pc[w] = "commit"
  /\ events' = events \cup InFlight(w)
  /\ outbox' = outbox \cup InFlightOutbox(w)
  /\ \E result \in {"appended", "failed"} :
       outcome' = [outcome EXCEPT ![w] = result]
  /\ Goto(w, "done")
  /\ Release(w)
  /\ UNCHANGED call

Rollback(w) ==
  /\ pc[w] = "rollback"
  /\ Goto(w, "done")
  /\ Release(w)
  /\ UNCHANGED <<events, outbox, call, outcome>>

\* The connection breaks: the server rolls the transaction back by itself.
ConnectionLost(w) ==
  /\ pc[w] \in {"lock", "read", "event", "outbox", "commit", "rollback"}
  /\ outcome' = [outcome EXCEPT ![w] = "failed"]
  /\ Goto(w, "done")
  /\ Release(w)
  /\ UNCHANGED <<events, outbox, call>>

\* The deadlock detector aborts one transaction of a cycle.
DeadlockAbort(w) ==
  /\ Deadlocked(w)
  /\ Raise(w, "failed")
  /\ UNCHANGED <<events, outbox, lock, call>>

\* The promise settles and the connection returns to the pool.
Return(w) ==
  /\ pc[w] = "done"
  /\ Goto(w, "idle")
  /\ call' = [call EXCEPT ![w] = NoCall]
  /\ outcome' = [outcome EXCEPT ![w] = "pending"]
  /\ UNCHANGED <<events, outbox, lock, eventsIn, outboxIn>>

Statements(w) ==
  \/ LockStream(w)
  \/ ReadRevision(w)
  \/ InsertEvent(w)
  \/ InsertOutbox(w)
  \/ Commit(w)
  \/ Rollback(w)
  \/ DeadlockAbort(w)
  \/ Return(w)

Next ==
  \E w \in Writer :
    \/ \E s \in Stream, r \in -1..(MaxLength - 1), b \in Batch :
         Begin(w, s, r, b)
    \/ Statements(w)
    \/ ConnectionLost(w)

Spec == Init /\ [][Next]_vars

\* PostgreSQL runs every statement that can run, and one that waits for a lock
\* or a key which becomes free again and again is granted it in its turn; it
\* breaks every deadlock.
Fairness == \A w \in Writer : SF_vars(Statements(w))

FairSpec == Spec /\ Fairness

-----------------------------------------------------------------------------
\* Properties.

\* The revisions of a stream are 0, 1, ..., n-1, each held by exactly one
\* committed event: no interleaving of appends leaves a gap or a fork that a
\* replay would trip over.
HistoryIsContiguous ==
  \A s \in Stream :
    /\ \A r \in Revisions(s) : 0..r \subseteq Revisions(s)
    /\ \A a, b \in RowsOf(s) : a.revision = b.revision => a = b

\* A committed event has its outbox record and an outbox record its event,
\* whatever was rolled back or lost half way through a batch.
OutboxMatchesHistory == outbox = {row.id : row \in events}

\* append fails on a declared error or on the connection, never on the raw
\* revision constraint: the advisory lock makes that race unreachable.
OnlyDeclaredErrors == \A w \in Writer : outcome[w] # "constraint"

\* When append reports success every event of its batch is stored, at the
\* revision the caller computed from its expected revision.
AppendedIsStored ==
  \A w \in Writer :
    outcome[w] = "appended" =>
      \A i \in DOMAIN call[w].batch : RowAt(w, i) \in events

\* The identity a DuplicateEventConflict carries is the first of the batch.
ReportedId(w) == Head(call[w].batch)

\* A DuplicateEventConflict names an event that already exists (or occurs
\* twice in the batch).
DuplicateConflictNamesDuplicate ==
  \A w \in Writer :
    outcome[w] = "duplicate" =>
      \/ \E row \in events : row.id = ReportedId(w)
      \/ \E i \in 2..Len(call[w].batch) : call[w].batch[i] = ReportedId(w)

\* Every append ends: locks are released on every path and deadlocks between
\* batches that share event ids in opposite order are broken.
AppendsTerminate == \A w \in Writer : pc[w] # "idle" ~> pc[w] = "idle"

\* The committed tables read as an EventLog.
HistoryOf(s) ==
  [i \in 1..(CurrentRevision(s) + 1) |->
     (CHOOSE row \in RowsOf(s) : row.revision + 1 = i).id]

Log == INSTANCE EventLog WITH
         streams <- [s \in Stream |-> HistoryOf(s)], queued <- outbox

\* Every behaviour of the transactions is a behaviour of the atomic
\* compare-and-append log.
ImplementsEventLog == Log!LogSpec
-----------------------------------------------------------------------------
\* The inductive invariant behind the safety properties.

\* From the comparison on, and as long as it has rows in flight, a
\* transaction holds the lock of its stream.
LockIsHeld ==
  \A w \in Writer :
    pc[w] \in {"read", "event", "outbox", "commit"} \/ eventsIn[w] > 0 =>
      lock[call[w].stream] = w

\* The stream a transaction inserts into still ends at its expected revision.
RevisionIsCurrent ==
  \A w \in Writer :
    pc[w] \in {"event", "outbox", "commit"} =>
      Revisions(call[w].stream) = 0..call[w].expected

\* How far through its batch each statement finds the transaction.
BatchProgress ==
  \A w \in Writer :
    /\ pc[w] \notin {"idle"} => call[w].batch \in Batch
    /\ pc[w] \in {"idle", "lock", "read", "done"} => eventsIn[w] = 0 /\ outboxIn[w] = 0
    /\ pc[w] = "event" => eventsIn[w] = outboxIn[w] /\ eventsIn[w] < Len(call[w].batch)
    /\ pc[w] = "outbox" => eventsIn[w] = outboxIn[w] + 1 /\ eventsIn[w] <= Len(call[w].batch)
    /\ pc[w] = "commit" => eventsIn[w] = Len(call[w].batch) /\ outboxIn[w] = eventsIn[w]
    /\ eventsIn[w] <= Len(call[w].batch)

\* The committed revisions of a stream form an initial segment.
StreamsAreSegments ==
  \A s \in Stream : /\ CurrentRevision(s) \in Nat \cup {-1}
                     /\ Revisions(s) = 0..CurrentRevision(s)

HistoryInvariant ==
  /\ TypeOK
  /\ LockIsHeld
  /\ RevisionIsCurrent
  /\ BatchProgress
  /\ StreamsAreSegments
  /\ HistoryIsContiguous
  /\ OutboxMatchesHistory
  /\ OnlyDeclaredErrors

\* No event id is held twice: not by two committed rows, not by a row in
\* flight and another row in flight or committed.
IdsAreUnique ==
  /\ \A a, b \in events : a.id = b.id => a = b
  /\ \A w \in Writer : \A i, j \in 1..eventsIn[w] :
       call[w].batch[i] = call[w].batch[j] => i = j
  /\ \A w \in Writer : \A i \in 1..eventsIn[w] :
       /\ \A row \in events : row.id # call[w].batch[i]
       /\ \A v \in Writer \ {w} : \A j \in 1..eventsIn[v] :
            call[v].batch[j] # call[w].batch[i]

StoreInvariant == HistoryInvariant /\ IdsAreUnique
=============================================================================
