------------------------------ MODULE EventLog ------------------------------
(***************************************************************************)
(* What an Event Store promises (packages/persistence, EventStore): a set  *)
(* of streams, each a sequence of events that only grows, with an          *)
(* optimistic append that is one indivisible compare-and-append, and an    *)
(* outbox that gains exactly the appended events in the same step.         *)
(*                                                                         *)
(* InMemoryEventStore.append is this specification: it is synchronous from *)
(* its first check to its last write, so no other call can see it half     *)
(* done.  PostgresEventStore.append, module EventStore, takes many steps   *)
(* and is shown to implement it.                                           *)
(***************************************************************************)
EXTENDS Integers, Sequences, Functions

CONSTANTS Stream,    \* stream identities
          EventId,   \* event identities, unique over all streams
          MaxBatch   \* bound: longest batch of one append

VARIABLES streams,   \* #streams: the event ids of each stream, oldest first
          queued     \* the event ids that have an outbox record

logVars == <<streams, queued>>

\* #eventIds: every event id some stream holds.
Known == UNION {Range(streams[s]) : s \in Stream}

\* Revisions count from 0, and -1 is the revision of an empty stream.
Revision(s) == Len(streams[s]) - 1

Batches == UNION {[1..n -> EventId] : n \in 1..MaxBatch}

LogInit ==
  /\ streams = [s \in Stream |-> <<>>]
  /\ queued = {}

\* An append with the right expected revision and fresh, distinct event ids.
\* Any other append raises an error and changes nothing.
AppendBatch(s, expected, batch) ==
  /\ expected = Revision(s)
  /\ IsInjective(batch)
  /\ Range(batch) \cap Known = {}
  /\ streams' = [streams EXCEPT ![s] = @ \o batch]
  /\ queued' = queued \cup Range(batch)

LogNext ==
  \E s \in Stream, batch \in Batches :
    AppendBatch(s, Revision(s), batch)

LogSpec == LogInit /\ [][LogNext]_logVars
=============================================================================
