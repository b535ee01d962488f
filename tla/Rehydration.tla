----------------------------- MODULE Rehydration ----------------------------
(***************************************************************************)
(* The kernel's replay, rehydrate and upcastEvent over the streams of an   *)
(* event store: an aggregate is rebuilt from its events, upcast to the     *)
(* schema of the running version, or from a snapshot and the events after  *)
(* it.  Versions are deployed and rolled back while streams grow and       *)
(* snapshots of any age, schema and aggregate lie about.                   *)
(*                                                                         *)
(* The kernel is a library: the caller here is the one its tests play.  It *)
(* upcasts what it has read, hands it to rehydrate with one snapshot, and  *)
(* supports the snapshots of its own schema.  A state is the sequence of   *)
(* <<event, schema>> that were applied, so that two states are equal only  *)
(* if nothing could tell them apart.                                       *)
(***************************************************************************)
EXTENDS EventLog, FiniteSets

CONSTANTS Versions,     \* schema versions that may be deployed, from 1
          Upcasters,    \* the <<from, to>> of the upcasters each version has
          MaxSnapshots  \* bound: snapshots kept

\* A version may lack upcasters, and have some that no chain takes.
ASSUME RehydrationAssumption ==
  /\ 1 \in Versions /\ Versions \subseteq Nat \ {0}
  /\ Upcasters \in [Versions -> SUBSET (Nat \X Nat)]

VARIABLES deployed,   \* the version that runs
          schema,     \* the schema version of each stored event; 0: not stored
          snapshots   \* [aggregate, sourceRevision, schema, intact, state]

rehydrationVars == <<streams, queued, deployed, schema, snapshots>>

Envelope(s, i) ==
  [eventId |-> streams[s][i], revision |-> i - 1, schema |-> schema[streams[s][i]]]

\* The first n events of a stream, as a reader gets them.
Read(s, n) == [i \in 1..n |-> Envelope(s, i)]

-----------------------------------------------------------------------------
\* upcastEvent, to the schema of the version that runs and with its upcasters:
\* one for each step of the chain, none skipped, none backwards.

ChainIsComplete(from, to) ==
  \A v \in from..(to - 1) : <<v, v + 1>> \in Upcasters[deployed]

Compatible(event, target) ==
  target >= event.schema /\ ChainIsComplete(event.schema, target)

Upcast(event, target) == [event EXCEPT !.schema = target]

\* The version that runs has appliers for its own schema.
Applies(event) == event.schema = deployed

-----------------------------------------------------------------------------
\* replay: each event once, at the next revision, by the applier of its exact
\* schema; the first failure discards everything.

Replayed(run, event) ==
  IF run.error # "none" THEN run
  ELSE IF event.eventId \in run.seen THEN [run EXCEPT !.error = "DUPLICATE_EVENT"]
  ELSE IF event.revision # run.revision + 1 THEN [run EXCEPT !.error = "REVISION_GAP"]
  ELSE IF ~Applies(event) THEN [run EXCEPT !.error = "UNKNOWN_EVENT_SCHEMA"]
  ELSE [error |-> "none", state |-> Append(run.state, <<event.eventId, event.schema>>),
        seen |-> run.seen \cup {event.eventId}, revision |-> run.revision + 1]

Result(run) ==
  IF run.error = "none" THEN [error |-> "none", state |-> run.state, revision |-> run.revision]
                        ELSE [error |-> run.error]

Start(initialState, sourceRevision) ==
  [error |-> "none", state |-> initialState, seen |-> {}, revision |-> sourceRevision]

\* After each number of events.
Replay(initialState, events, sourceRevision) ==
  LET run[n \in 0..Len(events)] ==
        IF n = 0 THEN Start(initialState, sourceRevision) ELSE Replayed(run[n - 1], events[n])
  IN  Result(run[Len(events)])

-----------------------------------------------------------------------------
\* rehydrate.

LastRevision(events) == IF events = <<>> THEN -1 ELSE events[Len(events)].revision

\* The events after a revision, in their order.
Later(events, revision) ==
  LET kept[n \in 0..Len(events)] ==
        IF n = 0 THEN <<>>
        ELSE IF events[n].revision > revision THEN Append(kept[n - 1], events[n])
        ELSE kept[n - 1]
  IN  kept[Len(events)]

\* Mutant: whose snapshot it is does not matter.
UsableForAnyone(snapshot, s, events) ==
  /\ snapshot.sourceRevision \in 0..LastRevision(events)
  /\ snapshot.schema = deployed
  /\ snapshot.intact

SnapshotIsUsable(snapshot, s, events) ==
  /\ snapshot.aggregate = s
  /\ snapshot.sourceRevision \in 0..LastRevision(events)
  /\ snapshot.schema = deployed
  /\ snapshot.intact

Rehydrate(s, events, snapshot) ==
  IF SnapshotIsUsable(snapshot, s, events)
  THEN Replay(snapshot.state, Later(events, snapshot.sourceRevision), snapshot.sourceRevision)
  ELSE Replay(<<>>, events, -1)

\* What the caller does with the events it has read, with or without a
\* snapshot: an event that cannot be upcast fails the whole.
Readable(events) == \A i \in DOMAIN events : Compatible(events[i], deployed)

Upcasted(events) == [i \in DOMAIN events |-> Upcast(events[i], deployed)]

LoadFrom(s, events, snapshot) ==
  IF Readable(events) THEN Rehydrate(s, Upcasted(events), snapshot)
                      ELSE [error |-> "INCOMPATIBLE_SCHEMA"]

Load(events) ==
  IF Readable(events) THEN Replay(<<>>, Upcasted(events), -1)
                      ELSE [error |-> "INCOMPATIBLE_SCHEMA"]

-----------------------------------------------------------------------------
RehydrationInit ==
  /\ LogInit
  /\ deployed = 1
  /\ schema = [e \in EventId |-> 0]
  /\ snapshots = {}

\* Events are written in the schema of the version that runs.
AppendEvents(s, batch) ==
  /\ AppendBatch(s, Revision(s), batch)
  /\ schema' = [e \in EventId |-> IF e \in Range(batch) THEN deployed ELSE schema[e]]
  /\ UNCHANGED <<deployed, snapshots>>

TakeSnapshot(s) ==
  LET loaded == Load(Read(s, Len(streams[s])))
  IN /\ Cardinality(snapshots) < MaxSnapshots
     /\ loaded.error = "none"
     /\ loaded.revision >= 0
     /\ snapshots' = snapshots \cup
          {[aggregate |-> s, sourceRevision |-> loaded.revision, schema |-> deployed,
            intact |-> TRUE, state |-> loaded.state]}
     /\ UNCHANGED <<streams, queued, deployed, schema>>

\* What is kept of a snapshot is damaged; verifyIntegrity tells.
Damage(snapshot) ==
  /\ snapshot.intact
  /\ snapshots' = (snapshots \ {snapshot})
                    \cup {[snapshot EXCEPT !.intact = FALSE, !.state = <<>>]}
  /\ UNCHANGED <<streams, queued, deployed, schema>>

Deploy(v) ==
  /\ v # deployed
  /\ deployed' = v
  /\ UNCHANGED <<streams, queued, schema, snapshots>>

RehydrationNext ==
  \/ \E s \in Stream, batch \in Batches : AppendEvents(s, batch)
  \/ \E s \in Stream : TakeSnapshot(s)
  \/ \E snapshot \in snapshots : Damage(snapshot)
  \/ \E v \in Versions : Deploy(v)

RehydrationSpec == RehydrationInit /\ [][RehydrationNext]_rehydrationVars

-----------------------------------------------------------------------------
\* Properties.

\* The state after the first n events of a stream, in a schema.
StateAfter(s, n, version) == [i \in 1..n |-> <<streams[s][i], version>>]

\* An event can be read by the version that runs if its schema is not newer
\* and no step up to that version lacks its upcaster.
CanBeRead(e) ==
  /\ schema[e] <= deployed
  /\ {<<v, v + 1>> : v \in schema[e]..(deployed - 1)} \subseteq Upcasters[deployed]

\* What has been read of a stream loads exactly if each of its events can be
\* read, to the state after the last of them, and fails with IncompatibleEvent-
\* Schema otherwise; and whatever snapshot comes to hand (old, of another
\* aggregate or schema, damaged, or ahead of what was read) changes nothing.
RehydrationIsReplay ==
  \A s \in Stream : \A n \in 0..Len(streams[s]) :
    /\ Load(Read(s, n)) =
         IF \A i \in 1..n : CanBeRead(streams[s][i])
         THEN [error |-> "none", state |-> StateAfter(s, n, deployed), revision |-> n - 1]
         ELSE [error |-> "INCOMPATIBLE_SCHEMA"]
    /\ \A snapshot \in snapshots : LoadFrom(s, Read(s, n), snapshot) = Load(Read(s, n))

-----------------------------------------------------------------------------
\* The inductive invariant behind the properties.

\* Streams repeat no event, and what is stored has the schema of some version.
HistoriesAreSound ==
  /\ deployed \in Versions
  /\ streams \in [Stream -> Seq(EventId)]
  /\ schema \in [EventId -> Versions \cup {0}]
  /\ \A s \in Stream :
       /\ IsInjective(streams[s])
       /\ \A i \in DOMAIN streams[s] : schema[streams[s][i]] \in Versions

\* An intact snapshot is what its aggregate was at its revision, all of whose
\* events its version could read.
SnapshotsAreSound ==
  \A snapshot \in snapshots :
    snapshot.intact =>
      LET s == snapshot.aggregate
          n == snapshot.sourceRevision + 1
      IN  /\ s \in Stream /\ n \in 1..Len(streams[s])
          /\ snapshot.state = StateAfter(s, n, snapshot.schema)

RehydrationInvariant == HistoriesAreSound /\ SnapshotsAreSound
=============================================================================
