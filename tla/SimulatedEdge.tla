---------------------------- MODULE SimulatedEdge ---------------------------
(***************************************************************************)
(* The demonstration slice: SimulatedEdge queues telemetry and evidence in *)
(* memory and flushes them to the demo routes of the Cloud.  A flush sends *)
(* a copy of the queue, one request at a time, and then removes as many    *)
(* records from the queue's front as the copy had; calls of start, sync,   *)
(* playCached and flushTelemetry may come between its requests.            *)
(*                                                                         *)
(* A record is <<id, content>>, an id the sequence of its parts.  The demo *)
(* Cloud publishes one manifest.                                           *)
(***************************************************************************)
EXTENDS Naturals, SequencesExt

CONSTANTS Flush,    \* flushTelemetry calls that may overlap
          MaxCalls  \* bound: calls of start, sync and playCached

VARIABLES
  queuedTelemetry, queuedEvidence, \* the Edge's queues
  manifest, asset,     \* whether the Edge has them
  available,           \* #cloudAvailable
  calls,               \* start, sync and playCached so far
  syncing,             \* a sync waits for the asset
  shared, reading,     \* #clock: whether one was passed, and what it reads next
  demoCloud,           \* the records the Cloud has accepted
  flush,               \* the state of each flush
  produced,            \* history: all records that were queued
  overlapped           \* history: two flushes ran at once

demoVars == <<queuedTelemetry, queuedEvidence, manifest, asset, available, calls, syncing,
              shared, reading, demoCloud, flush, produced, overlapped>>

edgeQueues == <<queuedTelemetry, queuedEvidence, produced>>
edgeContent == <<manifest, asset, syncing, shared, reading>>

NoFlush == [stage |-> "idle", todo |-> <<>>, first |-> <<>>, count |-> 0, given |-> 0]

Record(id, content) == <<<<id>>, content>>

Enqueue(events, proofs) ==
  /\ queuedTelemetry' = queuedTelemetry \o events
  /\ queuedEvidence' = queuedEvidence \o proofs
  /\ produced' = produced \cup ToSet(events) \cup ToSet(proofs)

Called == calls < MaxCalls /\ calls' = calls + 1

-----------------------------------------------------------------------------
\* The Edge's calls.

Start ==
  /\ Called /\ Enqueue(<<Record("edge.started", 0)>>, <<>>)
  /\ UNCHANGED <<edgeContent, available, demoCloud, flush, overlapped>>

\* sync keeps the manifest before it asks for the asset, which may fail.
FetchManifest ==
  /\ available /\ ~syncing /\ Called
  /\ manifest' = TRUE /\ syncing' = TRUE
  /\ UNCHANGED <<edgeQueues, asset, shared, reading, available, demoCloud, flush, overlapped>>

FetchAsset ==
  /\ syncing /\ syncing' = FALSE
  /\ IF available
     THEN asset' = TRUE /\ Enqueue(<<Record("manifest.synced", 0)>>, <<>>)
     ELSE UNCHANGED <<asset, edgeQueues>>
  /\ UNCHANGED <<manifest, shared, reading, available, calls, demoCloud, flush, overlapped>>

\* A player reads the clock twice.  Without a clock passed to the Edge each has
\* one of its own, which starts at the same instant; one that is passed is read
\* by all of them, and goes on.
PlayerRun ==
  <<Record("player.started", reading), Record("playback.started", reading),
    Record("playback.completed", reading + 1)>>

PlayCached ==
  /\ manifest /\ asset /\ Called
  /\ Enqueue(PlayerRun, <<Record("evidence", reading)>>)
  /\ reading' = IF shared THEN reading + 2 ELSE reading
  /\ UNCHANGED <<manifest, asset, syncing, shared, available, demoCloud, flush, overlapped>>

SetCloudAvailability ==
  /\ available' = ~available
  /\ UNCHANGED <<edgeQueues, edgeContent, calls, demoCloud, flush, overlapped>>

-----------------------------------------------------------------------------
\* The Cloud: a record it has under the same identity with other content is
\* refused, 409; the same again is accepted.

Refuses(record) == \E r \in demoCloud : r[1] = record[1] /\ r[2] # record[2]

Accept(record) == demoCloud' = IF Refuses(record) THEN demoCloud ELSE demoCloud \cup {record}

-----------------------------------------------------------------------------
\* flushTelemetry.

ToEvidence(call) ==
  [stage |-> "evidence", todo |-> queuedEvidence, first |-> call.first, count |-> call.count,
   given |-> Len(queuedEvidence)]

BeginFlush(f) ==
  /\ flush[f].stage = "idle" /\ available /\ queuedTelemetry \o queuedEvidence # <<>>
  /\ LET call == [stage |-> "telemetry", todo |-> queuedTelemetry,
                  first |-> Head(queuedTelemetry \o queuedEvidence),
                  count |-> Len(queuedTelemetry), given |-> 0]
     IN flush' = [flush EXCEPT ![f] = IF queuedTelemetry = <<>> THEN ToEvidence(call) ELSE call]
  /\ overlapped' = (overlapped \/ \E g \in Flush : flush[g].stage # "idle")
  /\ UNCHANGED <<edgeQueues, edgeContent, available, calls, demoCloud>>

\* The copy of the evidence is taken when the last telemetry was answered.
Answered(call) ==
  LET rest == [call EXCEPT !.todo = Tail(@)]
  IN IF rest.stage = "telemetry" /\ rest.todo = <<>> THEN ToEvidence(rest) ELSE rest

\* A refusal, or a request that fails, ends the flush with its queues untouched.
Post(f) ==
  /\ flush[f].todo # <<>>
  /\ LET record == Head(flush[f].todo)
     IN /\ Accept(record)
        /\ flush' = [flush EXCEPT ![f] = IF Refuses(record) THEN NoFlush ELSE Answered(@)]
  /\ UNCHANGED <<edgeQueues, edgeContent, available, calls, overlapped>>

RequestFails(f) ==
  /\ flush[f].stage \notin {"idle", "done"} /\ flush' = [flush EXCEPT ![f] = NoFlush]
  /\ \/ UNCHANGED demoCloud
     \/ flush[f].todo # <<>> /\ Accept(Head(flush[f].todo))
  /\ UNCHANGED <<edgeQueues, edgeContent, available, calls, overlapped>>

\* telemetry.sent: its identity is that of the first event, its content their
\* number, and a refusal of it goes unnoticed.
PostSummary(f) ==
  /\ flush[f].stage = "evidence" /\ flush[f].todo = <<>> /\ flush[f].count > 0
  /\ Accept(<<<<"telemetry.sent">> \o flush[f].first[1], flush[f].count>>)
  /\ flush' = [flush EXCEPT ![f].stage = "done"]
  /\ UNCHANGED <<edgeQueues, edgeContent, available, calls, overlapped>>

\* Mutant: the flush empties the queues.
Emptied(queue, n) == <<>>

\* splice(0, n)
Spliced(queue, n) == SubSeq(queue, n + 1, Len(queue))

FinishFlush(f) ==
  /\ \/ flush[f].stage = "done"
     \/ flush[f].stage = "evidence" /\ flush[f].todo = <<>> /\ flush[f].count = 0
  /\ queuedTelemetry' = Spliced(queuedTelemetry, flush[f].count)
  /\ queuedEvidence' = Spliced(queuedEvidence, flush[f].given)
  /\ flush' = [flush EXCEPT ![f] = NoFlush]
  /\ UNCHANGED <<produced, edgeContent, available, calls, demoCloud, overlapped>>

-----------------------------------------------------------------------------

DemoInit ==
  /\ queuedTelemetry = <<>> /\ queuedEvidence = <<>> /\ produced = {}
  /\ manifest = FALSE /\ asset = FALSE /\ syncing = FALSE
  /\ shared \in BOOLEAN /\ reading = 0
  /\ available = TRUE /\ calls = 0 /\ demoCloud = {}
  /\ flush = [f \in Flush |-> NoFlush] /\ overlapped = FALSE

DemoNext ==
  \/ Start \/ FetchManifest \/ FetchAsset \/ PlayCached \/ SetCloudAvailability
  \/ \E f \in Flush : BeginFlush(f) \/ Post(f) \/ RequestFails(f) \/ PostSummary(f) \/ FinishFlush(f)

DemoSpec == DemoInit /\ [][DemoNext]_demoVars

-----------------------------------------------------------------------------

\* What the Edge has produced is with the Cloud or queued: the records that join
\* the queue during a flush stay, and a flush that fails, or that the Cloud
\* refuses a record of, loses nothing.  It need not arrive: with a clock that
\* all plays read, the second play queues the identities of the first with
\* another time, and the Cloud refuses them at every flush.  Flushes that
\* overlap are excluded: each removes as many records as it has sent, so that
\* the second removes what nobody sent.
ProducedIsKept ==
  overlapped \/ produced \subseteq demoCloud \cup ToSet(queuedTelemetry) \cup ToSet(queuedEvidence)

-----------------------------------------------------------------------------
\* The inductive invariant behind it.

\* What the Edge queues, whatever the clock reads.
EventType == {"edge.started", "manifest.synced", "player.started",
              "playback.started", "playback.completed", "evidence"}

Queueable == {Record(id, n) : id \in EventType, n \in Nat}

FlushState ==
  [stage : {"idle", "telemetry", "evidence", "done"}, todo : Seq(Queueable),
   first : Queueable \cup {<<>>}, count : Nat, given : Nat]

DemoTypeOK ==
  /\ queuedTelemetry \in Seq(Queueable) /\ queuedEvidence \in Seq(Queueable)
  /\ flush \in [Flush -> FlushState]
  /\ \A f \in Flush :
       IF flush[f].stage = "idle" THEN flush[f].todo = <<>> ELSE flush[f].first \in Queueable
  /\ reading \in Nat

\* A flush that runs alone has sent, or is still to send, what it will remove.
Covers(call) ==
  /\ call.count <= Len(queuedTelemetry) /\ call.given <= Len(queuedEvidence)
  /\ \A i \in 1..call.count :
       \/ queuedTelemetry[i] \in demoCloud
       \/ call.stage = "telemetry" /\ queuedTelemetry[i] \in ToSet(call.todo)
  /\ \A i \in 1..call.given :
       \/ queuedEvidence[i] \in demoCloud
       \/ call.stage = "evidence" /\ queuedEvidence[i] \in ToSet(call.todo)

FlushIsAlone ==
  \A f \in Flush : flush[f].stage # "idle" =>
    /\ Covers(flush[f])
    /\ \A g \in Flush : flush[g].stage # "idle" => g = f

DemoInvariant ==
  /\ DemoTypeOK
  /\ overlapped \/ FlushIsAlone
  /\ ProducedIsKept
=============================================================================
