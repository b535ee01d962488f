---------------------------- MODULE EdgeRuntime -----------------------------
(***************************************************************************)
(* RealEdgeRuntime: an Edge device that caches a manifest, plays it, and   *)
(* queues telemetry and PlaybackEvents in a JSON state file until a flush  *)
(* delivers them to the Cloud.  Every call of sync, playCached or flush is *)
(* an operation that yields at each await: reading the state, asking the   *)
(* Cloud, writing the temporary file, renaming it.  Operations share one   *)
(* in-memory state (#state), one state file and one temporary file.        *)
(*                                                                         *)
(* The Cloud comes and goes; it may go after it stored a record and before *)
(* it answered.  A write can fail.  The process can die and start again    *)
(* from the state file.                                                    *)
(*                                                                         *)
(* With one Op the calls of the runtime follow each other, as in the       *)
(* repository's scripts; with more they overlap, as requests to the local  *)
(* content server can.                                                     *)
(*                                                                         *)
(* Left out: health, diagnostics and #lastSync, which nothing reads back;  *)
(* asset contents and digests (a sync whose checks fail is rejected, as    *)
(* one that cannot reach the Cloud); the evidence queue, which this        *)
(* version only drains; suppressStartedEvent.  The three telemetry events  *)
(* of a playback travel together and are one here.                         *)
(***************************************************************************)
EXTENDS Integers, Sequences, FiniteSets

CONSTANTS Op,        \* calls that can run at the same time
          Version,   \* manifest versions the Cloud publishes
          NoVersion, \* no manifest yet
          NoState,   \* no state in memory, no file
          TelemetryCompared, \* whether the Cloud store refuses telemetry that
                     \* repeats an eventId with other content (the in-memory
                     \* store does, the PostgreSQL store keeps the first)
          MaxPlays,  \* bound: calls of playCached
          MaxSyncs,  \* bound: calls of sync
          MaxCrashes, MaxFailures  \* bounds: crashes, failed writes

VARIABLES mem,       \* #state
          started,   \* #started
          disk,      \* edge-runtime-state.json
          tmp,       \* edge-runtime-state.json.<pid>.tmp
          pc,        \* the await each operation is at
          kind,      \* which call it is
          number,    \* which playCached or sync it is: the time of its call
          booting,   \* whether it is still in start
          local,     \* the state it has read, then the state it saves
          rest,      \* what a flush still has to send
          online,    \* whether the Cloud can be reached
          cloud,     \* the records the Cloud has stored
          summaries, \* what it has stored a telemetry.sent for
          acked,     \* playbacks whose playCached resolved (history)
          plays, syncs, crashes, failures  \* counted so far (history)

opVars == <<pc, kind, number, booting, local, rest>>
cloudVars == <<online, cloud, summaries>>
history == <<acked, plays, syncs, crashes, failures>>
vars == <<mem, started, disk, tmp, opVars, cloudVars, history>>

-----------------------------------------------------------------------------
\* A record of a queue.  Its type, version and seq make its event id, its
\* stamp is the rest of its content: when the thing it tells of happened.
Item == [type : {"edge.started", "manifest.synced", "playback", "PlaybackEvent"},
         version : Version \cup {NoVersion}, seq : Nat, stamp : Nat]

SameId(a, b) == a.type = b.type /\ a.version = b.version /\ a.seq = b.seq

State == [identity : BOOLEAN, manifest : Version \cup {NoVersion}, playbackSequence : Nat,
          telemetryQueue : Seq(Item), playbackEventQueue : Seq(Item)]

EmptyState == [identity |-> FALSE, manifest |-> NoVersion, playbackSequence |-> 0,
               telemetryQueue |-> <<>>, playbackEventQueue |-> <<>>]

ASSUME EdgeRuntimeAssumption ==
  /\ NoVersion \notin Version /\ NoState \notin State
  /\ TelemetryCompared \in BOOLEAN
  /\ {MaxPlays, MaxSyncs, MaxCrashes, MaxFailures} \subseteq Nat

Step == {"idle", "load", "start", "body", "read", "fetched", "send", "write", "rename"}

Init ==
  /\ mem = NoState /\ started = FALSE
  /\ disk = NoState /\ tmp = NoState
  /\ pc = [o \in Op |-> "idle"]
  /\ kind = [o \in Op |-> "flush"]
  /\ number = [o \in Op |-> 0]
  /\ booting = [o \in Op |-> FALSE]
  /\ local = [o \in Op |-> NoState]
  /\ rest = [o \in Op |-> <<>>]
  /\ online = TRUE /\ cloud = {} /\ summaries = {}
  /\ acked = {} /\ plays = 0 /\ syncs = 0 /\ crashes = 0 /\ failures = 0

-----------------------------------------------------------------------------
Goto(o, step) == pc' = [pc EXCEPT ![o] = step]

\* The call settles, resolved or rejected.
Finish(o) ==
  /\ pc' = [pc EXCEPT ![o] = "idle"]
  /\ kind' = [kind EXCEPT ![o] = "flush"]
  /\ number' = [number EXCEPT ![o] = 0]
  /\ booting' = [booting EXCEPT ![o] = FALSE]
  /\ local' = [local EXCEPT ![o] = NoState]
  /\ rest' = [rest EXCEPT ![o] = <<>>]

\* #state becomes s, and #save takes it along to write it.
Save(o, s) ==
  /\ mem' = s
  /\ local' = [local EXCEPT ![o] = s]
  /\ Goto(o, "write")

Enqueue(s, item) == [s EXCEPT !.telemetryQueue = Append(@, item)]

\* sync, playCached or flush is called; #requireStarted starts the runtime
\* unless it is started.
Begin(o, k) ==
  /\ pc[o] = "idle"
  /\ k = "play" => plays < MaxPlays
  /\ k = "sync" => syncs < MaxSyncs
  /\ plays' = IF k = "play" THEN plays + 1 ELSE plays
  /\ syncs' = IF k = "sync" THEN syncs + 1 ELSE syncs
  /\ number' = [number EXCEPT ![o] = CASE k = "play" -> plays + 1
                                       [] k = "sync" -> syncs + 1
                                       [] k = "flush" -> 0]
  /\ kind' = [kind EXCEPT ![o] = k]
  /\ Goto(o, IF started THEN "body" ELSE "load")
  /\ UNCHANGED <<mem, started, disk, tmp, booting, local, rest, cloudVars,
                 acked, crashes, failures>>

\* start: storage.load reads the file, a missing one as the empty state.
ReadFile(o) ==
  /\ pc[o] = "load"
  /\ local' = [local EXCEPT ![o] = IF disk = NoState THEN EmptyState ELSE disk]
  /\ Goto(o, "start")
  /\ UNCHANGED <<mem, started, disk, tmp, kind, number, booting, rest, cloudVars, history>>

\* What was read becomes #state, over whatever #state had become meanwhile;
\* the first start of a device creates its identity, queues edge.started and
\* saves.
Start(o) ==
  /\ pc[o] = "start"
  /\ started' = TRUE
  /\ IF local[o].identity
     THEN /\ mem' = local[o]
          /\ Goto(o, "body")
          /\ UNCHANGED <<booting, local>>
     ELSE /\ Save(o, Enqueue([local[o] EXCEPT !.identity = TRUE],
                             [type |-> "edge.started", version |-> NoVersion,
                              seq |-> 0, stamp |-> crashes]))
          /\ booting' = [booting EXCEPT ![o] = TRUE]
  /\ UNCHANGED <<disk, tmp, kind, number, rest, cloudVars, history>>

\* playCached and flush begin with state = await #load(): what they go on
\* with is #state as it is now, whatever becomes of it during the await.
ReadState(o) ==
  /\ pc[o] = "body" /\ kind[o] # "sync"
  /\ local' = [local EXCEPT ![o] = mem]
  /\ Goto(o, "read")
  /\ UNCHANGED <<mem, started, disk, tmp, kind, number, booting, rest, cloudVars, history>>

\* Mutant: playbacks are numbered by their place in the queue.
PlayedSameSequence(s, t) ==
  LET event == [type |-> "PlaybackEvent", version |-> s.manifest,
                seq |-> Len(s.playbackEventQueue) + 1, stamp |-> t]
  IN  [s EXCEPT !.playbackSequence = event.seq,
                !.telemetryQueue = Append(@, [event EXCEPT !.type = "playback"]),
                !.playbackEventQueue = Append(@, event)]

\* The state after a playback of the cached manifest at time t.
Played(s, t) ==
  LET event == [type |-> "PlaybackEvent", version |-> s.manifest,
                seq |-> s.playbackSequence + 1, stamp |-> t]
  IN  [s EXCEPT !.playbackSequence = event.seq,
                !.telemetryQueue = Append(@, [event EXCEPT !.type = "playback"]),
                !.playbackEventQueue = Append(@, event)]

\* playCached; without a manifest the call is rejected.
Play(o) ==
  /\ pc[o] = "read" /\ kind[o] = "play"
  /\ IF local[o].manifest = NoVersion
     THEN Finish(o) /\ UNCHANGED mem
     ELSE Save(o, Played(local[o], number[o])) /\ UNCHANGED <<kind, number, booting, rest>>
  /\ UNCHANGED <<started, disk, tmp, cloudVars, history>>

\* sync: the manifest and its asset arrive and pass their checks, or the call
\* is rejected.
Fetch(o) ==
  /\ pc[o] = "body" /\ kind[o] = "sync"
  /\ \/ online /\ Goto(o, "fetched") /\ UNCHANGED <<kind, number, booting, local, rest>>
     \/ Finish(o)
  /\ UNCHANGED <<mem, started, disk, tmp, cloudVars, history>>

ApplyManifest(o) ==
  /\ pc[o] = "fetched"
  /\ \E v \in Version :
       Save(o, Enqueue([mem EXCEPT !.manifest = v],
                       [type |-> "manifest.synced", version |-> v, seq |-> 0,
                        stamp |-> number[o]]))
  /\ UNCHANGED <<started, disk, tmp, kind, number, booting, rest, cloudVars, history>>

\* flush: what is queued in the state it read is to be sent.
Collect(o) ==
  /\ pc[o] = "read" /\ kind[o] = "flush"
  /\ LET queued == local[o].telemetryQueue \o local[o].playbackEventQueue
     IN  IF queued = <<>>
         THEN Finish(o)
         ELSE /\ rest' = [rest EXCEPT ![o] = queued]
              /\ Goto(o, "send")
              /\ UNCHANGED <<kind, number, booting, local>>
  /\ UNCHANGED <<mem, started, disk, tmp, cloudVars, history>>

-----------------------------------------------------------------------------
\* Mutant: any known id is refused.
RefusesKnownIds(item) == \E c \in cloud : SameId(c, item)

\* The Cloud answers 409 to a record whose id it has with other content.
Refused(item) ==
  /\ item.type = "PlaybackEvent" \/ TelemetryCompared
  /\ \E c \in cloud : SameId(c, item) /\ c # item

\* A record that is accepted is stored unless one with its id is there.
Store(item) ==
  cloud' = IF \E c \in cloud : SameId(c, item) THEN cloud ELSE cloud \cup {item}

\* The next record is sent, stored and answered.
Deliver(o) ==
  /\ pc[o] = "send" /\ rest[o] # <<>>
  /\ online
  /\ ~Refused(Head(rest[o]))
  /\ Store(Head(rest[o]))
  /\ rest' = [rest EXCEPT ![o] = Tail(@)]
  /\ UNCHANGED <<mem, started, disk, tmp, pc, kind, number, booting, local,
                 online, summaries, history>>

\* telemetry.sent, named after the first telemetry event that was queued and
\* stamped anew by every attempt, so that a repetition has other content.
SummaryId(o) == Head(local[o].telemetryQueue)

SummaryRefused(o) == TelemetryCompared /\ SummaryId(o) \in summaries

\* Mutant: the playback sequence is emptied with the queues.
SentBackToStart(s) == [s EXCEPT !.playbackSequence = 0, !.telemetryQueue = <<>>,
                                !.playbackEventQueue = <<>>]

\* What #state becomes after a flush: the state it read, with empty queues.
Sent(s) == [s EXCEPT !.telemetryQueue = <<>>, !.playbackEventQueue = <<>>]

\* The last answer of a flush arrives: the one to telemetry.sent if there was
\* telemetry, and #state and the file get empty queues.
FinishFlush(o) ==
  /\ pc[o] = "send" /\ rest[o] = <<>>
  /\ IF local[o].telemetryQueue = <<>>
     THEN UNCHANGED summaries
     ELSE online /\ ~SummaryRefused(o) /\ summaries' = summaries \cup {SummaryId(o)}
  /\ Save(o, Sent(local[o]))
  /\ UNCHANGED <<started, disk, tmp, kind, number, booting, rest, online, cloud, history>>

\* The attempts of withRetry are used up: the flush is rejected and keeps the
\* queues.
GiveUp(o) ==
  /\ pc[o] = "send"
  /\ \/ ~online
     \/ rest[o] # <<>> /\ Refused(Head(rest[o]))
     \/ rest[o] = <<>> /\ local[o].telemetryQueue # <<>> /\ SummaryRefused(o)
  /\ Finish(o)
  /\ UNCHANGED <<mem, started, disk, tmp, cloudVars, history>>

-----------------------------------------------------------------------------
\* JsonEdgeStorage.save: write the temporary file, rename it over the state
\* file.  The temporary file is the same for all calls of the process, so it
\* may hold another call's state, or be gone, and the rename fail.
WriteFile(o) ==
  /\ pc[o] = "write"
  /\ tmp' = local[o]
  /\ Goto(o, "rename")
  /\ UNCHANGED <<mem, started, disk, kind, number, booting, local, rest, cloudVars, history>>

\* After the save of start the call goes on; after its own it resolves.  If
\* another call has renamed the temporary file, this one is rejected.
RenameFile(o) ==
  /\ pc[o] = "rename"
  /\ disk' = IF tmp = NoState THEN disk ELSE tmp
  /\ tmp' = NoState
  /\ IF tmp # NoState /\ booting[o]
     THEN /\ Goto(o, "body")
          /\ booting' = [booting EXCEPT ![o] = FALSE]
          /\ UNCHANGED <<kind, number, local, rest>>
     ELSE Finish(o)
  /\ acked' = IF tmp # NoState /\ ~booting[o] /\ kind[o] = "play"
              THEN acked \cup {number[o]} ELSE acked
  /\ UNCHANGED <<mem, started, cloudVars, plays, syncs, crashes, failures>>

\* Mutant: the error of a failed write is swallowed.
WriteFailureIgnored(o) ==
  /\ pc[o] = "write"
  /\ failures < MaxFailures
  /\ failures' = failures + 1
  /\ Finish(o)
  /\ acked' = IF kind[o] = "play" THEN acked \cup {number[o]} ELSE acked
  /\ UNCHANGED <<mem, started, disk, tmp, cloudVars, plays, syncs, crashes>>

\* The write fails: the call is rejected, #state keeps what was not saved.
WriteFails(o) ==
  /\ pc[o] = "write"
  /\ failures < MaxFailures
  /\ failures' = failures + 1
  /\ Finish(o)
  /\ UNCHANGED <<mem, started, disk, tmp, cloudVars, acked, plays, syncs, crashes>>

\* The process dies and can be started again.  Its temporary file has its
\* process id in its name and is not looked at again.
Crash ==
  /\ started
  /\ crashes < MaxCrashes
  /\ crashes' = crashes + 1
  /\ mem' = NoState
  /\ started' = FALSE
  /\ tmp' = NoState
  /\ pc' = [o \in Op |-> "idle"]
  /\ kind' = [o \in Op |-> "flush"]
  /\ number' = [o \in Op |-> 0]
  /\ booting' = [o \in Op |-> FALSE]
  /\ local' = [o \in Op |-> NoState]
  /\ rest' = [o \in Op |-> <<>>]
  /\ UNCHANGED <<disk, cloudVars, acked, plays, syncs, failures>>

\* The Cloud becomes unreachable, possibly with a record stored and its
\* answer lost; or it comes back.
GoOffline ==
  /\ online
  /\ online' = FALSE
  /\ \/ UNCHANGED <<cloud, summaries>>
     \/ \E o \in Op :
          /\ pc[o] = "send" /\ rest[o] # <<>> /\ ~Refused(Head(rest[o]))
          /\ Store(Head(rest[o]))
          /\ UNCHANGED summaries
     \/ \E o \in Op :
          /\ pc[o] = "send" /\ rest[o] = <<>> /\ local[o].telemetryQueue # <<>>
          /\ ~SummaryRefused(o)
          /\ summaries' = summaries \cup {SummaryId(o)}
          /\ UNCHANGED cloud
  /\ UNCHANGED <<mem, started, disk, tmp, opVars, history>>

GoOnline ==
  /\ ~online
  /\ online' = TRUE
  /\ UNCHANGED <<mem, started, disk, tmp, opVars, cloud, summaries, history>>

-----------------------------------------------------------------------------
\* What a call does by itself once it has begun.
Continue(o) ==
  \/ ReadFile(o) \/ Start(o) \/ ReadState(o)
  \/ Play(o)
  \/ Fetch(o) \/ ApplyManifest(o)
  \/ Collect(o) \/ Deliver(o) \/ FinishFlush(o) \/ GiveUp(o)
  \/ WriteFile(o) \/ RenameFile(o)

Next ==
  \/ \E o \in Op : \/ \E k \in {"sync", "play", "flush"} : Begin(o, k)
                   \/ Continue(o)
                   \/ WriteFails(o)
  \/ Crash
  \/ GoOffline \/ GoOnline

Spec == Init /\ [][Next]_vars

\* A call that has begun goes on, and flush is called again and again.
FairSpec ==
  /\ Spec
  /\ \A o \in Op : WF_vars(Continue(o)) /\ SF_vars(Begin(o, "flush"))

-----------------------------------------------------------------------------
\* Types of the variables; #state is there exactly while the runtime is
\* started (start and the crash that ends it set both).
TypeOK ==
  /\ {mem, disk, tmp} \subseteq State \cup {NoState}
  /\ started \in BOOLEAN
  /\ pc \in [Op -> Step]
  /\ kind \in [Op -> {"sync", "play", "flush"}]
  /\ number \in [Op -> Nat]
  /\ booting \in [Op -> BOOLEAN]
  /\ local \in [Op -> State \cup {NoState}]
  /\ rest \in [Op -> Seq(Item)]
  /\ online \in BOOLEAN
  /\ cloud \in SUBSET Item
  /\ summaries \in SUBSET Item
  /\ acked \in SUBSET (1..MaxPlays)
  /\ plays \in 0..MaxPlays /\ syncs \in 0..MaxSyncs
  /\ crashes \in 0..MaxCrashes /\ failures \in 0..MaxFailures
  /\ started <=> mem # NoState

\* The Cloud has the PlaybackEvent of playback p; the state file has it.
Delivered(p) == \E c \in cloud : c.type = "PlaybackEvent" /\ c.stamp = p

Persisted(p) ==
  /\ disk # NoState
  /\ \E i \in 1..Len(disk.playbackEventQueue) : disk.playbackEventQueue[i].stamp = p

\* A playback whose playCached resolved is never lost: its PlaybackEvent is in
\* the state file or with the Cloud, through crashes, failed writes and
\* unanswered requests (playCached saves before it resolves, flush empties the
\* queue only after the Cloud has answered).
AcknowledgedPlaybackIsKept == \A p \in acked : Delivered(p) \/ Persisted(p)

\* Weaker: a playback whose playCached resolved is somewhere, be it only in
\* #state (a restart would lose it there).
Remembered(p) ==
  /\ mem # NoState
  /\ \E i \in 1..Len(mem.playbackEventQueue) : mem.playbackEventQueue[i].stamp = p

AcknowledgedPlaybackIsSomewhere ==
  \A p \in acked : Delivered(p) \/ Persisted(p) \/ Remembered(p)

\* A record that is queued is never refused: its event id stands for the same
\* content whenever it is sent, so that sending it again is idempotent.  A
\* failed write excepted: #state keeps a playback that the file does not have,
\* the Cloud may get it, and after a crash its sequence number is given again.
QueuedRecordsAreAccepted ==
  mem # NoState /\ failures = 0 =>
    \A q \in {mem.telemetryQueue, mem.playbackEventQueue} :
      \A i \in 1..Len(q) : ~Refused(q[i])

\* The playback sequence of the state file never goes back (it makes the
\* playbackId unique, and flush writes back a state it read earlier).
SequenceNeverRegresses ==
  [][disk # NoState => disk'.playbackSequence >= disk.playbackSequence]_disk

\* Once the Cloud stays reachable, every playback that was acknowledged
\* arrives: after an outage, a lost answer or a restart the queue is drained.
PlaybacksAreDelivered ==
  <>[]online =>
    \A p \in 1..MaxPlays : p \in acked ~> Delivered(p) \/ failures > 0
=============================================================================
