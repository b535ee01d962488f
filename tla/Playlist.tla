------------------------------ MODULE Playlist ------------------------------
(***************************************************************************)
(* EdgePlaylistRuntime: one RealEdgeRuntime per slot of the campaigns it   *)
(* has synchronised, over the Cloud's store of campaigns.  A slot's        *)
(* runtime is created by the first synchronisation that meets the slot and *)
(* keeps the manifest of that moment for ever (scopeCloudClient), while    *)
(* the Cloud goes on assigning creatives.  What a runtime caches, counts   *)
(* and queues is on disk; which runtimes there are is not.                 *)
(*                                                                         *)
(* One synchronisation and one flush run at a time.  A runtime's own       *)
(* flush, overlapping with its playback, is in EdgeRuntime; here flush is  *)
(* one step that succeeds, or fails after some events were accepted.       *)
(***************************************************************************)
EXTENDS CampaignStore, Naturals, Sequences, SequencesExt

CONSTANTS MaxPlays,       \* bound: playbacks of one slot
          MaxEdgeRestarts \* bound: restarts of the Edge

VARIABLES runtimes,   \* slots that have a runtime in memory, in creation order
          client,     \* the manifest a runtime in memory was created with
          campaign,   \* #campaignId: the campaign last synchronised
          cached,     \* on disk: the manifest and asset of a slot
          produced,   \* on disk: playbackSequence of a slot
          queue,      \* on disk: playback events not yet sent
          synced,     \* on disk: what the queued manifest.synced events are
          todo,       \* manifests the running synchronisation has left
          edgeRestarts,
          fetched     \* manifests whose slots were synchronised since the
                      \* Edge started (history)

memory == <<runtimes, client, campaign, todo, fetched>>
disk == <<cached, produced, queue, synced>>
edge == <<memory, disk, edgeRestarts>>
playlistVars == <<storeVars, runtimes, client, campaign, cached, produced, queue, synced,
                  todo, edgeRestarts, fetched>>

PlaylistInit ==
  /\ StoreInit
  /\ runtimes = <<>>
  /\ client = [s \in Slot |-> None]
  /\ campaign = None
  /\ cached = [s \in Slot |-> None]
  /\ produced = [s \in Slot |-> 0]
  /\ queue = [s \in Slot |-> <<>>]
  /\ synced = [s \in Slot |-> "none"]
  /\ todo = {}
  /\ edgeRestarts = 0
  /\ fetched = {}

-----------------------------------------------------------------------------
\* sync.

\* fetchManifests, which must not be empty.
SyncBegin(c) ==
  /\ todo = {}
  /\ Manifests(c) # {}
  /\ todo' = Manifests(c)
  /\ UNCHANGED <<storeVars, runtimes, client, campaign, fetched, disk, edgeRestarts>>

\* runtimeFor and start: the slot's runtime, created if there is none.
HasRuntime(s) == s \in Range(runtimes)

EnsureRuntime(m) ==
  IF HasRuntime(m.slot)
  THEN UNCHANGED <<runtimes, client>>
  ELSE /\ runtimes' = Append(runtimes, m.slot)
       /\ client' = [client EXCEPT ![m.slot] = m]

\* RealEdgeRuntime.sync of the slot's runtime fetches the manifest its scoped
\* client holds, with the asset, and caches both.  manifest.synced carries the
\* manifest's version as identity and the time of this synchronisation: a
\* second one of the same version is "double".
SyncSlot(m) ==
  /\ m \in todo
  /\ EnsureRuntime(m)
  /\ client'[m.slot].campaign = m.campaign
  /\ cached' = [cached EXCEPT ![m.slot] = client'[m.slot]]
  /\ synced' = [synced EXCEPT ![m.slot] = IF @ = "none" THEN "queued" ELSE "double"]
  /\ todo' = todo \ {m}
  /\ campaign' = IF todo = {m} THEN m.campaign ELSE campaign
  /\ fetched' = fetched \cup {m}
  /\ UNCHANGED <<storeVars, produced, queue, edgeRestarts>>

\* The Cloud is lost, or the slot's disk, while m's slot is synchronised: the
\* slots before it stay synchronised, and its own runtime stays.
SyncFails(m) ==
  /\ m \in todo
  /\ EnsureRuntime(m)
  /\ todo' = {}
  /\ UNCHANGED <<storeVars, campaign, fetched, disk, edgeRestarts>>

-----------------------------------------------------------------------------
\* Playing and sending.

\* playCached: the identity counts the slot's playbacks under its version.
NextPlay(s) ==
  [id |-> <<cached[s].version, produced[s] + 1>>, slot |-> cached[s].slot,
   campaign |-> cached[s].campaign, creative |-> cached[s].creative,
   version |-> cached[s].version]

\* The slot can be played: it has a runtime and the runtime's disk a manifest.
Playable(s) == HasRuntime(s) /\ cached[s] # None

PlaySlot(s) ==
  /\ produced[s] < MaxPlays
  /\ Playable(s)
  /\ queue' = [queue EXCEPT ![s] = Append(@, NextPlay(s))]
  /\ produced' = [produced EXCEPT ![s] = @ + 1]
  /\ UNCHANGED <<storeVars, memory, cached, synced, edgeRestarts>>

\* The telemetry of a runtime goes first.  Two manifest.synced events of one
\* version differ in their times: the store in memory refuses the second,
\* PostgreSQL ignores it.
TelemetryAccepted(s) == backend = "memory" => synced[s] # "double"

\* The Cloud accepts the first n playback events of s.
TakesFirst(s, n) ==
  /\ n > 0 => TelemetryAccepted(s)
  /\ \A i \in 1..n : Accepts(queue[s][i])

Events(s, n) == {queue[s][i] : i \in 1..n}

\* Everything s has is accepted.
Flushed(s) == TelemetryAccepted(s) /\ TakesFirst(s, Len(queue[s]))

\* The first k runtimes are flushed and their queues emptied.
FlushFirst(k) ==
  LET done == {runtimes[i] : i \in 1..k}
  IN /\ \A s \in done : Flushed(s)
     /\ queue' = [s \in Slot |-> IF s \in done THEN <<>> ELSE queue[s]]
     /\ synced' = [s \in Slot |-> IF s \in done /\ synced[s] # "none" THEN "sent" ELSE synced[s]]
  /\ UNCHANGED <<backend, store, calls, memory, cached, produced, edgeRestarts>>

Sent(k) == UNION {Events(s, Len(queue[s])) : s \in {runtimes[i] : i \in 1..k}}

FlushAll ==
  /\ runtimes # <<>>
  /\ FlushFirst(Len(runtimes))
  /\ plays' = plays \cup Sent(Len(runtimes))

\* The Cloud refuses something of the next runtime, or an answer is lost: it
\* keeps its whole queue, and the runtimes after it are not flushed.
FlushFails ==
  \E k \in 0..(Len(runtimes) - 1) :
    LET s == runtimes[k + 1]
    IN \E n \in 0..Len(queue[s]) :
         /\ TakesFirst(s, n)
         /\ FlushFirst(k)
         /\ plays' = plays \cup Sent(k) \cup Events(s, n)

\* start after a restart: it starts the runtimes in memory, of which there are
\* none.
EdgeRestart ==
  /\ edgeRestarts < MaxEdgeRestarts
  /\ runtimes # <<>>
  /\ edgeRestarts' = edgeRestarts + 1
  /\ runtimes' = <<>>
  /\ client' = [s \in Slot |-> None]
  /\ campaign' = None
  /\ todo' = {}
  /\ fetched' = {}
  /\ UNCHANGED <<storeVars, disk>>

CloudStep == StoreNext /\ UNCHANGED edge

EdgeStep ==
  \/ \E c \in Campaign : SyncBegin(c)
  \/ \E m \in todo : SyncSlot(m) \/ SyncFails(m)
  \/ \E s \in Slot : PlaySlot(s)
  \/ FlushAll \/ FlushFails
  \/ EdgeRestart

PlaylistNext == CloudStep \/ EdgeStep

PlaylistSpec == PlaylistInit /\ [][PlaylistNext]_playlistVars

-----------------------------------------------------------------------------
\* Properties.

LocalManifests == {cached[s] : s \in {t \in Slot : Playable(t)}}

\* A playback is recorded for the creative its slot is assigned, though an
\* Edge never fetches a slot's manifest twice and the store in memory checks
\* nothing of the kind.
PlaysAreAttributed ==
  \A event \in plays :
    /\ slots[event.slot] = event.campaign
    /\ assignment[event.slot] = event.creative

\* The Cloud takes every playback event an Edge has queued, in whatever order
\* the slots are flushed: no two events share an identity, and each names an
\* assignment that exists.
QueuedEventsAreAcceptable ==
  \A s \in Slot : \A i \in DOMAIN queue[s] : Accepts(queue[s][i])

\* "A previously activated device can still serve the cached playlist while
\* the Cloud is temporarily unavailable": what is on disk can be played.
CachedPlaylistIsServed == \A s \in Slot : cached[s] # None => Playable(s)
=============================================================================
