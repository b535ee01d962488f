---------------------------- MODULE DailySchedule ----------------------------
(***************************************************************************)
(* The daily schedule of an Edge: InMemoryDailyScheduleStore, the content  *)
(* server over it, and the browser Player that shows the current slot and  *)
(* acknowledges it.                                                        *)
(*                                                                         *)
(* The server handles requests between its awaits: a schedule command      *)
(* awaits the preparation of its campaigns, a playback request awaits      *)
(* onPlayback.  Commands are posted late, again, and out of order; a       *)
(* preparation or a playback may fail; the Player may lose the connection  *)
(* while its request is awaited; the Edge process may restart, which       *)
(* forgets everything but the schedule it is started with.                 *)
(*                                                                         *)
(* Time is a count of slots since the start; LocalTime gives the reading   *)
(* of the wall clock, which daylight saving may repeat or skip.            *)
(***************************************************************************)
EXTENDS Integers, Sequences, FiniteSets

CONSTANTS Update,      \* schedule commands that may be posted
          Initial,     \* the schedule the Edge process is started with
          Index,       \* slots of a day
          LocalTime,   \* LocalTime[t] = [date, index]: the local clock at t
          MaxTime,     \* bound: the last slot of the run
          MaxRestarts  \* bound: restarts of the Edge process

\* An update is [edgeId, revision, slots, assets]: slots gives each index of
\* the day [slotId, assetId, video], assets is a sequence of [assetId, content].
ASSUME DailyScheduleAssumption ==
  /\ \A u \in Update \cup {Initial} :
       /\ DOMAIN u = {"edgeId", "revision", "slots", "assets"}
       /\ u.revision \in Int
  /\ MaxTime \in Nat
  /\ MaxRestarts \in Nat
  /\ \A t \in 0..MaxTime : LocalTime[t] \in [date : Int, index : Index]

VARIABLES snapshot,  \* the committed schedule
          emitted,   \* emittedPlaybackKeys: <<revision, key>>
          preparing, \* commands awaiting beforeScheduleReplace
          playing,   \* reports whose onPlayback is awaited
          pc,        \* what the Player does
          entry,     \* the schedule entry it shows
          now,       \* the slot of the epoch
          restarts,
          accepted,  \* commands answered applied or replayed (history)
          reported,  \* calls of onPlayback, in order (history)
          acked      \* entries whose acknowledgement succeeded (history)

server == <<snapshot, emitted, preparing, playing>>
player == <<pc, entry>>
history == <<accepted, reported, acked>>
vars == <<snapshot, emitted, preparing, playing, pc, entry, now, restarts,
          accepted, reported, acked>>

-----------------------------------------------------------------------------
\* The store.

AssetIds(u) == {u.assets[i].assetId : i \in DOMAIN u.assets}

\* validateUpdate.
Valid(u) ==
  /\ u.revision >= 1
  /\ DOMAIN u.slots = Index
  /\ \A i, j \in DOMAIN u.assets : u.assets[i].assetId = u.assets[j].assetId => i = j

\* snapshotFingerprint: the order of the assets does not count.
Fingerprint(u) ==
  [edgeId |-> u.edgeId, revision |-> u.revision, slots |-> u.slots,
   assets |-> {u.assets[i] : i \in DOMAIN u.assets}]

\* Mutant: only the revision is compared.
RevisionNotStale(u) == Valid(u) /\ u.revision >= snapshot.revision

\* replace takes the update: it is newer, or says again what is in force.
Acceptable(u) ==
  /\ Valid(u)
  /\ u.edgeId = snapshot.edgeId
  /\ \/ u.revision > snapshot.revision
     \/ u.revision = snapshot.revision /\ Fingerprint(u) = Fingerprint(snapshot)

\* An equal revision is answered "replayed" and keeps the snapshot.
Replace(u) == snapshot' = IF u.revision = snapshot.revision THEN snapshot ELSE u

-----------------------------------------------------------------------------
\* POST /v1/edge/commands/schedule.

\* The command arrives; its campaigns are prepared.
PostSchedule(u) ==
  /\ u \notin preparing
  /\ preparing' = preparing \cup {u}
  /\ UNCHANGED <<snapshot, emitted, playing, player, now, restarts, history>>

\* beforeScheduleReplace resolves and the store takes the update.
ApplySchedule(u) ==
  /\ u \in preparing
  /\ preparing' = preparing \ {u}
  /\ Acceptable(u)
  /\ Replace(u)
  /\ accepted' = accepted \cup {u}
  /\ UNCHANGED <<emitted, playing, player, now, restarts, reported, acked>>

\* beforeScheduleReplace rejects, or the store refuses the update: 409.
RejectSchedule(u) ==
  /\ u \in preparing
  /\ preparing' = preparing \ {u}
  /\ UNCHANGED <<snapshot, emitted, playing, player, now, restarts, history>>

-----------------------------------------------------------------------------
\* The Player and the requests it makes.

Local == LocalTime[now]

\* currentDailySlot: the slot of the local time of day.
CurrentSlot == snapshot.slots[Local.index]

NoEntry == [slotId |-> <<>>, assetId |-> <<>>, video |-> FALSE,
            key |-> [date |-> 0, index |-> 0], ends |-> 0, posted |-> 0]

GoLoad == pc' = "load" /\ entry' = NoEntry

\* GET /schedule/current: slot, key and end come from one snapshot.  A failed
\* request is repeated and changes nothing.
LoadEntry ==
  /\ pc = "load"
  /\ entry' = [slotId |-> CurrentSlot.slotId, assetId |-> CurrentSlot.assetId,
               video |-> CurrentSlot.video, key |-> Local, ends |-> now + 1, posted |-> 0]
  /\ pc' = "asset"
  /\ UNCHANGED <<server, now, restarts, history>>

\* play: GET /assets/<assetId>, served from the snapshot of that moment.  A
\* video spends what is left of the slot and is not begun if nothing is; a page
\* that arrives after the slot's end is shown all the same, for no time.
BeginShow ==
  /\ pc = "asset"
  /\ entry.assetId \in AssetIds(snapshot)
  /\ entry.video => now < entry.ends
  /\ pc' = "show"
  /\ UNCHANGED <<server, entry, now, restarts, history>>

\* The segment or the slot ends.
EndShow ==
  /\ pc = "show"
  /\ pc' = "ack"
  /\ UNCHANGED <<server, entry, now, restarts, history>>

\* Playback fails: retryUntilSlotBoundary tears the surface down and begins
\* again.
RetryShow ==
  /\ pc = "show"
  /\ now < entry.ends
  /\ pc' = "asset"
  /\ UNCHANGED <<server, entry, now, restarts, history>>

\* The slot's end finds the asset missing or the video failing: the Player
\* goes on to the next slot without an acknowledgement.
Abandon ==
  /\ pc \in {"asset", "show"}
  /\ now >= entry.ends
  /\ GoLoad
  /\ UNCHANGED <<server, now, restarts, history>>

\* slots.find(slotId) finds something; if not, the request is answered 404 and
\* the Player asks again, for as long as it takes.
Scheduled(slotId) == \E i \in DOMAIN snapshot.slots : snapshot.slots[i].slotId = slotId

EmittedKey == <<snapshot.revision, entry.key>>

\* Mutant: the slot that is current when the acknowledgement arrives.
ReportCurrent ==
  [revision |-> snapshot.revision, key |-> entry.key, slotId |-> CurrentSlot.slotId]

Report == [revision |-> snapshot.revision, key |-> entry.key, slotId |-> entry.slotId]

\* The acknowledgement is answered 2xx; the Player sleeps to the slot's end.
Proceed ==
  /\ pc' = "wait"
  /\ acked' = acked \cup {[key |-> entry.key, slotId |-> entry.slotId]}

\* Mutant: the key is marked when the playback has been reported.
PostPlaybackUnmarked ==
  /\ pc = "ack"
  /\ Scheduled(entry.slotId)
  /\ EmittedKey \notin emitted
  /\ playing' = playing \cup {Report}
  /\ reported' = Append(reported, Report)
  /\ pc' = "posted"
  /\ entry' = [entry EXCEPT !.posted = snapshot.revision]
  /\ UNCHANGED <<snapshot, emitted, preparing, now, restarts, accepted, acked>>

\* POST /playback/<slotId>, a key not yet emitted under this revision: mark it
\* and call onPlayback.
PostPlayback ==
  /\ pc = "ack"
  /\ Scheduled(entry.slotId)
  /\ EmittedKey \notin emitted
  /\ emitted' = emitted \cup {EmittedKey}
  /\ playing' = playing \cup {Report}
  /\ reported' = Append(reported, Report)
  /\ pc' = "posted"
  /\ entry' = [entry EXCEPT !.posted = snapshot.revision]
  /\ UNCHANGED <<snapshot, preparing, now, restarts, accepted, acked>>

\* The key is marked: deduplicated, whatever became of the first request.
PostDuplicate ==
  /\ pc = "ack"
  /\ Scheduled(entry.slotId)
  /\ EmittedKey \in emitted
  /\ Proceed
  /\ UNCHANGED <<server, entry, now, restarts, accepted, reported>>

\* The Player still waits for the answer to this report.
Awaits(report) ==
  /\ pc = "posted"
  /\ <<report.revision, report.key>> = <<entry.posted, entry.key>>

\* onPlayback resolves: 202.
PlaybackRecorded(report) ==
  /\ report \in playing
  /\ playing' = playing \ {report}
  /\ IF Awaits(report) THEN Proceed ELSE UNCHANGED <<pc, acked>>
  /\ UNCHANGED <<snapshot, emitted, preparing, entry, now, restarts, accepted, reported>>

\* Mutant: nobody catches the rejection, and the request stays unanswered.
PlaybackFailsUnanswered(report) ==
  /\ report \in playing
  /\ playing' = playing \ {report}
  /\ UNCHANGED <<snapshot, emitted, preparing, player, now, restarts, history>>

\* onPlayback rejects: 500, and the Player asks again.
PlaybackFails(report) ==
  /\ report \in playing
  /\ playing' = playing \ {report}
  /\ pc' = IF Awaits(report) THEN "ack" ELSE pc
  /\ UNCHANGED <<snapshot, emitted, preparing, entry, now, restarts, history>>

\* The Player's connection breaks while onPlayback is awaited.
ConnectionLost ==
  /\ pc = "posted"
  /\ pc' = "ack"
  /\ UNCHANGED <<server, entry, now, restarts, history>>

NextSlot ==
  /\ pc = "wait"
  /\ now >= entry.ends
  /\ GoLoad
  /\ UNCHANGED <<server, now, restarts, history>>

-----------------------------------------------------------------------------
Tick ==
  /\ now < MaxTime
  /\ now' = now + 1
  /\ UNCHANGED <<server, player, restarts, history>>

\* The Edge process restarts: the history begins anew with it.
Restart ==
  /\ restarts < MaxRestarts
  /\ restarts' = restarts + 1
  /\ snapshot' = Initial
  /\ emitted' = {}
  /\ preparing' = {}
  /\ playing' = {}
  /\ pc' = IF pc = "posted" THEN "ack" ELSE pc
  /\ accepted' = {Initial}
  /\ reported' = <<>>
  /\ acked' = {}
  /\ UNCHANGED <<entry, now>>

Init ==
  /\ Valid(Initial)
  /\ snapshot = Initial
  /\ emitted = {}
  /\ preparing = {}
  /\ playing = {}
  /\ pc = "load"
  /\ entry = NoEntry
  /\ now = 0
  /\ restarts = 0
  /\ accepted = {Initial}
  /\ reported = <<>>
  /\ acked = {}

PlayerStep ==
  \/ LoadEntry \/ BeginShow \/ EndShow \/ RetryShow \/ Abandon
  \/ PostPlayback \/ PostDuplicate \/ ConnectionLost \/ NextSlot

CallbackStep == \E report \in playing : PlaybackRecorded(report) \/ PlaybackFails(report)

Next ==
  \/ \E u \in Update : PostSchedule(u) \/ ApplySchedule(u) \/ RejectSchedule(u)
  \/ PlayerStep
  \/ CallbackStep
  \/ Tick
  \/ Restart

Spec == Init /\ [][Next]_vars

\* The Player's requests are answered and onPlayback settles.  Nothing is
\* assumed of those who post schedules, nor of the clock.
Fairness == WF_vars(PostPlayback \/ PostDuplicate) /\ WF_vars(CallbackStep)

FairSpec == Spec /\ Fairness

-----------------------------------------------------------------------------
\* Properties.

Key == [date : Int, index : Index]
SlotId == UNION {{u.slots[i].slotId : i \in Index} : u \in {v \in Update \cup {Initial} : Valid(v)}}
Playback == [revision : Int, key : Key, slotId : SlotId]

TypeOK ==
  /\ snapshot \in Update \cup {Initial} /\ Valid(snapshot)
  /\ emitted \subseteq (Int \X Key)
  /\ preparing \subseteq Update
  /\ playing \subseteq Playback
  /\ pc \in {"load", "asset", "show", "ack", "posted", "wait"}
  /\ DOMAIN entry = DOMAIN NoEntry
  /\ entry.posted \in Int
  /\ pc # "load" => entry.slotId \in SlotId /\ entry.key \in Key /\ entry.ends \in Nat
  /\ now \in 0..MaxTime
  /\ restarts \in 0..MaxRestarts
  /\ accepted \subseteq Update \cup {Initial}
  /\ reported \in Seq(Playback)
  /\ acked \subseteq [key : Key, slotId : SlotId]

\* A command answered applied or replayed is in force, or a newer one is; two
\* answered with one revision said the same.  Commands overtake one another
\* while their campaigns are prepared.
AcceptedIsInForce ==
  \A u \in accepted :
    \/ u.revision < snapshot.revision
    \/ Fingerprint(u) = Fingerprint(snapshot)

\* Under one revision a slot of a date is reported to onPlayback once, however
\* often the Player loses its connection and asks again.
ReportedOnce ==
  \A i, j \in DOMAIN reported :
    <<reported[i].revision, reported[i].key>> = <<reported[j].revision, reported[j].key>>
      => i = j

\* The local clock reads this twice, when daylight saving ends.
Repeated(key) == \E s, t \in 0..MaxTime : s # t /\ LocalTime[s] = key /\ LocalTime[t] = key

\* What the Player was told is accepted has been reported, for the slot it
\* showed.  The second of two slots with one local time counts as the first.
AcknowledgedIsReported ==
  \A ack \in acked :
    \/ Repeated(ack.key)
    \/ \E i \in DOMAIN reported :
         reported[i].key = ack.key /\ reported[i].slotId = ack.slotId

Acknowledging == pc \in {"ack", "posted"}

\* The Player gets past the acknowledgement, whatever onPlayback does, as long
\* as the slot it showed stays in the schedule.  When an update removes the
\* slot the loop has no end.
PlayerGoesOn == Acknowledging ~> (~Acknowledging \/ ~Scheduled(entry.slotId))
=============================================================================
