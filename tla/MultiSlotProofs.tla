-------------------------- MODULE MultiSlotProofs ---------------------------
(***************************************************************************)
(* Proofs about the two runtimes of several slots: DailySchedule, for any  *)
(* commands, any day and any clock, however often it repeats or skips an   *)
(* hour; Playlist with the CampaignStore under it, for any campaigns,      *)
(* slots, creatives and callers and every bound; and SlotGrid, for any     *)
(* creatives, any fallbacks and any number and length of the slots.        *)
(***************************************************************************)
EXTENDS DailySchedule, Playlist, SlotGrid, FiniteSetTheorems, SequenceTheorems,
        WellFoundedInduction, TLAPS

-----------------------------------------------------------------------------
\* DailySchedule.

-----------------------------------------------------------------------------
\* The inductive invariant.

\* A key is marked exactly if a playback was reported under it.
KeysMatchReports ==
  /\ \A i \in DOMAIN reported : <<reported[i].revision, reported[i].key>> \in emitted
  /\ \A key \in emitted : \E i \in DOMAIN reported :
       key = <<reported[i].revision, reported[i].key>>
  /\ \A report \in playing : \E i \in DOMAIN reported : reported[i] = report

\* The slots before this one have been left by the Player.
Entered == IF pc = "load" THEN now ELSE entry.ends - 1

EntryIsOfItsTime ==
  pc # "load" => entry.ends \in 1..(now + 1) /\ entry.key = LocalTime[entry.ends - 1]

\* A report is of the entry the Player shows, or of one that it has left.
OfThisEntry(i) ==
  pc # "load" /\ reported[i].key = entry.key /\ reported[i].slotId = entry.slotId

OfAnEarlierEntry(i) ==
  \E t \in 0..MaxTime : t < Entered /\ LocalTime[t] = reported[i].key

ReportsAreOfEntries == \A i \in DOMAIN reported : OfThisEntry(i) \/ OfAnEarlierEntry(i)

PlayerInvariant ==
  /\ TypeOK
  /\ Valid(Initial)
  /\ KeysMatchReports
  /\ EntryIsOfItsTime
  /\ ReportsAreOfEntries
  /\ ReportedOnce
  /\ AcknowledgedIsReported

-----------------------------------------------------------------------------
\* Commands.

LEMMA FingerprintNamesRevision ==
  ASSUME NEW u, NEW v, Fingerprint(u) = Fingerprint(v)
  PROVE  u.revision = v.revision
<1>1. Fingerprint(u).revision = u.revision /\ Fingerprint(v).revision = v.revision
  BY DEF Fingerprint
<1>. QED  BY <1>1

\* The update that is in force may be compared with whatever was accepted.
CommandInvariant ==
  /\ snapshot \in Update \cup {Initial}
  /\ accepted \subseteq Update \cup {Initial}
  /\ preparing \subseteq Update
  /\ AcceptedIsInForce

LEMMA CommandStep == CommandInvariant /\ [Next]_vars => CommandInvariant'
<1>. SUFFICES ASSUME CommandInvariant, [Next]_vars PROVE CommandInvariant'
  OBVIOUS
<1>. USE DEF CommandInvariant
<1>0. \A u \in Update \cup {Initial} : u.revision \in Int
  BY DailyScheduleAssumption
<1>1. CASE UNCHANGED <<snapshot, accepted, preparing>>
  BY <1>1 DEF AcceptedIsInForce
<1>2. ASSUME NEW u \in Update, PostSchedule(u)
      PROVE  CommandInvariant'
  BY <1>2 DEF PostSchedule, history, AcceptedIsInForce
<1>3. ASSUME NEW u \in Update, RejectSchedule(u)
      PROVE  CommandInvariant'
  BY <1>3 DEF RejectSchedule, history, AcceptedIsInForce
<1>4. ASSUME NEW u \in Update, ApplySchedule(u)
      PROVE  CommandInvariant'
  <2>1. CASE u.revision > snapshot.revision
    <3>1. snapshot' = u /\ accepted' = accepted \cup {u} /\ preparing' = preparing \ {u}
      BY <1>0, <1>4, <2>1 DEF ApplySchedule, Replace
    <3>2. \A v \in accepted : v.revision < u.revision
      BY <1>0, <2>1, FingerprintNamesRevision DEF AcceptedIsInForce
    <3>. QED  BY <3>1, <3>2 DEF AcceptedIsInForce
  <2>2. CASE u.revision = snapshot.revision /\ Fingerprint(u) = Fingerprint(snapshot)
    <3>1. snapshot' = snapshot /\ accepted' = accepted \cup {u} /\ preparing' = preparing \ {u}
      BY <1>4, <2>2 DEF ApplySchedule, Replace
    <3>. QED  BY <3>1, <2>2 DEF AcceptedIsInForce
  <2>. QED  BY <1>4, <2>1, <2>2 DEF ApplySchedule, Acceptable
<1>5. CASE Restart
  BY <1>5 DEF Restart, AcceptedIsInForce
<1>6. CASE PlayerStep
  BY <1>1, <1>6 DEF PlayerStep, LoadEntry, BeginShow, EndShow, RetryShow, Abandon, PostPlayback,
     PostDuplicate, ConnectionLost, NextSlot, server, history
<1>7. CASE CallbackStep \/ Tick
  BY <1>1, <1>7 DEF CallbackStep, PlaybackRecorded, PlaybackFails, Tick, server, history
<1>8. CASE UNCHANGED vars
  BY <1>1, <1>8 DEF vars
<1>. QED  BY <1>2, <1>3, <1>4, <1>5, <1>6, <1>7, <1>8 DEF Next

\* Whatever order commands arrive and are prepared in, one that was accepted
\* is in force until a newer one is.
THEOREM AcceptedCommands == Spec => []AcceptedIsInForce
<1>1. Init => CommandInvariant
  BY DEF Init, CommandInvariant, AcceptedIsInForce
<1>2. CommandInvariant => AcceptedIsInForce
  BY DEF CommandInvariant
<1>. QED  BY <1>1, <1>2, CommandStep, PTL DEF Spec

-----------------------------------------------------------------------------
\* Types.

LEMMA SlotsAreTyped ==
  ASSUME TypeOK
  PROVE  Local \in Key /\ CurrentSlot.slotId \in SlotId
<1>1. Local \in Key
  BY DailyScheduleAssumption DEF TypeOK, Local, Key
<1>2. Local.index \in Index
  BY <1>1 DEF Key
<1>. QED  BY <1>1, <1>2 DEF TypeOK, CurrentSlot, SlotId

LEMMA ReportIsTyped ==
  ASSUME TypeOK, pc = "ack"
  PROVE  Report \in Playback /\ EmittedKey \in Int \X Key
BY DailyScheduleAssumption DEF TypeOK, Report, EmittedKey, Playback

\* Every action keeps the types.
LEMMA TypeStep == TypeOK /\ Valid(Initial) /\ [Next]_vars => TypeOK'
<1>. SUFFICES ASSUME TypeOK, Valid(Initial), [Next]_vars PROVE TypeOK'
  OBVIOUS
<1>. USE DEF TypeOK
<1>1. ASSUME NEW u \in Update, PostSchedule(u) \/ ApplySchedule(u) \/ RejectSchedule(u)
      PROVE  TypeOK'
  <2>1. snapshot' \in Update \cup {Initial} /\ Valid(snapshot)'
    BY <1>1 DEF PostSchedule, ApplySchedule, RejectSchedule, Acceptable, Replace, Valid
  <2>2. preparing' \subseteq Update /\ accepted' \subseteq Update \cup {Initial}
    BY <1>1 DEF PostSchedule, ApplySchedule, RejectSchedule, history
  <2>3. UNCHANGED <<emitted, playing, pc, entry, now, restarts, reported, acked>>
    BY <1>1 DEF PostSchedule, ApplySchedule, RejectSchedule, player, history
  <2>. QED  BY <2>1, <2>2, <2>3
<1>2. CASE LoadEntry
  <2>1. pc' = "asset" /\ DOMAIN entry' = DOMAIN NoEntry /\ entry'.posted = 0
        /\ entry'.slotId = CurrentSlot.slotId /\ entry'.key = Local /\ entry'.ends = now + 1
    BY <1>2 DEF LoadEntry, NoEntry
  <2>2. entry'.slotId \in SlotId /\ entry'.key \in Key /\ entry'.ends \in Nat
    BY <2>1, SlotsAreTyped, DailyScheduleAssumption
  <2>3. UNCHANGED <<snapshot, emitted, preparing, playing, now, restarts, accepted, reported, acked>>
    BY <1>2 DEF LoadEntry, server, history
  <2>4. (DOMAIN entry = DOMAIN NoEntry /\ entry.posted \in Int)'
    BY <2>1
  <2>5. (pc # "load" => entry.slotId \in SlotId /\ entry.key \in Key /\ entry.ends \in Nat)'
    BY <2>2
  <2>6. (pc \in {"load", "asset", "show", "ack", "posted", "wait"})'
    BY <2>1
  <2>7. Valid(snapshot)'
    BY <2>3 DEF Valid
  <2>. QED  BY <2>3, <2>4, <2>5, <2>6, <2>7
<1>3. CASE BeginShow \/ EndShow \/ RetryShow \/ ConnectionLost
  <2>1. pc # "load" /\ pc' \in {"asset", "show", "ack"}
    BY <1>3 DEF BeginShow, EndShow, RetryShow, ConnectionLost
  <2>2. UNCHANGED <<server, entry, now, restarts, history>>
    BY <1>3 DEF BeginShow, EndShow, RetryShow, ConnectionLost
  <2>. QED  BY <2>1, <2>2 DEF server, history, Valid
<1>4. CASE Abandon \/ NextSlot
  <2>1. pc' = "load" /\ entry' = NoEntry /\ UNCHANGED <<server, now, restarts, history>>
    BY <1>4 DEF Abandon, NextSlot, GoLoad
  <2>2. NoEntry.posted \in Int
    BY DEF NoEntry
  <2>. QED  BY <2>1, <2>2 DEF server, history, Valid
<1>5. CASE PostPlayback
  <2>1. Report \in Playback /\ EmittedKey \in Int \X Key
    BY <1>5, ReportIsTyped DEF PostPlayback
  <2>2. emitted' \subseteq (Int \X Key) /\ playing' \subseteq Playback
    BY <1>5, <2>1 DEF PostPlayback
  <2>3. reported' \in Seq(Playback)
    BY <1>5, <2>1 DEF PostPlayback
  <2>4. pc' = "posted" /\ DOMAIN entry' = DOMAIN NoEntry /\ entry'.posted \in Int
        /\ entry'.slotId = entry.slotId /\ entry'.key = entry.key /\ entry'.ends = entry.ends
    BY <1>5, DailyScheduleAssumption DEF PostPlayback, NoEntry
  <2>5. pc = "ack" /\ UNCHANGED <<snapshot, preparing, now, restarts, accepted, acked>>
    BY <1>5 DEF PostPlayback
  <2>. QED  BY <2>2, <2>3, <2>4, <2>5 DEF Valid
<1>6. ASSUME Proceed, pc # "load", UNCHANGED entry
      PROVE  /\ pc' = "wait" /\ acked' \subseteq [key : Key, slotId : SlotId]
             /\ entry'.slotId \in SlotId /\ entry'.key \in Key /\ entry'.ends \in Nat
  BY <1>6 DEF Proceed
<1>7. CASE PostDuplicate
  <2>1. pc = "ack" /\ Proceed /\ UNCHANGED <<server, entry, now, restarts, accepted, reported>>
    BY <1>7 DEF PostDuplicate
  <2>. QED  BY <1>6, <2>1 DEF server, Valid
<1>8. ASSUME NEW report \in playing, PlaybackRecorded(report)
      PROVE  TypeOK'
  <2>1. playing' \subseteq Playback
        /\ UNCHANGED <<snapshot, emitted, preparing, entry, now, restarts, accepted, reported>>
    BY <1>8 DEF PlaybackRecorded
  <2>2. CASE Awaits(report)
    <3>1. pc = "posted" /\ Proceed
      BY <1>8, <2>2 DEF PlaybackRecorded, Awaits
    <3>. QED  BY <1>6, <2>1, <3>1 DEF Valid
  <2>3. CASE ~Awaits(report)
    BY <1>8, <2>1, <2>3 DEF PlaybackRecorded, Valid
  <2>. QED  BY <2>2, <2>3
<1>9. ASSUME NEW report \in playing, PlaybackFails(report)
      PROVE  TypeOK'
  <2>1. playing' \subseteq Playback
        /\ UNCHANGED <<snapshot, emitted, preparing, entry, now, restarts, accepted, reported, acked>>
    BY <1>9 DEF PlaybackFails, history
  <2>2. pc' = pc \/ (pc' = "ack" /\ pc = "posted")
    BY <1>9 DEF PlaybackFails, Awaits
  <2>. QED  BY <2>1, <2>2 DEF Valid
<1>10. CASE Tick
  BY <1>10, DailyScheduleAssumption DEF Tick, server, player, history, Valid
<1>11. CASE Restart
  <2>1. snapshot' = Initial /\ emitted' = {} /\ preparing' = {} /\ playing' = {}
        /\ accepted' = {Initial} /\ reported' = <<>> /\ acked' = {} /\ UNCHANGED <<entry, now>>
    BY <1>11 DEF Restart
  <2>2. restarts' \in 0..MaxRestarts
    BY <1>11, DailyScheduleAssumption DEF Restart
  <2>3. pc' = pc \/ (pc' = "ack" /\ pc = "posted")
    BY <1>11 DEF Restart
  <2>. QED  BY <2>1, <2>2, <2>3 DEF Valid
<1>12. CASE UNCHANGED vars
  BY <1>12 DEF vars, Valid
<1>. QED  BY <1>1, <1>2, <1>3, <1>4, <1>5, <1>7, <1>8, <1>9, <1>10, <1>11, <1>12
     DEF Next, PlayerStep, CallbackStep

-----------------------------------------------------------------------------
\* Reports.

\* The Player's report, and the acknowledgement of one.
LEMMA ReportStep ==
  ASSUME PlayerInvariant, PostPlayback
  PROVE  /\ reported' = Append(reported, Report) /\ DOMAIN reported' = 1..(Len(reported) + 1)
         /\ DOMAIN reported = 1..Len(reported) /\ Len(reported) \in Nat
         /\ \A i \in DOMAIN reported : reported'[i] = reported[i]
         /\ reported'[Len(reported) + 1] = Report
         /\ Report.key = entry.key /\ Report.slotId = entry.slotId
         /\ <<Report.revision, Report.key>> = EmittedKey
<1>1. reported \in Seq(Playback) /\ Report \in Playback
  BY ReportIsTyped DEF PlayerInvariant, TypeOK, PostPlayback
<1>2. reported' = Append(reported, Report)
  BY DEF PostPlayback
<1>. QED  BY <1>1, <1>2 DEF Report, EmittedKey

\* A key that is marked belongs to a report of the entry shown, unless the
\* clock has read the entry's time before.
LEMMA MarkedIsReported ==
  ASSUME PlayerInvariant, pc # "load",
         NEW i \in DOMAIN reported, reported[i].key = entry.key
  PROVE  reported[i].slotId = entry.slotId \/ Repeated(entry.key)
<1>1. CASE OfThisEntry(i)
  BY <1>1 DEF OfThisEntry
<1>2. CASE OfAnEarlierEntry(i)
  <2>1. PICK t \in 0..MaxTime : t < entry.ends - 1 /\ LocalTime[t] = entry.key
    BY <1>2 DEF OfAnEarlierEntry, Entered
  <2>2. entry.ends - 1 \in 0..MaxTime /\ LocalTime[entry.ends - 1] = entry.key
    BY DailyScheduleAssumption DEF PlayerInvariant, TypeOK, EntryIsOfItsTime
  <2>. QED  BY <2>1, <2>2 DEF Repeated
<1>. QED  BY <1>1, <1>2 DEF PlayerInvariant, ReportsAreOfEntries

\* What the server knows of reports.
LEMMA KeysStep ==
  ASSUME PlayerInvariant, [Next]_vars
  PROVE  KeysMatchReports' /\ ReportedOnce'
<1>. USE DEF PlayerInvariant
<1>1. CASE UNCHANGED <<emitted, reported>> /\ playing' \subseteq playing
  BY <1>1 DEF KeysMatchReports, ReportedOnce
<1>2. CASE PostPlayback
  <2>1. emitted' = emitted \cup {EmittedKey} /\ playing' = playing \cup {Report}
        /\ EmittedKey \notin emitted
    BY <1>2 DEF PostPlayback
  <2>2. KeysMatchReports'
    BY <1>2, <2>1, ReportStep DEF KeysMatchReports
  <2>3. ReportedOnce'
    BY <1>2, <2>1, ReportStep DEF KeysMatchReports, ReportedOnce
  <2>. QED  BY <2>2, <2>3
<1>3. CASE Restart
  BY <1>3 DEF Restart, KeysMatchReports, ReportedOnce
<1>4. CASE LoadEntry \/ BeginShow \/ EndShow \/ RetryShow \/ Abandon \/ PostDuplicate
           \/ ConnectionLost \/ NextSlot \/ Tick
  BY <1>1, <1>4 DEF LoadEntry, BeginShow, EndShow, RetryShow, Abandon, PostDuplicate,
     ConnectionLost, NextSlot, Tick, server, history
<1>5. CASE CallbackStep
  BY <1>1, <1>5 DEF CallbackStep, PlaybackRecorded, PlaybackFails, history
<1>6. ASSUME NEW u \in Update, PostSchedule(u) \/ ApplySchedule(u) \/ RejectSchedule(u)
      PROVE  UNCHANGED <<emitted, reported>> /\ playing' \subseteq playing
  BY <1>6 DEF PostSchedule, ApplySchedule, RejectSchedule, history
<1>7. CASE UNCHANGED vars
  BY <1>1, <1>7 DEF vars
<1>. QED  BY <1>1, <1>2, <1>3, <1>4, <1>5, <1>6, <1>7 DEF Next, PlayerStep

-----------------------------------------------------------------------------
\* Entries: the Player loads one for each time, and leaves it when it ends.

LEMMA EntriesStep ==
  ASSUME PlayerInvariant, [Next]_vars
  PROVE  EntryIsOfItsTime' /\ ReportsAreOfEntries'
<1>. USE DEF PlayerInvariant
<1>0. now \in Nat /\ now' \in {now, now + 1}
      /\ (pc # "load" => entry.ends \in 1..(now + 1))
  BY DailyScheduleAssumption DEF TypeOK, EntryIsOfItsTime, Next, PlayerStep, CallbackStep, vars,
     PostSchedule, ApplySchedule, RejectSchedule, LoadEntry, BeginShow, EndShow, RetryShow, Abandon,
     PostPlayback, PostDuplicate, ConnectionLost, NextSlot, PlaybackRecorded, PlaybackFails, Tick,
     Restart
<1>1. CASE /\ reported' = reported \/ reported' = <<>>
           /\ entry' = entry /\ (pc = "load") = (pc' = "load")
  BY <1>0, <1>1 DEF EntryIsOfItsTime, ReportsAreOfEntries, OfThisEntry,
                              OfAnEarlierEntry, Entered
<1>2. CASE LoadEntry
  <2>1. pc = "load" /\ pc' = "asset" /\ entry'.ends = now + 1 /\ entry'.key = LocalTime[now]
        /\ UNCHANGED <<now, reported>>
    BY <1>2 DEF LoadEntry, Local, history
  <2>. QED  BY <1>0, <2>1 DEF EntryIsOfItsTime, ReportsAreOfEntries, OfThisEntry,
                              OfAnEarlierEntry, Entered
<1>3. CASE Abandon \/ NextSlot
  <2>1. pc # "load" /\ pc' = "load" /\ entry.ends <= now /\ UNCHANGED <<now, reported>>
    BY <1>3, <1>0 DEF Abandon, NextSlot, GoLoad, history
  <2>2. \A i \in DOMAIN reported : OfThisEntry(i) => OfAnEarlierEntry(i)'
    <3>1. entry.ends - 1 \in 0..MaxTime /\ entry.ends - 1 < now
      BY <1>0, <2>1, DailyScheduleAssumption DEF TypeOK
    <3>. QED  BY <2>1, <3>1 DEF EntryIsOfItsTime, OfThisEntry, OfAnEarlierEntry, Entered
  <2>3. \A i \in DOMAIN reported : OfAnEarlierEntry(i) => OfAnEarlierEntry(i)'
    BY <1>0, <2>1 DEF OfAnEarlierEntry, Entered
  <2>. QED  BY <2>1, <2>2, <2>3 DEF EntryIsOfItsTime, ReportsAreOfEntries
<1>4. CASE PostPlayback
  <2>1. pc = "ack" /\ pc' = "posted" /\ now' = now
        /\ entry'.ends = entry.ends /\ entry'.key = entry.key /\ entry'.slotId = entry.slotId
    BY <1>4 DEF PostPlayback, TypeOK, NoEntry
  <2>2. EntryIsOfItsTime'
    BY <2>1 DEF EntryIsOfItsTime
  <2>3. \A i \in DOMAIN reported : (OfThisEntry(i) \/ OfAnEarlierEntry(i)) =>
                                    (OfThisEntry(i) \/ OfAnEarlierEntry(i))'
    BY <1>4, <2>1, ReportStep DEF OfThisEntry, OfAnEarlierEntry, Entered
  <2>4. PICK n \in Nat : n = Len(reported)
    BY <1>4, ReportStep
  <2>5. OfThisEntry(n + 1)'
    BY <1>4, <2>1, <2>4, ReportStep DEF OfThisEntry
  <2>6. \A i \in DOMAIN reported' : i \in DOMAIN reported \/ i = n + 1
    BY <1>4, <2>4, ReportStep
  <2>7. ReportsAreOfEntries'
    BY <2>3, <2>5, <2>6 DEF ReportsAreOfEntries
  <2>. QED  BY <2>2, <2>7
<1>5. CASE Restart
  BY <1>1, <1>5 DEF Restart
<1>6. CASE BeginShow \/ EndShow \/ RetryShow \/ PostDuplicate \/ ConnectionLost \/ Tick
  BY <1>1, <1>6 DEF BeginShow, EndShow, RetryShow, PostDuplicate, Proceed, ConnectionLost, Tick,
     player, history
<1>7. CASE CallbackStep
  BY <1>1, <1>7 DEF CallbackStep, PlaybackRecorded, PlaybackFails, Awaits, Proceed, history
<1>8. ASSUME NEW u \in Update, PostSchedule(u) \/ ApplySchedule(u) \/ RejectSchedule(u)
      PROVE  UNCHANGED <<reported, entry, pc>>
  BY <1>8 DEF PostSchedule, ApplySchedule, RejectSchedule, player, history
<1>9. CASE UNCHANGED vars
  BY <1>1, <1>9 DEF vars
<1>. QED  BY <1>1, <1>2, <1>3, <1>4, <1>5, <1>6, <1>7, <1>8, <1>9 DEF Next, PlayerStep

-----------------------------------------------------------------------------
\* Acknowledgements.

LEMMA AcknowledgementStep ==
  ASSUME PlayerInvariant, [Next]_vars
  PROVE  AcknowledgedIsReported'
<1>. USE DEF PlayerInvariant
<1>1. CASE UNCHANGED <<reported, acked>>
  BY <1>1 DEF AcknowledgedIsReported
<1>2. ASSUME Proceed, UNCHANGED <<reported, entry>>, pc # "load",
             NEW i \in DOMAIN reported, reported[i].key = entry.key
      PROVE  AcknowledgedIsReported'
  BY <1>2, MarkedIsReported DEF AcknowledgedIsReported, Proceed
<1>3. CASE PostDuplicate
  <2>1. PICK i \in DOMAIN reported : EmittedKey = <<reported[i].revision, reported[i].key>>
    BY <1>3 DEF PostDuplicate, KeysMatchReports
  <2>2. reported[i].key = entry.key
    BY <2>1 DEF EmittedKey
  <2>. QED  BY <1>2, <1>3, <2>2 DEF PostDuplicate
<1>4. ASSUME NEW report \in playing, PlaybackRecorded(report)
      PROVE  AcknowledgedIsReported'
  <2>1. CASE Awaits(report)
    <3>1. PICK i \in DOMAIN reported : reported[i] = report
      BY DEF KeysMatchReports
    <3>2. reported[i].key = entry.key /\ pc # "load"
      BY <2>1, <3>1 DEF Awaits
    <3>. QED  BY <1>2, <1>4, <2>1, <3>2 DEF PlaybackRecorded
  <2>2. CASE ~Awaits(report)
    BY <1>1, <1>4, <2>2 DEF PlaybackRecorded
  <2>. QED  BY <2>1, <2>2
<1>5. CASE PostPlayback
  <2>1. acked' = acked /\ DOMAIN reported \subseteq DOMAIN reported'
        /\ \A i \in DOMAIN reported : reported'[i] = reported[i]
    BY <1>5, ReportStep DEF PostPlayback
  <2>. QED  BY <2>1 DEF AcknowledgedIsReported
<1>6. CASE Restart
  BY <1>6 DEF Restart, AcknowledgedIsReported
<1>7. CASE LoadEntry \/ BeginShow \/ EndShow \/ RetryShow \/ Abandon \/ ConnectionLost
           \/ NextSlot \/ Tick
  BY <1>1, <1>7 DEF LoadEntry, BeginShow, EndShow, RetryShow, Abandon, ConnectionLost, NextSlot,
     Tick, history
<1>8. ASSUME NEW report \in playing, PlaybackFails(report)
      PROVE  UNCHANGED <<reported, acked>>
  BY <1>8 DEF PlaybackFails, history
<1>9. ASSUME NEW u \in Update, PostSchedule(u) \/ ApplySchedule(u) \/ RejectSchedule(u)
      PROVE  UNCHANGED <<reported, acked>>
  BY <1>9 DEF PostSchedule, ApplySchedule, RejectSchedule, history
<1>10. CASE UNCHANGED vars
  BY <1>1, <1>10 DEF vars
<1>. QED  BY <1>1, <1>3, <1>4, <1>5, <1>6, <1>7, <1>8, <1>9, <1>10 DEF Next, PlayerStep, CallbackStep

-----------------------------------------------------------------------------
\* Theorems.

LEMMA PlayerInit == Init => PlayerInvariant
<1>. SUFFICES ASSUME Init PROVE PlayerInvariant
  OBVIOUS
<1>1. TypeOK
  <2>1. NoEntry.posted \in Int
    BY DEF NoEntry
  <2>. QED  BY <2>1, DailyScheduleAssumption DEF Init, TypeOK
<1>. QED  BY <1>1 DEF Init, PlayerInvariant, KeysMatchReports, EntryIsOfItsTime, ReportsAreOfEntries,
     ReportedOnce, AcknowledgedIsReported

\* The inductive invariant: the marked keys are those of the reports, and a
\* report is of the entry the Player shows or of an earlier one.
THEOREM PlayerInvariantHolds == Spec => []PlayerInvariant
<1>1. PlayerInvariant /\ [Next]_vars => PlayerInvariant'
  BY TypeStep, KeysStep, EntriesStep, AcknowledgementStep DEF PlayerInvariant
<1>. QED  BY PlayerInit, <1>1, PTL DEF Spec

\* Every reachable state is well typed.
THEOREM TypeCorrectness == Spec => []TypeOK
<1>1. PlayerInvariant => TypeOK
  BY DEF PlayerInvariant
<1>. QED  BY PlayerInvariantHolds, <1>1, PTL

\* However often the Player loses its connection and asks again, a slot of a
\* date is reported once under one revision.
THEOREM SingleReports == Spec => []ReportedOnce
<1>1. PlayerInvariant => ReportedOnce
  BY DEF PlayerInvariant
<1>. QED  BY PlayerInvariantHolds, <1>1, PTL

\* What the Player was told is accepted has been reported for the slot it
\* showed, except where the clock repeats itself.
THEOREM ReportedAcknowledgements == Spec => []AcknowledgedIsReported
<1>1. PlayerInvariant => AcknowledgedIsReported
  BY DEF PlayerInvariant
<1>. QED  BY PlayerInvariantHolds, <1>1, PTL

-----------------------------------------------------------------------------
\* Playlist.

\* The statements of a call of assignCreative on PostgreSQL.
Statement == {"slot", "creative", "existing", "insert", "manifest"}

Version == {ManifestVersion(s) : s \in Slot}

Play == [id : Version \X Nat, slot : Slot, campaign : Campaign \cup {None},
         creative : Creative \cup {None}, version : Version]

StoreTypes ==
  /\ backend \in {"postgres", "memory"}
  /\ campaigns \in [Campaign -> Name \cup {None}]
  /\ slots \in [Slot -> Campaign \cup {None}]
  /\ creatives \in [Creative -> Content \cup {None}]
  /\ assignment \in [Slot -> Creative \cup {None}]
  /\ at \in [Caller -> Statement \cup {"idle", "memory", "done", "failed"}]
  /\ call \in [Caller -> [slot : Slot \cup {None}, creative : Creative \cup {None},
                          answer : Creative \cup {None}]]
  /\ overlapped \in [Caller -> BOOLEAN]

EdgeTypes ==
  /\ runtimes \in Seq(Slot)
  /\ DOMAIN client = Slot /\ DOMAIN cached = Slot
  /\ produced \in [Slot -> Nat]
  /\ queue \in [Slot -> Seq(Play)]

\* What a call of assignCreative has found is still so.
ProgressOf(c) ==
  /\ backend = "memory" => at[c] \notin Statement
  /\ at[c] = "memory" => backend = "memory"
  /\ at[c] \notin {"idle", "failed"} => call[c].slot \in Slot /\ call[c].creative \in Creative
  /\ at[c] \in {"creative", "existing", "insert"} => slots[call[c].slot] # None
  /\ at[c] \in {"existing", "insert"} => creatives[call[c].creative] # None
  /\ at[c] = "insert" => overlapped[c] \/ ~Conflicts(c)
  /\ at[c] \in {"manifest", "done"} =>
       /\ assignment[call[c].slot] # None
       /\ overlapped[c] \/ assignment[call[c].slot] = call[c].creative
  /\ at[c] = "done" => call[c].answer = assignment[call[c].slot]

CallProgress == \A c \in Caller : ProgressOf(c)

\* A slot is created before it is assigned.
AssignedSlotsExist == \A s \in Slot : assignment[s] # None => slots[s] # None

\* m is the manifest of s, and stays it: s is assigned.
IsManifestOf(m, s) == assignment[s] # None /\ m = Manifest(s)

\* Whatever the Edge has fetched, however long ago, is as the Cloud has it.
ManifestsHold ==
  /\ \A s \in Slot : HasRuntime(s) => IsManifestOf(client[s], s)
  /\ \A s \in Slot : cached[s] # None => IsManifestOf(cached[s], s)
  /\ \A m \in todo : \E s \in Slot : IsManifestOf(m, s)

\* The n-th playback of a slot; the slot and n determine it.
PlayOf(s, n) ==
  [id |-> <<ManifestVersion(s), n>>, slot |-> s, campaign |-> slots[s],
   creative |-> assignment[s], version |-> ManifestVersion(s)]

IsPlay(event) == \E s \in Slot, n \in Nat : assignment[s] # None /\ event = PlayOf(s, n)

PlaysHold ==
  /\ \A event \in plays : IsPlay(event)
  /\ \A s \in Slot : \A i \in DOMAIN queue[s] : IsPlay(queue[s][i])

PlaylistInvariant ==
  /\ StoreTypes
  /\ EdgeTypes
  /\ CallProgress
  /\ AssignedSlotsExist
  /\ ManifestsHold
  /\ PlaysHold

-----------------------------------------------------------------------------
\* There is nothing at first.
LEMMA PlaylistInitInvariant == PlaylistInit => PlaylistInvariant
<1>. SUFFICES ASSUME PlaylistInit PROVE PlaylistInvariant
  OBVIOUS
<1>. USE DEF PlaylistInit, StoreInit
<1>1. StoreTypes
  BY DEF StoreTypes, NoCall
<1>2. EdgeTypes
  BY DEF EdgeTypes
<1>3. CallProgress /\ AssignedSlotsExist
  BY DEF CallProgress, ProgressOf, AssignedSlotsExist, Statement
<1>4. ManifestsHold
  BY DEF ManifestsHold, HasRuntime, Range
<1>5. PlaysHold
  BY DEF PlaysHold
<1>. QED  BY <1>1, <1>2, <1>3, <1>4, <1>5 DEF PlaylistInvariant

-----------------------------------------------------------------------------
\* The store: what it is given once it keeps.

\* What a step of the store changes.
LEMMA StoreCases ==
  ASSUME StoreTypes, CallProgress, StoreNext
  PROVE  /\ backend' = backend /\ plays' = plays
         /\ \/ UNCHANGED store
            \/ \E c \in Campaign, n \in Name : Registry!CreateCampaign(c, n)
            \/ \E s \in Slot, c \in Campaign : Registry!CreateSlot(s, c)
            \/ \E v \in Creative, t \in Content : Registry!PublishCreative(v, t)
            \/ \E s \in Slot, v \in Creative : Registry!AssignCreative(s, v)
<1>1. ASSUME NEW c \in Campaign, NEW n \in Name, CreateCampaign(c, n)
      PROVE  backend' = backend /\ plays' = plays /\ Registry!CreateCampaign(c, n)
  BY <1>1 DEF CreateCampaign, Registry!CreateCampaign
<1>2. ASSUME NEW s \in Slot, NEW c \in Campaign, CreateSlot(s, c)
      PROVE  backend' = backend /\ plays' = plays /\ Registry!CreateSlot(s, c)
  BY <1>2 DEF CreateSlot, Registry!CreateSlot
<1>3. ASSUME NEW v \in Creative, NEW t \in Content, PublishCreative(v, t)
      PROVE  backend' = backend /\ plays' = plays /\ Registry!PublishCreative(v, t)
  BY <1>3 DEF PublishCreative, Registry!PublishCreative
<1>4. ASSUME NEW c \in Caller,
             \/ \E s \in Slot, v \in Creative : Begin(c, s, v)
             \/ FindSlot(c) \/ FindCreative(c) \/ CompareExisting(c) \/ ReadManifest(c)
      PROVE  backend' = backend /\ plays' = plays /\ UNCHANGED store
  BY <1>4 DEF Begin, FindSlot, FindCreative, CompareExisting, ReadManifest
<1>5. ASSUME NEW c \in Caller, InsertAssignment(c)
      PROVE  /\ backend' = backend /\ plays' = plays
             /\ \/ UNCHANGED store
                \/ \E s \in Slot, v \in Creative : Registry!AssignCreative(s, v)
  <2>1. /\ call[c].slot \in Slot /\ call[c].creative \in Creative
        /\ slots[call[c].slot] # None /\ creatives[call[c].creative] # None
    BY <1>5 DEF InsertAssignment, CallProgress, ProgressOf
  <2>2. CASE assignment[call[c].slot] = None
    <3>1. Registry!AssignCreative(call[c].slot, call[c].creative)
      BY <1>5, <2>1, <2>2 DEF InsertAssignment, Upsert, Registry!AssignCreative
    <3>. QED  BY <1>5, <2>1, <3>1 DEF InsertAssignment
  <2>3. CASE assignment[call[c].slot] # None
    BY <1>5, <2>3 DEF InsertAssignment, Upsert, store
  <2>. QED  BY <2>2, <2>3
<1>6. ASSUME NEW c \in Caller, AssignInMemory(c)
      PROVE  /\ backend' = backend /\ plays' = plays
             /\ \/ UNCHANGED store
                \/ \E s \in Slot, v \in Creative : Registry!AssignCreative(s, v)
  <2>. DEFINE s == call[c].slot
              v == call[c].creative
  <2>1. s \in Slot /\ v \in Creative
    BY <1>6 DEF AssignInMemory, CallProgress, ProgressOf
  <2>2. \/ assignment' = assignment
        \/ /\ slots[s] # None /\ creatives[v] # None /\ assignment[s] \in {None, v}
           /\ assignment' = [assignment EXCEPT ![s] = v]
    BY <1>6 DEF AssignInMemory, Conflicts
  <2>3. UNCHANGED <<backend, campaigns, slots, creatives, plays>>
    BY <1>6 DEF AssignInMemory
  <2>4. CASE assignment' # assignment
    <3>1. assignment[s] = None
      BY <2>1, <2>2, <2>4 DEF StoreTypes
    <3>2. Registry!AssignCreative(s, v)
      BY <2>2, <2>3, <2>4, <3>1 DEF Registry!AssignCreative
    <3>. QED  BY <2>1, <2>3, <3>2
  <2>. QED  BY <2>3, <2>4 DEF store
<1>. QED  BY <1>1, <1>2, <1>3, <1>4, <1>5, <1>6 DEF StoreNext

KeepsWhatItHas ==
  /\ \A s \in Slot : slots[s] # None => slots'[s] = slots[s]
  /\ \A v \in Creative : creatives[v] # None => creatives'[v] = creatives[v]
  /\ \A s \in Slot : assignment[s] # None => assignment'[s] = assignment[s]

\* The types of the four tables.
Tables ==
  /\ campaigns \in [Campaign -> Name \cup {None}]
  /\ slots \in [Slot -> Campaign \cup {None}]
  /\ creatives \in [Creative -> Content \cup {None}]
  /\ assignment \in [Slot -> Creative \cup {None}]

LEMMA StoreKeeps ==
  ASSUME StoreTypes, CallProgress, AssignedSlotsExist, StoreNext
  PROVE  KeepsWhatItHas /\ Tables' /\ AssignedSlotsExist'
<1>. USE CampaignStoreAssumption DEF StoreTypes, KeepsWhatItHas, Tables, AssignedSlotsExist
<1>1. CASE UNCHANGED store
  BY <1>1 DEF store
<1>2. ASSUME NEW c \in Campaign, NEW n \in Name, Registry!CreateCampaign(c, n)
      PROVE  KeepsWhatItHas /\ Tables' /\ AssignedSlotsExist'
  BY <1>2 DEF Registry!CreateCampaign
<1>3. ASSUME NEW s \in Slot, NEW c \in Campaign, Registry!CreateSlot(s, c)
      PROVE  KeepsWhatItHas /\ Tables' /\ AssignedSlotsExist'
  BY <1>3 DEF Registry!CreateSlot
<1>4. ASSUME NEW v \in Creative, NEW t \in Content, Registry!PublishCreative(v, t)
      PROVE  KeepsWhatItHas /\ Tables' /\ AssignedSlotsExist'
  BY <1>4 DEF Registry!PublishCreative
<1>5. ASSUME NEW s \in Slot, NEW v \in Creative, Registry!AssignCreative(s, v)
      PROVE  KeepsWhatItHas /\ Tables' /\ AssignedSlotsExist'
  BY <1>5 DEF Registry!AssignCreative
<1>. QED  BY <1>1, <1>2, <1>3, <1>4, <1>5, StoreCases

-----------------------------------------------------------------------------
\* Calls of assignCreative: what one has found, no other undoes.

\* Caller d's call, as far as d's own statements go.
Rests(d) == at'[d] = at[d] /\ call'[d] = call[d] /\ (overlapped[d] => overlapped'[d])

\* A call that rests keeps its progress, if it learns of the slot's assignment.
LEMMA RestingCall ==
  ASSUME StoreTypes, Tables', KeepsWhatItHas, backend' = backend, NEW d \in Caller, ProgressOf(d),
         Rests(d),
         at[d] = "insert" => \/ overlapped'[d]
                             \/ assignment'[call[d].slot] = assignment[call[d].slot]
  PROVE  ProgressOf(d)'
BY CampaignStoreAssumption
   DEF StoreTypes, Tables, KeepsWhatItHas, Rests, ProgressOf, Conflicts, Statement

LEMMA FailedCall ==
  ASSUME StoreTypes, NEW c \in Caller, Fail(c)
  PROVE  /\ at'[c] = "failed"
         /\ \A d \in Caller \ {c} : Rests(d) /\ overlapped'[d] = overlapped[d]
         /\ at' \in [Caller -> Statement \cup {"idle", "memory", "done", "failed"}]
         /\ call' \in [Caller -> [slot : Slot \cup {None}, creative : Creative \cup {None},
                                  answer : Creative \cup {None}]]
         /\ overlapped' \in [Caller -> BOOLEAN]
BY DEF StoreTypes, Fail, Goto, NoCall, Rests

LEMMA CallStep ==
  ASSUME StoreTypes, CallProgress, AssignedSlotsExist, StoreNext
  PROVE  StoreTypes' /\ CallProgress'
<1>. DEFINE CallTypes ==
       /\ at \in [Caller -> Statement \cup {"idle", "memory", "done", "failed"}]
       /\ call \in [Caller -> [slot : Slot \cup {None}, creative : Creative \cup {None},
                               answer : Creative \cup {None}]]
       /\ overlapped \in [Caller -> BOOLEAN]
<1>1. backend' = backend /\ KeepsWhatItHas /\ Tables'
  BY StoreCases, StoreKeeps
<1>2. CallTypes' => StoreTypes'
  BY <1>1 DEF StoreTypes, Tables
<1>3. ASSUME NEW c \in Caller, CallTypes', ProgressOf(c)',
             \A d \in Caller \ {c} :
               Rests(d) /\ (at[d] = "insert" => \/ overlapped'[d]
                                              \/ assignment'[call[d].slot] = assignment[call[d].slot])
      PROVE  StoreTypes' /\ CallProgress'
  <2>1. \A d \in Caller \ {c} : ProgressOf(d)'
    BY <1>1, <1>3, RestingCall DEF CallProgress
  <2>. QED  BY <1>2, <1>3, <2>1 DEF CallProgress
<1>4. CASE UNCHANGED <<assignment, calls>>
  <2>1. \A d \in Caller : ProgressOf(d)'
    BY <1>1, <1>4, RestingCall DEF CallProgress, Rests, calls
  <2>. QED  BY <1>2, <1>4, <2>1 DEF CallProgress, StoreTypes, calls
<1>5. ASSUME NEW c \in Caller, Fail(c), UNCHANGED assignment PROVE StoreTypes' /\ CallProgress'
  <2>1. ProgressOf(c)'
    BY <1>5, FailedCall DEF ProgressOf, Statement
  <2>. QED  BY <1>3, <1>5, <2>1, FailedCall
<1>6. ASSUME NEW c \in Caller, NEW s \in Slot, NEW v \in Creative, Begin(c, s, v)
      PROVE  StoreTypes' /\ CallProgress'
  <2>1. CallTypes' /\ \A d \in Caller \ {c} : Rests(d)
    BY <1>6 DEF Begin, Goto, StoreTypes, Rests, Statement
  <2>2. ProgressOf(c)'
    BY <1>6 DEF Begin, Goto, StoreTypes, ProgressOf, Statement
  <2>3. assignment' = assignment
    BY <1>6 DEF Begin, store
  <2>. QED  BY <1>3, <2>1, <2>2, <2>3
<1>7. ASSUME NEW c \in Caller, FindSlot(c) \/ FindCreative(c) \/ CompareExisting(c)
      PROVE  StoreTypes' /\ CallProgress'
  <2>1. UNCHANGED store
    BY <1>7 DEF FindSlot, FindCreative, CompareExisting
  <2>2. CASE Fail(c)
    BY <1>5, <2>1, <2>2 DEF store
  <2>3. CASE ~Fail(c)
    <3>1. UNCHANGED <<call, overlapped>> /\ \E step \in Statement : Goto(c, step)
      BY <1>7, <2>3 DEF FindSlot, FindCreative, CompareExisting, Statement
    <3>2. CallTypes' /\ \A d \in Caller \ {c} : Rests(d)
      BY <3>1 DEF Goto, StoreTypes, Rests
    <3>3. ProgressOf(c)'
      BY <1>1, <1>7, <2>1, <2>3 DEF FindSlot, FindCreative, CompareExisting, Goto,
         StoreTypes, CallProgress,
         ProgressOf, Statement, Conflicts, store
    <3>. QED  BY <1>3, <2>1, <3>2, <3>3 DEF store
  <2>. QED  BY <2>2, <2>3
<1>8. ASSUME NEW c \in Caller, InsertAssignment(c) PROVE StoreTypes' /\ CallProgress'
  <2>1. /\ at[c] = "insert" /\ call' = call /\ Goto(c, "manifest")
        /\ call[c].slot \in Slot /\ call[c].creative \in Creative
    BY <1>8 DEF InsertAssignment, CallProgress, ProgressOf
  <2>2. /\ \A d \in Caller : overlapped[d] => overlapped'[d]
        /\ \A d \in Caller \ {c} :
              at[d] = "insert" => \/ overlapped'[d]
                                  \/ assignment'[call[d].slot] = assignment[call[d].slot]
    <3>1. \A t \in Slot \ {call[c].slot} : assignment'[t] = assignment[t]
      BY <1>8 DEF InsertAssignment, Upsert, StoreTypes
    <3>. QED  BY <1>8, <3>1 DEF InsertAssignment, MarkOverlap, CallProgress, ProgressOf
  <2>3. CallTypes'
    <3>1. at' \in [Caller -> Statement \cup {"idle", "memory", "done", "failed"}]
      BY <2>1 DEF Goto, StoreTypes, Statement
    <3>2. overlapped' \in [Caller -> BOOLEAN]
      BY <1>8 DEF InsertAssignment, MarkOverlap, StoreTypes
    <3>. QED  BY <2>1, <3>1, <3>2 DEF StoreTypes
  <2>4. \A d \in Caller \ {c} : Rests(d)
    BY <2>1, <2>2 DEF Goto, StoreTypes, Rests
  <2>5. /\ assignment'[call[c].slot] # None
        /\ overlapped[c] \/ assignment'[call[c].slot] = call[c].creative
    BY <1>8, <2>1, CampaignStoreAssumption
       DEF InsertAssignment, Upsert, StoreTypes, CallProgress, ProgressOf, Conflicts
  <2>6. ProgressOf(c)'
    BY <1>1, <2>1, <2>2, <2>5 DEF Goto, StoreTypes, CallProgress, ProgressOf, Statement
  <2>. QED  BY <1>3, <2>2, <2>3, <2>4, <2>6
<1>9. ASSUME NEW c \in Caller, ReadManifest(c) PROVE StoreTypes' /\ CallProgress'
  <2>1. /\ at[c] = "manifest" /\ Goto(c, "done") /\ UNCHANGED <<assignment, overlapped>>
        /\ call' = [call EXCEPT ![c].answer = assignment[call[c].slot]]
        /\ call[c].slot \in Slot /\ call[c].creative \in Creative
    BY <1>9 DEF ReadManifest, CallProgress, ProgressOf, store
  <2>2. CallTypes' /\ \A d \in Caller \ {c} : Rests(d)
    BY <2>1 DEF Goto, StoreTypes, Rests
  <2>3. ProgressOf(c)'
    BY <1>1, <2>1 DEF Goto, StoreTypes, CallProgress, ProgressOf, Statement
  <2>. QED  BY <1>3, <2>1, <2>2, <2>3
<1>10. ASSUME NEW c \in Caller, AssignInMemory(c) PROVE StoreTypes' /\ CallProgress'
  <2>. DEFINE s == call[c].slot
              v == call[c].creative
  <2>1. CASE Fail(c) /\ UNCHANGED assignment
    BY <1>5, <2>1
  <2>2. CASE ~(Fail(c) /\ UNCHANGED assignment)
    <3>1. /\ at[c] = "memory" /\ Goto(c, "done") /\ overlapped' = overlapped
          /\ call' = [call EXCEPT ![c].answer = v] /\ assignment' = [assignment EXCEPT ![s] = v]
          /\ s \in Slot /\ v \in Creative
      BY <1>10, <2>2 DEF AssignInMemory, CallProgress, ProgressOf
    <3>2. \A d \in Caller : at[d] # "insert"
      BY <3>1 DEF CallProgress, ProgressOf, Statement
    <3>3. CallTypes' /\ \A d \in Caller \ {c} : Rests(d)
      BY <3>1 DEF Goto, StoreTypes, Rests
    <3>4. assignment'[s] = v /\ v # None
      BY <3>1, CampaignStoreAssumption DEF StoreTypes
    <3>5. ProgressOf(c)'
      BY <1>1, <3>1, <3>4 DEF Goto, StoreTypes, ProgressOf, Statement
    <3>. QED  BY <1>3, <3>2, <3>3, <3>5
  <2>. QED  BY <2>1, <2>2
<1>. QED  BY <1>4, <1>6, <1>7, <1>8, <1>9, <1>10
          DEF StoreNext, CreateCampaign, CreateSlot, PublishCreative

-----------------------------------------------------------------------------
\* The Edge: what it has fetched stays as the Cloud has it.

\* A manifest and a playback survive what the store does.
LEMMA PlaysStay ==
  ASSUME StoreTypes, AssignedSlotsExist, KeepsWhatItHas
  PROVE  /\ \A s \in Slot : \A m : IsManifestOf(m, s) => assignment'[s] # None /\ m = Manifest(s)'
         /\ \A event : IsPlay(event) =>
              \E s \in Slot, n \in Nat : assignment'[s] # None /\ event = PlayOf(s, n)'
BY DEF KeepsWhatItHas, AssignedSlotsExist, IsManifestOf, Manifest, ManifestVersion, IsPlay, PlayOf

\* The steps of the Cloud.
LEMMA CloudKeeps ==
  ASSUME PlaylistInvariant, CloudStep
  PROVE  PlaylistInvariant'
<1>. USE DEF PlaylistInvariant
<1>1. StoreTypes' /\ CallProgress' /\ KeepsWhatItHas /\ AssignedSlotsExist' /\ plays' = plays
  BY CallStep, StoreKeeps, StoreCases DEF CloudStep
<1>2. UNCHANGED edge
  BY DEF CloudStep
<1>3. EdgeTypes'
  BY <1>2 DEF EdgeTypes, Play, Version, edge, memory, disk
<1>4. ManifestsHold'
  BY <1>1, <1>2, PlaysStay DEF ManifestsHold, HasRuntime, IsManifestOf, edge, memory, disk
<1>5. PlaysHold'
  BY <1>1, <1>2, PlaysStay DEF PlaysHold, IsPlay, edge, disk
<1>. QED  BY <1>1, <1>3, <1>4, <1>5

\* The Edge's steps leave the store's tables and calls alone.
LEMMA StoreRests ==
  ASSUME PlaylistInvariant, UNCHANGED <<backend, store, calls>>
  PROVE  /\ StoreTypes' /\ CallProgress' /\ AssignedSlotsExist'
         /\ \A s \in Slot : \A m : IsManifestOf(m, s) => assignment'[s] # None /\ m = Manifest(s)'
         /\ \A event : IsPlay(event) =>
              \E s \in Slot, n \in Nat : assignment'[s] # None /\ event = PlayOf(s, n)'
<1>. USE DEF PlaylistInvariant, store, calls
<1>1. StoreTypes' /\ AssignedSlotsExist'
  BY DEF StoreTypes, AssignedSlotsExist
<1>2. CallProgress'
  BY DEF CallProgress, ProgressOf, Conflicts
<1>3. KeepsWhatItHas
  BY DEF KeepsWhatItHas
<1>. QED  BY <1>1, <1>2, <1>3, PlaysStay

\* A runtime is there for the slot of a manifest, with a manifest of it.
LEMMA RuntimeEnsured ==
  ASSUME PlaylistInvariant, UNCHANGED <<backend, store, calls>>, NEW m \in todo, EnsureRuntime(m)
  PROVE  /\ runtimes' \in Seq(Slot) /\ DOMAIN client' = Slot /\ m.slot \in Slot
         /\ IsManifestOf(client'[m.slot], m.slot)
         /\ \A s \in Slot : HasRuntime(s)' => IsManifestOf(client'[s], s)
<1>. USE DEF PlaylistInvariant
<1>1. PICK s \in Slot : IsManifestOf(m, s)
  BY DEF ManifestsHold
<1>2. m.slot = s
  BY <1>1 DEF IsManifestOf, Manifest
<1>3. CASE HasRuntime(s)
  BY <1>2, <1>3 DEF EnsureRuntime, EdgeTypes, ManifestsHold, HasRuntime
<1>4. CASE ~HasRuntime(s)
  <2>1. runtimes' = Append(runtimes, s) /\ client' = [client EXCEPT ![s] = m]
    BY <1>2, <1>4 DEF EnsureRuntime
  <2>2. runtimes' \in Seq(Slot) /\ DOMAIN client' = Slot
    BY <2>1 DEF EdgeTypes
  <2>3. \A t \in Slot : t \in Range(runtimes') => t \in Range(runtimes) \/ t = s
    BY <2>1 DEF EdgeTypes, Range
  <2>. QED  BY <1>1, <1>2, <2>1, <2>2, <2>3 DEF EdgeTypes, ManifestsHold, HasRuntime
<1>. QED  BY <1>3, <1>4

\* What a runtime has sent is what it has queued.
LEMMA SentPlays ==
  ASSUME PlaylistInvariant
  PROVE  /\ \A k \in 0..Len(runtimes) : \A event \in Sent(k) : IsPlay(event)
         /\ \A s \in Slot : \A n \in 0..Len(queue[s]) : \A event \in Events(s, n) : IsPlay(event)
<1>1. \A s \in Slot : \A n \in 0..Len(queue[s]) : \A event \in Events(s, n) : IsPlay(event)
  BY DEF PlaylistInvariant, EdgeTypes, Events, PlaysHold
<1>2. \A k \in 0..Len(runtimes) : \A i \in 1..k : runtimes[i] \in Slot
  BY DEF PlaylistInvariant, EdgeTypes
<1>3. \A s \in Slot : Len(queue[s]) \in 0..Len(queue[s])
  BY DEF PlaylistInvariant, EdgeTypes
<1>. QED  BY <1>1, <1>2, <1>3 DEF Sent

\* Whatever is flushed, the rest of the invariant has only to do with queues.
LEMMA FlushKeeps ==
  ASSUME PlaylistInvariant, NEW k \in 0..Len(runtimes), FlushFirst(k),
         \A event \in plays' : event \in plays \/ IsPlay(event)
  PROVE  PlaylistInvariant'
<1>. USE DEF PlaylistInvariant
<1>1. UNCHANGED <<backend, store, calls, memory, cached, produced>>
  BY DEF FlushFirst
<1>2. \A s \in Slot : queue'[s] \in {queue[s], <<>>}
  BY DEF FlushFirst
<1>3. EdgeTypes'
  <2>1. queue' \in [Slot -> Seq(Play)]
    <3>1. DOMAIN queue' = Slot /\ queue' = [s \in Slot |-> queue'[s]]
      BY DEF FlushFirst
    <3>2. \A s \in Slot : queue[s] \in Seq(Play) /\ <<>> \in Seq(Play)
      BY DEF EdgeTypes
    <3>3. \A s \in Slot : queue'[s] \in Seq(Play)
      BY <1>2, <3>2
    <3>. QED  BY <3>1, <3>3
  <2>2. UNCHANGED Play
    BY DEF Play, Version
  <2>. QED  BY <1>1, <2>1, <2>2 DEF EdgeTypes, memory
<1>4. ManifestsHold'
  BY <1>1, StoreRests DEF ManifestsHold, HasRuntime, IsManifestOf, memory
<1>5. PlaysHold'
  <2>1. \A event \in plays' : IsPlay(event)
    BY DEF PlaysHold
  <2>2. \A s \in Slot : \A i \in DOMAIN queue'[s] : IsPlay(queue'[s][i])
    BY <1>2 DEF PlaysHold
  <2>. QED  BY <1>1, <2>1, <2>2, StoreRests DEF PlaysHold, IsPlay
<1>. QED  BY <1>1, <1>3, <1>4, <1>5, StoreRests

LEMMA EdgeKeeps ==
  ASSUME PlaylistInvariant, EdgeStep
  PROVE  PlaylistInvariant'
<1>. USE DEF PlaylistInvariant
<1>1. UNCHANGED Play
  BY DEF Play, Version
<1>2. ASSUME NEW c \in Campaign, SyncBegin(c) PROVE PlaylistInvariant'
  <2>1. UNCHANGED <<storeVars, runtimes, client, disk>> /\ todo' = Manifests(c)
    BY <1>2 DEF SyncBegin
  <2>2. UNCHANGED <<backend, store, calls, plays>>
    BY <2>1 DEF storeVars, store, calls
  <2>3. EdgeTypes' /\ PlaysHold'
    BY <1>1, <2>1, <2>2, StoreRests DEF EdgeTypes, PlaysHold, IsPlay, disk
  <2>4. \A m \in Manifests(c) : \E s \in Slot : IsManifestOf(m, s)
    BY DEF Manifests, IsManifestOf
  <2>5. ManifestsHold'
    BY <2>1, <2>2, <2>4, StoreRests DEF ManifestsHold, HasRuntime, IsManifestOf, disk
  <2>. QED  BY <2>2, <2>3, <2>5, StoreRests
<1>3. ASSUME NEW m \in todo, SyncSlot(m) \/ SyncFails(m) PROVE PlaylistInvariant'
  <2>1. UNCHANGED <<backend, store, calls, plays, produced, queue>> /\ EnsureRuntime(m)
    BY <1>3 DEF SyncSlot, SyncFails, storeVars, store, calls, disk
  <2>2. todo' \subseteq todo
    BY <1>3 DEF SyncSlot, SyncFails
  <2>3. cached' = cached \/ cached' = [cached EXCEPT ![m.slot] = client'[m.slot]]
    BY <1>3 DEF SyncSlot, SyncFails, disk
  <2>4. DOMAIN cached' = Slot
        /\ \A s \in Slot : cached'[s] = cached[s] \/ (s = m.slot /\ cached'[s] = client'[m.slot])
    BY <2>3 DEF EdgeTypes
  <2>5. EdgeTypes' /\ PlaysHold'
    <3>1. EdgeTypes'
      BY <1>1, <2>1, <2>4, RuntimeEnsured DEF EdgeTypes
    <3>. QED  BY <2>1, <3>1, StoreRests DEF PlaysHold, IsPlay
  <2>6. \A s \in Slot : cached'[s] # None => IsManifestOf(cached'[s], s)
    BY <2>1, <2>4, RuntimeEnsured DEF ManifestsHold
  <2>7. ManifestsHold'
    BY <2>1, <2>2, <2>6, RuntimeEnsured, StoreRests DEF ManifestsHold, IsManifestOf
  <2>. QED  BY <2>1, <2>5, <2>7, StoreRests
<1>4. ASSUME NEW s \in Slot, PlaySlot(s) PROVE PlaylistInvariant'
  <2>1. UNCHANGED <<backend, store, calls, plays, memory, cached>>
    BY <1>4 DEF PlaySlot, storeVars, store, calls
  <2>2. cached[s] = Manifest(s) /\ assignment[s] # None
    BY <1>4 DEF PlaySlot, Playable, ManifestsHold, IsManifestOf
  <2>3. produced[s] + 1 \in Nat /\ NextPlay(s) = PlayOf(s, produced[s] + 1)
    BY <2>2 DEF NextPlay, PlayOf, Manifest, EdgeTypes
  <2>4. NextPlay(s) \in Play /\ IsPlay(NextPlay(s))
    <3>1. ManifestVersion(s) \in Version /\ slots[s] \in Campaign \cup {None}
          /\ assignment[s] \in Creative \cup {None}
      BY DEF Version, StoreTypes
    <3>2. PlayOf(s, produced[s] + 1) \in Play
      BY <2>3, <3>1 DEF PlayOf, Play
    <3>. QED  BY <2>2, <2>3, <3>2 DEF IsPlay
  <2>5. queue' = [queue EXCEPT ![s] = Append(queue[s], NextPlay(s))]
        /\ produced' = [produced EXCEPT ![s] = produced[s] + 1]
    BY <1>4 DEF PlaySlot
  <2>6. EdgeTypes'
    BY <1>1, <2>1, <2>4, <2>5 DEF EdgeTypes, memory
  <2>7. ManifestsHold'
    BY <2>1, StoreRests DEF ManifestsHold, HasRuntime, IsManifestOf, memory
  <2>8. \A t \in Slot : \A i \in DOMAIN queue'[t] : IsPlay(queue'[t][i])
    BY <2>4, <2>5 DEF EdgeTypes, PlaysHold
  <2>9. PlaysHold'
    BY <2>1, <2>8, StoreRests DEF PlaysHold, IsPlay
  <2>. QED  BY <2>1, <2>6, <2>7, <2>9, StoreRests
<1>5. CASE FlushAll
  <2>1. Len(runtimes) \in 0..Len(runtimes)
    BY DEF EdgeTypes
  <2>2. \A event \in plays' : event \in plays \/ IsPlay(event)
    BY <1>5, <2>1, SentPlays DEF FlushAll
  <2>. QED  BY <1>5, <2>1, <2>2, FlushKeeps DEF FlushAll
<1>6. CASE FlushFails
  <2>1. PICK k \in 0..(Len(runtimes) - 1) : \E n \in 0..Len(queue[runtimes[k + 1]]) :
          FlushFirst(k) /\ plays' = plays \cup Sent(k) \cup Events(runtimes[k + 1], n)
    BY <1>6 DEF FlushFails
  <2>2. k \in 0..Len(runtimes) /\ runtimes[k + 1] \in Slot
    BY DEF EdgeTypes
  <2>3. \A event \in plays' : event \in plays \/ IsPlay(event)
    BY <2>1, <2>2, SentPlays
  <2>. QED  BY <2>1, <2>2, <2>3, FlushKeeps
<1>7. CASE EdgeRestart
  <2>1. UNCHANGED <<backend, store, calls, plays, cached, produced, queue>>
    BY <1>7 DEF EdgeRestart, storeVars, store, calls, disk
  <2>2. runtimes' = <<>> /\ client' = [s \in Slot |-> None] /\ todo' = {}
    BY <1>7 DEF EdgeRestart
  <2>3. EdgeTypes' /\ PlaysHold'
    <3>1. <<>> \in Seq(Slot) /\ DOMAIN client' = Slot
      BY <2>2
    <3>2. EdgeTypes'
      BY <1>1, <2>1, <2>2, <3>1 DEF EdgeTypes
    <3>. QED  BY <2>1, <3>2, StoreRests DEF PlaysHold, IsPlay
  <2>4. \A s \in Slot : ~HasRuntime(s)'
    BY <2>2 DEF HasRuntime, Range
  <2>5. ManifestsHold'
    BY <2>1, <2>2, <2>4, StoreRests DEF ManifestsHold, IsManifestOf
  <2>. QED  BY <2>1, <2>3, <2>5, StoreRests
<1>. QED  BY <1>2, <1>3, <1>4, <1>5, <1>6, <1>7 DEF EdgeStep

\* The inductive invariant: the store keeps what it was given, so that all the
\* Edge has fetched stays true, and a playback is determined by its identity.
THEOREM PlaylistInvariantHolds == PlaylistSpec => []PlaylistInvariant
<1>1. PlaylistInvariant /\ UNCHANGED playlistVars => PlaylistInvariant'
  <2>. SUFFICES ASSUME PlaylistInvariant, UNCHANGED playlistVars PROVE PlaylistInvariant'
    OBVIOUS
  <2>1. /\ UNCHANGED <<backend, store, calls, plays>>
        /\ UNCHANGED <<runtimes, client, cached, produced, queue, todo>>
    BY DEF playlistVars, storeVars, store, calls
  <2>2. EdgeTypes' /\ ManifestsHold' /\ PlaysHold'
    BY <2>1, StoreRests DEF PlaylistInvariant, EdgeTypes, ManifestsHold, PlaysHold, HasRuntime,
       IsManifestOf, IsPlay, Play, Version
  <2>. QED  BY <2>1, <2>2, StoreRests DEF PlaylistInvariant
<1>. QED  BY PlaylistInitInvariant, CloudKeeps, EdgeKeeps, <1>1, PTL DEF PlaylistSpec, PlaylistNext

\* Each playback the Cloud has recorded is of the creative its slot is assigned.
THEOREM AttributedPlays == PlaylistSpec => []PlaysAreAttributed
<1>1. PlaylistInvariant => PlaysAreAttributed
  BY DEF PlaylistInvariant, PlaysHold, IsPlay, PlayOf, PlaysAreAttributed
<1>. QED  BY PlaylistInvariantHolds, <1>1, PTL

\* The Cloud takes every playback event that an Edge has queued.
THEOREM AcceptableEvents == PlaylistSpec => []QueuedEventsAreAcceptable
<1>1. PlaylistInvariant => QueuedEventsAreAcceptable
  <2>. SUFFICES ASSUME PlaylistInvariant, NEW s \in Slot, NEW i \in DOMAIN queue[s]
                PROVE  Accepts(queue[s][i])
    BY DEF QueuedEventsAreAcceptable
  <2>1. PICK t \in Slot, n \in Nat : assignment[t] # None /\ queue[s][i] = PlayOf(t, n)
    BY DEF PlaylistInvariant, PlaysHold, IsPlay
  <2>2. ASSUME NEW row \in plays, row.id = PlayOf(t, n).id PROVE row = PlayOf(t, n)
    <3>1. PICK u \in Slot, k \in Nat : row = PlayOf(u, k)
      BY DEF PlaylistInvariant, PlaysHold, IsPlay
    <3>2. u = t /\ k = n
      BY <2>2, <3>1 DEF PlayOf, ManifestVersion
    <3>. QED  BY <3>1, <3>2
  <2>3. AssignmentExists(PlayOf(t, n))
    BY DEF AssignmentExists, PlayOf, Manifest
  <2>. QED  BY <2>1, <2>2, <2>3 DEF Accepts, SameId
<1>. QED  BY PlaylistInvariantHolds, <1>1, PTL

\* A call of assignCreative answers with what is stored, which is what it was
\* asked for unless another call assigned the slot meanwhile.
THEOREM StoredAnswers == PlaylistSpec => []AnswersAreAsAsked
<1>1. PlaylistInvariant => AnswersAreAsAsked
  BY DEF PlaylistInvariant, CallProgress, ProgressOf, AnswersAreAsAsked
<1>. QED  BY PlaylistInvariantHolds, <1>1, PTL

\* The stores implement the write-once registry, statement by statement.
THEOREM RegistryImplementation == PlaylistSpec => ImplementsRegistry
<1>1. PlaylistInit => Registry!RegistryInit
  BY DEF PlaylistInit, StoreInit, Registry!RegistryInit
<1>2. PlaylistInvariant /\ CloudStep => [Registry!RegistryNext]_store
  BY StoreCases DEF PlaylistInvariant, CloudStep, Registry!RegistryNext
<1>3. EdgeStep \/ UNCHANGED playlistVars => UNCHANGED store
  BY DEF EdgeStep, SyncBegin, SyncSlot, SyncFails, PlaySlot, FlushAll, FlushFails, FlushFirst,
     EdgeRestart, storeVars, store, playlistVars
<1>4. PlaylistInvariant /\ [PlaylistNext]_playlistVars => [Registry!RegistryNext]_store
  BY <1>2, <1>3 DEF PlaylistNext
<1>. QED  BY <1>1, <1>4, PlaylistInvariantHolds, PTL DEF PlaylistSpec, ImplementsRegistry

-----------------------------------------------------------------------------
\* The planning of a day.

\* What holds of 0 and goes on by one holds as far as it goes.
LEMMA UpTo ==
  ASSUME NEW m \in Nat, NEW S, 0 \in S, \A n \in 0..m : n < m /\ n \in S => n + 1 \in S
  PROVE  \A n \in 0..m : n \in S
<1>. DEFINE T == {n \in 0..m : n \notin S}
<1>. SUFFICES ASSUME T # {}
              PROVE  FALSE
  OBVIOUS
<1>1. T \subseteq Nat
  OBVIOUS
<1>2. PICK k \in T : \A l \in T : ~(<<l, k>> \in OpToRel(<, Nat))
  BY <1>1, NatLessThanWellFounded, WFMin
<1>3. k \in 0..m /\ k \notin S /\ k # 0
  OBVIOUS
<1>4. k - 1 \in 0..m /\ k - 1 < m
  BY <1>3
<1>5. k - 1 \notin T
  <2>1. <<k - 1, k>> \in OpToRel(<, Nat)
    BY <1>3, <1>4 DEF OpToRel
  <2>. QED  BY <1>2, <2>1
<1>. QED  BY <1>3, <1>4, <1>5

\* A computation in m steps within a set has a result after each of them.
Steps(m, G) == [1..m -> [G -> G]]

IsComputation(f, m, G, first, step) ==
  /\ f \in [0..m -> G]
  /\ f[0] = first
  /\ \A n \in 1..m : f[n] = step[n][f[n - 1]]

LEMMA StepsExist ==
  ASSUME NEW m \in Nat, NEW G, NEW first \in G, NEW step \in Steps(m, G)
  PROVE  \E f : IsComputation(f, m, G, first, step)
<1>0. step \in [1..m -> [G -> G]]
  BY DEF Steps
<1>. DEFINE After(f, n) == IF n = 0 THEN first ELSE step[n][f[n - 1]]
            S == {k \in 0..m : \E f \in [0..k -> G] : \A n \in 0..k : f[n] = After(f, n)}
<1>1. 0 \in S
  <2>. DEFINE g == [n \in 0..0 |-> first]
  <2>1. g \in [0..0 -> G] /\ \A n \in 0..0 : g[n] = After(g, n)
    OBVIOUS
  <2>. HIDE DEF g
  <2>2. 0 \in 0..m
    OBVIOUS
  <2>. QED  BY <2>1, <2>2, Zenon
<1>2. ASSUME NEW k \in 0..m, k < m, k \in S
      PROVE  k + 1 \in S
  <2>1. PICK f \in [0..k -> G] : \A n \in 0..k : f[n] = After(f, n)
    BY <1>2
  <2>. DEFINE g == [n \in 0..(k + 1) |-> IF n = k + 1 THEN step[k + 1][f[k]] ELSE f[n]]
  <2>2. step[k + 1][f[k]] \in G
    <3>1. k + 1 \in 1..m /\ k \in 0..k
      BY <1>2
    <3>. QED  BY <1>0, <3>1
  <2>3. g \in [0..(k + 1) -> G]
    <3>1. \A n \in 0..(k + 1) : n # k + 1 => n \in 0..k
      OBVIOUS
    <3>. QED  BY <2>2, <3>1
  <2>4. \A n \in 0..k : g[n] = f[n]
    OBVIOUS
  <2>5. g[k + 1] = step[k + 1][f[k]]
    OBVIOUS
  <2>. HIDE DEF g
  <2>6. ASSUME NEW n \in 0..(k + 1)
        PROVE  g[n] = After(g, n)
    <3>1. CASE n = k + 1
      <4>1. n # 0 /\ n - 1 = k /\ k \in 0..k
        BY <3>1
      <4>. QED  BY <2>4, <2>5, <3>1, <4>1
    <3>2. CASE n # k + 1
      <4>1. n \in 0..k /\ (n # 0 => n - 1 \in 0..k)
        BY <3>2
      <4>. QED  BY <2>1, <2>4, <4>1
    <3>. QED  BY <3>1, <3>2
  <2>7. k + 1 \in 0..m
    BY <1>2
  <2>. QED  BY <2>3, <2>6, <2>7
<1>3. m \in S
  <2>. HIDE DEF S
  <2>1. \A n \in 0..m : n < m /\ n \in S => n + 1 \in S
    BY <1>2
  <2>2. \A n \in 0..m : n \in S
    BY <1>1, <2>1, UpTo, Zenon
  <2>. QED  BY <2>2
<1>4. \E f \in [0..m -> G] : \A n \in 0..m : f[n] = After(f, n)
  <2>. HIDE DEF After
  <2>. QED  BY <1>3
<1>5. PICK f \in [0..m -> G] : \A n \in 0..m : f[n] = After(f, n)
  BY <1>4
<1>6. f[0] = first
  BY <1>5
<1>7. \A n \in 1..m : f[n] = step[n][f[n - 1]]
  <2>1. \A n \in 1..m : n \in 0..m /\ n # 0
    OBVIOUS
  <2>. QED  BY <1>5, <2>1
<1>. QED  BY <1>5, <1>6, <1>7 DEF IsComputation

-----------------------------------------------------------------------------
\* Sums.

Counts(counts) == IsList(counts) /\ \A n \in DOMAIN counts : counts[n] \in Nat

LEMMA SumsAre ==
  ASSUME NEW counts, Counts(counts)
  PROVE  /\ Sums(counts) \in [0..Len(counts) -> Nat]
         /\ Sums(counts)[0] = 0
         /\ \A n \in 1..Len(counts) : Sums(counts)[n] = Sums(counts)[n - 1] + counts[n]
<1>. DEFINE m == Len(counts)
            step == [n \in 1..m |-> [s \in Nat |-> s + counts[n]]]
            R(f) == f = [n \in 0..m |-> IF n = 0 THEN 0 ELSE f[n - 1] + counts[n]]
<1>1. m \in Nat /\ \A n \in 1..m : counts[n] \in Nat
  BY DEF Counts, IsList
<1>2. step \in [1..m -> [Nat -> Nat]]
  BY <1>1
<1>3. \A n \in 1..m, s \in Nat : step[n][s] = s + counts[n]
  OBVIOUS
<1>. HIDE DEF step
<1>4. PICK f \in [0..m -> Nat] : f[0] = 0 /\ \A n \in 1..m : f[n] = step[n][f[n - 1]]
  <2>. HIDE DEF m
  <2>1. 0 \in Nat /\ step \in Steps(m, Nat)
    BY <1>2 DEF Steps
  <2>2. PICK f : IsComputation(f, m, Nat, 0, step)
    BY <1>1, <2>1, StepsExist
  <2>. QED  BY <2>2 DEF IsComputation
<1>5. R(f)
  <2>1. \A n \in 0..m : n # 0 => n \in 1..m /\ f[n - 1] \in Nat
    BY <1>1, <1>4
  <2>2. \A n \in 0..m : n # 0 => f[n] = f[n - 1] + counts[n]
    BY <1>3, <1>4, <2>1
  <2>3. \A n \in 0..m : f[n] = IF n = 0 THEN 0 ELSE f[n - 1] + counts[n]
    BY <1>4, <2>2
  <2>4. f = [n \in 0..m |-> f[n]]
    BY <1>4
  <2>. QED  BY <2>3, <2>4
<1>6. R(Sums(counts))
  <2>1. Sums(counts) = CHOOSE g : R(g)
    BY DEF Sums
  <2>. HIDE DEF R
  <2>. QED  BY <1>5, <2>1
<1>. DEFINE sums == Sums(counts)
<1>7. /\ DOMAIN sums = 0..m
      /\ \A n \in 0..m : sums[n] = IF n = 0 THEN 0 ELSE sums[n - 1] + counts[n]
      /\ sums = [n \in 0..m |-> sums[n]]
  BY <1>6
<1>. HIDE DEF sums
<1>8. \A n \in 0..m : sums[n] \in Nat
  <2>. DEFINE S == {n \in 0..m : sums[n] \in Nat}
  <2>1. 0 \in S
    BY <1>1, <1>7
  <2>2. ASSUME NEW n \in 0..m, n < m, n \in S PROVE n + 1 \in S
    <3>1. n + 1 \in 0..m /\ n + 1 \in 1..m /\ n + 1 # 0 /\ (n + 1) - 1 = n
      BY <1>1, <2>2
    <3>2. sums[n + 1] = sums[n] + counts[n + 1]
      BY <1>7, <3>1
    <3>. QED  BY <1>1, <2>2, <3>1, <3>2
  <2>3. \A n \in 0..m : n \in S
    <3>. HIDE DEF S
    <3>. QED  BY <1>1, <2>1, <2>2, UpTo
  <2>. QED  BY <2>3
<1>9. \A n \in 1..m : sums[n] = sums[n - 1] + counts[n]
  BY <1>1, <1>7
<1>10. sums \in [0..m -> Nat] /\ sums[0] = 0
  BY <1>1, <1>7, <1>8
<1>. QED  BY <1>9, <1>10 DEF sums

LEMMA SumsGrow ==
  ASSUME NEW counts, Counts(counts), NEW i \in 0..Len(counts), NEW j \in 0..Len(counts), i <= j
  PROVE  Sums(counts)[i] <= Sums(counts)[j]
<1>. DEFINE m == Len(counts)
            sums == Sums(counts)
            S == {n \in 0..m : i <= n => sums[i] <= sums[n]}
<1>1. m \in Nat /\ \A n \in 1..m : counts[n] \in Nat
  BY DEF Counts, IsList
<1>2. sums \in [0..m -> Nat] /\ \A n \in 1..m : sums[n] = sums[n - 1] + counts[n]
  BY SumsAre
<1>. HIDE DEF sums
<1>3. 0 \in S
  BY <1>1, <1>2
<1>4. ASSUME NEW n \in 0..m, n < m, n \in S PROVE n + 1 \in S
  <2>1. n + 1 \in 1..m /\ n + 1 \in 0..m /\ (n + 1) - 1 = n
    BY <1>1, <1>4
  <2>2. sums[n + 1] = sums[n] + counts[n + 1]
    BY <1>2, <2>1
  <2>3. sums[n] <= sums[n + 1] /\ sums[i] \in Nat /\ sums[n] \in Nat /\ sums[n + 1] \in Nat
    <3>1. counts[n + 1] \in Nat /\ sums[i] \in Nat /\ sums[n] \in Nat
      BY <1>1, <1>2, <2>1
    <3>. QED  BY <2>2, <3>1
  <2>4. i = n + 1 \/ (i <= n + 1 => i <= n)
    BY <1>1
  <2>. QED  BY <1>4, <2>1, <2>3, <2>4
<1>5. \A n \in 0..m : n \in S
  <2>. HIDE DEF S
  <2>. QED  BY <1>1, <1>3, <1>4, UpTo
<1>. QED  BY <1>5 DEF sums

LEMMA Division ==
  ASSUME NEW a \in Nat, NEW b \in Nat \ {0}
  PROVE  a \div b \in Nat /\ a % b \in 0..(b - 1) /\ a = b * (a \div b) + (a % b)
<1>1. a \div b \in Int /\ a \div b >= 0
  OBVIOUS
<1>2. a % b \in 0..(b - 1)
  OBVIOUS
<1>3. a = b * (a \div b) + (a % b)
  OBVIOUS
<1>. QED  BY <1>1, <1>2, <1>3

\* The slots an item needs.
CountOf(item) == RequiredAtomicSlots(item.seconds)

LEMMA SomeSlotsAreRequired ==
  ASSUME NEW seconds \in Nat \ {0}
  PROVE  RequiredAtomicSlots(seconds) \in Nat \ {0}
<1>. DEFINE a == seconds + SlotSeconds - 1
<1>1. a \in Nat /\ SlotSeconds \in Nat \ {0} /\ a >= SlotSeconds
  BY SlotGridAssumption
<1>2. PICK q : q = a \div SlotSeconds
  OBVIOUS
<1>3. q \in Nat /\ a % SlotSeconds \in 0..(SlotSeconds - 1) /\ a = SlotSeconds * q + (a % SlotSeconds)
  <2>. HIDE DEF a
  <2>. QED  BY <1>1, <1>2, Division
<1>4. q # 0
  <2>1. SUFFICES ASSUME q = 0 PROVE FALSE
    OBVIOUS
  <2>2. SlotSeconds * q = 0
    BY <1>1, <2>1
  <2>. HIDE DEF a
  <2>. QED  BY <1>1, <1>3, <2>2
<1>. QED  BY <1>2, <1>3, <1>4 DEF RequiredAtomicSlots

\* A list of items that can be told apart by what they show: each has as many
\* segments as it needs slots, and no identity is in two places.
ItemsAreSound(items) ==
  /\ IsList(items)
  /\ \A k \in DOMAIN items :
       /\ items[k].start \in Nat \cup {-1}
       /\ CountOf(items[k]) \in Nat \ {0}
       /\ items[k].segments # <<>>
       /\ \A a \in 1..CountOf(items[k]) :
            items[k].segments[a] \in {Available[i] : i \in 1..Len(Available)}
  /\ \A k, l \in DOMAIN items :
       \A a \in 1..CountOf(items[k]), b \in 1..CountOf(items[l]) :
         items[k].segments[a] = items[l].segments[b] => k = l /\ a = b

LEMMA ItemsAreAllocated ==
  ASSUME NEW media \in Media, Allocation(media).error = "none"
  PROVE  ItemsAreSound(Items(media))
<1>. DEFINE durations == [i \in DOMAIN media |-> media[i].seconds]
            required == [i \in DOMAIN durations |-> RequiredAtomicSlots(durations[i])]
            offset == Sums(required)
            m == Len(media)
            items == Items(media)
<1>1. /\ m \in Nat /\ DOMAIN media = 1..m
      /\ \A i \in 1..m : media[i].seconds \in Nat \ {0} /\ media[i].start \in Nat \cup {-1}
  BY SlotGridAssumption DEF IsList
<1>2. /\ DOMAIN durations = 1..m /\ DOMAIN required = 1..m
      /\ \A i \in 1..m : required[i] = RequiredAtomicSlots(media[i].seconds)
  BY <1>1
<1>3. \A i \in 1..m : required[i] \in Nat \ {0}
  BY <1>1, <1>2, SomeSlotsAreRequired
<1>4. Len(required) = m /\ Len(durations) = m
  BY <1>1
<1>5. Counts(required)
  <2>. HIDE DEF required, m
  <2>. QED  BY <1>1, <1>2, <1>3, <1>4 DEF Counts, IsList
<1>6. /\ IsInjective(Available) /\ ~(offset[m] > Len(Available))
      /\ Allocation(media).items
           = [i \in DOMAIN durations |-> Slice(Available, offset[i - 1], offset[i])]
  <2>1. Allocation(media) =
          IF ~IsInjective(Available) \/ offset[Len(durations)] > Len(Available)
          THEN [error |-> "refused"]
          ELSE [error |-> "none",
                items |-> [i \in DOMAIN durations |-> Slice(Available, offset[i - 1], offset[i])],
                remaining |-> Slice(Available, offset[Len(durations)], Len(Available))]
    BY DEF Allocation, AllocateAtomicSlots
  <2>. HIDE DEF durations, required, offset
  <2>. QED  BY <1>4, <2>1
<1>7. /\ offset \in [0..m -> Nat] /\ offset[0] = 0
      /\ \A i \in 1..m : offset[i] = offset[i - 1] + required[i]
      /\ \A i, j \in 0..m : i <= j => offset[i] <= offset[j]
  BY <1>4, <1>5, SumsAre, SumsGrow
<1>8. Len(Available) \in Nat /\ DOMAIN Available = 1..Len(Available)
  BY SlotGridAssumption DEF IsList
<1>9. IsInjective(Available) /\ offset[m] <= Len(Available)
  <2>. HIDE DEF offset, m
  <2>. QED  BY <1>1, <1>7, <1>8, <1>6
<1>10. /\ DOMAIN items = 1..m /\ Len(items) = m
      /\ \A i \in 1..m :
           /\ items[i].segments = Slice(Available, offset[i - 1], offset[i])
           /\ items[i].start = media[i].start
           /\ items[i].seconds = media[i].seconds
  <2>1. \A i \in 1..m : Allocation(media).items[i] = Slice(Available, offset[i - 1], offset[i])
    BY <1>2, <1>6
  <2>. HIDE DEF offset, m
  <2>2. DOMAIN items = 1..m
    BY <1>1 DEF Items
  <2>3. \A i \in 1..m :
           /\ items[i].segments = Allocation(media).items[i]
           /\ items[i].start = media[i].start
           /\ items[i].seconds = media[i].seconds
    BY <1>1 DEF Items
  <2>4. Len(items) = m
    BY <1>1 DEF Items
  <2>. QED  BY <2>1, <2>2, <2>3, <2>4
<1>11. \A i \in 1..m : CountOf(items[i]) = required[i]
  BY <1>2, <1>10 DEF CountOf
<1>. HIDE DEF durations, required, offset, items, m
<1>12. ASSUME NEW i \in 1..m
       PROVE  /\ DOMAIN items[i].segments = 1..required[i]
              /\ Len(items[i].segments) = required[i]
              /\ \A a \in 1..required[i] :
                   /\ offset[i - 1] + a \in 1..Len(Available)
                   /\ items[i].segments[a] = Available[offset[i - 1] + a]
  <2>1. PICK u : u = offset[i - 1]
    OBVIOUS
  <2>2. PICK v : v = offset[i]
    OBVIOUS
  <2>3. u \in Nat /\ v \in Nat /\ required[i] \in Nat /\ v = u + required[i] /\ v <= Len(Available)
    BY <1>1, <1>3, <1>9, <1>7, <2>1, <2>2
  <2>4. items[i].segments = [a \in 1..required[i] |-> Available[u + a]]
    <3>1. items[i].segments = Slice(Available, u, v)
      BY <1>10, <2>1, <2>2
    <3>2. v - u = required[i]
      BY <2>3
    <3>. QED  BY <3>1, <3>2 DEF Slice
  <2>5. \A a \in 1..required[i] : u + a \in 1..Len(Available)
    BY <1>8, <2>3
  <2>. QED  BY <2>1, <2>3, <2>4, <2>5
<1>13. ASSUME NEW k \in 1..m, NEW l \in 1..m, NEW a \in 1..required[k], NEW b \in 1..required[l],
              items[k].segments[a] = items[l].segments[b]
       PROVE  k = l /\ a = b
  <2>1. offset[k - 1] + a = offset[l - 1] + b
    <3>. DEFINE i == offset[k - 1] + a
                j == offset[l - 1] + b
    <3>1. i \in 1..Len(Available) /\ j \in 1..Len(Available) /\ Available[i] = Available[j]
      BY <1>12, <1>13
    <3>. HIDE DEF i, j
    <3>2. i = j
      BY <1>9, <1>8, <3>1 DEF IsInjective
    <3>. QED  BY <3>2 DEF i, j
  <2>2. ASSUME NEW x \in 1..m, NEW y \in 1..m, NEW c \in 1..required[x], NEW d \in 1..required[y],
               offset[x - 1] + c = offset[y - 1] + d
        PROVE  ~(x < y)
    <3>0. x - 1 \in 0..m /\ y - 1 \in 0..m /\ x \in 0..m /\ m \in Nat
      BY <1>1
    <3>1. offset[x] = offset[x - 1] + required[x]
      BY <1>7
    <3>2. PICK u, v, w, r : u = offset[x - 1] /\ v = offset[x] /\ w = offset[y - 1] /\ r = required[x]
      OBVIOUS
    <3>3. u \in Nat /\ v \in Nat /\ w \in Nat /\ r \in Nat /\ v = u + r /\ c <= r /\ d >= 1
      <4>1. offset[x - 1] \in Nat /\ offset[x] \in Nat /\ offset[y - 1] \in Nat /\ required[x] \in Nat
        BY <1>3, <1>7, <3>0
      <4>2. c <= required[x] /\ d >= 1
        BY <1>3
      <4>. QED  BY <3>1, <3>2, <4>1, <4>2
    <3>4. x < y => v <= w
      <4>1. x < y => x <= y - 1
        BY <3>0
      <4>2. x <= y - 1 => offset[x] <= offset[y - 1]
        BY <1>7, <3>0
      <4>. QED  BY <3>2, <4>1, <4>2
    <3>5. u + c = w + d
      BY <2>2, <3>2
    <3>6. c \in Int /\ d \in Int
      OBVIOUS
    <3>. QED  BY <3>3, <3>4, <3>5, <3>6
  <2>3. k = l
    <3>1. ~(k < l) /\ ~(l < k)
      BY <2>1, <2>2
    <3>. QED  BY <1>1, <3>1
  <2>4. offset[k - 1] \in Nat
    BY <1>1, <1>7
  <2>. QED  BY <2>1, <2>3, <2>4
<1>14. \A i \in 1..m : items[i].segments # <<>>
  <2>1. \A i \in 1..m : Len(items[i].segments) # 0
    BY <1>3, <1>12
  <2>. QED  BY <2>1
<1>15. \A k \in 1..m : \A a \in 1..required[k] :
         items[k].segments[a] \in {Available[i] : i \in 1..Len(Available)}
  BY <1>12
<1>16. /\ IsList(items)
       /\ \A k \in 1..m : items[k].start \in Nat \cup {-1} /\ CountOf(items[k]) \in Nat \ {0}
  BY <1>1, <1>3, <1>10, <1>11 DEF IsList
<1>17. /\ IsList(items) /\ DOMAIN items = 1..m
       /\ \A k \in 1..m :
            /\ items[k].start \in Nat \cup {-1} /\ CountOf(items[k]) \in Nat \ {0}
            /\ items[k].segments # <<>>
            /\ \A a \in 1..CountOf(items[k]) :
                 items[k].segments[a] \in {Available[i] : i \in 1..Len(Available)}
  BY <1>10, <1>11, <1>14, <1>15, <1>16
<1>18. \A k, l \in 1..m : \A a \in 1..CountOf(items[k]), b \in 1..CountOf(items[l]) :
         items[k].segments[a] = items[l].segments[b] => k = l /\ a = b
  BY <1>11, <1>13
<1>19. ItemsAreSound(items)
  BY <1>17, <1>18 DEF ItemsAreSound
<1>. QED  BY <1>19 DEF items

LEMMA FirstFitExists ==
  ASSUME NEW cells, NEW from \in Nat, NEW count, FindFirstFit(cells, from, count) # -1
  PROVE  FindFirstFit(cells, from, count) \in Nat
<1>. DEFINE starts == {s \in from..SlotCount : Fits(cells, s, count)}
            IsFirst(s) == \A r \in starts : s <= r
<1>1. starts # {} /\ FindFirstFit(cells, from, count) = CHOOSE s \in starts : IsFirst(s)
  BY DEF FindFirstFit
<1>2. starts \subseteq Nat
  BY SlotGridAssumption
<1>. HIDE DEF starts
<1>3. PICK s \in starts : \A r \in starts : ~(<<r, s>> \in OpToRel(<, Nat))
  BY <1>1, <1>2, NatLessThanWellFounded, WFMin
<1>4. ASSUME NEW r \in starts PROVE s <= r
  <2>1. r \in Nat /\ s \in Nat
    BY <1>2, <1>3
  <2>2. ASSUME r < s PROVE FALSE
    <3>1. <<r, s>> \in OpToRel(<, Nat)
      BY <2>1, <2>2 DEF OpToRel
    <3>. QED  BY <1>3, <3>1
  <2>. QED  BY <2>1, <2>2
<1>5. IsFirst(s)
  BY <1>4
<1>. HIDE DEF IsFirst
<1>6. (CHOOSE t \in starts : IsFirst(t)) \in starts
  BY <1>3, <1>5
<1>. QED  BY <1>1, <1>2, <1>6

-----------------------------------------------------------------------------
\* The loop over the advertisers.

Errors ==
  {"none", "DUPLICATE_ADVERTISER_SLOT", "SEGMENTS_MISMATCH", "ADVERTISER_CAPACITY_EXCEEDED",
   "ADVERTISER_SLOT_CAPACITY_EXCEEDED", "ADVERTISER_SLOT_INDEX_INVALID",
   "ADVERTISER_SLOT_POSITION_CONFLICT"}

Contents(items) ==
  {Empty} \cup {AdvertiserSlot(items[k], offset) : k \in DOMAIN items, offset \in Nat}

GridsOf(items) ==
  [slots : [Position -> Contents(items)], identities : SUBSET {items[k].slotId : k \in DOMAIN items},
   adverts : Nat, cursor : Nat, error : Errors]

\* What an item that is not refused is placed by.
LEMMA Placeable ==
  ASSUME NEW items, ItemsAreSound(items), NEW k \in DOMAIN items, NEW grid \in GridsOf(items),
         Refusal(grid, items[k]) = "none"
  PROVE  /\ StartOf(grid, items[k]) \in Nat
         /\ StartOf(grid, items[k]) + CountOf(items[k]) <= SlotCount
         /\ grid.adverts + CountOf(items[k]) <= MaxAdvertiserSlots
         /\ \A i \in StartOf(grid, items[k])..(StartOf(grid, items[k]) + CountOf(items[k]) - 1) :
              i \in Position /\ grid.slots[i] = Empty
<1>. DEFINE item == items[k]
            count == CountOf(items[k])
            start == StartOf(grid, items[k])
<1>1. /\ ~(grid.adverts + count > MaxAdvertiserSlots)
      /\ start # -1 /\ ~(start + count > SlotCount) /\ Fits(grid.slots, start, count)
  <2>. DEFINE a == item.slotId \in grid.identities
              b == item.segments # <<>> /\ Len(item.segments) # count
              c == grid.adverts + count > MaxAdvertiserSlots
              d == start = -1
              e == start + count > SlotCount
              f == ~Fits(grid.slots, start, count)
  <2>1. Refusal(grid, item) =
          IF a THEN "DUPLICATE_ADVERTISER_SLOT"
          ELSE IF b THEN "SEGMENTS_MISMATCH"
          ELSE IF c THEN "ADVERTISER_CAPACITY_EXCEEDED"
          ELSE IF d THEN "ADVERTISER_SLOT_CAPACITY_EXCEEDED"
          ELSE IF e THEN "ADVERTISER_SLOT_INDEX_INVALID"
          ELSE IF f THEN "ADVERTISER_SLOT_POSITION_CONFLICT"
          ELSE "none"
    BY DEF Refusal, CountOf
  <2>2. Refusal(grid, item) = "none"
    OBVIOUS
  <2>. HIDE DEF a, b, c, d, e, f
  <2>3. ~c /\ ~d /\ ~e /\ ~f
    BY <2>1, <2>2
  <2>. QED  BY <2>3 DEF c, d, e, f
<1>2. count \in Nat \ {0} /\ item.start \in Nat \cup {-1}
  BY DEF ItemsAreSound
<1>3. grid.cursor \in Nat /\ grid.adverts \in Nat
  BY DEF GridsOf
<1>4. start \in Nat
  <2>1. CASE item.start # -1
    BY <1>2, <2>1 DEF StartOf
  <2>2. CASE item.start = -1
    <3>1. start = FindFirstFit(grid.slots, grid.cursor, count)
      BY <2>2 DEF StartOf, CountOf
    <3>. HIDE DEF count, start
    <3>. QED  BY <1>1, <1>3, <3>1, FirstFitExists
  <2>. QED  BY <2>1, <2>2
<1>5. MaxAdvertiserSlots \in Nat /\ SlotCount \in Nat \ {0}
  BY SlotGridAssumption DEF MaxAdvertiserSlots
<1>. HIDE DEF count, start
<1>6. \A i \in start..(start + count - 1) : i \in Position /\ grid.slots[i] = Empty
  <2>1. \A i \in start..(start + count - 1) : grid.slots[i] = Empty
    BY <1>1 DEF Fits
  <2>2. start..(start + count - 1) \subseteq Position
    BY <1>1, <1>2, <1>4, <1>5 DEF Position
  <2>. QED  BY <2>1, <2>2
<1>7. start + count <= SlotCount /\ grid.adverts + count <= MaxAdvertiserSlots
  BY <1>1, <1>2, <1>3, <1>4, <1>5
<1>. QED  BY <1>4, <1>6, <1>7 DEF count, start

\* The slots after an item has been placed.
Placed(cells, item, start) ==
  [i \in Position |-> IF i \in start..(start + CountOf(item) - 1)
                   THEN AdvertiserSlot(item, i - start) ELSE cells[i]]

LEMMA PlaceCases ==
  ASSUME NEW grid, NEW item
  PROVE  PlaceItem(grid, item) =
           IF grid.error # "none" THEN grid
           ELSE IF Refusal(grid, item) # "none" THEN [grid EXCEPT !.error = Refusal(grid, item)]
           ELSE [slots |-> Placed(grid.slots, item, StartOf(grid, item)),
                 identities |-> grid.identities \cup {item.slotId},
                 adverts |-> grid.adverts + CountOf(item),
                 cursor |-> StartOf(grid, item) + CountOf(item),
                 error |-> "none"]
BY DEF PlaceItem, Placed, CountOf

LEMMA RefusalType ==
  ASSUME NEW grid, NEW item
  PROVE  Refusal(grid, item) \in Errors
<1>. DEFINE count == RequiredAtomicSlots(item.seconds)
            start == StartOf(grid, item)
            a == item.slotId \in grid.identities
            b == item.segments # <<>> /\ Len(item.segments) # count
            c == grid.adverts + count > MaxAdvertiserSlots
            d == start = -1
            e == start + count > SlotCount
            f == ~Fits(grid.slots, start, count)
<1>1. Refusal(grid, item) =
        IF a THEN "DUPLICATE_ADVERTISER_SLOT"
        ELSE IF b THEN "SEGMENTS_MISMATCH"
        ELSE IF c THEN "ADVERTISER_CAPACITY_EXCEEDED"
        ELSE IF d THEN "ADVERTISER_SLOT_CAPACITY_EXCEEDED"
        ELSE IF e THEN "ADVERTISER_SLOT_INDEX_INVALID"
        ELSE IF f THEN "ADVERTISER_SLOT_POSITION_CONFLICT"
        ELSE "none"
  BY DEF Refusal
<1>. HIDE DEF a, b, c, d, e, f
<1>. QED  BY <1>1 DEF Errors

LEMMA PlaceType ==
  ASSUME NEW items, ItemsAreSound(items), NEW k \in DOMAIN items, NEW grid \in GridsOf(items)
  PROVE  PlaceItem(grid, items[k]) \in GridsOf(items)
<1>. DEFINE item == items[k]
            start == StartOf(grid, item)
            count == CountOf(item)
<1>1. CASE grid.error # "none"
  BY <1>1, PlaceCases
<1>2. CASE grid.error = "none" /\ Refusal(grid, item) # "none"
  <2>1. Refusal(grid, item) \in Errors
    BY RefusalType
  <2>2. PlaceItem(grid, item) = [grid EXCEPT !.error = Refusal(grid, item)]
    BY <1>2, PlaceCases
  <2>. QED  BY <2>1, <2>2 DEF GridsOf
<1>3. CASE grid.error = "none" /\ Refusal(grid, item) = "none"
  <2>1. PlaceItem(grid, item) =
          [slots |-> Placed(grid.slots, item, start), identities |-> grid.identities \cup {item.slotId},
           adverts |-> grid.adverts + count, cursor |-> start + count, error |-> "none"]
    BY <1>3, PlaceCases
  <2>2. start \in Nat /\ count \in Nat /\ grid.adverts \in Nat
    BY <1>3, Placeable DEF ItemsAreSound, GridsOf
  <2>3. Placed(grid.slots, item, start) \in [Position -> Contents(items)]
    <3>1. \A i \in Position : grid.slots[i] \in Contents(items)
      BY DEF GridsOf
    <3>2. \A i \in start..(start + count - 1) : AdvertiserSlot(item, i - start) \in Contents(items)
      <4>1. \A i \in start..(start + count - 1) : i - start \in Nat
        BY <2>2
      <4>2. \A o \in Nat : AdvertiserSlot(item, o) \in Contents(items)
        BY DEF Contents
      <4>. QED  BY <4>1, <4>2
    <3>. HIDE DEF start, count, item
    <3>. QED  BY <3>1, <3>2 DEF Placed, count
  <2>4. grid.identities \cup {item.slotId} \in SUBSET {items[l].slotId : l \in DOMAIN items}
    BY DEF GridsOf
  <2>5. grid.adverts + count \in Nat /\ start + count \in Nat /\ "none" \in Errors
    BY <2>2 DEF Errors
  <2>. HIDE DEF start, count, item
  <2>6. PlaceItem(grid, item) \in GridsOf(items)
    BY <2>1, <2>3, <2>4, <2>5 DEF GridsOf
  <2>. QED  BY <2>6 DEF item
<1>. QED  BY <1>1, <1>2, <1>3

Taken(cells) == {i \in Position : cells[i] # Empty}

Required(items) == [k \in DOMAIN items |-> CountOf(items[k])]

\* The grid after n items: each is in its place, nothing else is, and no
\* identity is in two places.
GridIsSound(grid, n, items) ==
  grid.error = "none" =>
    /\ grid.adverts = Sums(Required(items))[n] /\ grid.adverts <= MaxAdvertiserSlots
    /\ grid.adverts = Cardinality(Taken(grid.slots))
    /\ \A k \in 1..n : IsPlaced(grid.slots, items[k])
    /\ \A i \in Taken(grid.slots) :
         \E k \in 1..n : \E o \in 0..(CountOf(items[k]) - 1) :
           grid.slots[i] = AdvertiserSlot(items[k], o)
    /\ \A i, j \in Taken(grid.slots) : grid.slots[i].slotId = grid.slots[j].slotId => i = j

LEMMA DayIsFinite ==
  /\ IsFiniteSet(Position)
  /\ \A cells : IsFiniteSet(Taken(cells)) /\ Cardinality(Taken(cells)) \in Nat
<1>1. IsFiniteSet(Position)
  <2>1. SlotCount - 1 \in Int
    BY SlotGridAssumption
  <2>. QED  BY <2>1, FS_Interval DEF Position
<1>2. \A cells : Taken(cells) \subseteq Position
  BY DEF Taken
<1>. QED  BY <1>1, <1>2, FS_Subset, FS_CardinalityType

LEMMA AdvertiserSlots ==
  ASSUME NEW items, ItemsAreSound(items), NEW k \in DOMAIN items,
         NEW o \in 0..(CountOf(items[k]) - 1)
  PROVE  /\ AdvertiserSlot(items[k], o) # Empty
         /\ AdvertiserSlot(items[k], o).actor = "ADVERTISER"
         /\ AdvertiserSlot(items[k], o).slotId = items[k].segments[o + 1]
         /\ o + 1 \in 1..CountOf(items[k])
<1>1. AdvertiserSlot(items[k], o).actor = "ADVERTISER" /\ Empty.actor = "NONE"
  BY DEF AdvertiserSlot, Empty
<1>2. items[k].segments # <<>> /\ CountOf(items[k]) \in Nat
  BY DEF ItemsAreSound
<1>3. AdvertiserSlot(items[k], o).slotId = items[k].segments[o + 1]
  BY <1>2 DEF AdvertiserSlot, SegmentId
<1>4. o + 1 \in 1..CountOf(items[k])
  BY <1>2
<1>5. AdvertiserSlot(items[k], o) # Empty
  BY <1>1
<1>. QED  BY <1>1, <1>3, <1>4, <1>5

\* An item that is not refused takes places that were free.
LEMMA TakenByItem ==
  ASSUME NEW items, ItemsAreSound(items), NEW k \in DOMAIN items, NEW cells,
         NEW start \in Nat,
         \A i \in start..(start + CountOf(items[k]) - 1) : i \in Position /\ cells[i] = Empty
  PROVE  LET run == start..(start + CountOf(items[k]) - 1)
             new == Placed(cells, items[k], start)
         IN  /\ Taken(new) = Taken(cells) \cup run
             /\ Taken(cells) \cap run = {}
             /\ Cardinality(Taken(new)) = Cardinality(Taken(cells)) + CountOf(items[k])
             /\ \A i \in run : /\ i - start \in 0..(CountOf(items[k]) - 1)
                               /\ new[i] = AdvertiserSlot(items[k], i - start)
             /\ \A i \in Taken(cells) : new[i] = cells[i]
<1>. DEFINE count == CountOf(items[k])
            run == start..(start + count - 1)
            new == Placed(cells, items[k], start)
<1>1. count \in Nat
  BY DEF ItemsAreSound
<1>2. \A i \in run : i \in Position /\ cells[i] = Empty /\ i - start \in 0..(count - 1)
  BY <1>1
<1>3. \A i \in Position : new[i] = IF i \in run THEN AdvertiserSlot(items[k], i - start) ELSE cells[i]
  BY DEF Placed
<1>4. \A i \in run : AdvertiserSlot(items[k], i - start) # Empty
  BY <1>2, AdvertiserSlots
<1>. HIDE DEF new, run
<1>5. Taken(new) = Taken(cells) \cup run
  BY <1>2, <1>3, <1>4 DEF Taken
<1>6. Taken(cells) \cap run = {}
  BY <1>2 DEF Taken
<1>7. Cardinality(Taken(new)) = Cardinality(Taken(cells)) + count
  <2>1. IsFiniteSet(run) /\ Cardinality(run) = count
    <3>1. start \in Int /\ start + count - 1 \in Int
      BY <1>1
    <3>2. /\ IsFiniteSet(run)
          /\ Cardinality(run) = IF start > start + count - 1 THEN 0
                                ELSE (start + count - 1) - start + 1
      BY <3>1, FS_Interval DEF run
    <3>. HIDE DEF count
    <3>. QED  BY <1>1, <3>2
  <2>2. IsFiniteSet(Taken(cells)) /\ Cardinality(Taken(cells)) \in Nat
    BY DayIsFinite
  <2>3. Cardinality(Taken(cells) \cup run)
          = Cardinality(Taken(cells)) + Cardinality(run) - Cardinality(Taken(cells) \cap run)
    BY <2>1, <2>2, FS_Union
  <2>4. Cardinality(Taken(cells) \cap run) = 0
    BY <1>6, FS_EmptySet
  <2>5. Cardinality(Taken(new)) = Cardinality(Taken(cells)) + Cardinality(run) - 0
    BY <1>5, <2>3, <2>4
  <2>. QED  BY <1>1, <2>1, <2>2, <2>5
<1>8. \A i \in Taken(cells) : new[i] = cells[i]
  BY <1>3, <1>6 DEF Taken
<1>9. \A i \in run : i - start \in 0..(count - 1) /\ new[i] = AdvertiserSlot(items[k], i - start)
  BY <1>2, <1>3
<1>. QED  BY <1>5, <1>6, <1>7, <1>8, <1>9 DEF new, run

\* An item that has been placed stays, as long as what is taken stays.
LEMMA StaysPlaced ==
  ASSUME NEW items, ItemsAreSound(items), NEW k \in DOMAIN items, NEW cells, NEW new,
         \A i \in Taken(cells) : new[i] = cells[i],
         IsPlaced(cells, items[k])
  PROVE  IsPlaced(new, items[k])
<1>. DEFINE count == CountOf(items[k])
<1>1. count \in Nat /\ SlotCount \in Nat
  BY SlotGridAssumption DEF ItemsAreSound
<1>2. PICK start \in 0..(SlotCount - count) :
         /\ items[k].start \in {-1, start}
         /\ \A o \in 0..(count - 1) : cells[start + o] = AdvertiserSlot(items[k], o)
  BY DEF IsPlaced, CountOf
<1>3. ASSUME NEW o \in 0..(count - 1)
      PROVE  new[start + o] = AdvertiserSlot(items[k], o)
  <2>1. start + o \in Position
    BY <1>1, <1>2 DEF Position
  <2>2. AdvertiserSlot(items[k], o) # Empty
    BY AdvertiserSlots
  <2>. QED  BY <1>2, <2>1, <2>2 DEF Taken
<1>. QED  BY <1>2, <1>3 DEF IsPlaced, CountOf

LEMMA RequiredCounts ==
  ASSUME NEW items, ItemsAreSound(items)
  PROVE  /\ Counts(Required(items)) /\ Len(Required(items)) = Len(items)
         /\ \A k \in DOMAIN items : Required(items)[k] = CountOf(items[k])
         /\ Len(items) \in Nat /\ DOMAIN items = 1..Len(items)
         /\ \A k \in DOMAIN items : CountOf(items[k]) \in Nat
<1>. DEFINE m == Len(items)
<1>1. m \in Nat /\ DOMAIN items = 1..m /\ \A k \in 1..m : CountOf(items[k]) \in Nat
  BY DEF ItemsAreSound, IsList
<1>. DEFINE r == Required(items)
<1>2. DOMAIN r = 1..m /\ \A k \in 1..m : r[k] = CountOf(items[k])
  BY <1>1 DEF Required
<1>3. Len(r) = m
  BY <1>1 DEF Required
<1>4. Counts(r)
  <2>. HIDE DEF r
  <2>. QED  BY <1>1, <1>2, <1>3 DEF Counts, IsList
<1>. QED  BY <1>1, <1>2, <1>3, <1>4

LEMMA PlaceIsSound ==
  ASSUME NEW items, ItemsAreSound(items), NEW grid \in GridsOf(items),
         NEW n \in 0..Len(items), n < Len(items), GridIsSound(grid, n, items)
  PROVE  GridIsSound(PlaceItem(grid, items[n + 1]), n + 1, items)
<1>. DEFINE item == items[n + 1]
            start == StartOf(grid, item)
            count == CountOf(item)
            cells == grid.slots
            new == Placed(cells, item, start)
            next == PlaceItem(grid, item)
<1>1. SUFFICES ASSUME next.error = "none"
               PROVE  GridIsSound(next, n + 1, items)
  BY DEF GridIsSound
<1>2. /\ n + 1 \in DOMAIN items /\ n \in Nat
      /\ 1..(n + 1) = 1..n \cup {n + 1} /\ 1..(n + 1) \subseteq DOMAIN items
  <2>1. Len(items) \in Nat /\ DOMAIN items = 1..Len(items)
    BY RequiredCounts
  <2>. QED  BY <2>1
<1>3. grid.error = "none" /\ Refusal(grid, item) = "none"
  <2>1. next = IF grid.error # "none" THEN grid
               ELSE IF Refusal(grid, item) # "none" THEN [grid EXCEPT !.error = Refusal(grid, item)]
               ELSE [slots |-> new, identities |-> grid.identities \cup {item.slotId},
                     adverts |-> grid.adverts + count, cursor |-> start + count, error |-> "none"]
    BY PlaceCases
  <2>2. CASE grid.error # "none"
    BY <1>1, <2>1, <2>2
  <2>3. CASE grid.error = "none" /\ Refusal(grid, item) # "none"
    <3>1. next = [grid EXCEPT !.error = Refusal(grid, item)]
      BY <2>1, <2>3
    <3>2. DOMAIN grid = {"slots", "identities", "adverts", "cursor", "error"}
      BY DEF GridsOf
    <3>3. next.error = Refusal(grid, item)
      BY <3>1, <3>2
    <3>. QED  BY <1>1, <2>3, <3>3
  <2>. QED  BY <2>2, <2>3
<1>4. next.slots = new /\ next.adverts = grid.adverts + count /\ next.error = "none"
  <2>1. next = [slots |-> new, identities |-> grid.identities \cup {item.slotId},
                adverts |-> grid.adverts + count, cursor |-> start + count, error |-> "none"]
    BY <1>3, PlaceCases
  <2>. HIDE DEF new, next, count, start, item
  <2>. QED  BY <2>1
<1>5. /\ start \in Nat /\ start + count <= SlotCount
      /\ grid.adverts + count <= MaxAdvertiserSlots
      /\ \A i \in start..(start + count - 1) : i \in Position /\ cells[i] = Empty
  BY <1>2, <1>3, Placeable
<1>6. count \in Nat \ {0} /\ item.start \in Nat \cup {-1} /\ SlotCount \in Nat
  BY <1>2, SlotGridAssumption DEF ItemsAreSound
<1>. DEFINE run == start..(start + count - 1)
<1>7. /\ Taken(new) = Taken(cells) \cup run /\ Taken(cells) \cap run = {}
      /\ Cardinality(Taken(new)) = Cardinality(Taken(cells)) + count
      /\ \A i \in run : i - start \in 0..(count - 1) /\ new[i] = AdvertiserSlot(item, i - start)
      /\ \A i \in Taken(cells) : new[i] = cells[i]
  <2>. HIDE DEF start, cells
  <2>1. PICK k \in DOMAIN items : k = n + 1
    BY <1>2
  <2>2. \A i \in start..(start + CountOf(items[k]) - 1) : i \in Position /\ cells[i] = Empty
    BY <1>5, <2>1
  <2>. QED  BY <1>5, <2>1, <2>2, TakenByItem
<1>8. /\ grid.adverts = Sums(Required(items))[n]
      /\ grid.adverts = Cardinality(Taken(cells))
      /\ \A k \in 1..n : IsPlaced(cells, items[k])
      /\ \A i \in Taken(cells) :
           \E k \in 1..n : \E o \in 0..(CountOf(items[k]) - 1) :
             cells[i] = AdvertiserSlot(items[k], o)
      /\ \A i, j \in Taken(cells) : cells[i].slotId = cells[j].slotId => i = j
  BY <1>3 DEF GridIsSound
<1>. HIDE DEF new, next, run, cells
<1>9. next.adverts = Sums(Required(items))[n + 1] /\ next.adverts <= MaxAdvertiserSlots
  <2>1. Sums(Required(items))[n + 1] = Sums(Required(items))[(n + 1) - 1] + Required(items)[n + 1]
    BY <1>2, RequiredCounts, SumsAre
  <2>2. (n + 1) - 1 = n /\ Required(items)[n + 1] = count
    BY <1>2, RequiredCounts
  <2>. HIDE DEF count, start, item
  <2>. QED  BY <1>4, <1>5, <1>8, <2>1, <2>2
<1>10. next.adverts = Cardinality(Taken(new))
  BY <1>4, <1>7, <1>8
<1>11. \A k \in 1..(n + 1) : IsPlaced(new, items[k])
  <2>1. ASSUME NEW k \in 1..n PROVE IsPlaced(new, items[k])
    BY <1>2, <1>7, <1>8, StaysPlaced
  <2>2. IsPlaced(new, item)
    <3>1. start \in 0..(SlotCount - count)
      BY <1>5, <1>6
    <3>2. item.start \in {-1, start}
      BY DEF StartOf
    <3>3. ASSUME NEW o \in 0..(count - 1)
          PROVE  new[start + o] = AdvertiserSlot(item, o)
      <4>1. start + o \in run /\ (start + o) - start = o
        BY <1>5, <1>6 DEF run
      <4>. QED  BY <1>7, <4>1
    <3>. HIDE DEF start
    <3>. QED  BY <3>1, <3>2, <3>3 DEF IsPlaced, CountOf
  <2>. QED  BY <1>2, <2>1, <2>2
<1>12. ASSUME NEW i \in Taken(new)
       PROVE  \E k \in 1..(n + 1) : \E o \in 0..(CountOf(items[k]) - 1) :
                new[i] = AdvertiserSlot(items[k], o)
  <2>1. CASE i \in Taken(cells)
    BY <1>2, <1>7, <1>8, <2>1
  <2>2. CASE i \in run
    BY <1>2, <1>7, <2>2
  <2>. QED  BY <1>7, <2>1, <2>2
<1>13. ASSUME NEW i \in Taken(cells), NEW j \in run
       PROVE  new[i].slotId # new[j].slotId
  <2>0. PICK k \in 1..n : \E o \in 0..(CountOf(items[k]) - 1) : new[i] = AdvertiserSlot(items[k], o)
    BY <1>7, <1>8
  <2>1. PICK o \in 0..(CountOf(items[k]) - 1) : new[i] = AdvertiserSlot(items[k], o)
    BY <2>0
  <2>2. k \in DOMAIN items /\ k # n + 1
    BY <1>2, <2>0
  <2>3. new[i].slotId = items[k].segments[o + 1] /\ o + 1 \in 1..CountOf(items[k])
    BY <2>1, <2>2, AdvertiserSlots
  <2>4. /\ new[j].slotId = item.segments[(j - start) + 1]
        /\ (j - start) + 1 \in 1..count
    BY <1>2, <1>7, AdvertiserSlots
  <2>5. PICK b \in 1..count : b = (j - start) + 1
    BY <2>4
  <2>6. PICK l \in DOMAIN items : l = n + 1
    BY <1>2
  <2>7. items[k].segments[o + 1] # items[l].segments[b]
    <3>1. PICK a \in 1..CountOf(items[k]) : a = o + 1
      BY <2>3
    <3>2. b \in 1..CountOf(items[l]) /\ k # l
      BY <2>2, <2>5, <2>6
    <3>3. items[k].segments[a] = items[l].segments[b] => k = l
      BY <2>2, <3>2 DEF ItemsAreSound
    <3>. QED  BY <3>1, <3>2, <3>3
  <2>. QED  BY <2>3, <2>4, <2>5, <2>6, <2>7
<1>14. ASSUME NEW i \in run, NEW j \in run, new[i].slotId = new[j].slotId
       PROVE  i = j
  <2>1. \A x \in run : new[x].slotId = item.segments[(x - start) + 1] /\ (x - start) + 1 \in 1..count
    BY <1>2, <1>7, AdvertiserSlots
  <2>2. (i - start) + 1 = (j - start) + 1
    <3>. HIDE DEF start
    <3>. QED  BY <1>2, <1>14, <2>1 DEF ItemsAreSound
  <2>. QED  BY <1>5, <1>6, <2>2 DEF run
<1>15. ASSUME NEW i \in Taken(new), NEW j \in Taken(new), new[i].slotId = new[j].slotId
       PROVE  i = j
  <2>1. CASE i \in Taken(cells) /\ j \in Taken(cells)
    BY <1>7, <1>8, <1>15, <2>1
  <2>2. CASE i \in run /\ j \in run
    BY <1>14, <1>15, <2>2
  <2>. QED  BY <1>7, <1>13, <1>15, <2>1, <2>2
<1>. QED  BY <1>4, <1>9, <1>10, <1>11, <1>12, <1>15 DEF GridIsSound

LEMMA EmptyGridIsSound ==
  ASSUME NEW items, ItemsAreSound(items)
  PROVE  EmptyGrid \in GridsOf(items) /\ GridIsSound(EmptyGrid, 0, items)
<1>1. EmptyGrid \in GridsOf(items)
  <2>1. [i \in Position |-> Empty] \in [Position -> Contents(items)]
    BY DEF Contents
  <2>2. {} \in SUBSET {items[k].slotId : k \in DOMAIN items} /\ 0 \in Nat /\ "none" \in Errors
    BY DEF Errors
  <2>. QED  BY <2>1, <2>2 DEF EmptyGrid, GridsOf
<1>2. Taken(EmptyGrid.slots) = {} /\ EmptyGrid.adverts = 0
  BY DEF EmptyGrid, Taken
<1>3. Cardinality(Taken(EmptyGrid.slots)) = 0
  BY <1>2, FS_EmptySet
<1>4. Sums(Required(items))[0] = 0
  BY RequiredCounts, SumsAre
<1>5. 0 <= MaxAdvertiserSlots
  BY SlotGridAssumption DEF MaxAdvertiserSlots
<1>6. 1..0 = {}
  OBVIOUS
<1>. QED  BY <1>1, <1>2, <1>3, <1>4, <1>5, <1>6 DEF GridIsSound

LEMMA GridIsBuilt ==
  ASSUME NEW items, ItemsAreSound(items)
  PROVE  /\ Grids(items)[Len(items)] \in GridsOf(items)
         /\ GridIsSound(Grids(items)[Len(items)], Len(items), items)
<1>. DEFINE m == Len(items)
            G == GridsOf(items)
            step == [n \in 1..m |-> [g \in G |-> PlaceItem(g, items[n])]]
            R(f) == f = [n \in 0..m |-> IF n = 0 THEN EmptyGrid ELSE PlaceItem(f[n - 1], items[n])]
<1>1. m \in Nat /\ DOMAIN items = 1..m
  BY RequiredCounts
<1>2. \A n \in 1..m, g \in G : PlaceItem(g, items[n]) \in G
  BY <1>1, PlaceType
<1>3. EmptyGrid \in G /\ GridIsSound(EmptyGrid, 0, items)
  BY EmptyGridIsSound
<1>. HIDE DEF G
<1>4. step \in Steps(m, G)
  BY <1>2 DEF Steps
<1>5. \A n \in 1..m, g \in G : step[n][g] = PlaceItem(g, items[n])
  OBVIOUS
<1>. HIDE DEF step, m
<1>6. PICK f : IsComputation(f, m, G, EmptyGrid, step)
  BY <1>1, <1>3, <1>4, StepsExist
<1>7. R(f)
  <2>1. f \in [0..m -> G] /\ f[0] = EmptyGrid /\ \A n \in 1..m : f[n] = step[n][f[n - 1]]
    BY <1>6 DEF IsComputation
  <2>2. \A n \in 0..m : n # 0 => n \in 1..m /\ f[n - 1] \in G
    BY <1>1, <2>1
  <2>3. \A n \in 0..m : f[n] = IF n = 0 THEN EmptyGrid ELSE PlaceItem(f[n - 1], items[n])
    BY <1>5, <2>1, <2>2
  <2>4. f = [n \in 0..m |-> f[n]]
    BY <2>1
  <2>. QED  BY <2>3, <2>4
<1>8. R(Grids(items))
  <2>1. Grids(items) = CHOOSE g : R(g)
    BY DEF Grids, m
  <2>. HIDE DEF R
  <2>. QED  BY <1>7, <2>1
<1>. DEFINE grids == Grids(items)
            S == {n \in 0..m : grids[n] \in G /\ GridIsSound(grids[n], n, items)}
<1>9. \A n \in 0..m : grids[n] = IF n = 0 THEN EmptyGrid ELSE PlaceItem(grids[n - 1], items[n])
  BY <1>8
<1>. HIDE DEF grids
<1>10. 0 \in S
  BY <1>1, <1>3, <1>9
<1>11. ASSUME NEW n \in 0..m, n < m, n \in S
       PROVE  n + 1 \in S
  <2>1. n + 1 \in 0..m /\ n + 1 \in 1..m /\ n + 1 # 0 /\ (n + 1) - 1 = n
    BY <1>1, <1>11
  <2>2. grids[n + 1] = PlaceItem(grids[n], items[n + 1])
    BY <1>9, <2>1
  <2>3. grids[n] \in G /\ GridIsSound(grids[n], n, items)
    BY <1>11
  <2>4. PICK g \in G : g = grids[n]
    BY <2>3
  <2>5. GridIsSound(PlaceItem(g, items[n + 1]), n + 1, items)
    BY <1>11, <2>3, <2>4, PlaceIsSound DEF G, m
  <2>. QED  BY <1>2, <2>1, <2>2, <2>4, <2>5
<1>12. \A n \in 0..m : n \in S
  <2>. HIDE DEF S
  <2>. QED  BY <1>1, <1>10, <1>11, UpTo
<1>. QED  BY <1>1, <1>12 DEF grids, m, G

-----------------------------------------------------------------------------
\* The turns of the fallbacks.

LEMMA QuotientsDiffer ==
  ASSUME NEW L \in Nat, NEW q \in Nat, NEW p \in Nat, p > q,
         NEW r \in 0..(L - 1), NEW s \in 0..(L - 1)
  PROVE  L * q + r # L * p + s
OBVIOUS

LEMMA NextRemainder ==
  ASSUME NEW m \in Nat, NEW L \in Nat \ {0}
  PROVE  (m + 1) % L = IF m % L = L - 1 THEN 0 ELSE (m % L) + 1
<1>1. PICK q \in Nat, r \in 0..(L - 1) : q = m \div L /\ r = m % L /\ m = L * q + r
  BY Division
<1>2. PICK p \in Nat, s \in 0..(L - 1) : s = (m + 1) % L /\ m + 1 = L * p + s
  <2>1. m + 1 \in Nat
    OBVIOUS
  <2>. QED  BY <2>1, Division
<1>3. CASE r = L - 1
  <2>1. m + 1 = L * (q + 1) + 0 /\ 0 \in 0..(L - 1) /\ q + 1 \in Nat
    BY <1>1, <1>3
  <2>2. ~(p > q + 1) /\ ~(q + 1 > p)
    BY <1>2, <2>1, QuotientsDiffer
  <2>3. p = q + 1
    BY <1>1, <1>2, <2>1, <2>2
  <2>. QED  BY <1>1, <1>2, <1>3, <2>1, <2>3
<1>4. CASE r # L - 1
  <2>1. m + 1 = L * q + (r + 1) /\ r + 1 \in 0..(L - 1)
    BY <1>1, <1>4
  <2>2. ~(p > q) /\ ~(q > p)
    BY <1>1, <1>2, <2>1, QuotientsDiffer
  <2>3. p = q
    BY <1>1, <1>2, <2>2
  <2>. QED  BY <1>1, <1>2, <1>4, <2>1, <2>3
<1>. QED  BY <1>3, <1>4

\* The holes before a slot that are the turn of a fallback.
Turns(cells, L, a, i) ==
  {j \in 0..(i - 1) : cells[j] = Empty /\ FallbackIndex(cells, j) % L = a}

Holes(cells, i) == {j \in 0..(i - 1) : cells[j] = Empty}

LEMMA FiniteTurns ==
  ASSUME NEW cells, NEW L, NEW a, NEW i \in Nat
  PROVE  /\ IsFiniteSet(Holes(cells, i)) /\ Cardinality(Holes(cells, i)) \in Nat
         /\ IsFiniteSet(Turns(cells, L, a, i)) /\ Cardinality(Turns(cells, L, a, i)) \in Nat
<1>1. IsFiniteSet(0..(i - 1))
  BY FS_Interval
<1>2. Holes(cells, i) \subseteq 0..(i - 1) /\ Turns(cells, L, a, i) \subseteq 0..(i - 1)
  BY DEF Holes, Turns
<1>. QED  BY <1>1, <1>2, FS_Subset, FS_CardinalityType

LEMMA NextTurn ==
  ASSUME NEW cells, NEW L, NEW a, NEW i \in Nat
  PROVE  /\ FallbackIndex(cells, i + 1)
              = FallbackIndex(cells, i) + (IF cells[i] = Empty THEN 1 ELSE 0)
         /\ Cardinality(Turns(cells, L, a, i + 1))
              = Cardinality(Turns(cells, L, a, i))
                  + (IF cells[i] = Empty /\ FallbackIndex(cells, i) % L = a THEN 1 ELSE 0)
<1>1. 0..((i + 1) - 1) = 0..(i - 1) \cup {i} /\ i \notin 0..(i - 1)
  OBVIOUS
<1>2. \A j : FallbackIndex(cells, j) = Cardinality(Holes(cells, j))
  BY DEF FallbackIndex, Holes
<1>3. Cardinality(Holes(cells, i + 1))
        = Cardinality(Holes(cells, i)) + (IF cells[i] = Empty THEN 1 ELSE 0)
  <2>1. CASE cells[i] = Empty
    <3>1. Holes(cells, i + 1) = Holes(cells, i) \cup {i} /\ i \notin Holes(cells, i)
      BY <1>1, <2>1 DEF Holes
    <3>. QED  BY <2>1, <3>1, FiniteTurns, FS_AddElement
  <2>2. CASE cells[i] # Empty
    <3>1. Holes(cells, i + 1) = Holes(cells, i)
      BY <1>1, <2>2 DEF Holes
    <3>. QED  BY <2>2, <3>1, FiniteTurns
  <2>. QED  BY <2>1, <2>2
<1>4. Cardinality(Turns(cells, L, a, i + 1))
        = Cardinality(Turns(cells, L, a, i))
            + (IF cells[i] = Empty /\ FallbackIndex(cells, i) % L = a THEN 1 ELSE 0)
  <2>. DEFINE mine == cells[i] = Empty /\ FallbackIndex(cells, i) % L = a
  <2>1. CASE mine
    <3>1. Turns(cells, L, a, i + 1) = Turns(cells, L, a, i) \cup {i} /\ i \notin Turns(cells, L, a, i)
      BY <1>1, <2>1 DEF Turns
    <3>. QED  BY <2>1, <3>1, FiniteTurns, FS_AddElement
  <2>2. CASE ~mine
    <3>1. Turns(cells, L, a, i + 1) = Turns(cells, L, a, i)
      BY <1>1, <2>2 DEF Turns
    <3>2. Cardinality(Turns(cells, L, a, i)) \in Nat
      BY FiniteTurns
    <3>. QED  BY <2>2, <3>1, <3>2
  <2>. QED  BY <2>1, <2>2
<1>. QED  BY <1>2, <1>3, <1>4

\* After any number of slots the fallbacks have had as many turns, but for one
\* more of those before the next.
LEMMA TurnsAreEqual ==
  ASSUME NEW cells, NEW L \in Nat \ {0}, NEW m \in Nat
  PROVE  \E q \in Nat, r \in 0..(L - 1) : \A a \in 0..(L - 1) :
           Cardinality(Turns(cells, L, a, m)) = q + (IF a < r THEN 1 ELSE 0)
<1>. DEFINE N(a, i) == Cardinality(Turns(cells, L, a, i))
            F(i) == FallbackIndex(cells, i)
            P(i, q) == \A a \in 0..(L - 1) : N(a, i) = q + (IF a < F(i) % L THEN 1 ELSE 0)
            S == {i \in 0..m : \E q \in Nat : P(i, q)}
<1>0. \A i \in Nat : F(i) \in Nat /\ F(i) % L \in 0..(L - 1)
  <2>1. \A i \in Nat : F(i) \in Nat
    BY FiniteTurns DEF FallbackIndex, Holes
  <2>. HIDE DEF F
  <2>. QED  BY <2>1, Division
<1>1. 0 \in S
  <2>1. \A a : Turns(cells, L, a, 0) = {}
    BY DEF Turns
  <2>2. F(0) = 0
    <3>1. {j \in 0..(0 - 1) : cells[j] = Empty} = {}
      OBVIOUS
    <3>. QED  BY <3>1, FS_EmptySet DEF FallbackIndex
  <2>3. \A a : N(a, 0) = 0
    BY <2>1, FS_EmptySet
  <2>. HIDE DEF N, F
  <2>4. 0 % L = 0
    OBVIOUS
  <2>5. P(0, 0)
    BY <2>2, <2>3, <2>4
  <2>. QED  BY <2>5
<1>2. \A i \in Nat : F(i + 1) = F(i) + (IF cells[i] = Empty THEN 1 ELSE 0)
  BY NextTurn
<1>3. \A i \in Nat, a \in 0..(L - 1) :
        N(a, i + 1) = N(a, i) + (IF cells[i] = Empty /\ F(i) % L = a THEN 1 ELSE 0)
  BY NextTurn
<1>. HIDE DEF N, F
<1>4. ASSUME NEW i \in 0..m, i < m, i \in S
      PROVE  i + 1 \in S
  <2>1. PICK q \in Nat : P(i, q)
    BY <1>4
  <2>2. PICK r \in 0..(L - 1) : r = F(i) % L
    BY <1>0
  <2>3. CASE cells[i] # Empty
    <3>1. F(i + 1) = F(i) /\ \A a \in 0..(L - 1) : N(a, i + 1) = N(a, i)
      <4>1. F(i) \in Nat /\ \A a \in 0..(L - 1) : N(a, i) \in Nat
        BY <1>0, FiniteTurns DEF N
      <4>. QED  BY <1>2, <1>3, <2>3, <4>1
    <3>2. P(i + 1, q)
      BY <2>1, <3>1
    <3>. QED  BY <1>4, <3>2
  <2>4. CASE cells[i] = Empty
    <3>1. F(i + 1) % L = IF r = L - 1 THEN 0 ELSE r + 1
      <4>1. F(i + 1) = F(i) + 1 /\ F(i) \in Nat
        BY <1>0, <1>2, <2>4
      <4>. QED  BY <2>2, <4>1, NextRemainder
    <3>2. \A a \in 0..(L - 1) : N(a, i + 1) = (q + (IF a < r THEN 1 ELSE 0)) + (IF r = a THEN 1 ELSE 0)
      BY <1>3, <2>1, <2>2, <2>4
    <3>3. CASE r = L - 1
      <4>0. PICK p \in Nat : p = q + 1
        OBVIOUS
      <4>1. P(i + 1, p)
        BY <3>1, <3>2, <3>3, <4>0
      <4>. QED  BY <1>4, <4>1
    <3>4. CASE r # L - 1
      <4>1. P(i + 1, q)
        BY <3>1, <3>2, <3>4
      <4>. QED  BY <1>4, <4>1
    <3>. QED  BY <3>3, <3>4
  <2>. QED  BY <2>3, <2>4
<1>5. m \in S
  <2>. HIDE DEF S
  <2>1. \A i \in 0..m : i \in S
    BY <1>1, <1>4, UpTo
  <2>. QED  BY <2>1
<1>6. PICK q \in Nat : P(m, q)
  BY <1>5
<1>7. F(m) % L \in 0..(L - 1)
  BY <1>0
<1>. QED  BY <1>6, <1>7 DEF N

\* A day's slots once its holes are filled: those of an item are as they were,
\* the others are of the fallback whose turn it is.
LEMMA FilledSlots ==
  ASSUME NEW items, ItemsAreSound(items), NEW grid \in GridsOf(items),
         NEW fallbacks \in Fallbacks, FallbacksAreValid(fallbacks)
  PROVE  LET cells == FillHoles(grid.slots, fallbacks)
             turn(i) == (FallbackIndex(grid.slots, i) % Len(fallbacks)) + 1
         IN  /\ \A i \in Taken(grid.slots) :
                  cells[i] = grid.slots[i]
             /\ \A i \in Position \ Taken(grid.slots) :
                  /\ turn(i) \in DOMAIN fallbacks
                  /\ cells[i].actor = fallbacks[turn(i)].actor
                  /\ cells[i].actor # "ADVERTISER"
                  /\ cells[i].slotId = <<cells[i].actor, i>>
                  /\ \A n \in 1..Len(Available) : cells[i].slotId # Available[n]
<1>. DEFINE cells == FillHoles(grid.slots, fallbacks)
            F(i) == FallbackIndex(grid.slots, i)
            turn(i) == (F(i) % Len(fallbacks)) + 1
<1>1. \A i \in Position : cells[i] = IF grid.slots[i] = Empty
                                     THEN FallbackSlot(fallbacks[turn(i)], i) ELSE grid.slots[i]
  BY DEF FillHoles, FallbackAt
<1>. HIDE DEF cells
<1>2. /\ Len(fallbacks) \in Nat \ {0} /\ DOMAIN fallbacks = 1..Len(fallbacks)
      /\ \A k \in DOMAIN fallbacks :
            /\ fallbacks[k].actor \in {"MOSTARDA", "SPACE_OWNER", "INFLUENCER"}
            /\ \A i \in 1..Len(Available), j \in Position : Available[i] # <<fallbacks[k].actor, j>>
  <2>1. /\ IsList(fallbacks)
        /\ \A k \in DOMAIN fallbacks :
            /\ fallbacks[k].actor \in {"MOSTARDA", "SPACE_OWNER", "INFLUENCER"}
            /\ \A i \in 1..Len(Available), j \in Position : Available[i] # <<fallbacks[k].actor, j>>
    BY SlotGridAssumption DEF Position
  <2>2. Len(fallbacks) # 0
    <3>1. Len(fallbacks) = 0 => fallbacks = <<>>
      BY <2>1 DEF IsList
    <3>. QED  BY <3>1 DEF FallbacksAreValid
  <2>. QED  BY <2>1, <2>2 DEF IsList
<1>3. ASSUME NEW i \in Position \ Taken(grid.slots)
      PROVE  /\ turn(i) \in DOMAIN fallbacks
             /\ cells[i].actor = fallbacks[turn(i)].actor
             /\ cells[i].actor # "ADVERTISER"
             /\ cells[i].slotId = <<cells[i].actor, i>>
             /\ \A n \in 1..Len(Available) : cells[i].slotId # Available[n]
  <2>1. i \in Nat
    BY SlotGridAssumption DEF Position
  <2>2. F(i) \in Nat
    BY <2>1, FiniteTurns DEF FallbackIndex, Holes
  <2>. HIDE DEF F
  <2>3. F(i) % Len(fallbacks) \in 0..(Len(fallbacks) - 1)
    BY <1>2, <2>2, Division
  <2>4. PICK k \in DOMAIN fallbacks : k = turn(i)
    BY <1>2, <2>3
  <2>5. cells[i] = FallbackSlot(fallbacks[k], i)
    BY <1>1, <1>3, <2>4 DEF Taken
  <2>6. cells[i].actor = fallbacks[k].actor /\ cells[i].slotId = <<fallbacks[k].actor, i>>
    BY <2>5 DEF FallbackSlot
  <2>7. fallbacks[k].actor # "ADVERTISER"
    BY <1>2
  <2>8. \A n \in 1..Len(Available) : <<fallbacks[k].actor, i>> # Available[n]
    BY <1>2
  <2>. QED  BY <2>4, <2>6, <2>7, <2>8
<1>4. \A i \in Taken(grid.slots) : cells[i] = grid.slots[i]
  BY <1>1 DEF Taken
<1>. QED  BY <1>3, <1>4 DEF cells

LEMMA FallbacksShare ==
  ASSUME NEW items, ItemsAreSound(items), NEW grid \in GridsOf(items),
         \A i \in Taken(grid.slots) : grid.slots[i].actor = "ADVERTISER",
         NEW fallbacks \in Fallbacks, FallbacksAreValid(fallbacks)
  PROVE  FallbacksAreEqual(FillHoles(grid.slots, fallbacks), fallbacks)
<1>. DEFINE cells == FillHoles(grid.slots, fallbacks)
            L == Len(fallbacks)
            F(i) == FallbackIndex(grid.slots, i)
<1>1. L \in Nat \ {0} /\ DOMAIN fallbacks = 1..L
  <2>1. IsList(fallbacks)
    BY SlotGridAssumption
  <2>2. Len(fallbacks) # 0
    <3>1. Len(fallbacks) = 0 => fallbacks = <<>>
      BY <2>1 DEF IsList
    <3>. QED  BY <3>1 DEF FallbacksAreValid
  <2>. QED  BY <2>1, <2>2 DEF IsList
<1>2. \A k, l \in DOMAIN fallbacks : fallbacks[k].actor = fallbacks[l].actor => k = l
  BY DEF FallbacksAreValid, IsInjective
<1>3. /\ \A i \in Taken(grid.slots) : cells[i].actor = "ADVERTISER"
      /\ \A i \in Position \ Taken(grid.slots) :
           /\ (F(i) % L) + 1 \in DOMAIN fallbacks
           /\ cells[i].actor = fallbacks[(F(i) % L) + 1].actor
           /\ cells[i].actor # "ADVERTISER"
  BY FilledSlots
<1>4. \A k \in DOMAIN fallbacks : fallbacks[k].actor # "ADVERTISER"
  BY SlotGridAssumption
<1>. HIDE DEF cells, F
<1>5. ASSUME NEW k \in DOMAIN fallbacks
      PROVE  ContentOf(cells, fallbacks[k].actor) = Turns(grid.slots, L, k - 1, SlotCount)
  <2>1. ASSUME NEW i \in Position \ Taken(grid.slots)
        PROVE  cells[i].actor = fallbacks[k].actor <=> F(i) % L = k - 1
    <3>1. PICK t \in DOMAIN fallbacks : t = (F(i) % L) + 1
      BY <1>3
    <3>2. cells[i].actor = fallbacks[t].actor
      BY <1>3, <3>1
    <3>3. cells[i].actor = fallbacks[k].actor <=> t = k
      BY <1>2, <3>2
    <3>4. i \in Nat
      BY SlotGridAssumption DEF Position
    <3>5. F(i) \in Nat
      BY <3>4, FiniteTurns DEF FallbackIndex, Holes, F
    <3>6. F(i) % L \in Int /\ k \in Int
      BY <1>1, <3>5, Division
    <3>. QED  BY <3>1, <3>3, <3>6
  <2>2. \A i \in Taken(grid.slots) : cells[i].actor # fallbacks[k].actor
    BY <1>3, <1>4
  <2>3. \A i \in Position : i \in ContentOf(cells, fallbacks[k].actor) <=>
                              grid.slots[i] = Empty /\ F(i) % L = k - 1
    BY <2>1, <2>2 DEF Taken, ContentOf
  <2>4. ContentOf(cells, fallbacks[k].actor) \subseteq Position
    BY DEF ContentOf
  <2>5. Turns(grid.slots, L, k - 1, SlotCount)
          = {i \in Position : grid.slots[i] = Empty /\ F(i) % L = k - 1}
    BY DEF Turns, Position, F
  <2>. QED  BY <2>3, <2>4, <2>5
<1>6. PICK q \in Nat, r \in 0..(L - 1) : \A a \in 0..(L - 1) :
         Cardinality(Turns(grid.slots, L, a, SlotCount)) = q + (IF a < r THEN 1 ELSE 0)
  <2>1. PICK s, n : s = grid.slots /\ n = SlotCount
    OBVIOUS
  <2>2. n \in Nat
    BY <2>1, SlotGridAssumption
  <2>. HIDE DEF L
  <2>3. \E q \in Nat, r \in 0..(L - 1) : \A a \in 0..(L - 1) :
           Cardinality(Turns(s, L, a, n)) = q + (IF a < r THEN 1 ELSE 0)
    BY <1>1, <2>2, TurnsAreEqual
  <2>. QED  BY <2>1, <2>3
<1>7. ASSUME NEW k \in DOMAIN fallbacks
      PROVE  Cardinality(ContentOf(cells, fallbacks[k].actor)) = q + (IF k - 1 < r THEN 1 ELSE 0)
  <2>1. PICK a \in 0..(L - 1) : a = k - 1
    BY <1>1
  <2>. QED  BY <1>5, <1>6, <2>1
<1>8. ASSUME NEW k \in DOMAIN fallbacks, NEW l \in DOMAIN fallbacks, k < l
      PROVE  Cardinality(ContentOf(cells, fallbacks[k].actor))
               - Cardinality(ContentOf(cells, fallbacks[l].actor)) \in {0, 1}
  <2>1. k \in Int /\ l \in Int
    BY <1>1
  <2>. QED  BY <1>6, <1>7, <1>8, <2>1
<1>. QED  BY <1>8 DEF FallbacksAreEqual, cells

\* What is shown of a day that is planned without an error.
LEMMA PlannedGrid ==
  ASSUME NEW items, ItemsAreSound(items), NEW fallbacks \in Fallbacks,
         BuildDailySlotSchedule(items, fallbacks).error = "none"
  PROVE  \E grid \in GridsOf(items) :
           /\ grid.error = "none"
           /\ GridIsSound(grid, Len(items), items)
           /\ FallbacksAreValid(fallbacks)
           /\ BuildDailySlotSchedule(items, fallbacks).slots = FillHoles(grid.slots, fallbacks)
<1>. DEFINE g == Grids(items)[Len(items)]
            plan == BuildDailySlotSchedule(items, fallbacks)
<1>1. plan = IF g.error # "none" THEN [error |-> g.error]
             ELSE IF ~FallbacksAreValid(fallbacks) THEN [error |-> "FALLBACKS_INVALID"]
             ELSE [error |-> "none", slots |-> FillHoles(g.slots, fallbacks), adverts |-> g.adverts]
  BY DEF BuildDailySlotSchedule
<1>2. g \in GridsOf(items) /\ GridIsSound(g, Len(items), items)
  BY GridIsBuilt
<1>3. plan.error = "none"
  OBVIOUS
<1>. HIDE DEF g, plan
<1>4. g.error = "none" /\ FallbacksAreValid(fallbacks)
  BY <1>1, <1>3
<1>5. plan.slots = FillHoles(g.slots, fallbacks)
  BY <1>1, <1>4
<1>. QED  BY <1>2, <1>4, <1>5 DEF plan

LEMMA PlannedIsSound ==
  ASSUME NEW items, ItemsAreSound(items), NEW fallbacks \in Fallbacks,
         BuildDailySlotSchedule(items, fallbacks).error = "none"
  PROVE  LET cells == BuildDailySlotSchedule(items, fallbacks).slots
         IN  /\ EveryItemIsPlaced(cells, items)
             /\ FallbacksAreEqual(cells, fallbacks)
             /\ AdvertisersAreCapped(cells)
             /\ IdentitiesAreUnique(cells)
<1>. DEFINE cells == BuildDailySlotSchedule(items, fallbacks).slots
            m == Len(items)
<1>1. PICK grid \in GridsOf(items) :
         /\ grid.error = "none"
         /\ GridIsSound(grid, m, items)
         /\ FallbacksAreValid(fallbacks)
         /\ cells = FillHoles(grid.slots, fallbacks)
  BY PlannedGrid
<1>. HIDE DEF cells
<1>. DEFINE taken == Taken(grid.slots)
<1>2. m \in Nat /\ DOMAIN items = 1..m
  BY RequiredCounts
<1>. HIDE DEF m
<1>3. /\ grid.adverts = Sums(Required(items))[m] /\ grid.adverts <= MaxAdvertiserSlots
      /\ grid.adverts = Cardinality(taken)
      /\ \A k \in 1..m : IsPlaced(grid.slots, items[k])
      /\ \A i \in taken :
           \E k \in 1..m : \E o \in 0..(CountOf(items[k]) - 1) :
             grid.slots[i] = AdvertiserSlot(items[k], o)
      /\ \A i, j \in taken : grid.slots[i].slotId = grid.slots[j].slotId => i = j
  BY <1>1 DEF GridIsSound
<1>4. \A i \in taken : \E k \in 1..m : \E a \in 1..CountOf(items[k]) :
        grid.slots[i].actor = "ADVERTISER" /\ grid.slots[i].slotId = items[k].segments[a]
  BY <1>2, <1>3, AdvertiserSlots
<1>5. /\ \A i \in taken : cells[i] = grid.slots[i]
      /\ \A i \in Position \ taken :
           /\ cells[i].actor # "ADVERTISER"
           /\ cells[i].slotId = <<cells[i].actor, i>>
           /\ \A n \in 1..Len(Available) : cells[i].slotId # Available[n]
  <2>. DEFINE full == FillHoles(grid.slots, fallbacks)
  <2>1. \A i \in taken : full[i] = grid.slots[i]
    BY <1>1, FilledSlots
  <2>2. \A i \in Position \ taken :
           /\ full[i].actor # "ADVERTISER"
           /\ full[i].slotId = <<full[i].actor, i>>
           /\ \A n \in 1..Len(Available) : full[i].slotId # Available[n]
    <3>. HIDE DEF full
    <3>1. ASSUME NEW i \in Position \ taken
          PROVE  /\ full[i].actor # "ADVERTISER"
                 /\ \A n \in 1..Len(Available) : full[i].slotId # Available[n]
      BY <1>1, FilledSlots DEF full
    <3>2. ASSUME NEW i \in Position \ taken
          PROVE  full[i].slotId = <<full[i].actor, i>>
      BY <1>1, FilledSlots DEF full
    <3>. QED  BY <3>1, <3>2
  <2>3. cells = full
    BY <1>1
  <2>. HIDE DEF full, taken
  <2>. QED  BY <2>1, <2>2, <2>3
<1>6. taken \subseteq Position
  BY DEF Taken
<1>. HIDE DEF taken
<1>7. ContentOf(cells, "ADVERTISER") = taken
  BY <1>4, <1>5, <1>6 DEF ContentOf
<1>8. EveryItemIsPlaced(cells, items)
  <2>1. \A k \in 1..m : IsPlaced(cells, items[k])
    BY <1>2, <1>3, <1>5, StaysPlaced DEF taken
  <2>2. Required(items) = [k \in DOMAIN items |-> RequiredAtomicSlots(items[k].seconds)]
    BY DEF Required, CountOf
  <2>3. Cardinality(ContentOf(cells, "ADVERTISER")) = Sums(Required(items))[m]
    BY <1>3, <1>7
  <2>. QED  BY <1>2, <2>1, <2>2, <2>3 DEF EveryItemIsPlaced, m
<1>9. FallbacksAreEqual(cells, fallbacks)
  BY <1>1, <1>4, FallbacksShare DEF taken
<1>10. AdvertisersAreCapped(cells)
  <2>1. 10 * MaxAdvertiserSlots <= 7 * SlotCount /\ MaxAdvertiserSlots \in Nat
    BY SlotGridAssumption DEF MaxAdvertiserSlots
  <2>2. grid.adverts \in Nat
    BY DEF GridsOf
  <2>3. 10 * grid.adverts <= 7 * SlotCount
    BY <1>3, <2>1, <2>2, SlotGridAssumption
  <2>. QED  BY <1>3, <1>7, <2>3 DEF AdvertisersAreCapped
<1>11. ASSUME NEW i \in taken, NEW j \in Position \ taken
       PROVE  cells[i].slotId # cells[j].slotId
  <2>1. PICK k \in 1..m : \E a \in 1..CountOf(items[k]) : grid.slots[i].slotId = items[k].segments[a]
    BY <1>4
  <2>2. PICK a \in 1..CountOf(items[k]) : grid.slots[i].slotId = items[k].segments[a]
    BY <2>1
  <2>3. PICK n \in 1..Len(Available) : items[k].segments[a] = Available[n]
    BY <1>2, <2>1, <2>2 DEF ItemsAreSound
  <2>. QED  BY <1>5, <2>2, <2>3
<1>12. ASSUME NEW i \in Position, NEW j \in Position, cells[i].slotId = cells[j].slotId
       PROVE  i = j
  <2>1. CASE i \in taken /\ j \in taken
    BY <1>3, <1>5, <1>12, <2>1
  <2>2. CASE i \notin taken /\ j \notin taken
    BY <1>5, <1>12, <2>2
  <2>. QED  BY <1>11, <1>12, <2>1, <2>2
<1>13. IdentitiesAreUnique(cells)
  <2>. DEFINE ids == [i \in 1..SlotCount |-> cells[i - 1].slotId]
  <2>1. ASSUME NEW i \in 1..SlotCount, NEW j \in 1..SlotCount, ids[i] = ids[j]
        PROVE  i = j
    <3>1. i - 1 \in Position /\ j - 1 \in Position
      BY SlotGridAssumption DEF Position
    <3>2. i - 1 = j - 1
      BY <1>12, <2>1, <3>1
    <3>. QED  BY <3>2
  <2>2. DOMAIN ids = 1..SlotCount
    OBVIOUS
  <2>. HIDE DEF ids
  <2>3. IsInjective(ids)
    BY <2>1, <2>2 DEF IsInjective
  <2>. QED  BY <2>3 DEF IdentitiesAreUnique, ids
<1>. QED  BY <1>8, <1>9, <1>10, <1>13 DEF cells

\* Every day that is planned shows every creative whole, at its place and under
\* identities of its own, and shares the rest equally among the fallbacks,
\* whatever creatives, grid and fallbacks it is planned from.
THEOREM SoundDays == GridSpec => []PlannedDayIsSound
<1>1. GridInit => PlannedDayIsSound
  <2>1. NoDay.plan = [error |-> "no day"] /\ [error |-> "no day"].error = "no day"
    BY DEF NoDay
  <2>. QED  BY <2>1 DEF GridInit, PlannedDayIsSound
<1>2. PlannedDayIsSound /\ [GridNext]_day => PlannedDayIsSound'
  <2>. SUFFICES ASSUME PlannedDayIsSound, [GridNext]_day
                PROVE  PlannedDayIsSound'
    OBVIOUS
  <2>1. CASE UNCHANGED day
    BY <2>1 DEF PlannedDayIsSound
  <2>2. ASSUME NEW media \in Media, NEW fallbacks \in Fallbacks, PlanDay(media, fallbacks),
               day'.plan.error = "none"
        PROVE  PlannedDayIsSound'
    <3>1. PICK items : items = Items(media)
      OBVIOUS
    <3>2. PICK plan : plan = BuildDailySlotSchedule(items, fallbacks)
      OBVIOUS
    <3>3. day' = [media |-> media, fallbacks |-> fallbacks, plan |-> plan]
      BY <2>2, <3>1, <3>2 DEF PlanDay
    <3>4. day'.media = media /\ day'.fallbacks = fallbacks /\ day'.plan = plan
      BY <3>3
    <3>5. ItemsAreSound(items) /\ plan.error = "none"
      BY <2>2, <3>1, <3>4, ItemsAreAllocated DEF PlanDay
    <3>6. /\ EveryItemIsPlaced(plan.slots, items) /\ FallbacksAreEqual(plan.slots, fallbacks)
          /\ AdvertisersAreCapped(plan.slots) /\ IdentitiesAreUnique(plan.slots)
      BY <3>2, <3>5, PlannedIsSound
    <3>. QED  BY <3>1, <3>4, <3>6 DEF PlannedDayIsSound
  <2>. QED  BY <2>1, <2>2 DEF GridNext, PlannedDayIsSound
<1>. QED  BY <1>1, <1>2, PTL DEF GridSpec
=============================================================================
