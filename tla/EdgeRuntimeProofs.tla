-------------------------- MODULE EdgeRuntimeProofs -------------------------
(***************************************************************************)
(* Proofs about EdgeRuntime for calls that follow each other, through any  *)
(* number of playbacks, synchronisations, outages, crashes and failed      *)
(* writes, and any manifests.                                              *)
(***************************************************************************)
EXTENDS EdgeRuntime, SequenceTheorems, TLAPS

\* The calls of the runtime follow each other.
OneCaller == \A p, q \in Op : p = q

\* What start reads.
Stored == IF disk = NoState THEN EmptyState ELSE disk

Holds(s, p) == \E i \in DOMAIN s.playbackEventQueue : s.playbackEventQueue[i].stamp = p

\* Going on from s loses no playback that was acknowledged and gives no
\* sequence number of the state file again.
GoesOn(s) ==
  /\ \A p \in acked : Delivered(p) \/ Holds(s, p)
  /\ s.playbackSequence >= Stored.playbackSequence

\* The two queues hold what their names say.
QueuesAreApart(s) ==
  /\ \A i \in DOMAIN s.playbackEventQueue : s.playbackEventQueue[i].type = "PlaybackEvent"
  /\ \A i \in DOMAIN s.telemetryQueue : s.telemetryQueue[i].type # "PlaybackEvent"

\* A call works on the newest state there is, and an awaited flush still has
\* what the Cloud has not.
ProgressOf(o) ==
  /\ kind[o] = "play" => number[o] \in 1..MaxPlays
  /\ pc[o] \in {"body", "read", "fetched", "send", "write", "rename"} => started
  /\ pc[o] = "fetched" => kind[o] = "sync"
  /\ pc[o] = "send" => kind[o] = "flush"
  /\ pc[o] = "start" => local[o] = Stored
  /\ pc[o] \in {"read", "send", "write", "rename"} => local[o] = mem
  /\ pc[o] = "rename" => tmp = mem
  /\ pc[o] \in {"write", "rename"} /\ kind[o] = "play" /\ ~booting[o] => Holds(mem, number[o])
  /\ pc[o] = "send" =>
       /\ Range(mem.playbackEventQueue) \subseteq cloud \cup Range(rest[o])
       /\ \A item \in Range(rest[o]) :
            item.type = "PlaybackEvent" => item \in Range(mem.playbackEventQueue)

CallProgress == \A o \in Op : ProgressOf(o)

RuntimeInvariant ==
  /\ TypeOK
  /\ GoesOn(Stored) /\ QueuesAreApart(Stored)
  /\ started => GoesOn(mem) /\ QueuesAreApart(mem)
  /\ CallProgress

\* The PlaybackEvents a Cloud has, and those queued in s.
Known(stored, s) == {c \in stored : c.type = "PlaybackEvent"} \cup Range(s.playbackEventQueue)

\* An identity is given once, and lower ones than the next.
IdsAreUnique(stored, s) ==
  /\ \A c \in Known(stored, s) : c.seq <= s.playbackSequence
  /\ \A c, d \in Known(stored, s) : SameId(c, d) => c = d

\* Nothing is sent that the state file does not have.
IdentityInvariant ==
  failures = 0 =>
    /\ IdsAreUnique(cloud, Stored)
    /\ started => IdsAreUnique(cloud, mem)
    /\ started /\ (\A o \in Op : pc[o] \notin {"write", "rename"}) => mem = disk

-----------------------------------------------------------------------------
\* The states that calls make of others.

LEMMA EmptyStateType ==
  /\ EmptyState \in State
  /\ EmptyState.playbackEventQueue = <<>> /\ EmptyState.telemetryQueue = <<>>
  /\ EmptyState.playbackSequence = 0 /\ ~EmptyState.identity
<1>1. <<>> \in Seq(Item)
  OBVIOUS
<1>. QED  BY <1>1 DEF EmptyState, State

LEMMA StoredType == TypeOK => Stored \in State
  BY EmptyStateType DEF TypeOK, Stored

LEMMA EnqueueType ==
  ASSUME NEW s \in State, NEW item \in Item
  PROVE  LET t == Enqueue(s, item)
         IN  /\ t \in State
             /\ t.playbackEventQueue = s.playbackEventQueue
             /\ t.playbackSequence = s.playbackSequence
             /\ t.telemetryQueue = Append(s.telemetryQueue, item)
<1>1. s.telemetryQueue \in Seq(Item)
  BY DEF State
<1>2. Append(s.telemetryQueue, item) \in Seq(Item)
  BY <1>1
<1>. QED  BY <1>2 DEF State, Enqueue

PlayedEvent(s, t) ==
  [type |-> "PlaybackEvent", version |-> s.manifest, seq |-> s.playbackSequence + 1, stamp |-> t]

PlayedTelemetry(s, t) == [PlayedEvent(s, t) EXCEPT !.type = "playback"]

LEMMA PlayedType ==
  ASSUME NEW s \in State, NEW t \in Nat
  PROVE  /\ Played(s, t) \in State
         /\ PlayedEvent(s, t) \in Item /\ PlayedTelemetry(s, t) \in Item
         /\ PlayedTelemetry(s, t).type = "playback"
         /\ Played(s, t).playbackSequence = s.playbackSequence + 1
         /\ Played(s, t).playbackEventQueue = Append(s.playbackEventQueue, PlayedEvent(s, t))
         /\ Played(s, t).telemetryQueue = Append(s.telemetryQueue, PlayedTelemetry(s, t))
<1>1. /\ s.playbackSequence \in Nat /\ s.manifest \in Version \cup {NoVersion}
      /\ s.telemetryQueue \in Seq(Item) /\ s.playbackEventQueue \in Seq(Item)
  BY DEF State
<1>2. /\ PlayedEvent(s, t) \in Item /\ PlayedTelemetry(s, t) \in Item
      /\ PlayedTelemetry(s, t).type = "playback"
  BY <1>1 DEF Item, PlayedEvent, PlayedTelemetry
<1>3. /\ Append(s.telemetryQueue, PlayedTelemetry(s, t)) \in Seq(Item)
      /\ Append(s.playbackEventQueue, PlayedEvent(s, t)) \in Seq(Item)
  BY <1>1, <1>2
<1>4. Played(s, t) = [s EXCEPT !.playbackSequence = s.playbackSequence + 1,
                               !.telemetryQueue = Append(s.telemetryQueue, PlayedTelemetry(s, t)),
                               !.playbackEventQueue = Append(s.playbackEventQueue, PlayedEvent(s, t))]
  BY DEF Played, PlayedEvent, PlayedTelemetry, State
<1>5. s.playbackSequence + 1 \in Nat
  BY <1>1
<1>6. /\ Played(s, t) \in State
      /\ Played(s, t).playbackSequence = s.playbackSequence + 1
      /\ Played(s, t).telemetryQueue = Append(s.telemetryQueue, PlayedTelemetry(s, t))
      /\ Played(s, t).playbackEventQueue = Append(s.playbackEventQueue, PlayedEvent(s, t))
  <2>. DEFINE n == s.playbackSequence + 1
              q == Append(s.telemetryQueue, PlayedTelemetry(s, t))
              r == Append(s.playbackEventQueue, PlayedEvent(s, t))
  <2>1. n \in Nat /\ q \in Seq(Item) /\ r \in Seq(Item)
    BY <1>3, <1>5
  <2>2. Played(s, t) = [s EXCEPT !.playbackSequence = n, !.telemetryQueue = q,
                                 !.playbackEventQueue = r]
    BY <1>4
  <2>3. /\ Played(s, t) \in State /\ Played(s, t).playbackSequence = n
        /\ Played(s, t).telemetryQueue = q /\ Played(s, t).playbackEventQueue = r
    <3>. HIDE DEF n, q, r
    <3>. QED  BY <2>1, <2>2 DEF State
  <2>. QED  BY <2>3
<1>. QED  BY <1>2, <1>6

LEMMA SentType ==
  ASSUME NEW s \in State
  PROVE  /\ Sent(s) \in State
         /\ Sent(s).playbackSequence = s.playbackSequence
         /\ Sent(s).playbackEventQueue = <<>> /\ Sent(s).telemetryQueue = <<>>
<1>1. <<>> \in Seq(Item)
  OBVIOUS
<1>. QED  BY <1>1 DEF State, Sent

-----------------------------------------------------------------------------
\* Types.

LEMMA FinishType ==
  ASSUME TypeOK, NEW o \in Op, Finish(o)
  PROVE  /\ pc' \in [Op -> Step] /\ kind' \in [Op -> {"sync", "play", "flush"}]
         /\ number' \in [Op -> Nat] /\ booting' \in [Op -> BOOLEAN]
         /\ local' \in [Op -> State \cup {NoState}] /\ rest' \in [Op -> Seq(Item)]
<1>1. <<>> \in Seq(Item)
  OBVIOUS
<1>. QED  BY <1>1 DEF TypeOK, Finish, Step

LEMMA SaveType ==
  ASSUME TypeOK, NEW o \in Op, NEW s \in State, Save(o, s)
  PROVE  /\ mem' = s /\ mem' \in State /\ mem' # NoState
         /\ pc' \in [Op -> Step] /\ local' \in [Op -> State \cup {NoState}]
  BY EdgeRuntimeAssumption DEF TypeOK, Save, Goto, Step

LEMMA StoreType ==
  ASSUME TypeOK, NEW item \in Item, Store(item)
  PROVE  cloud' \in SUBSET Item
  BY DEF TypeOK, Store

\* The records a call has still to send.
LEMMA RestType ==
  ASSUME TypeOK, NEW o \in Op
  PROVE  /\ rest[o] \in Seq(Item)
         /\ rest[o] # <<>> => /\ Head(rest[o]) \in Item
                              /\ Tail(rest[o]) \in Seq(Item)
                              /\ Range(rest[o]) = {Head(rest[o])} \cup Range(Tail(rest[o]))
<1>. DEFINE q == rest[o]
<1>1. q \in Seq(Item)
  BY DEF TypeOK
<1>2. ASSUME q # <<>>
      PROVE  /\ Head(q) \in Item /\ Tail(q) \in Seq(Item)
             /\ Range(q) = {Head(q)} \cup Range(Tail(q))
  <2>. HIDE DEF q
  <2>1. Head(q) \in Item /\ Tail(q) \in Seq(Item) /\ Head(q) = q[1]
    BY <1>1, <1>2
  <2>2. /\ DOMAIN q = 1..Len(q) /\ Len(q) \in Nat \ {0}
        /\ DOMAIN Tail(q) = 1..(Len(q) - 1)
        /\ \A i \in 1..(Len(q) - 1) : Tail(q)[i] = q[i + 1]
    BY <1>1, <1>2
  <2>3. ASSUME NEW i \in DOMAIN q PROVE q[i] \in {Head(q)} \cup Range(Tail(q))
    <3>1. CASE i = 1
      BY <2>1, <3>1
    <3>2. CASE i # 1
      <4>1. i - 1 \in DOMAIN Tail(q) /\ Tail(q)[i - 1] = q[i]
        BY <2>2, <3>2
      <4>. QED  BY <4>1 DEF Range
    <3>. QED  BY <3>1, <3>2
  <2>4. ASSUME NEW i \in DOMAIN Tail(q) PROVE Tail(q)[i] \in Range(q)
    <3>1. i + 1 \in DOMAIN q /\ Tail(q)[i] = q[i + 1]
      BY <2>2
    <3>. QED  BY <3>1 DEF Range
  <2>5. Head(q) \in Range(q)
    BY <2>1, <2>2 DEF Range
  <2>. QED  BY <2>1, <2>3, <2>4, <2>5 DEF Range
<1>. QED  BY <1>1, <1>2

LEMMA TypeStep == RuntimeInvariant /\ [Next]_vars => TypeOK'
<1>. SUFFICES ASSUME RuntimeInvariant, [Next]_vars PROVE TypeOK'
  OBVIOUS
<1>0. TypeOK /\ CallProgress
  BY DEF RuntimeInvariant
<1>1. ASSUME NEW o \in Op, NEW k \in {"sync", "play", "flush"}, Begin(o, k) PROVE TypeOK'
  BY <1>0, <1>1, EdgeRuntimeAssumption DEF TypeOK, Begin, Goto, Step, cloudVars
<1>2. ASSUME NEW o \in Op, ReadFile(o) PROVE TypeOK'
  BY <1>0, <1>2, StoredType DEF TypeOK, ReadFile, Goto, Step, cloudVars, history, Stored
<1>3. ASSUME NEW o \in Op, Start(o) PROVE TypeOK'
  <2>1. local[o] \in State
    BY <1>0, <1>3, StoredType DEF CallProgress, ProgressOf, Start
  <2>2. CASE local[o].identity
    BY <1>0, <1>3, <2>1, <2>2, EdgeRuntimeAssumption
       DEF TypeOK, Start, Goto, Step, cloudVars, history
  <2>3. CASE ~local[o].identity
    <3>. DEFINE item == [type |-> "edge.started", version |-> NoVersion, seq |-> 0, stamp |-> crashes]
                s == [local[o] EXCEPT !.identity = TRUE]
    <3>1. item \in Item /\ s \in State
      <4>1. crashes \in Nat
        BY <1>0, EdgeRuntimeAssumption DEF TypeOK
      <4>2. item \in Item
        BY <4>1 DEF Item
      <4>3. s \in State
        BY <2>1 DEF State
      <4>. QED  BY <4>2, <4>3
    <3>2. Save(o, Enqueue(s, item)) /\ started' = TRUE
          /\ booting' = [booting EXCEPT ![o] = TRUE]
          /\ UNCHANGED <<disk, tmp, kind, number, rest, cloudVars, history>>
      BY <1>3, <2>3 DEF Start
    <3>. HIDE DEF item, s
    <3>3. Enqueue(s, item) \in State
      BY <3>1, EnqueueType
    <3>. QED  BY <1>0, <3>2, <3>3, SaveType DEF TypeOK, cloudVars, history
  <2>. QED  BY <2>2, <2>3
<1>4. ASSUME NEW o \in Op, ReadState(o) PROVE TypeOK'
  BY <1>0, <1>4 DEF TypeOK, ReadState, Goto, Step, cloudVars, history
<1>5. ASSUME NEW o \in Op, Play(o) PROVE TypeOK'
  <2>1. local[o] \in State /\ number[o] \in Nat /\ started
    BY <1>0, <1>5 DEF CallProgress, ProgressOf, Play, TypeOK
  <2>2. CASE Finish(o) /\ UNCHANGED mem
    BY <1>0, <1>5, <2>2, FinishType DEF TypeOK, Play, cloudVars, history
  <2>3. CASE Save(o, Played(local[o], number[o])) /\ UNCHANGED <<kind, number, booting, rest>>
    <3>1. Played(local[o], number[o]) \in State
      BY <2>1, PlayedType
    <3>. QED  BY <1>0, <1>5, <2>1, <2>3, <3>1, SaveType DEF TypeOK, Play, cloudVars, history
  <2>. QED  BY <1>5, <2>2, <2>3 DEF Play
<1>6. ASSUME NEW o \in Op, Fetch(o) PROVE TypeOK'
  <2>1. CASE Finish(o)
    BY <1>0, <1>6, <2>1, FinishType DEF TypeOK, Fetch, cloudVars, history
  <2>2. CASE Goto(o, "fetched") /\ UNCHANGED <<kind, number, booting, local, rest>>
    BY <1>0, <1>6, <2>2 DEF TypeOK, Fetch, Goto, Step, cloudVars, history
  <2>. QED  BY <1>6, <2>1, <2>2 DEF Fetch
<1>7. ASSUME NEW o \in Op, ApplyManifest(o) PROVE TypeOK'
  <2>1. PICK v \in Version :
          Save(o, Enqueue([mem EXCEPT !.manifest = v],
                          [type |-> "manifest.synced", version |-> v, seq |-> 0, stamp |-> number[o]]))
    BY <1>7 DEF ApplyManifest
  <2>. DEFINE item == [type |-> "manifest.synced", version |-> v, seq |-> 0, stamp |-> number[o]]
              s == [mem EXCEPT !.manifest = v]
  <2>2. item \in Item /\ s \in State /\ started
    BY <1>0, <1>7 DEF Item, State, TypeOK, ApplyManifest, CallProgress, ProgressOf
  <2>3. Save(o, Enqueue(s, item))
    BY <2>1
  <2>. HIDE DEF item, s
  <2>4. Enqueue(s, item) \in State
    BY <2>2, EnqueueType
  <2>. QED  BY <1>0, <1>7, <2>2, <2>3, <2>4, SaveType DEF TypeOK, ApplyManifest, cloudVars, history
<1>8. ASSUME NEW o \in Op, Collect(o) PROVE TypeOK'
  <2>. DEFINE queued == local[o].telemetryQueue \o local[o].playbackEventQueue
  <2>1. queued \in Seq(Item)
    BY <1>0, <1>8 DEF CallProgress, ProgressOf, Collect, TypeOK, State
  <2>2. CASE Finish(o)
    BY <1>0, <1>8, <2>2, FinishType DEF TypeOK, Collect, cloudVars, history
  <2>3. CASE rest' = [rest EXCEPT ![o] = queued] /\ Goto(o, "send")
             /\ UNCHANGED <<kind, number, booting, local>>
    <3>. HIDE DEF queued
    <3>. QED  BY <1>0, <1>8, <2>1, <2>3 DEF TypeOK, Collect, Goto, Step, cloudVars, history
  <2>. QED  BY <1>8, <2>2, <2>3 DEF Collect
<1>9. ASSUME NEW o \in Op, Deliver(o) PROVE TypeOK'
  <2>1. cloud' \in SUBSET Item
    BY <1>0, <1>9, RestType, StoreType DEF Deliver
  <2>2. rest' \in [Op -> Seq(Item)]
    BY <1>0, <1>9, RestType DEF Deliver, TypeOK
  <2>. QED  BY <1>0, <1>9, <2>1, <2>2 DEF TypeOK, Deliver, history
<1>10. ASSUME NEW o \in Op, FinishFlush(o) PROVE TypeOK'
  <2>1. local[o] \in State /\ started
    BY <1>0, <1>10 DEF CallProgress, ProgressOf, FinishFlush, TypeOK
  <2>2. summaries' \in SUBSET Item
    <3>1. local[o].telemetryQueue # <<>> => SummaryId(o) \in Item
      BY <2>1 DEF State, SummaryId
    <3>. QED  BY <1>0, <1>10, <3>1 DEF FinishFlush, TypeOK
  <2>3. Sent(local[o]) \in State
    BY <2>1, SentType
  <2>4. Save(o, Sent(local[o]))
    BY <1>10 DEF FinishFlush
  <2>. QED  BY <1>0, <1>10, <2>1, <2>2, <2>3, <2>4, SaveType DEF TypeOK, FinishFlush, history
<1>11. ASSUME NEW o \in Op, GiveUp(o) PROVE TypeOK'
  BY <1>0, <1>11, FinishType DEF TypeOK, GiveUp, cloudVars, history
<1>12. ASSUME NEW o \in Op, WriteFile(o) PROVE TypeOK'
  BY <1>0, <1>12 DEF TypeOK, WriteFile, Goto, Step, cloudVars, history
<1>13. ASSUME NEW o \in Op, RenameFile(o) PROVE TypeOK'
  <2>1. acked' \in SUBSET (1..MaxPlays)
    BY <1>0, <1>13 DEF TypeOK, RenameFile, CallProgress, ProgressOf
  <2>2. CASE Finish(o)
    BY <1>0, <1>13, <2>1, <2>2, FinishType DEF TypeOK, RenameFile, cloudVars
  <2>3. CASE Goto(o, "body") /\ booting' = [booting EXCEPT ![o] = FALSE]
             /\ UNCHANGED <<kind, number, local, rest>>
    BY <1>0, <1>13, <2>1, <2>3 DEF TypeOK, RenameFile, Goto, Step, cloudVars
  <2>. QED  BY <1>13, <2>2, <2>3 DEF RenameFile
<1>14. ASSUME NEW o \in Op, WriteFails(o) PROVE TypeOK'
  BY <1>0, <1>14, FinishType, EdgeRuntimeAssumption DEF TypeOK, WriteFails, cloudVars
<1>15. CASE Crash
  <2>1. <<>> \in Seq(Item)
    OBVIOUS
  <2>2. booting' \in [Op -> BOOLEAN] /\ (started' <=> mem' # NoState)
    BY <1>15 DEF Crash
  <2>3. crashes' \in 0..MaxCrashes
    BY <1>0, <1>15, EdgeRuntimeAssumption DEF TypeOK, Crash
  <2>4. /\ pc' \in [Op -> Step] /\ kind' \in [Op -> {"sync", "play", "flush"}]
        /\ number' \in [Op -> Nat] /\ local' \in [Op -> State \cup {NoState}]
        /\ rest' \in [Op -> Seq(Item)]
    BY <1>15, <2>1 DEF Crash, Step
  <2>. QED  BY <1>0, <1>15, <2>2, <2>3, <2>4 DEF TypeOK, Crash, cloudVars
<1>16. CASE GoOffline
  <2>1. cloud' \in SUBSET Item
    BY <1>0, <1>16, RestType, StoreType DEF GoOffline, TypeOK
  <2>2. summaries' \in SUBSET Item
    <3>1. ASSUME NEW o \in Op, pc[o] = "send", local[o].telemetryQueue # <<>>
          PROVE  SummaryId(o) \in Item
      BY <1>0, <3>1 DEF CallProgress, ProgressOf, TypeOK, State, SummaryId
    <3>. QED  BY <1>0, <1>16, <3>1 DEF GoOffline, TypeOK
  <2>. QED  BY <1>0, <1>16, <2>1, <2>2 DEF TypeOK, GoOffline, opVars, history
<1>17. CASE GoOnline
  BY <1>0, <1>17 DEF TypeOK, GoOnline, opVars, history
<1>18. CASE UNCHANGED vars
  BY <1>0, <1>18 DEF TypeOK, vars, opVars, cloudVars, history
<1>. QED  BY <1>1, <1>2, <1>3, <1>4, <1>5, <1>6, <1>7, <1>8, <1>9, <1>10, <1>11, <1>12, <1>13,
             <1>14, <1>15, <1>16, <1>17, <1>18 DEF Next, Continue

-----------------------------------------------------------------------------
\* The calls.

LEMMA OneProgress ==
  ASSUME OneCaller, NEW o \in Op, ProgressOf(o)'
  PROVE  CallProgress'
  BY DEF OneCaller, CallProgress

\* What is kept of a state that stays as it is, while the Cloud learns more.
LEMMA StatesRest ==
  ASSUME RuntimeInvariant, TypeOK', CallProgress',
         UNCHANGED <<mem, started, disk, acked>>, cloud \subseteq cloud'
  PROVE  RuntimeInvariant'
<1>1. (GoesOn(Stored) /\ QueuesAreApart(Stored))'
  BY DEF RuntimeInvariant, GoesOn, QueuesAreApart, Stored, Delivered, Holds
<1>2. (started => GoesOn(mem) /\ QueuesAreApart(mem))'
  BY DEF RuntimeInvariant, GoesOn, QueuesAreApart, Stored, Delivered, Holds
<1>. QED  BY <1>1, <1>2 DEF RuntimeInvariant

\* Steps of a call that change neither #state nor the file nor the Cloud.
Quiet(o) ==
  \/ \E k \in {"sync", "play", "flush"} : Begin(o, k)
  \/ ReadFile(o) \/ ReadState(o) \/ Fetch(o) \/ Collect(o) \/ GiveUp(o) \/ WriteFile(o)
  \/ Play(o) /\ Finish(o)
  \/ WriteFails(o)

LEMMA QuietStep ==
  ASSUME OneCaller, RuntimeInvariant, TypeOK', NEW o \in Op, Quiet(o)
  PROVE  RuntimeInvariant'
<1>. USE DEF RuntimeInvariant
<1>0. TypeOK /\ ProgressOf(o)
  BY DEF CallProgress
<1>1. UNCHANGED <<mem, started, disk, cloud, acked>>
  <2>1. CASE Play(o) /\ Finish(o)
    BY <1>0, <2>1 DEF Play, Finish, Save, Goto, cloudVars, history, TypeOK
  <2>. QED  BY <2>1 DEF Quiet, Begin, ReadFile, ReadState, Fetch, Collect, GiveUp, WriteFile, WriteFails,
                        cloudVars, history
<1>2. ASSUME Finish(o) PROVE ProgressOf(o)'
  BY <1>0, <1>2 DEF Finish, ProgressOf, TypeOK
<1>3. ASSUME NEW k \in {"sync", "play", "flush"}, Begin(o, k) PROVE ProgressOf(o)'
  BY <1>0, <1>3, EdgeRuntimeAssumption DEF Begin, Goto, ProgressOf, TypeOK, Stored
<1>4. ASSUME ReadFile(o) PROVE ProgressOf(o)'
  <2>1. pc'[o] = "start" /\ local'[o] = Stored /\ Stored' = Stored
        /\ kind'[o] = kind[o] /\ number'[o] = number[o]
    BY <1>0, <1>1, <1>4 DEF ReadFile, Goto, TypeOK, Stored
  <2>. QED  BY <1>0, <2>1 DEF ProgressOf
<1>5. ASSUME ReadState(o) PROVE ProgressOf(o)'
  <2>1. pc'[o] = "read" /\ pc[o] = "body" /\ local'[o] = mem /\ mem' = mem /\ started' = started
        /\ kind'[o] = kind[o] /\ number'[o] = number[o]
    BY <1>0, <1>1, <1>5 DEF ReadState, Goto, TypeOK
  <2>. QED  BY <1>0, <2>1 DEF ProgressOf
<1>6. ASSUME Fetch(o), Goto(o, "fetched"), UNCHANGED <<kind, number, booting, local, rest>>
      PROVE  ProgressOf(o)'
  BY <1>0, <1>6 DEF Fetch, Goto, ProgressOf, TypeOK
<1>7. ASSUME Collect(o), rest' = [rest EXCEPT ![o] = local[o].telemetryQueue \o local[o].playbackEventQueue],
             Goto(o, "send"), UNCHANGED <<kind, number, booting, local>>
      PROVE  ProgressOf(o)'
  <2>. DEFINE t == mem.telemetryQueue
              e == mem.playbackEventQueue
  <2>1. /\ local[o] = mem /\ started /\ rest'[o] = t \o e
        /\ t \in Seq(Item) /\ e \in Seq(Item)
    BY <1>0, <1>7 DEF Collect, ProgressOf, TypeOK, State
  <2>2. Range(t \o e) = Range(t) \cup Range(e)
    <3>. HIDE DEF t, e
    <3>1. /\ DOMAIN t = 1..Len(t) /\ DOMAIN e = 1..Len(e) /\ Len(t) \in Nat /\ Len(e) \in Nat
          /\ DOMAIN (t \o e) = 1..(Len(t) + Len(e))
          /\ \A i \in 1..(Len(t) + Len(e)) : (t \o e)[i] = IF i <= Len(t) THEN t[i] ELSE e[i - Len(t)]
      BY <2>1
    <3>2. ASSUME NEW i \in DOMAIN (t \o e) PROVE (t \o e)[i] \in Range(t) \cup Range(e)
      <4>1. CASE i <= Len(t)
        BY <3>1, <4>1 DEF Range
      <4>2. CASE i > Len(t)
        <5>1. i - Len(t) \in DOMAIN e /\ (t \o e)[i] = e[i - Len(t)]
          BY <3>1, <4>2
        <5>. QED  BY <5>1 DEF Range
      <4>. QED  BY <3>1, <4>1, <4>2
    <3>3. ASSUME NEW i \in DOMAIN t PROVE t[i] \in Range(t \o e)
      <4>1. i \in DOMAIN (t \o e) /\ (t \o e)[i] = t[i]
        BY <3>1
      <4>. QED  BY <4>1 DEF Range
    <3>4. ASSUME NEW i \in DOMAIN e PROVE e[i] \in Range(t \o e)
      <4>1. i + Len(t) \in DOMAIN (t \o e) /\ (t \o e)[i + Len(t)] = e[i]
        BY <3>1
      <4>. QED  BY <4>1 DEF Range
    <3>. QED  BY <3>2, <3>3, <3>4 DEF Range
  <2>3. \A item \in Range(t) : item.type # "PlaybackEvent"
    BY <2>1 DEF QueuesAreApart, Range
  <2>4. pc'[o] = "send" /\ local'[o] = mem /\ mem' = mem /\ started' /\ number'[o] = number[o]
        /\ kind'[o] = kind[o] /\ kind[o] = "flush"
    BY <1>0, <1>1, <1>7, <2>1 DEF Goto, TypeOK, Collect
  <2>. HIDE DEF t, e
  <2>5. /\ Range(e) \subseteq Range(rest'[o])
        /\ \A item \in Range(rest'[o]) : item.type = "PlaybackEvent" => item \in Range(e)
    BY <2>1, <2>2, <2>3
  <2>. QED  BY <1>0, <2>4, <2>5 DEF ProgressOf, e
<1>8. ASSUME WriteFile(o) PROVE ProgressOf(o)'
  <2>1. /\ pc[o] = "write" /\ pc'[o] = "rename" /\ local'[o] = local[o] /\ tmp' = local[o]
        /\ mem' = mem /\ started' = started
        /\ kind'[o] = kind[o] /\ number'[o] = number[o] /\ booting'[o] = booting[o]
    BY <1>0, <1>1, <1>8 DEF WriteFile, Goto, TypeOK
  <2>2. Holds(mem, number[o])' <=> Holds(mem, number[o])
    BY <2>1 DEF Holds
  <2>. QED  BY <1>0, <2>1, <2>2 DEF ProgressOf
<1>9. ProgressOf(o)'
  <2>1. CASE Fetch(o)
    BY <1>2, <1>6, <2>1 DEF Fetch
  <2>2. CASE Collect(o)
    BY <1>2, <1>7, <2>2 DEF Collect
  <2>3. CASE GiveUp(o) \/ WriteFails(o)
    BY <1>2, <2>3 DEF GiveUp, WriteFails
  <2>4. ASSUME \E k \in {"sync", "play", "flush"} : Begin(o, k)
        PROVE  ProgressOf(o)'
    BY <1>3, <2>4
  <2>. QED  BY <1>2, <1>4, <1>5, <1>8, <2>1, <2>2, <2>3, <2>4 DEF Quiet
<1>. QED  BY <1>1, <1>9, OneProgress, StatesRest

\* The Cloud stores a record that it does not refuse.
LEMMA StoreStep ==
  ASSUME NEW item, ~Refused(item), Store(item)
  PROVE  /\ cloud \subseteq cloud' /\ cloud' \subseteq cloud \cup {item}
         /\ item.type = "PlaybackEvent" => item \in cloud'
  BY DEF Refused, Store

LEMMA DeliverStep ==
  ASSUME OneCaller, RuntimeInvariant, TypeOK', NEW o \in Op, Deliver(o)
  PROVE  RuntimeInvariant'
<1>. DEFINE item == Head(rest[o])
<1>0. TypeOK /\ ProgressOf(o)
  BY DEF RuntimeInvariant, CallProgress
<1>1. /\ pc[o] = "send" /\ ~Refused(item) /\ Store(item)
      /\ Range(rest[o]) = {item} \cup Range(rest'[o])
      /\ UNCHANGED <<mem, started, disk, acked, pc, kind, number, booting, local>>
  BY <1>0, RestType DEF Deliver, TypeOK, history
<1>2. /\ started /\ local[o] = mem /\ mem \in State
      /\ Range(mem.playbackEventQueue) \subseteq cloud \cup Range(rest[o])
      /\ \A r \in Range(rest[o]) :
           r.type = "PlaybackEvent" => r \in Range(mem.playbackEventQueue)
  BY <1>0, <1>1 DEF ProgressOf, TypeOK
<1>3. \A r \in Range(mem.playbackEventQueue) : r.type = "PlaybackEvent"
  BY <1>2 DEF RuntimeInvariant, QueuesAreApart, Range
<1>. HIDE DEF item
<1>4. /\ cloud \subseteq cloud' /\ (item.type = "PlaybackEvent" => item \in cloud')
  BY <1>1, StoreStep
<1>5. ProgressOf(o)'
  BY <1>0, <1>1, <1>2, <1>3, <1>4 DEF ProgressOf
<1>. QED  BY <1>1, <1>4, <1>5, OneProgress, StatesRest

LEMMA GoOfflineStep ==
  ASSUME RuntimeInvariant, TypeOK', GoOffline
  PROVE  RuntimeInvariant'
<1>1. cloud \subseteq cloud' /\ UNCHANGED <<mem, started, disk, tmp, opVars, history>>
  BY StoreStep DEF GoOffline
<1>2. CallProgress'
  <2>. SUFFICES ASSUME NEW o \in Op PROVE ProgressOf(o)'
    BY DEF CallProgress
  <2>1. ProgressOf(o) /\ (Holds(mem, number[o])' <=> Holds(mem, number[o]))
        /\ Stored' = Stored
    BY <1>1 DEF RuntimeInvariant, CallProgress, Holds, opVars, Stored
  <2>. QED  BY <1>1, <2>1 DEF ProgressOf, opVars
<1>. QED  BY <1>1, <1>2, StatesRest DEF history

LEMMA RestStep ==
  ASSUME RuntimeInvariant, TypeOK', GoOnline \/ UNCHANGED vars
  PROVE  RuntimeInvariant'
<1>1. UNCHANGED <<mem, started, disk, tmp, opVars, history, cloud>>
  BY DEF GoOnline, vars, cloudVars
<1>2. CallProgress'
  <2>. SUFFICES ASSUME NEW o \in Op PROVE ProgressOf(o)'
    BY DEF CallProgress
  <2>1. ProgressOf(o) /\ (Holds(mem, number[o])' <=> Holds(mem, number[o]))
        /\ Stored' = Stored
    BY <1>1 DEF RuntimeInvariant, CallProgress, Holds, opVars, Stored
  <2>. QED  BY <1>1, <2>1 DEF ProgressOf, opVars
<1>. QED  BY <1>1, <1>2, StatesRest DEF history

\* After a crash there is the file.
LEMMA CrashStep ==
  ASSUME RuntimeInvariant, TypeOK', Crash
  PROVE  RuntimeInvariant'
<1>1. (GoesOn(Stored) /\ QueuesAreApart(Stored))' /\ ~started'
  BY DEF Crash, cloudVars, RuntimeInvariant, GoesOn, QueuesAreApart, Stored, Delivered, Holds
<1>2. CallProgress'
  BY DEF Crash, CallProgress, ProgressOf
<1>. QED  BY <1>1, <1>2 DEF RuntimeInvariant

-----------------------------------------------------------------------------
\* #state changes: what a call saves goes on from what was there.

LEMMA SaveStep ==
  ASSUME OneCaller, RuntimeInvariant, TypeOK', NEW o \in Op, NEW t, t \in State,
         mem' = t, pc'[o] = "write", local'[o] = t, started',
         UNCHANGED <<disk, cloud, acked>>,
         GoesOn(t), QueuesAreApart(t), kind'[o] = kind[o], number'[o] = number[o],
         kind[o] = "play" /\ ~booting'[o] => Holds(t, number[o])
  PROVE  RuntimeInvariant'
<1>1. (GoesOn(Stored) /\ QueuesAreApart(Stored))'
  BY DEF RuntimeInvariant, GoesOn, QueuesAreApart, Stored, Delivered, Holds
<1>2. (GoesOn(mem) /\ QueuesAreApart(mem))'
  BY DEF GoesOn, QueuesAreApart, Stored, Delivered, Holds
<1>3. ProgressOf(o)'
  <2>1. ProgressOf(o)
    BY DEF RuntimeInvariant, CallProgress
  <2>2. kind[o] = "play" /\ ~booting'[o] => Holds(mem, number[o])'
    BY DEF Holds
  <2>. QED  BY <2>1, <2>2 DEF ProgressOf
<1>. QED  BY <1>1, <1>2, <1>3, OneProgress DEF RuntimeInvariant

\* start: what was read becomes #state, or with an identity is saved.
LEMMA StartStep ==
  ASSUME OneCaller, RuntimeInvariant, TypeOK', NEW o \in Op, Start(o)
  PROVE  RuntimeInvariant'
<1>0. TypeOK /\ ProgressOf(o)
  BY DEF RuntimeInvariant, CallProgress
<1>1. /\ pc[o] = "start" /\ local[o] = Stored /\ Stored \in State
      /\ started' = TRUE /\ UNCHANGED <<disk, tmp, kind, number, rest, cloud, acked>>
  BY <1>0, StoredType DEF Start, ProgressOf, cloudVars, history
<1>2. GoesOn(Stored) /\ QueuesAreApart(Stored)
  BY DEF RuntimeInvariant
<1>3. CASE Stored.identity
  <2>1. mem' = Stored /\ pc'[o] = "body" /\ booting' = booting /\ local' = local
    BY <1>0, <1>1, <1>3 DEF Start, Goto, TypeOK
  <2>2. (GoesOn(mem) /\ QueuesAreApart(mem))' /\ (GoesOn(Stored) /\ QueuesAreApart(Stored))'
    BY <1>1, <1>2, <2>1 DEF GoesOn, QueuesAreApart, Stored, Delivered, Holds
  <2>3. ProgressOf(o)'
    BY <1>0, <1>1, <2>1 DEF ProgressOf
  <2>. QED  BY <2>2, <2>3, OneProgress DEF RuntimeInvariant
<1>4. CASE ~Stored.identity
  <2>. DEFINE item == [type |-> "edge.started", version |-> NoVersion, seq |-> 0, stamp |-> crashes]
              s == [local[o] EXCEPT !.identity = TRUE]
  <2>1. item \in Item /\ item.type # "PlaybackEvent"
    <3>1. crashes \in Nat
      BY <1>0, EdgeRuntimeAssumption DEF TypeOK
    <3>. QED  BY <3>1 DEF Item
  <2>2. /\ s \in State /\ s.playbackEventQueue = Stored.playbackEventQueue
        /\ s.telemetryQueue = Stored.telemetryQueue
        /\ s.playbackSequence = Stored.playbackSequence
    BY <1>1 DEF State
  <2>3. Save(o, Enqueue(s, item)) /\ booting' = [booting EXCEPT ![o] = TRUE]
    BY <1>1, <1>4 DEF Start
  <2>. HIDE DEF item, s
  <2>4. PICK t : t = Enqueue(s, item)
    OBVIOUS
  <2>5. /\ t \in State /\ t.playbackEventQueue = Stored.playbackEventQueue
        /\ t.playbackSequence = Stored.playbackSequence
        /\ t.telemetryQueue = Append(Stored.telemetryQueue, item)
    BY <2>1, <2>2, <2>4, EnqueueType
  <2>6. GoesOn(t) /\ QueuesAreApart(t)
    <3>1. Stored.telemetryQueue \in Seq(Item)
      BY <1>1 DEF State
    <3>2. \A i \in DOMAIN t.telemetryQueue : t.telemetryQueue[i].type # "PlaybackEvent"
      BY <1>2, <2>1, <2>5, <3>1 DEF QueuesAreApart
    <3>. QED  BY <1>2, <2>5, <3>2 DEF GoesOn, QueuesAreApart, Holds
  <2>7. mem' = t /\ pc'[o] = "write" /\ local'[o] = t /\ booting'[o]
    BY <1>0, <2>3, <2>4 DEF Save, Goto, TypeOK
  <2>. QED  BY <1>1, <2>5, <2>6, <2>7, SaveStep
<1>. QED  BY <1>3, <1>4

LEMMA PlayStep ==
  ASSUME OneCaller, RuntimeInvariant, TypeOK', NEW o \in Op,
         Play(o), Save(o, Played(local[o], number[o]))
  PROVE  RuntimeInvariant'
<1>0. TypeOK /\ ProgressOf(o)
  BY DEF RuntimeInvariant, CallProgress
<1>1. /\ pc[o] = "read" /\ local[o] = mem /\ mem \in State /\ number[o] \in Nat /\ started
      /\ UNCHANGED <<started, disk, cloud, acked>>
  BY <1>0 DEF Play, ProgressOf, TypeOK, cloudVars, history
<1>2. UNCHANGED <<kind, number, booting, rest>>
  BY <1>0, <1>1 DEF Play, Save, Finish, Goto, TypeOK
<1>3. GoesOn(mem) /\ QueuesAreApart(mem)
  BY <1>1 DEF RuntimeInvariant
<1>4. PICK t : t = Played(mem, number[o])
  OBVIOUS
<1>5. PICK event : event = PlayedEvent(mem, number[o])
  OBVIOUS
<1>6. PICK item : item = PlayedTelemetry(mem, number[o])
  OBVIOUS
<1>7. /\ t \in State /\ t.playbackSequence = mem.playbackSequence + 1
      /\ t.playbackEventQueue = Append(mem.playbackEventQueue, event)
      /\ t.telemetryQueue = Append(mem.telemetryQueue, item)
      /\ item.type = "playback" /\ event.type = "PlaybackEvent" /\ event.stamp = number[o]
  BY <1>1, <1>4, <1>5, <1>6, PlayedType DEF PlayedEvent
<1>8. /\ mem.playbackEventQueue \in Seq(Item) /\ mem.telemetryQueue \in Seq(Item)
      /\ mem.playbackSequence \in Nat /\ Stored.playbackSequence \in Nat
  BY <1>0, <1>1, StoredType DEF State
<1>9. Holds(t, number[o])
  <2>1. /\ Len(mem.playbackEventQueue) + 1 \in DOMAIN t.playbackEventQueue
        /\ t.playbackEventQueue[Len(mem.playbackEventQueue) + 1] = event
    BY <1>7, <1>8
  <2>. QED  BY <1>7, <2>1 DEF Holds
<1>10. \A i \in DOMAIN mem.playbackEventQueue :
         i \in DOMAIN t.playbackEventQueue /\ t.playbackEventQueue[i] = mem.playbackEventQueue[i]
  BY <1>7, <1>8
<1>11. GoesOn(t)
  BY <1>3, <1>7, <1>8, <1>10 DEF GoesOn, Holds
<1>12. QueuesAreApart(t)
  BY <1>3, <1>7, <1>8 DEF QueuesAreApart
<1>13. mem' = t /\ pc'[o] = "write" /\ local'[o] = t
  BY <1>0, <1>1, <1>4 DEF Save, Goto, TypeOK
<1>. QED  BY <1>1, <1>2, <1>7, <1>9, <1>11, <1>12, <1>13, SaveStep

LEMMA ApplyManifestStep ==
  ASSUME OneCaller, RuntimeInvariant, TypeOK', NEW o \in Op, ApplyManifest(o)
  PROVE  RuntimeInvariant' /\ mem'.playbackEventQueue = mem.playbackEventQueue
         /\ mem'.playbackSequence = mem.playbackSequence
<1>0. TypeOK /\ ProgressOf(o)
  BY DEF RuntimeInvariant, CallProgress
<1>1. /\ pc[o] = "fetched" /\ mem \in State /\ started /\ number[o] \in Nat
      /\ UNCHANGED <<started, disk, cloud, acked, kind, number, booting>>
  BY <1>0 DEF ApplyManifest, ProgressOf, TypeOK, cloudVars, history
<1>2. GoesOn(mem) /\ QueuesAreApart(mem)
  BY <1>1 DEF RuntimeInvariant
<1>3. PICK v \in Version :
        Save(o, Enqueue([mem EXCEPT !.manifest = v],
                        [type |-> "manifest.synced", version |-> v, seq |-> 0, stamp |-> number[o]]))
  BY DEF ApplyManifest
<1>. DEFINE item == [type |-> "manifest.synced", version |-> v, seq |-> 0, stamp |-> number[o]]
            s == [mem EXCEPT !.manifest = v]
<1>4. item \in Item /\ item.type # "PlaybackEvent"
  BY <1>1 DEF Item
<1>5. /\ s \in State /\ s.playbackEventQueue = mem.playbackEventQueue
      /\ s.telemetryQueue = mem.telemetryQueue /\ s.playbackSequence = mem.playbackSequence
  BY <1>1 DEF State
<1>6. Save(o, Enqueue(s, item))
  BY <1>3
<1>. HIDE DEF item, s
<1>7. PICK t : t = Enqueue(s, item)
  OBVIOUS
<1>8. /\ t \in State /\ t.playbackEventQueue = mem.playbackEventQueue
      /\ t.playbackSequence = mem.playbackSequence
      /\ t.telemetryQueue = Append(mem.telemetryQueue, item)
  BY <1>4, <1>5, <1>7, EnqueueType
<1>9. GoesOn(t) /\ QueuesAreApart(t)
  <2>1. mem.telemetryQueue \in Seq(Item)
    BY <1>1 DEF State
  <2>2. \A i \in DOMAIN t.telemetryQueue : t.telemetryQueue[i].type # "PlaybackEvent"
    BY <1>2, <1>4, <1>8, <2>1 DEF QueuesAreApart
  <2>. QED  BY <1>2, <1>8, <2>2 DEF GoesOn, QueuesAreApart, Holds
<1>10. mem' = t /\ pc'[o] = "write" /\ local'[o] = t
  BY <1>0, <1>6, <1>7 DEF Save, Goto, TypeOK
<1>11. kind[o] = "play" /\ ~booting[o] => Holds(t, number[o])
  BY <1>0, <1>1 DEF ProgressOf
<1>. QED  BY <1>1, <1>8, <1>9, <1>10, <1>11, SaveStep

\* A flush has delivered what it takes out of the queue.
LEMMA FinishFlushStep ==
  ASSUME OneCaller, RuntimeInvariant, TypeOK', NEW o \in Op, FinishFlush(o)
  PROVE  RuntimeInvariant'
<1>0. TypeOK /\ ProgressOf(o)
  BY DEF RuntimeInvariant, CallProgress
<1>1. /\ pc[o] = "send" /\ rest[o] = <<>> /\ local[o] = mem /\ mem \in State /\ started
      /\ kind[o] = "flush" /\ Save(o, Sent(mem))
      /\ UNCHANGED <<started, disk, cloud, acked, kind, number, booting>>
  BY <1>0 DEF FinishFlush, ProgressOf, TypeOK, history
<1>2. GoesOn(mem) /\ QueuesAreApart(mem)
  BY <1>1 DEF RuntimeInvariant
<1>3. PICK t : t = Sent(mem)
  OBVIOUS
<1>4. /\ t \in State /\ t.playbackSequence = mem.playbackSequence
      /\ t.playbackEventQueue = <<>> /\ t.telemetryQueue = <<>>
  BY <1>1, <1>3, SentType
<1>5. \A p \in acked : Delivered(p)
  <2>1. Range(mem.playbackEventQueue) \subseteq cloud
    BY <1>0, <1>1 DEF ProgressOf, Range
  <2>2. ASSUME NEW p \in acked, Holds(mem, p) PROVE Delivered(p)
    <3>1. PICK i \in DOMAIN mem.playbackEventQueue : mem.playbackEventQueue[i].stamp = p
      BY <2>2 DEF Holds
    <3>2. mem.playbackEventQueue[i] \in cloud /\ mem.playbackEventQueue[i].type = "PlaybackEvent"
      BY <1>2, <2>1 DEF Range, QueuesAreApart
    <3>. QED  BY <3>1, <3>2 DEF Delivered
  <2>. QED  BY <1>2, <2>2 DEF GoesOn
<1>6. GoesOn(t) /\ QueuesAreApart(t)
  BY <1>2, <1>4, <1>5 DEF GoesOn, QueuesAreApart
<1>7. mem' = t /\ pc'[o] = "write" /\ local'[o] = t
  BY <1>0, <1>1, <1>3 DEF Save, Goto, TypeOK
<1>. QED  BY <1>1, <1>4, <1>6, <1>7, SaveStep

\* The file becomes #state.
LEMMA RenameFileStep ==
  ASSUME OneCaller, RuntimeInvariant, TypeOK', NEW o \in Op, RenameFile(o)
  PROVE  RuntimeInvariant' /\ disk' = mem /\ GoesOn(mem)
<1>0. TypeOK /\ ProgressOf(o)
  BY DEF RuntimeInvariant, CallProgress
<1>1. /\ pc[o] = "rename" /\ started /\ mem \in State /\ mem # NoState /\ tmp = mem
      /\ local[o] = mem /\ disk' = mem /\ UNCHANGED <<mem, started, cloud>>
      /\ (kind[o] = "play" /\ ~booting[o] => Holds(mem, number[o]))
      /\ acked' \subseteq acked \cup {p \in Nat : Holds(mem, p)}
  <2>1. /\ pc[o] = "rename" /\ started /\ tmp = mem /\ local[o] = mem
        /\ (kind[o] = "play" /\ ~booting[o] => Holds(mem, number[o]))
    BY <1>0 DEF RenameFile, ProgressOf
  <2>2. mem \in State /\ mem # NoState /\ number[o] \in Nat
    BY <1>0, <2>1 DEF TypeOK
  <2>. QED  BY <2>1, <2>2 DEF RenameFile, cloudVars
<1>2. GoesOn(mem) /\ QueuesAreApart(mem)
  BY <1>1 DEF RuntimeInvariant
<1>3. \A p : Holds(mem, p)' <=> Holds(mem, p)
  BY <1>1 DEF Holds
<1>4. Stored' = mem /\ mem' = mem
  BY <1>1 DEF Stored
<1>5. (GoesOn(Stored) /\ QueuesAreApart(Stored))' /\ (GoesOn(mem) /\ QueuesAreApart(mem))'
  <2>1. \A p \in acked' : Delivered(p)' \/ Holds(mem, p)
    BY <1>1, <1>2 DEF GoesOn, Delivered
  <2>2. mem.playbackSequence >= mem.playbackSequence
    BY <1>1 DEF State
  <2>3. GoesOn(Stored)'
    BY <1>4, <2>1, <2>2 DEF GoesOn, Holds
  <2>4. GoesOn(mem)'
    BY <1>4, <2>1, <2>2 DEF GoesOn, Holds
  <2>. QED  BY <1>2, <1>4, <2>3, <2>4 DEF QueuesAreApart
<1>6. ProgressOf(o)'
  <2>1. CASE Finish(o)
    <3>1. pc'[o] = "idle" /\ kind'[o] = "flush"
      BY <1>0, <2>1 DEF Finish, TypeOK
    <3>. QED  BY <3>1 DEF ProgressOf
  <2>2. CASE Goto(o, "body") /\ UNCHANGED <<kind, number, local, rest>>
    <3>1. pc'[o] = "body" /\ kind'[o] = kind[o] /\ number'[o] = number[o]
      BY <1>0, <2>2 DEF Goto, TypeOK
    <3>. QED  BY <1>0, <1>1, <3>1 DEF ProgressOf
  <2>. QED  BY <2>1, <2>2 DEF RenameFile
<1>. QED  BY <1>1, <1>2, <1>5, <1>6, OneProgress DEF RuntimeInvariant

-----------------------------------------------------------------------------
LEMMA InitInvariant == Init => RuntimeInvariant
<1>. SUFFICES ASSUME Init PROVE RuntimeInvariant
  OBVIOUS
<1>1. <<>> \in Seq(Item)
  OBVIOUS
<1>2. TypeOK
  <2>1. plays \in 0..MaxPlays /\ syncs \in 0..MaxSyncs /\ crashes \in 0..MaxCrashes
        /\ failures \in 0..MaxFailures
    BY EdgeRuntimeAssumption DEF Init
  <2>2. /\ pc \in [Op -> Step] /\ kind \in [Op -> {"sync", "play", "flush"}]
        /\ number \in [Op -> Nat] /\ booting \in [Op -> BOOLEAN]
        /\ local \in [Op -> State \cup {NoState}] /\ rest \in [Op -> Seq(Item)]
    BY <1>1 DEF Init, Step
  <2>3. started <=> mem # NoState
    BY DEF Init
  <2>4. {mem, disk, tmp} \subseteq State \cup {NoState} /\ started \in BOOLEAN /\ online \in BOOLEAN
    BY DEF Init
  <2>5. cloud \in SUBSET Item /\ summaries \in SUBSET Item /\ acked \in SUBSET (1..MaxPlays)
    BY DEF Init
  <2>. QED  BY <2>1, <2>2, <2>3, <2>4, <2>5 DEF TypeOK
<1>3. Stored = EmptyState
  BY DEF Init, Stored
<1>4. GoesOn(Stored) /\ QueuesAreApart(Stored)
  BY <1>3, EmptyStateType DEF Init, GoesOn, QueuesAreApart
<1>5. CallProgress
  BY DEF Init, CallProgress, ProgressOf
<1>. QED  BY <1>2, <1>4, <1>5 DEF Init, RuntimeInvariant

LEMMA InvariantStep == OneCaller /\ RuntimeInvariant /\ [Next]_vars => RuntimeInvariant'
<1>. SUFFICES ASSUME OneCaller, RuntimeInvariant, [Next]_vars PROVE RuntimeInvariant'
  OBVIOUS
<1>0. TypeOK'
  BY TypeStep
<1>1. ASSUME NEW o \in Op, Quiet(o) PROVE RuntimeInvariant'
  BY <1>0, <1>1, QuietStep
<1>2. ASSUME NEW o \in Op, Continue(o) PROVE RuntimeInvariant'
  <2>1. CASE Play(o)
    BY <1>0, <1>1, <2>1, PlayStep DEF Play, Quiet
  <2>2. CASE Start(o)
    BY <1>0, <2>2, StartStep
  <2>3. CASE ApplyManifest(o)
    BY <1>0, <2>3, ApplyManifestStep
  <2>4. CASE Deliver(o)
    BY <1>0, <2>4, DeliverStep
  <2>5. CASE FinishFlush(o)
    BY <1>0, <2>5, FinishFlushStep
  <2>6. CASE RenameFile(o)
    BY <1>0, <2>6, RenameFileStep
  <2>7. CASE ReadFile(o) \/ ReadState(o) \/ Fetch(o) \/ Collect(o) \/ GiveUp(o) \/ WriteFile(o)
    BY <1>1, <2>7 DEF Quiet
  <2>. QED  BY <1>2, <2>1, <2>2, <2>3, <2>4, <2>5, <2>6, <2>7 DEF Continue
<1>3. ASSUME NEW o \in Op, WriteFails(o) \/ \E k \in {"sync", "play", "flush"} : Begin(o, k)
      PROVE  RuntimeInvariant'
  BY <1>1, <1>3 DEF Quiet
<1>4. CASE Crash
  BY <1>0, <1>4, CrashStep
<1>5. CASE GoOffline
  BY <1>0, <1>5, GoOfflineStep
<1>6. CASE GoOnline \/ UNCHANGED vars
  BY <1>0, <1>6, RestStep
<1>. QED  BY <1>2, <1>3, <1>4, <1>5, <1>6 DEF Next

\* The invariant holds whatever the calls, the Cloud and the crashes do, as
\* long as a call begins when the one before it has settled.
THEOREM RuntimeInvariantHolds == ASSUME OneCaller PROVE Spec => []RuntimeInvariant
<1>1. RuntimeInvariant /\ [Next]_vars => RuntimeInvariant'
  BY InvariantStep
<1>. QED  BY <1>1, InitInvariant, PTL DEF Spec

\* The variables keep their types: RealEdgeRuntime's fields, its files and
\* what the Cloud has of it.
THEOREM TypeCorrectness == ASSUME OneCaller PROVE Spec => []TypeOK
<1>1. RuntimeInvariant => TypeOK
  BY DEF RuntimeInvariant
<1>. QED  BY <1>1, RuntimeInvariantHolds, PTL

\* A playback whose playCached resolved is with the Cloud or in the state
\* file: flush empties the queue only of what was delivered, and what a crash
\* takes away was never acknowledged.
THEOREM KeptPlaybacks == ASSUME OneCaller PROVE Spec => []AcknowledgedPlaybackIsKept
<1>1. RuntimeInvariant => AcknowledgedPlaybackIsKept
  <2>. SUFFICES ASSUME RuntimeInvariant, NEW p \in acked, ~Delivered(p) PROVE Persisted(p)
    BY DEF AcknowledgedPlaybackIsKept
  <2>1. Holds(Stored, p) /\ Stored \in State
    BY StoredType DEF RuntimeInvariant, GoesOn
  <2>2. disk # NoState
    BY <2>1, EmptyStateType DEF Stored, Holds
  <2>3. Stored = disk /\ DOMAIN disk.playbackEventQueue = 1..Len(disk.playbackEventQueue)
    BY <2>1, <2>2 DEF Stored, State
  <2>. QED  BY <2>1, <2>2, <2>3 DEF Persisted, Holds
<1>. QED  BY <1>1, RuntimeInvariantHolds, PTL

\* The playback sequence in the state file never goes back, so that no
\* playbackId of an acknowledged playback is given again.
THEOREM AdvancingSequence == ASSUME OneCaller PROVE Spec => SequenceNeverRegresses
<1>1. RuntimeInvariant /\ [Next]_vars
        => [disk # NoState => disk'.playbackSequence >= disk.playbackSequence]_disk
  <2>. SUFFICES ASSUME RuntimeInvariant, [Next]_vars, disk' # disk, disk # NoState
                PROVE  disk'.playbackSequence >= disk.playbackSequence
    OBVIOUS
  <2>1. PICK o \in Op : RenameFile(o)
    BY DEF Next, Continue, Begin, ReadFile, Start, ReadState, Play, Fetch, ApplyManifest, Collect,
           Deliver, FinishFlush, GiveUp, WriteFile, WriteFails, Crash, GoOffline, GoOnline, vars
  <2>2. disk' = mem /\ GoesOn(mem)
    BY <2>1, TypeStep, RenameFileStep
  <2>. QED  BY <2>2 DEF GoesOn, Stored
<1>. QED  BY <1>1, RuntimeInvariantHolds, PTL DEF Spec, SequenceNeverRegresses
-----------------------------------------------------------------------------
\* The identities.

LEMMA IdsStay ==
  ASSUME NEW c, NEW d, NEW s, NEW t, IdsAreUnique(c, s), Known(d, t) \subseteq Known(c, s),
         t.playbackSequence = s.playbackSequence
  PROVE  IdsAreUnique(d, t)
  BY DEF IdsAreUnique

\* What a call does to #state and to the Cloud.
LEMMA IdsOfQuiet ==
  ASSUME OneCaller, IdentityInvariant, TypeOK, NEW o \in Op, failures = 0, failures' = 0, Quiet(o)
  PROVE  IdentityInvariant'
<1>1. UNCHANGED <<mem, started, disk, cloud>>
  <2>1. CASE Play(o) /\ Finish(o)
    BY <2>1 DEF Play, Finish, Save, Goto, cloudVars, history, TypeOK
  <2>. QED  BY <2>1 DEF Quiet, Begin, ReadFile, ReadState, Fetch, Collect, GiveUp, WriteFile, WriteFails,
                        cloudVars, history
<1>2. pc[o] \in {"write", "rename"} => pc'[o] \in {"write", "rename"}
  <2>1. CASE WriteFile(o)
    BY <2>1 DEF WriteFile, Goto, TypeOK
  <2>2. ~WriteFails(o)
    BY DEF WriteFails
  <2>. QED  BY <2>1, <2>2 DEF Quiet, Begin, ReadFile, ReadState, Fetch, Collect, GiveUp, Play
<1>3. (\A p \in Op : pc'[p] \notin {"write", "rename"}) =>
        \A p \in Op : pc[p] \notin {"write", "rename"}
  BY <1>2 DEF OneCaller
<1>. QED  BY <1>1, <1>3 DEF IdentityInvariant, Stored

LEMMA IdsOfSave ==
  ASSUME IdentityInvariant, failures = 0, NEW o \in Op, NEW t, IdsAreUnique(cloud, t),
         mem' = t, pc'[o] = "write", UNCHANGED <<disk, cloud>>
  PROVE  IdentityInvariant'
  BY DEF IdentityInvariant, Stored

\* What is sent is in the file already.
LEMMA IdsOfStore ==
  ASSUME OneCaller, RuntimeInvariant, IdentityInvariant, failures = 0, NEW o \in Op,
         pc[o] = "send", rest[o] # <<>>, ~Refused(Head(rest[o])), Store(Head(rest[o])),
         UNCHANGED <<mem, started, disk, pc>>
  PROVE  IdentityInvariant'
<1>0. TypeOK /\ ProgressOf(o)
  BY DEF RuntimeInvariant, CallProgress
<1>1. PICK item : item = Head(rest[o])
  OBVIOUS
<1>2. /\ cloud' \subseteq cloud \cup {item} /\ started
      /\ item.type = "PlaybackEvent" => item \in Range(mem.playbackEventQueue)
  BY <1>0, <1>1, RestType, StoreStep DEF ProgressOf
<1>3. mem = disk /\ mem # NoState
  BY <1>0, <1>2 DEF OneCaller, IdentityInvariant, TypeOK
<1>4. Stored = mem /\ Stored' = mem
  BY <1>3 DEF Stored
<1>5. Known(cloud', mem) \subseteq Known(cloud, mem)
  BY <1>2 DEF Known
<1>6. IdsAreUnique(cloud, mem)
  BY <1>2 DEF IdentityInvariant
<1>7. IdsAreUnique(cloud', mem)
  BY <1>5, <1>6, IdsStay
<1>. QED  BY <1>3, <1>4, <1>7 DEF IdentityInvariant

LEMMA IdsOfStart ==
  ASSUME OneCaller, RuntimeInvariant, IdentityInvariant, failures = 0, NEW o \in Op, Start(o)
  PROVE  IdentityInvariant'
<1>0. TypeOK /\ ProgressOf(o)
  BY DEF RuntimeInvariant, CallProgress
<1>1. /\ pc[o] = "start" /\ local[o] = Stored /\ Stored \in State
      /\ UNCHANGED <<disk, cloud>> /\ IdsAreUnique(cloud, Stored)
  BY <1>0, StoredType DEF Start, ProgressOf, cloudVars, IdentityInvariant
<1>2. CASE Stored.identity
  <2>1. disk # NoState /\ mem' = disk
    BY <1>1, <1>2, EmptyStateType DEF Start, Stored
  <2>. QED  BY <1>1, <2>1 DEF IdentityInvariant, Stored
<1>3. CASE ~Stored.identity
  <2>. DEFINE item == [type |-> "edge.started", version |-> NoVersion, seq |-> 0, stamp |-> crashes]
              s == [local[o] EXCEPT !.identity = TRUE]
  <2>1. item \in Item
    <3>1. crashes \in Nat
      BY <1>0, EdgeRuntimeAssumption DEF TypeOK
    <3>. QED  BY <3>1 DEF Item
  <2>2. /\ s \in State /\ s.playbackEventQueue = Stored.playbackEventQueue
        /\ s.playbackSequence = Stored.playbackSequence
    BY <1>1 DEF State
  <2>3. Save(o, Enqueue(s, item))
    BY <1>1, <1>3 DEF Start
  <2>. HIDE DEF item, s
  <2>4. PICK t : t = Enqueue(s, item)
    OBVIOUS
  <2>5. /\ t.playbackEventQueue = Stored.playbackEventQueue
        /\ t.playbackSequence = Stored.playbackSequence
    BY <2>1, <2>2, <2>4, EnqueueType
  <2>6. IdsAreUnique(cloud, t)
    BY <1>1, <2>5 DEF IdsAreUnique, Known
  <2>7. mem' = t /\ pc'[o] = "write"
    BY <1>0, <2>3, <2>4 DEF Save, Goto, TypeOK
  <2>. QED  BY <1>1, <2>6, <2>7, IdsOfSave
<1>. QED  BY <1>2, <1>3

\* The sequence number of a playback is a new one.
LEMMA IdsOfPlay ==
  ASSUME RuntimeInvariant, IdentityInvariant, failures = 0, NEW o \in Op,
         Play(o), Save(o, Played(local[o], number[o]))
  PROVE  IdentityInvariant'
<1>0. TypeOK /\ ProgressOf(o)
  BY DEF RuntimeInvariant, CallProgress
<1>1. /\ pc[o] = "read" /\ local[o] = mem /\ mem \in State /\ number[o] \in Nat /\ started
      /\ UNCHANGED <<disk, cloud>> /\ IdsAreUnique(cloud, mem)
  BY <1>0 DEF Play, ProgressOf, TypeOK, cloudVars, IdentityInvariant
<1>2. PICK t : t = Played(mem, number[o])
  OBVIOUS
<1>3. PICK event : event = PlayedEvent(mem, number[o])
  OBVIOUS
<1>4. /\ t.playbackSequence = mem.playbackSequence + 1
      /\ t.playbackEventQueue = Append(mem.playbackEventQueue, event)
      /\ event.seq = mem.playbackSequence + 1
  BY <1>1, <1>2, <1>3, PlayedType DEF PlayedEvent
<1>5. mem.playbackEventQueue \in Seq(Item) /\ mem.playbackSequence \in Nat
  BY <1>1 DEF State
<1>6. Known(cloud, t) = Known(cloud, mem) \cup {event}
  <2>. DEFINE q == mem.playbackEventQueue
              r == t.playbackEventQueue
  <2>1. /\ DOMAIN q = 1..Len(q) /\ DOMAIN r = 1..(Len(q) + 1) /\ Len(q) \in Nat
        /\ \A i \in 1..Len(q) : r[i] = q[i]
        /\ r[Len(q) + 1] = event
    BY <1>4, <1>5
  <2>2. Range(r) = Range(q) \cup {event}
    <3>. HIDE DEF q, r
    <3>1. \A i \in DOMAIN r : i \in DOMAIN q \/ i = Len(q) + 1
      BY <2>1
    <3>2. \A i \in DOMAIN q : i \in DOMAIN r
      BY <2>1
    <3>3. Len(q) + 1 \in DOMAIN r
      BY <2>1
    <3>. QED  BY <2>1, <3>1, <3>2, <3>3 DEF Range
  <2>. QED  BY <2>2 DEF Known
<1>7. \A c \in Known(cloud, mem) : c.seq \in Nat /\ c.seq <= mem.playbackSequence
  <2>1. \A c \in Known(cloud, mem) : c \in Item
    BY <1>0, <1>5 DEF Known, Range, TypeOK
  <2>. QED  BY <1>1, <2>1 DEF IdsAreUnique, Item
<1>8. IdsAreUnique(cloud, t)
  <2>1. \A c \in Known(cloud, t) : c.seq <= t.playbackSequence
    BY <1>4, <1>5, <1>6, <1>7
  <2>2. \A c \in Known(cloud, mem) : ~SameId(c, event) /\ ~SameId(event, c)
    BY <1>4, <1>5, <1>7 DEF SameId
  <2>. QED  BY <1>1, <1>6, <2>1, <2>2 DEF IdsAreUnique
<1>9. mem' = t /\ pc'[o] = "write"
  BY <1>0, <1>1, <1>2 DEF Save, Goto, TypeOK
<1>. QED  BY <1>1, <1>8, <1>9, IdsOfSave

LEMMA IdsOfFinishFlush ==
  ASSUME RuntimeInvariant, IdentityInvariant, failures = 0, NEW o \in Op, FinishFlush(o)
  PROVE  IdentityInvariant'
<1>0. TypeOK /\ ProgressOf(o)
  BY DEF RuntimeInvariant, CallProgress
<1>1. /\ pc[o] = "send" /\ local[o] = mem /\ mem \in State /\ started /\ Save(o, Sent(mem))
      /\ UNCHANGED <<disk, cloud>> /\ IdsAreUnique(cloud, mem)
  BY <1>0 DEF FinishFlush, ProgressOf, TypeOK, IdentityInvariant
<1>2. PICK t : t = Sent(mem)
  OBVIOUS
<1>3. t.playbackSequence = mem.playbackSequence /\ t.playbackEventQueue = <<>>
  BY <1>1, <1>2, SentType
<1>4. Known(cloud, t) \subseteq Known(cloud, mem)
  BY <1>3 DEF Known, Range
<1>5. IdsAreUnique(cloud, t)
  BY <1>1, <1>3, <1>4, IdsStay
<1>6. mem' = t /\ pc'[o] = "write"
  BY <1>0, <1>1, <1>2 DEF Save, Goto, TypeOK
<1>. QED  BY <1>1, <1>5, <1>6, IdsOfSave

LEMMA IdsOfApplyManifest ==
  ASSUME OneCaller, RuntimeInvariant, TypeOK', IdentityInvariant, failures = 0, NEW o \in Op, ApplyManifest(o)
  PROVE  IdentityInvariant'
<1>0. TypeOK /\ ProgressOf(o)
  BY DEF RuntimeInvariant, CallProgress
<1>1. /\ mem'.playbackEventQueue = mem.playbackEventQueue
      /\ mem'.playbackSequence = mem.playbackSequence
  BY ApplyManifestStep
<1>2. started /\ UNCHANGED <<disk, cloud>> /\ pc'[o] = "write"
  BY <1>0 DEF ApplyManifest, ProgressOf, Save, Goto, TypeOK, cloudVars
<1>3. IdsAreUnique(cloud, mem')
  BY <1>1, <1>2 DEF IdentityInvariant, IdsAreUnique, Known
<1>4. PICK t : t = mem'
  OBVIOUS
<1>. QED  BY <1>2, <1>3, <1>4, IdsOfSave

LEMMA IdsOfRenameFile ==
  ASSUME OneCaller, RuntimeInvariant, TypeOK', IdentityInvariant, failures = 0, NEW o \in Op, RenameFile(o)
  PROVE  IdentityInvariant'
<1>0. TypeOK /\ ProgressOf(o)
  BY DEF RuntimeInvariant, CallProgress
<1>1. /\ disk' = mem /\ UNCHANGED <<mem, started, cloud>> /\ started /\ mem # NoState
  BY <1>0, RenameFileStep DEF RenameFile, cloudVars, ProgressOf, TypeOK
<1>. QED  BY <1>1 DEF IdentityInvariant, Stored

LEMMA IdentityStep ==
  OneCaller /\ RuntimeInvariant /\ IdentityInvariant /\ [Next]_vars => IdentityInvariant'
<1>. SUFFICES ASSUME OneCaller, RuntimeInvariant, IdentityInvariant, [Next]_vars, failures' = 0
              PROVE  IdentityInvariant'
  BY DEF IdentityInvariant
<1>0. TypeOK /\ TypeOK'
  BY TypeStep DEF RuntimeInvariant
<1>1. CASE \E o \in Op : WriteFails(o)
  <2>1. failures' = failures + 1 /\ failures \in Nat
    BY <1>0, <1>1, EdgeRuntimeAssumption DEF WriteFails, TypeOK
  <2>. QED  BY <2>1
<1>2. CASE ~\E o \in Op : WriteFails(o)
  <2>0. failures = 0
    BY <1>2 DEF Next, Continue, Begin, ReadFile, Start, ReadState, Play, Fetch, ApplyManifest, Collect,
                Deliver, FinishFlush, GiveUp, WriteFile, RenameFile, Crash, GoOffline, GoOnline, vars,
                history
  <2>1. ASSUME NEW o \in Op, Quiet(o) PROVE IdentityInvariant'
    BY <1>0, <2>0, <2>1, IdsOfQuiet
  <2>2. ASSUME NEW o \in Op, Continue(o) PROVE IdentityInvariant'
    <3>1. CASE Play(o)
      BY <2>0, <2>1, <3>1, IdsOfPlay DEF Play, Quiet
    <3>2. CASE Start(o)
      BY <2>0, <3>2, IdsOfStart
    <3>3. CASE ApplyManifest(o)
      BY <1>0, <2>0, <3>3, IdsOfApplyManifest
    <3>4. CASE Deliver(o)
      BY <2>0, <3>4, IdsOfStore DEF Deliver
    <3>5. CASE FinishFlush(o)
      BY <2>0, <3>5, IdsOfFinishFlush
    <3>6. CASE RenameFile(o)
      BY <1>0, <2>0, <3>6, IdsOfRenameFile
    <3>7. CASE ReadFile(o) \/ ReadState(o) \/ Fetch(o) \/ Collect(o) \/ GiveUp(o) \/ WriteFile(o)
      BY <2>1, <3>7 DEF Quiet
    <3>. QED  BY <2>2, <3>1, <3>2, <3>3, <3>4, <3>5, <3>6, <3>7 DEF Continue
  <2>3. ASSUME NEW o \in Op, \E k \in {"sync", "play", "flush"} : Begin(o, k)
        PROVE  IdentityInvariant'
    BY <2>1, <2>3 DEF Quiet
  <2>4. CASE Crash
    BY <2>0, <2>4 DEF Crash, cloudVars, IdentityInvariant, Stored
  <2>5. CASE GoOffline
    <3>1. CASE UNCHANGED cloud
      BY <2>0, <2>5, <3>1 DEF GoOffline, opVars, IdentityInvariant, Stored
    <3>2. CASE \E o \in Op : pc[o] = "send" /\ rest[o] # <<>> /\ ~Refused(Head(rest[o]))
                              /\ Store(Head(rest[o]))
      BY <2>0, <2>5, <3>2, IdsOfStore DEF GoOffline, opVars
    <3>. QED  BY <2>5, <3>1, <3>2 DEF GoOffline
  <2>6. CASE GoOnline \/ UNCHANGED vars
    BY <2>0, <2>6 DEF GoOnline, vars, opVars, cloudVars, history, IdentityInvariant, Stored
  <2>. QED  BY <1>2, <2>2, <2>3, <2>4, <2>5, <2>6 DEF Next
<1>. QED  BY <1>1, <1>2

\* No queued record is refused as long as no write has failed: an event id
\* stands for one content, for a Cloud that keeps the first telemetry it got.
THEOREM AcceptedRecords ==
  ASSUME OneCaller, ~TelemetryCompared PROVE Spec => []QueuedRecordsAreAccepted
<1>1. Init => IdentityInvariant
  <2>. SUFFICES ASSUME Init PROVE IdentityInvariant
    OBVIOUS
  <2>1. Stored = EmptyState /\ Known(cloud, Stored) = {}
    BY EmptyStateType DEF Init, Stored, Known, Range
  <2>. QED  BY <2>1 DEF Init, IdentityInvariant, IdsAreUnique
<1>2. RuntimeInvariant /\ IdentityInvariant => QueuedRecordsAreAccepted
  <2>. SUFFICES ASSUME RuntimeInvariant, IdentityInvariant, mem # NoState, failures = 0,
                       NEW q \in {mem.telemetryQueue, mem.playbackEventQueue}, NEW i \in 1..Len(q)
                PROVE  ~Refused(q[i])
    BY DEF QueuedRecordsAreAccepted
  <2>1. started /\ mem \in State
    BY DEF RuntimeInvariant, TypeOK
  <2>2. /\ i \in DOMAIN q
        /\ (q = mem.telemetryQueue => q[i].type # "PlaybackEvent")
    BY <2>1 DEF RuntimeInvariant, QueuesAreApart, State
  <2>3. CASE q = mem.telemetryQueue
    BY <2>2, <2>3 DEF Refused
  <2>4. CASE q = mem.playbackEventQueue
    <3>1. q[i] \in Known(cloud, mem) /\ q[i].type = "PlaybackEvent"
      BY <2>1, <2>2, <2>4 DEF Known, Range, RuntimeInvariant, QueuesAreApart
    <3>2. ASSUME NEW c \in cloud, SameId(c, q[i]) PROVE c = q[i]
      <4>1. c \in Known(cloud, mem)
        BY <3>1, <3>2 DEF SameId, Known
      <4>. QED  BY <2>1, <3>1, <3>2, <4>1 DEF IdentityInvariant, IdsAreUnique
    <3>. QED  BY <3>2 DEF Refused
  <2>. QED  BY <2>3, <2>4
<1>3. RuntimeInvariant /\ IdentityInvariant /\ [Next]_vars => IdentityInvariant'
  BY IdentityStep
<1>. QED  BY <1>1, <1>2, <1>3, RuntimeInvariantHolds, PTL DEF Spec
=============================================================================
