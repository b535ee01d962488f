-------------------------------- MODULE EdgeProofs ---------------------------
(***************************************************************************)
(* Proofs about an Edge beside its runtime: SimulatedEdge, for any number  *)
(* of flushes and calls, and HardwareRecord, for any facts, requirements,  *)
(* capabilities and commands and whoever keeps the papers.                 *)
(***************************************************************************)
EXTENDS SimulatedEdge, HardwareRecord, TLAPS

-----------------------------------------------------------------------------
\* SimulatedEdge.

\* The elements of a queue: of one that grows, of one that is worked off from
\* its front, of one that loses its front.
LEMMA ElementsOfConcat ==
  ASSUME NEW S, NEW s \in Seq(S), NEW t \in Seq(S)
  PROVE  /\ ToSet(s \o t) = ToSet(s) \cup ToSet(t)
         /\ s \o t \in Seq(S)
         /\ \A i \in 1..Len(s) : (s \o t)[i] = s[i]
         /\ Len(s \o t) = Len(s) + Len(t)
<1>1. /\ s \o t \in Seq(S) /\ Len(s \o t) = Len(s) + Len(t)
      /\ \A i \in 1..Len(s) : (s \o t)[i] = s[i]
      /\ \A i \in (Len(s) + 1)..(Len(s) + Len(t)) : (s \o t)[i] = t[i - Len(s)]
  OBVIOUS
<1>2. ASSUME NEW x \in ToSet(s) PROVE x \in ToSet(s \o t)
  <2>1. PICK i \in 1..Len(s) : s[i] = x
    BY <1>2 DEF ToSet
  <2>2. i \in 1..Len(s \o t) /\ (s \o t)[i] = x
    BY <1>1, <2>1
  <2>. QED  BY <1>1, <2>2 DEF ToSet
<1>3. ASSUME NEW x \in ToSet(t) PROVE x \in ToSet(s \o t)
  <2>1. PICK i \in 1..Len(t) : t[i] = x
    BY <1>3 DEF ToSet
  <2>2. Len(s) + i \in (Len(s) + 1)..(Len(s) + Len(t)) /\ Len(s) + i - Len(s) = i
    BY <2>1
  <2>3. Len(s) + i \in 1..Len(s \o t) /\ (s \o t)[Len(s) + i] = x
    BY <1>1, <2>1, <2>2
  <2>. QED  BY <1>1, <2>3 DEF ToSet
<1>4. ASSUME NEW x \in ToSet(s \o t) PROVE x \in ToSet(s) \cup ToSet(t)
  <2>1. PICK i \in 1..Len(s \o t) : (s \o t)[i] = x
    BY <1>1, <1>4 DEF ToSet
  <2>2. CASE i <= Len(s)
    BY <1>1, <2>1, <2>2 DEF ToSet
  <2>3. CASE i > Len(s)
    <3>1. i - Len(s) \in 1..Len(t) /\ t[i - Len(s)] = x
      BY <1>1, <2>1, <2>3
    <3>. QED  BY <3>1 DEF ToSet
  <2>. QED  BY <2>1, <2>2, <2>3, <1>1
<1>. QED  BY <1>1, <1>2, <1>3, <1>4

LEMMA ElementsOfTail ==
  ASSUME NEW S, NEW s \in Seq(S), s # <<>>
  PROVE  /\ Head(s) \in S /\ Tail(s) \in Seq(S)
         /\ ToSet(s) = {Head(s)} \cup ToSet(Tail(s))
<1>1. /\ Head(s) = s[1] /\ Head(s) \in S /\ Tail(s) \in Seq(S) /\ Len(s) >= 1 /\ Len(Tail(s)) = Len(s) - 1
      /\ \A i \in 1..(Len(s) - 1) : Tail(s)[i] = s[i + 1]
      /\ DOMAIN Tail(s) = 1..(Len(s) - 1)
  OBVIOUS
<1>2. ASSUME NEW x \in ToSet(s) PROVE x \in {Head(s)} \cup ToSet(Tail(s))
  <2>1. PICK i \in 1..Len(s) : s[i] = x
    BY <1>2 DEF ToSet
  <2>2. CASE i = 1
    BY <1>1, <2>1, <2>2
  <2>3. CASE i # 1
    <3>1. i - 1 \in 1..(Len(s) - 1) /\ Tail(s)[i - 1] = x
      BY <1>1, <2>1, <2>3
    <3>. QED  BY <1>1, <3>1 DEF ToSet
  <2>. QED  BY <2>2, <2>3
<1>3. ASSUME NEW x \in ToSet(Tail(s)) PROVE x \in ToSet(s)
  <2>1. PICK i \in 1..(Len(s) - 1) : Tail(s)[i] = x
    BY <1>1, <1>3 DEF ToSet
  <2>2. i + 1 \in 1..Len(s) /\ s[i + 1] = x
    BY <1>1, <2>1
  <2>. QED  BY <2>2 DEF ToSet
<1>4. Head(s) \in ToSet(s)
  BY <1>1 DEF ToSet
<1>. QED  BY <1>1, <1>2, <1>3, <1>4

LEMMA ElementsOfSpliced ==
  ASSUME NEW S, NEW s \in Seq(S), NEW n \in Nat
  PROVE  /\ Spliced(s, n) \in Seq(S)
         /\ ToSet(s) \subseteq {s[i] : i \in 1..n} \cup ToSet(Spliced(s, n))
<1>1. /\ Spliced(s, n) \in Seq(S)
      /\ n <= Len(s) => Len(Spliced(s, n)) = Len(s) - n
      /\ \A i \in 1..(Len(s) - n) : Spliced(s, n)[i] = s[i + n]
  BY DEF Spliced
<1>2. ASSUME NEW x \in ToSet(s)
      PROVE  x \in {s[i] : i \in 1..n} \cup ToSet(Spliced(s, n))
  <2>1. PICK i \in 1..Len(s) : s[i] = x
    BY <1>2 DEF ToSet
  <2>2. CASE i <= n
    BY <2>1, <2>2
  <2>3. CASE i > n
    <3>1. i - n \in 1..(Len(s) - n) /\ Spliced(s, n)[i - n] = x /\ n <= Len(s)
      BY <1>1, <2>1, <2>3
    <3>. QED  BY <1>1, <3>1 DEF ToSet
  <2>. QED  BY <2>1, <2>2, <2>3
<1>. QED  BY <1>1, <1>2

LEMMA ElementsAreMembers ==
  ASSUME NEW S, NEW s \in Seq(S)
  PROVE  /\ ToSet(s) \subseteq S
         /\ \A i \in 1..Len(s) : s[i] \in ToSet(s)
  BY DEF ToSet

-----------------------------------------------------------------------------
\* Steps that queue records.

\* What a call of the Edge leaves: flushes that ran still cover what they will
\* remove, and what joins the queue has been produced.
LEMMA EnqueueStep ==
  ASSUME DemoInvariant, NEW events \in Seq(Queueable), NEW proofs \in Seq(Queueable),
         Enqueue(events, proofs), UNCHANGED <<demoCloud, flush, overlapped>>, reading' \in Nat
  PROVE  DemoInvariant'
<1>. DEFINE t == queuedTelemetry \o events  e == queuedEvidence \o proofs
<1>1. queuedTelemetry \in Seq(Queueable) /\ queuedEvidence \in Seq(Queueable)
  BY DEF DemoInvariant, DemoTypeOK
<1>2. /\ ToSet(t) = ToSet(queuedTelemetry) \cup ToSet(events) /\ t \in Seq(Queueable)
      /\ \A i \in 1..Len(queuedTelemetry) : t[i] = queuedTelemetry[i]
      /\ Len(t) = Len(queuedTelemetry) + Len(events)
  BY <1>1, ElementsOfConcat
<1>3. /\ ToSet(e) = ToSet(queuedEvidence) \cup ToSet(proofs) /\ e \in Seq(Queueable)
      /\ \A i \in 1..Len(queuedEvidence) : e[i] = queuedEvidence[i]
      /\ Len(e) = Len(queuedEvidence) + Len(proofs)
  BY <1>1, ElementsOfConcat
<1>4. queuedTelemetry' = t /\ queuedEvidence' = e /\ produced' = produced \cup ToSet(events) \cup ToSet(proofs)
  BY DEF Enqueue
<1>. HIDE DEF t, e
<1>5. DemoTypeOK'
  BY <1>2, <1>3, <1>4 DEF DemoInvariant, DemoTypeOK
<1>7. ASSUME NEW f \in Flush, Covers(flush[f]) PROVE Covers(flush[f])'
  <2>1. flush[f].count \in Nat /\ flush[f].given \in Nat
    BY DEF DemoInvariant, DemoTypeOK, FlushState
  <2>2. Len(queuedTelemetry) \in Nat /\ Len(events) \in Nat /\ Len(queuedEvidence) \in Nat /\ Len(proofs) \in Nat
    BY <1>1
  <2>3. flush[f].count <= Len(queuedTelemetry) /\ flush[f].given <= Len(queuedEvidence)
    BY <1>7 DEF Covers
  <2>4. /\ flush[f].count <= Len(t) /\ flush[f].given <= Len(e)
        /\ \A i \in 1..flush[f].count : t[i] = queuedTelemetry[i]
        /\ \A i \in 1..flush[f].given : e[i] = queuedEvidence[i]
    BY <1>2, <1>3, <2>1, <2>2, <2>3
  <2>. QED  BY <1>4, <1>7, <2>4 DEF Covers
<1>8. (overlapped \/ FlushIsAlone)'
  BY <1>7 DEF DemoInvariant, FlushIsAlone
<1>9. ProducedIsKept'
  BY <1>2, <1>3, <1>4 DEF DemoInvariant, ProducedIsKept
<1>. QED  BY <1>5, <1>8, <1>9 DEF DemoInvariant

LEMMA QuietStep ==
  ASSUME DemoInvariant, UNCHANGED <<edgeQueues, reading, demoCloud, flush, overlapped>>
  PROVE  DemoInvariant'
  BY DEF edgeQueues, DemoInvariant, DemoTypeOK, ProducedIsKept, FlushIsAlone, Covers

LEMMA EdgeCalls ==
  ASSUME DemoInvariant, Start \/ FetchManifest \/ FetchAsset \/ PlayCached \/ SetCloudAvailability
  PROVE  DemoInvariant'
<1>0. <<>> \in Seq(Queueable)
  OBVIOUS
<1>1. reading \in Nat
  BY DEF DemoInvariant, DemoTypeOK
<1>2. \A id \in EventType, n \in Nat : Record(id, n) \in Queueable
  BY DEF Queueable
<1>3. ASSUME NEW r \in Queueable PROVE <<r>> \in Seq(Queueable)
  OBVIOUS
<1>4. CASE Start
  <2>1. <<Record("edge.started", 0)>> \in Seq(Queueable)
    BY <1>2, <1>3 DEF EventType
  <2>. QED  BY <1>0, <1>1, <1>4, <2>1, EnqueueStep DEF Start, edgeContent
<1>5. CASE FetchManifest
  BY <1>5, QuietStep DEF FetchManifest
<1>6. CASE FetchAsset
  <2>1. <<Record("manifest.synced", 0)>> \in Seq(Queueable)
    BY <1>2, <1>3 DEF EventType
  <2>2. CASE available
    BY <1>0, <1>1, <1>6, <2>1, <2>2, EnqueueStep DEF FetchAsset
  <2>3. CASE ~available
    BY <1>6, <2>3, QuietStep DEF FetchAsset
  <2>. QED  BY <2>2, <2>3
<1>7. CASE PlayCached
  <2>1. PlayerRun \in Seq(Queueable)
    <3>1. /\ Record("player.started", reading) \in Queueable
          /\ Record("playback.started", reading) \in Queueable
          /\ Record("playback.completed", reading + 1) \in Queueable
      BY <1>1, <1>2 DEF EventType
    <3>. QED  BY <3>1 DEF PlayerRun
  <2>2. <<Record("evidence", reading)>> \in Seq(Queueable)
    BY <1>1, <1>2, <1>3 DEF EventType
  <2>3. reading' \in Nat
    BY <1>1, <1>7 DEF PlayCached
  <2>. QED  BY <1>7, <2>1, <2>2, <2>3, EnqueueStep DEF PlayCached
<1>8. CASE SetCloudAvailability
  BY <1>8, QuietStep DEF SetCloudAvailability, edgeContent
<1>. QED  BY <1>4, <1>5, <1>6, <1>7, <1>8

-----------------------------------------------------------------------------
\* Steps of a flush.

\* The Cloud only gains; it has a record it does not refuse.
LEMMA AcceptStep ==
  ASSUME NEW r, Accept(r)
  PROVE  /\ demoCloud \subseteq demoCloud'
         /\ ~Refuses(r) => demoCloud' = demoCloud \cup {r}
  BY DEF Accept

\* What the steps of f have in common: the queues stay, the Cloud only gains,
\* and the other flushes keep their state; f rests or covers what it will
\* remove.
LEMMA FlushStep ==
  ASSUME DemoInvariant, NEW f \in Flush, NEW call \in FlushState,
         flush' = [flush EXCEPT ![f] = call],
         UNCHANGED <<edgeQueues, reading>>, demoCloud \subseteq demoCloud',
         IF call.stage = "idle" THEN call.todo = <<>> ELSE call.first \in Queueable,
         overlapped => overlapped',
         flush[f].stage = "idle" /\ call.stage # "idle" =>
           overlapped' \/ \A g \in Flush : flush[g].stage = "idle",
         ~overlapped /\ FlushIsAlone /\ call.stage # "idle" => Covers(call)'
  PROVE  DemoInvariant'
<1>. USE DEF edgeQueues
<1>1. DemoTypeOK'
  BY DEF DemoInvariant, DemoTypeOK
<1>2. flush \in [Flush -> FlushState]
  BY DEF DemoInvariant, DemoTypeOK
<1>3. ASSUME ~overlapped' PROVE FlushIsAlone'
  <2>1. FlushIsAlone /\ ~overlapped
    BY <1>3 DEF DemoInvariant
  <2>2. \A g \in Flush : g # f => flush'[g] = flush[g]
    BY <1>2
  <2>3. flush'[f] = call
    BY <1>2
  <2>4. ASSUME NEW g \in Flush, g # f, Covers(flush[g]) PROVE Covers(flush[g])'
    <3>1. flush'[g] = flush[g]
      BY <2>2, <2>4
    <3>. QED  BY <2>4, <3>1 DEF Covers
  <2>. QED  BY <1>3, <2>1, <2>2, <2>3, <2>4 DEF FlushIsAlone
<1>4. ProducedIsKept'
  BY DEF DemoInvariant, ProducedIsKept
<1>. QED  BY <1>1, <1>3, <1>4 DEF DemoInvariant

LEMMA BeginStep ==
  ASSUME DemoInvariant, NEW f \in Flush, BeginFlush(f)
  PROVE  DemoInvariant'
<1>1. queuedTelemetry \in Seq(Queueable) /\ queuedEvidence \in Seq(Queueable)
  BY DEF DemoInvariant, DemoTypeOK
<1>2. /\ Len(queuedTelemetry) \in Nat /\ Len(queuedEvidence) \in Nat
      /\ \A i \in 1..Len(queuedTelemetry) : queuedTelemetry[i] \in ToSet(queuedTelemetry)
      /\ \A i \in 1..Len(queuedEvidence) : queuedEvidence[i] \in ToSet(queuedEvidence)
  BY <1>1, ElementsAreMembers
<1>3. Head(queuedTelemetry \o queuedEvidence) \in Queueable
  <2>1. queuedTelemetry \o queuedEvidence \in Seq(Queueable) /\ queuedTelemetry \o queuedEvidence # <<>>
    BY <1>1, ElementsOfConcat DEF BeginFlush
  <2>. QED  BY <2>1, ElementsOfTail
<1>4. /\ UNCHANGED <<edgeQueues, reading, demoCloud>> /\ flush[f].stage = "idle"
      /\ overlapped' = (overlapped \/ \E g \in Flush : flush[g].stage # "idle")
  BY DEF BeginFlush, edgeContent
<1>5. UNCHANGED <<queuedTelemetry, queuedEvidence>>
  BY <1>4 DEF edgeQueues
<1>6. CASE queuedTelemetry # <<>>
  <2>1. PICK call : call = [stage |-> "telemetry", todo |-> queuedTelemetry,
                            first |-> Head(queuedTelemetry \o queuedEvidence),
                            count |-> Len(queuedTelemetry), given |-> 0]
    OBVIOUS
  <2>2. flush' = [flush EXCEPT ![f] = call]
    BY <1>6, <2>1 DEF BeginFlush
  <2>3. call \in FlushState /\ call.first \in Queueable /\ call.stage # "idle"
    BY <1>1, <1>2, <1>3, <2>1 DEF FlushState
  <2>4. Covers(call)'
    BY <1>2, <1>4, <1>5, <2>1 DEF Covers
  <2>. QED  BY <1>4, <2>2, <2>3, <2>4, FlushStep
<1>7. CASE queuedTelemetry = <<>>
  <2>1. PICK call : call = [stage |-> "evidence", todo |-> queuedEvidence,
                            first |-> Head(queuedTelemetry \o queuedEvidence),
                            count |-> Len(queuedTelemetry), given |-> Len(queuedEvidence)]
    OBVIOUS
  <2>2. flush' = [flush EXCEPT ![f] = call]
    BY <1>7, <2>1 DEF BeginFlush, ToEvidence
  <2>3. call \in FlushState /\ call.first \in Queueable /\ call.stage # "idle"
    BY <1>1, <1>2, <1>3, <2>1 DEF FlushState
  <2>4. Len(queuedTelemetry) = 0
    BY <1>7
  <2>5. Covers(call)'
    BY <1>2, <1>4, <1>5, <2>1, <2>4 DEF Covers
  <2>. QED  BY <1>4, <2>2, <2>3, <2>5, FlushStep
<1>. QED  BY <1>6, <1>7

LEMMA NoFlushRests == NoFlush \in FlushState /\ NoFlush.stage = "idle" /\ NoFlush.todo = <<>>
  BY DEF NoFlush, FlushState

\* An answer takes the first record off what is still to send; after the last
\* telemetry the flush turns to the evidence that is queued by then.
LEMMA AnsweredCovers ==
  ASSUME DemoInvariant, NEW call \in FlushState, call.stage # "idle", call.todo # <<>>,
         call.first \in Queueable,
         UNCHANGED <<queuedTelemetry, queuedEvidence>>, demoCloud' = demoCloud \cup {Head(call.todo)}
  PROVE  /\ Answered(call) \in FlushState
         /\ Answered(call).stage # "idle" /\ Answered(call).first = call.first
         /\ Covers(call) => \E c \in FlushState : c = Answered(call) /\ Covers(c)'
<1>. DEFINE rest == [stage |-> call.stage, todo |-> Tail(call.todo), first |-> call.first,
                     count |-> call.count, given |-> call.given]
<1>1. /\ call.todo \in Seq(Queueable) /\ call.count \in Nat /\ call.given \in Nat
      /\ call = [stage |-> call.stage, todo |-> call.todo, first |-> call.first,
                 count |-> call.count, given |-> call.given]
      /\ call.stage \in {"idle", "telemetry", "evidence", "done"}
  BY DEF FlushState
<1>2. /\ Tail(call.todo) \in Seq(Queueable)
      /\ ToSet(call.todo) = {Head(call.todo)} \cup ToSet(Tail(call.todo))
  BY <1>1, ElementsOfTail
<1>3. [call EXCEPT !.todo = Tail(@)] = rest /\ rest \in FlushState
  <2>1. rest \in FlushState
    BY <1>1, <1>2 DEF FlushState
  <2>2. PICK tail : tail = Tail(call.todo)
    OBVIOUS
  <2>3. [call EXCEPT !.todo = tail]
          = [stage |-> call.stage, todo |-> tail, first |-> call.first,
             count |-> call.count, given |-> call.given]
    BY DEF FlushState
  <2>4. [call EXCEPT !.todo = Tail(@)] = rest
    BY <2>2, <2>3
  <2>. QED  BY <2>1, <2>4
<1>4. /\ queuedEvidence \in Seq(Queueable) /\ Len(queuedEvidence) \in Nat
      /\ \A i \in 1..Len(queuedEvidence) : queuedEvidence[i] \in ToSet(queuedEvidence)
  BY ElementsAreMembers DEF DemoInvariant, DemoTypeOK
<1>5. CASE call.stage = "telemetry" /\ Tail(call.todo) = <<>>
  <2>. DEFINE turned == [stage |-> "evidence", todo |-> queuedEvidence, first |-> call.first,
                         count |-> call.count, given |-> Len(queuedEvidence)]
  <2>1. Answered(call) = turned
    BY <1>3, <1>5 DEF Answered, ToEvidence
  <2>2. turned \in FlushState
    BY <1>1, <1>4 DEF FlushState
  <2>3. ASSUME Covers(call) PROVE \E c \in FlushState : c = turned /\ Covers(c)'
    <3>1. PICK c \in FlushState : c = turned
      BY <2>2
    <3>2. \A i \in 1..call.count : queuedTelemetry[i] \in demoCloud'
      <4>1. ToSet(Tail(call.todo)) = {}
        BY <1>5 DEF ToSet
      <4>. QED  BY <1>2, <2>3, <4>1 DEF Covers
    <3>3. Covers(c)'
      <4>1. call.count <= Len(queuedTelemetry)
        BY <2>3 DEF Covers
      <4>. QED  BY <1>4, <3>1, <3>2, <4>1 DEF Covers
    <3>. QED  BY <3>1, <3>3
  <2>. QED  BY <2>1, <2>2, <2>3
<1>6. CASE ~(call.stage = "telemetry" /\ Tail(call.todo) = <<>>)
  <2>1. Answered(call) = rest
    BY <1>3, <1>6 DEF Answered
  <2>2. ASSUME Covers(call) PROVE \E c \in FlushState : c = rest /\ Covers(c)'
    <3>1. Covers(rest)'
      BY <1>2, <2>2 DEF Covers
    <3>. QED  BY <1>3, <3>1
  <2>. QED  BY <1>3, <2>1, <2>2
<1>. QED  BY <1>5, <1>6

LEMMA PostStep ==
  ASSUME DemoInvariant, NEW f \in Flush, Post(f)
  PROVE  DemoInvariant'
<1>1. /\ UNCHANGED <<edgeQueues, reading, overlapped>> /\ UNCHANGED <<queuedTelemetry, queuedEvidence>>
      /\ flush[f].todo # <<>> /\ Accept(Head(flush[f].todo))
  BY DEF Post, edgeQueues, edgeContent
<1>2. PICK call \in FlushState : call = flush[f]
  BY DEF DemoInvariant, DemoTypeOK
<1>3. CASE Refuses(Head(call.todo))
  <2>1. flush' = [flush EXCEPT ![f] = NoFlush]
    BY <1>2, <1>3 DEF Post
  <2>2. PICK c \in FlushState : c = NoFlush
    BY NoFlushRests
  <2>3. demoCloud \subseteq demoCloud'
    BY <1>1, AcceptStep
  <2>. QED  BY <1>1, <2>1, <2>2, <2>3, NoFlushRests, FlushStep
<1>4. CASE ~Refuses(Head(call.todo))
  <2>1. demoCloud' = demoCloud \cup {Head(call.todo)}
    BY <1>1, <1>2, <1>4, AcceptStep
  <2>2. call.stage # "idle" /\ call.first \in Queueable
    BY <1>1, <1>2 DEF DemoInvariant, DemoTypeOK
  <2>3. /\ Answered(call) \in FlushState
        /\ Answered(call).stage # "idle" /\ Answered(call).first = call.first
        /\ Covers(call) => \E c \in FlushState : c = Answered(call) /\ Covers(c)'
    BY <1>1, <1>2, <2>1, <2>2, AnsweredCovers
  <2>4. PICK c \in FlushState : c = Answered(call) /\ (Covers(call) => Covers(c)')
    BY <2>3
  <2>5. flush' = [flush EXCEPT ![f] = c]
    BY <1>2, <1>4, <2>4 DEF Post
  <2>6. FlushIsAlone => Covers(call)
    BY <1>2, <2>2 DEF FlushIsAlone, Covers
  <2>. QED  BY <1>1, <1>2, <2>1, <2>2, <2>3, <2>4, <2>5, <2>6, FlushStep
<1>. QED  BY <1>3, <1>4

\* A request that fails may have been accepted; the queues stay as they are.
LEMMA FailStep ==
  ASSUME DemoInvariant, NEW f \in Flush, RequestFails(f)
  PROVE  DemoInvariant'
<1>1. /\ UNCHANGED <<edgeQueues, reading, overlapped>>
      /\ flush' = [flush EXCEPT ![f] = NoFlush]
  BY DEF RequestFails, edgeContent
<1>2. demoCloud \subseteq demoCloud'
  BY AcceptStep DEF RequestFails
<1>3. PICK c \in FlushState : c = NoFlush
  BY NoFlushRests
<1>. QED  BY <1>1, <1>2, <1>3, NoFlushRests, FlushStep

LEMMA SummaryStep ==
  ASSUME DemoInvariant, NEW f \in Flush, PostSummary(f)
  PROVE  DemoInvariant'
<1>1. /\ UNCHANGED <<edgeQueues, reading, overlapped>> /\ UNCHANGED <<queuedTelemetry, queuedEvidence>>
      /\ flush[f].stage = "evidence" /\ flush[f].todo = <<>>
      /\ Accept(<<<<"telemetry.sent">> \o flush[f].first[1], flush[f].count>>)
      /\ flush' = [flush EXCEPT ![f].stage = "done"]
  BY DEF PostSummary, edgeQueues, edgeContent
<1>2. PICK call \in FlushState : call = flush[f]
  BY DEF DemoInvariant, DemoTypeOK
<1>3. call.first \in Queueable
  BY <1>1, <1>2 DEF DemoInvariant, DemoTypeOK
<1>4. demoCloud \subseteq demoCloud'
  BY <1>1, AcceptStep
<1>5. PICK c : c = [call EXCEPT !.stage = "done"]
  OBVIOUS
<1>6. /\ c \in FlushState /\ c.stage = "done" /\ c.first = call.first
      /\ c.count = call.count /\ c.given = call.given
  BY <1>5 DEF FlushState
<1>7. flush' = [flush EXCEPT ![f] = c]
  BY <1>1, <1>2, <1>5
<1>8. FlushIsAlone => Covers(c)'
  <2>1. SUFFICES ASSUME Covers(call) PROVE Covers(c)'
    BY <1>1, <1>2 DEF FlushIsAlone, Covers
  <2>2. ToSet(call.todo) = {}
    BY <1>1, <1>2 DEF ToSet
  <2>. QED  BY <1>1, <1>4, <1>6, <2>1, <2>2 DEF Covers
<1>. QED  BY <1>1, <1>2, <1>3, <1>4, <1>6, <1>7, <1>8, FlushStep

\* A flush that ran alone takes off the queues what the Cloud has.
LEMMA FinishStep ==
  ASSUME DemoInvariant, NEW f \in Flush, FinishFlush(f)
  PROVE  DemoInvariant'
<1>1. /\ UNCHANGED <<produced, reading, demoCloud, overlapped>>
      /\ flush[f].stage \in {"evidence", "done"}
      /\ flush[f].stage = "evidence" => flush[f].todo = <<>>
      /\ queuedTelemetry' = Spliced(queuedTelemetry, flush[f].count)
      /\ queuedEvidence' = Spliced(queuedEvidence, flush[f].given)
      /\ flush' = [flush EXCEPT ![f] = NoFlush]
  BY DEF FinishFlush, edgeContent
<1>2. /\ queuedTelemetry \in Seq(Queueable) /\ queuedEvidence \in Seq(Queueable)
      /\ flush \in [Flush -> FlushState]
      /\ flush[f].count \in Nat /\ flush[f].given \in Nat
  BY DEF DemoInvariant, DemoTypeOK, FlushState
<1>3. DemoTypeOK'
  <2>1. queuedTelemetry' \in Seq(Queueable) /\ queuedEvidence' \in Seq(Queueable)
    BY <1>1, <1>2, ElementsOfSpliced
  <2>. QED  BY <1>1, <1>2, <2>1, NoFlushRests DEF DemoInvariant, DemoTypeOK
<1>4. ASSUME ~overlapped
      PROVE  /\ FlushIsAlone'
             /\ (produced \subseteq demoCloud \cup ToSet(queuedTelemetry) \cup ToSet(queuedEvidence))'
  <2>1. /\ FlushIsAlone /\ Covers(flush[f])
        /\ produced \subseteq demoCloud \cup ToSet(queuedTelemetry) \cup ToSet(queuedEvidence)
    BY <1>1, <1>4 DEF DemoInvariant, ProducedIsKept, FlushIsAlone
  <2>2. \A g \in Flush : flush'[g].stage = "idle"
    BY <1>1, <1>2, <2>1, NoFlushRests DEF FlushIsAlone
  <2>3. flush[f].stage = "evidence" => ToSet(flush[f].todo) = {}
    BY <1>1 DEF ToSet
  <2>4. /\ \A i \in 1..flush[f].count : queuedTelemetry[i] \in demoCloud
        /\ \A i \in 1..flush[f].given : queuedEvidence[i] \in demoCloud
    BY <1>1, <2>1, <2>3 DEF Covers
  <2>5. ToSet(queuedTelemetry) \subseteq demoCloud \cup ToSet(queuedTelemetry')
    <3>1. PICK s \in Seq(Queueable), n \in Nat : s = queuedTelemetry /\ n = flush[f].count
      BY <1>2
    <3>2. ToSet(s) \subseteq {s[i] : i \in 1..n} \cup ToSet(Spliced(s, n))
      BY ElementsOfSpliced
    <3>3. queuedTelemetry' = Spliced(s, n)
      BY <1>1, <3>1
    <3>. QED  BY <2>4, <3>1, <3>2, <3>3
  <2>6. ToSet(queuedEvidence) \subseteq demoCloud \cup ToSet(queuedEvidence')
    <3>1. PICK s \in Seq(Queueable), n \in Nat : s = queuedEvidence /\ n = flush[f].given
      BY <1>2
    <3>2. ToSet(s) \subseteq {s[i] : i \in 1..n} \cup ToSet(Spliced(s, n))
      BY ElementsOfSpliced
    <3>3. queuedEvidence' = Spliced(s, n)
      BY <1>1, <3>1
    <3>. QED  BY <2>4, <3>1, <3>2, <3>3
  <2>. QED  BY <1>1, <2>1, <2>2, <2>5, <2>6 DEF FlushIsAlone
<1>. QED  BY <1>1, <1>3, <1>4 DEF DemoInvariant, ProducedIsKept

-----------------------------------------------------------------------------

LEMMA DemoInitInvariant == DemoInit => DemoInvariant
<1>. SUFFICES ASSUME DemoInit PROVE DemoInvariant
  OBVIOUS
<1>1. DemoTypeOK
  BY NoFlushRests DEF DemoInit, DemoTypeOK
<1>2. FlushIsAlone
  BY NoFlushRests DEF DemoInit, FlushIsAlone
<1>. QED  BY <1>1, <1>2 DEF DemoInit, DemoInvariant, ProducedIsKept

\* The inductive invariant of the demonstration holds in every state, however
\* many flushes there are and however long the Edge runs.
THEOREM DemoInvariantHolds == DemoSpec => []DemoInvariant
<1>1. ASSUME DemoInvariant, [DemoNext]_demoVars PROVE DemoInvariant'
  <2>1. CASE UNCHANGED demoVars
    BY <1>1, <2>1, QuietStep DEF demoVars, edgeQueues
  <2>. QED  BY <1>1, <2>1, EdgeCalls, BeginStep, PostStep, FailStep, SummaryStep, FinishStep
            DEF DemoNext
<1>. QED  BY DemoInitInvariant, <1>1, PTL DEF DemoSpec

\* As long as no two flushes overlap, what the Edge has produced is with the
\* Cloud or queued, whatever the Cloud refuses and whichever clock it reads.
THEOREM KeptRecords == DemoSpec => []ProducedIsKept
<1>1. DemoInvariant => ProducedIsKept
  BY DEF DemoInvariant
<1>. QED  BY <1>1, DemoInvariantHolds, PTL

-----------------------------------------------------------------------------
\* HardwareRecord.

\* A record that is intact is the sealed record of its hash: the hash covers
\* all the rest.
LEMMA HashNamesRecord ==
  ASSUME NEW r, NEW s, IsFunctionOn(r, Covered \cup {"hash"}), IsFunctionOn(s, Covered \cup {"hash"}),
         CanonicalRecord(r) = r.hash, CanonicalRecord(s) = s.hash, r.hash = s.hash
  PROVE  r = s
<1>1. ASSUME NEW f \in Covered PROVE r[f] = s[f]
  <2>1. CanonicalRecord(r)[f] = r[f] /\ CanonicalRecord(s)[f] = s[f]
    BY DEF CanonicalRecord
  <2>. QED  BY <2>1
<1>2. r["hash"] = s["hash"]
  OBVIOUS
<1>. QED  BY <1>1, <1>2 DEF IsFunctionOn

\* The paper that passes its check is one that was sealed.
LEMMA IntactPaperIsSealed ==
  ASSUME RecordInvariant, paper # Nothing, IsIntact(paper)
  PROVE  paper \in sealed
<1>1. PICK s \in sealed : s.hash = paper.hash
  BY DEF RecordInvariant, PaperWasSealed
<1>2. IsFunctionOn(s, Covered \cup {"hash"}) /\ CanonicalRecord(s) = s.hash
  BY DEF RecordInvariant, RecordsAreSealed, IsIntact
<1>3. IsFunctionOn(paper, Covered \cup {"hash"}) /\ CanonicalRecord(paper) = paper.hash
  BY DEF RecordInvariant, PaperWasSealed, IsIntact
<1>. QED  BY <1>1, <1>2, <1>3, HashNamesRecord

\* And the profile that passes its check is the profile of a sealed record.
LEMMA HashedParts ==
  ASSUME NEW content, "hash" \notin DOMAIN content, content = [f \in DOMAIN content |-> content[f]]
  PROVE  /\ IsFunctionOn(Hashed(content), DOMAIN content \cup {"hash"})
         /\ Hashed(content).hash = content
         /\ \A f \in DOMAIN content : Hashed(content)[f] = content[f]
         /\ [f \in DOMAIN content |-> Hashed(content)[f]] = content
  BY DEF Hashed, IsFunctionOn

LEMMA ProfileParts ==
  ASSUME NEW s
  PROVE  /\ IsFunctionOn(HardwareProfile(s), ProfileField)
         /\ ProfileIsIntact(HardwareProfile(s))
         /\ HardwareProfile(s).recordHash = s.hash
<1>. DEFINE content ==
       [bound |-> s.bound, recordHash |-> s.hash, root |-> s.root,
        identity |-> [t \in IdentityFact |-> SingleObservation(s, t)],
        capabilities |-> [c \in Capability |-> CapabilityStatus(s, c)]]
<1>1. /\ DOMAIN content = {"bound", "recordHash", "root", "identity", "capabilities"}
      /\ content.recordHash = s.hash /\ content = [f \in DOMAIN content |-> content[f]]
  OBVIOUS
<1>2. HardwareProfile(s) = Hashed(content)
  BY DEF HardwareProfile
<1>. HIDE DEF content
<1>3. /\ IsFunctionOn(Hashed(content), DOMAIN content \cup {"hash"})
      /\ Hashed(content).hash = content
      /\ Hashed(content).recordHash = s.hash
      /\ [f \in DOMAIN content |-> Hashed(content)[f]] = content
  BY <1>1, HashedParts
<1>4. DOMAIN Hashed(content) \ {"hash"} = DOMAIN content
  BY <1>1 DEF Hashed
<1>5. DOMAIN content \cup {"hash"} = ProfileField
  BY <1>1 DEF ProfileField
<1>. QED  BY <1>2, <1>3, <1>4, <1>5 DEF ProfileIsIntact

LEMMA IntactProfileIsOfItsRecord ==
  ASSUME NEW p, NEW s, IsFunctionOn(p, ProfileField), ProfileIsIntact(p),
         p.hash = HardwareProfile(s).hash
  PROVE  p = HardwareProfile(s)
<1>. DEFINE q == HardwareProfile(s)
<1>1. IsFunctionOn(q, ProfileField) /\ ProfileIsIntact(q)
  BY ProfileParts
<1>. HIDE DEF q
<1>2. DOMAIN p = ProfileField /\ DOMAIN q = ProfileField
  BY <1>1 DEF IsFunctionOn
<1>3. p.hash = q.hash
  BY DEF q
<1>4. [f \in ProfileField \ {"hash"} |-> p[f]] = [f \in ProfileField \ {"hash"} |-> q[f]]
  BY <1>1, <1>2, <1>3 DEF ProfileIsIntact
<1>5. ASSUME NEW f \in ProfileField PROVE p[f] = q[f]
  <2>1. CASE f = "hash"
    BY <1>3, <2>1
  <2>2. CASE f # "hash"
    <3>1. /\ [g \in ProfileField \ {"hash"} |-> p[g]][f] = p[f]
          /\ [g \in ProfileField \ {"hash"} |-> q[g]][f] = q[f]
      BY <2>2
    <3>. QED  BY <1>4, <3>1
  <2>. QED  BY <2>1, <2>2
<1>6. p = q
  BY <1>1, <1>5 DEF IsFunctionOn
<1>. QED  BY <1>6 DEF q

\* A record as it is sealed.
LEMMA SealedParts ==
  ASSUME NEW bound, NEW collector, NEW facts, NEW conflicts, NEW missing, NEW s,
         s = SealDiscoveryRecord(bound, collector, facts, conflicts, missing)
  PROVE  /\ IsFunctionOn(s, Covered \cup {"hash"})
         /\ IsIntact(s)
         /\ s.collector = collector /\ s.facts = facts /\ s.conflicts = conflicts
<1>. DEFINE content == [bound |-> bound, collector |-> collector, facts |-> facts,
                        conflicts |-> conflicts, missing |-> missing,
                        root |-> CanonicalEvidenceRoot(facts)]
<1>1. /\ DOMAIN content = Covered /\ content = [f \in DOMAIN content |-> content[f]]
      /\ content.collector = collector /\ content.facts = facts /\ content.conflicts = conflicts
      /\ content.root = CanonicalEvidenceRoot(facts)
  BY DEF Covered
<1>2. s = Hashed(content)
  BY DEF SealDiscoveryRecord
<1>. HIDE DEF content
<1>3. "hash" \notin Covered /\ {"collector", "facts", "conflicts", "root"} \subseteq Covered
  BY DEF Covered
<1>4. /\ IsFunctionOn(s, Covered \cup {"hash"}) /\ s.hash = content
      /\ \A f \in Covered : s[f] = content[f]
      /\ CanonicalRecord(s) = content
  BY <1>1, <1>2, <1>3, HashedParts DEF CanonicalRecord
<1>5. s.collector = collector /\ s.facts = facts /\ s.conflicts = conflicts
      /\ s.root = CanonicalEvidenceRoot(facts)
  BY <1>1, <1>3, <1>4
<1>. QED  BY <1>4, <1>5 DEF IsIntact

\* A requirement is satisfied by evidence that nothing contradicts.
LEMMA SatisfiedBy ==
  ASSUME NEW s, NEW id \in Requirement, EvaluateRequirement(id, s) = "SATISFIED",
         NEW t \in RequiredFacts[id]
  PROVE  /\ \E i \in FactsFor(s.facts, {t}) : HasValidEvidence(s.facts[i])
         /\ \A i, j \in FactsFor(s.facts, {t}) :
              CorrelationValueKey(s.facts[i]) = CorrelationValueKey(s.facts[j])
<1>1. /\ FactGroupsWithConflicts(s, RequiredFacts[id]) = {}
      /\ NonValidated(s, RequiredFacts[id]) = {}
  BY DEF EvaluateRequirement
<1>2. ~Differ(s.facts, t)
  BY <1>1 DEF FactGroupsWithConflicts
<1>3. \E i \in FactsFor(s.facts, {t}) : HasValidEvidence(s.facts[i])
  BY <1>1 DEF NonValidated
<1>. QED  BY <1>2, <1>3 DEF Differ

\* What was correlated without a conflict satisfies or leaves open.
LEMMA CorrelatedIsNotContradicted ==
  ASSUME NEW s, s.conflicts = {}, CorrelateFacts(s.facts) \subseteq s.conflicts,
         NEW id \in Requirement
  PROVE  EvaluateRequirement(id, s) # "NOT_SATISFIED"
<1>1. FactGroupsWithConflicts(s, RequiredFacts[id]) = {}
  BY RequirementsAreOfFacts DEF CorrelateFacts, FactGroupsWithConflicts
<1>. QED  BY <1>1 DEF EvaluateRequirement

LEMMA EvaluationParts ==
  ASSUME NEW s
  PROVE  /\ Evaluation(s).recordHash = s.hash
         /\ \A id \in Requirement : Evaluation(s).requirements[id] = EvaluateRequirement(id, s)
  BY DEF Evaluation

-----------------------------------------------------------------------------

\* The issued paper is about the sealed record that was evaluated.
LEMMA IssuedSatisfies ==
  ASSUME NEW s \in sealed, sealed' = sealed, issued'.compatibility = Evaluation(s)
  PROVE  SatisfiedIsEvidenced'
<1>1. PICK e : e = Evaluation(s)
  OBVIOUS
<1>2. issued'.compatibility = e
  BY <1>1
<1>3. s.hash = e.recordHash
  BY <1>1, EvaluationParts
<1>4. ASSUME NEW id \in Requirement, e.requirements[id] = "SATISFIED", NEW t \in RequiredFacts[id]
      PROVE  /\ \E i \in FactsFor(s.facts, {t}) : HasValidEvidence(s.facts[i])
             /\ \A i, j \in FactsFor(s.facts, {t}) :
                  CorrelationValueKey(s.facts[i]) = CorrelationValueKey(s.facts[j])
  <2>1. EvaluateRequirement(id, s) = "SATISFIED"
    BY <1>1, <1>4, EvaluationParts
  <2>. QED  BY <1>4, <2>1, SatisfiedBy
<1>. QED  BY <1>2, <1>3, <1>4 DEF SatisfiedIsEvidenced

\* While nothing is issued, what was issued stays about the records it names.
LEMMA IssuedStays ==
  ASSUME RecordInvariant, sealed \subseteq sealed', issued' = issued
  PROVE  SatisfiedIsEvidenced' /\ ValidationsAreOfOneDiscovery'
<1>1. SatisfiedIsEvidenced'
  BY DEF RecordInvariant, SatisfiedIsEvidenced
<1>2. ValidationsAreOfOneDiscovery'
  BY DEF RecordInvariant, ValidationsAreOfOneDiscovery
<1>. QED  BY <1>1, <1>2

LEMMA KeepStep ==
  ASSUME RecordInvariant, NEW s, Keep(s),
         IsFunctionOn(s, Covered \cup {"hash"}), IsIntact(s),
         s.collector = "composed" => CorrelateFacts(s.facts) \subseteq s.conflicts
  PROVE  RecordInvariant'
<1>1. paper' = s /\ sealed' = sealed \cup {s} /\ UNCHANGED <<profile, issued>>
  BY DEF Keep
<1>2. RecordsAreSealed'
  BY <1>1 DEF RecordInvariant, RecordsAreSealed
<1>3. PaperWasSealed'
  BY <1>1 DEF PaperWasSealed
<1>4. ProfileWasMade'
  BY <1>1 DEF RecordInvariant, ProfileWasMade
<1>. QED  BY <1>1, <1>2, <1>3, <1>4, IssuedStays DEF RecordInvariant

\* A record that is sealed now: a composed one was correlated.
LEMMA SealStep ==
  ASSUME RecordInvariant, NEW bound, NEW collector, NEW facts, NEW conflicts, NEW missing, NEW s,
         s = SealDiscoveryRecord(bound, collector, facts, conflicts, missing),
         collector = "composed" => CorrelateFacts(facts) \subseteq conflicts,
         Keep(s)
  PROVE  RecordInvariant'
<1>1. /\ IsFunctionOn(s, Covered \cup {"hash"}) /\ IsIntact(s)
      /\ s.collector = collector /\ s.facts = facts /\ s.conflicts = conflicts
  BY SealedParts
<1>2. s.collector = "composed" => CorrelateFacts(s.facts) \subseteq s.conflicts
  BY <1>1
<1>. QED  BY <1>1, <1>2, KeepStep

LEMMA EvaluateStep ==
  ASSUME RecordInvariant, EvaluateHardwareCompatibility
  PROVE  RecordInvariant'
<1>1. /\ paper \in sealed /\ UNCHANGED <<paper, sealed, profile>>
      /\ issued' = [kind |-> "evaluation", compatibility |-> Evaluation(paper)]
  BY IntactPaperIsSealed DEF EvaluateHardwareCompatibility
<1>2. PICK s \in sealed : s = paper
  BY <1>1
<1>3. SatisfiedIsEvidenced'
  <2>1. issued'.compatibility = Evaluation(s)
    BY <1>1, <1>2
  <2>. QED  BY <1>1, <2>1, IssuedSatisfies
<1>4. issued'.kind # "validation"
  BY <1>1
<1>. QED  BY <1>1, <1>3, <1>4
          DEF RecordInvariant, RecordsAreSealed, PaperWasSealed, ProfileWasMade,
              ValidationsAreOfOneDiscovery

LEMMA ProfileStep ==
  ASSUME RecordInvariant, CreateHardwareProfile
  PROVE  RecordInvariant'
<1>1. /\ paper \in sealed /\ paper.conflicts = {} /\ UNCHANGED <<paper, sealed, issued>>
      /\ profile' = HardwareProfile(paper)
  BY IntactPaperIsSealed DEF CreateHardwareProfile
<1>2. PICK s \in sealed : s = paper
  BY <1>1
<1>3. ProfileWasMade'
  <2>1. IsFunctionOn(HardwareProfile(s), ProfileField)
    BY ProfileParts
  <2>2. profile' = HardwareProfile(s) /\ s.conflicts = {} /\ sealed' = sealed
    BY <1>1, <1>2
  <2>. QED  BY <2>1, <2>2 DEF ProfileWasMade
<1>. QED  BY <1>1, <1>3, IssuedStays DEF RecordInvariant, RecordsAreSealed, PaperWasSealed

LEMMA ValidationStep ==
  ASSUME RecordInvariant, CreateHardwareValidation
  PROVE  RecordInvariant'
<1>1. /\ paper \in sealed /\ UNCHANGED <<paper, sealed, profile>>
      /\ profile # Nothing /\ IsCandidate(profile, paper)
      /\ issued'.kind = "validation" /\ issued'.profile = profile
      /\ issued'.compatibility = Evaluation(paper)
  BY IntactPaperIsSealed DEF CreateHardwareValidation
<1>2. PICK s \in sealed : s = paper
  BY <1>1
<1>3. profile = HardwareProfile(s) /\ s.conflicts = {}
  <2>1. PICK r \in sealed : /\ r.conflicts = {} /\ IsFunctionOn(profile, ProfileField)
                            /\ profile.hash = HardwareProfile(r).hash
    BY <1>1 DEF RecordInvariant, ProfileWasMade
  <2>2. profile = HardwareProfile(r)
    BY <1>1, <2>1, IntactProfileIsOfItsRecord DEF IsCandidate
  <2>3. r.hash = s.hash
    BY <1>1, <1>2, <2>2, ProfileParts DEF IsCandidate, NamesTheRecord
  <2>4. r = s
    BY <2>3, HashNamesRecord DEF RecordInvariant, RecordsAreSealed, IsIntact
  <2>. QED  BY <2>1, <2>2, <2>4
<1>4. SatisfiedIsEvidenced'
  BY <1>1, <1>2, IssuedSatisfies
<1>5. ValidationsAreOfOneDiscovery'
  <2>1. issued'.profile = HardwareProfile(s) /\ issued'.compatibility = Evaluation(s) /\ s \in sealed'
    BY <1>1, <1>2, <1>3
  <2>2. ASSUME s.collector = "composed", NEW id \in Requirement
        PROVE  issued'.compatibility.requirements[id] # "NOT_SATISFIED"
    <3>1. EvaluateRequirement(id, s) # "NOT_SATISFIED"
      BY <1>3, <2>2, CorrelatedIsNotContradicted DEF RecordInvariant, RecordsAreSealed
    <3>. QED  BY <2>1, <3>1, EvaluationParts
  <2>. QED  BY <2>1, <2>2 DEF ValidationsAreOfOneDiscovery
<1>. QED  BY <1>1, <1>4, <1>5 DEF RecordInvariant, RecordsAreSealed, PaperWasSealed, ProfileWasMade

\* Altering a paper or a profile leaves its hash, which is how it is found out.
LEMMA AlterStep ==
  ASSUME RecordInvariant, Alter
  PROVE  RecordInvariant'
<1>1. paper \in sealed /\ UNCHANGED <<sealed, profile, issued>>
  BY DEF Alter
<1>2. IsFunctionOn(paper, Covered \cup {"hash"})
  BY <1>1 DEF RecordInvariant, RecordsAreSealed
<1>3. IsFunctionOn(paper', Covered \cup {"hash"}) /\ paper'.hash = paper.hash
  BY <1>2 DEF Alter, IsFunctionOn
<1>4. PaperWasSealed'
  BY <1>1, <1>3 DEF PaperWasSealed
<1>. QED  BY <1>1, <1>4, IssuedStays DEF RecordInvariant, RecordsAreSealed, ProfileWasMade

LEMMA AlterProfileStep ==
  ASSUME RecordInvariant, AlterProfile
  PROVE  RecordInvariant'
<1>1. profile # Nothing /\ UNCHANGED <<paper, sealed, issued>>
  BY DEF AlterProfile
<1>2. PICK s \in sealed : /\ s.conflicts = {} /\ IsFunctionOn(profile, ProfileField)
                          /\ profile.hash = HardwareProfile(s).hash
  BY <1>1 DEF RecordInvariant, ProfileWasMade
<1>3. IsFunctionOn(profile', ProfileField) /\ profile'.hash = profile.hash
  BY <1>2 DEF AlterProfile, IsFunctionOn, ProfileField
<1>4. ProfileWasMade'
  BY <1>1, <1>2, <1>3 DEF ProfileWasMade
<1>. QED  BY <1>1, <1>4, IssuedStays DEF RecordInvariant, RecordsAreSealed, PaperWasSealed

\* The inductive invariant of the papers holds in every state, whoever keeps them.
THEOREM RecordInvariantHolds == RecordSpec => []RecordInvariant
<1>1. RecordInit => RecordInvariant
  BY DEF RecordInit, RecordInvariant, RecordsAreSealed, PaperWasSealed, ProfileWasMade,
         SatisfiedIsEvidenced, ValidationsAreOfOneDiscovery
<1>2. ASSUME RecordInvariant, [RecordNext]_recordVars PROVE RecordInvariant'
  <2>1. ASSUME NEW intake \in Intake, SealIntake(intake) PROVE RecordInvariant'
    <3>1. PICK bound, collector, facts, conflicts, missing, s :
            /\ bound = intake.bound /\ collector = "intake" /\ facts = intake.facts
            /\ conflicts = intake.conflicts /\ missing = intake.missing
            /\ s = SealDiscoveryRecord(bound, collector, facts, conflicts, missing)
      OBVIOUS
    <3>2. Keep(s)
      BY <2>1, <3>1 DEF SealIntake
    <3>3. collector = "composed" => CorrelateFacts(facts) \subseteq conflicts
      BY <3>1
    <3>4. s = SealDiscoveryRecord(bound, collector, facts, conflicts, missing)
      BY <3>1
    <3>. QED  BY <1>2, <3>2, <3>3, <3>4, SealStep
  <2>2. ASSUME NEW intake \in Intake, NEW answers, ComposeAndSeal(intake, answers)
        PROVE  RecordInvariant'
    <3>1. PICK bound, collector, facts, conflicts, missing, s :
            /\ bound = intake.bound /\ collector = "composed"
            /\ facts = Collect(answers) \o intake.facts
            /\ conflicts = intake.conflicts \cup CorrelateFacts(facts)
            /\ missing = StillMissing(intake, answers, facts)
            /\ s = SealDiscoveryRecord(bound, collector, facts, conflicts, missing)
      OBVIOUS
    <3>2. Keep(s)
      BY <2>2, <3>1 DEF ComposeAndSeal
    <3>3. collector = "composed" => CorrelateFacts(facts) \subseteq conflicts
      BY <3>1
    <3>4. s = SealDiscoveryRecord(bound, collector, facts, conflicts, missing)
      BY <3>1
    <3>. QED  BY <1>2, <3>2, <3>3, <3>4, SealStep
  <2>3. CASE UNCHANGED recordVars
    BY <1>2, <2>3, IssuedStays
       DEF recordVars, RecordInvariant, RecordsAreSealed, PaperWasSealed, ProfileWasMade
  <2>. QED  BY <1>2, <2>1, <2>2, <2>3, EvaluateStep, ProfileStep, ValidationStep, AlterStep,
               AlterProfileStep
            DEF RecordNext
<1>. QED  BY <1>1, <1>2, PTL DEF RecordSpec

\* A requirement is satisfied only by a record as it was sealed, in which each
\* fact it asks for has valid evidence and nothing contradicts it.
THEOREM EvidencedRequirements == RecordSpec => []SatisfiedIsEvidenced
<1>1. RecordInvariant => SatisfiedIsEvidenced
  BY DEF RecordInvariant
<1>. QED  BY <1>1, RecordInvariantHolds, PTL

\* A validation names a profile that was made, unaltered since, from the
\* sealed record it evaluates.
THEOREM OneDiscovery == RecordSpec => []ValidationsAreOfOneDiscovery
<1>1. RecordInvariant => ValidationsAreOfOneDiscovery
  BY DEF RecordInvariant
<1>. QED  BY <1>1, RecordInvariantHolds, PTL

=============================================================================
