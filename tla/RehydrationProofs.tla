-------------------------- MODULE RehydrationProofs -------------------------
(***************************************************************************)
(* Proofs about Rehydration, for any streams, events, snapshots and        *)
(* versions.  replay and filter go through their events one by one: what   *)
(* they come to is shown by induction on how many they have gone through.  *)
(***************************************************************************)
EXTENDS Rehydration, WellFoundedInduction, TLAPS

\* What holds of 0 and goes on by one holds as far as it goes.
LEMMA UpTo ==
  ASSUME NEW m \in Nat, NEW S, 0 \in S, \A n \in 0..m : n < m /\ n \in S => n + 1 \in S
  PROVE  \A n \in 0..m : n \in S
<1>. DEFINE T == {n \in 0..m : n \notin S}
<1>. SUFFICES ASSUME T # {}
              PROVE  FALSE
  OBVIOUS
<1>1. T \subseteq Nat
  OBVIOUS
<1>2. PICK k \in T : \A l \in T : ~(<<l, k>> \in OpToRel(<, Nat))
  BY <1>1, NatLessThanWellFounded, WFMin
<1>3. k \in 0..m /\ k \notin S /\ k # 0
  OBVIOUS
<1>4. k - 1 \in 0..m /\ k - 1 < m
  BY <1>3
<1>5. k - 1 \notin T
  <2>1. <<k - 1, k>> \in OpToRel(<, Nat)
    BY <1>3, <1>4 DEF OpToRel
  <2>. QED  BY <1>2, <2>1
<1>. QED  BY <1>3, <1>4, <1>5

-----------------------------------------------------------------------------
\* replay.

\* f is the replay after each of the first m events.
IsRun(f, m, events, initialState, sourceRevision) ==
  f = [n \in 0..m |-> IF n = 0 THEN Start(initialState, sourceRevision)
                      ELSE Replayed(f[n - 1], events[n])]

LEMMA RunExists ==
  ASSUME NEW m \in Nat, NEW events, NEW initialState, NEW sourceRevision
  PROVE  \E f : IsRun(f, m, events, initialState, sourceRevision)
<1>. DEFINE R(f, n) == IsRun(f, n, events, initialState, sourceRevision)
            S == {n \in 0..m : \E f : R(f, n)}
<1>1. 0 \in S
  <2>. DEFINE g == [n \in 0..0 |-> Start(initialState, sourceRevision)]
  <2>1. R(g, 0)
    BY DEF IsRun
  <2>. QED  BY <2>1
<1>2. ASSUME NEW k \in 0..m, k < m, k \in S
      PROVE  k + 1 \in S
  <2>1. PICK f : R(f, k)
    BY <1>2
  <2>. DEFINE g == [n \in 0..(k + 1) |-> IF n = k + 1 THEN Replayed(f[k], events[k + 1]) ELSE f[n]]
  <2>2. \A n \in 0..k : f[n] = IF n = 0 THEN Start(initialState, sourceRevision)
                               ELSE Replayed(f[n - 1], events[n])
    BY <2>1 DEF IsRun
  <2>3. \A n \in 0..k : g[n] = f[n]
    OBVIOUS
  <2>4. g[k + 1] = Replayed(f[k], events[k + 1])
    OBVIOUS
  <2>5. ASSUME NEW n \in 0..(k + 1)
        PROVE  g[n] = IF n = 0 THEN Start(initialState, sourceRevision)
                      ELSE Replayed(g[n - 1], events[n])
    <3>. HIDE DEF g
    <3>1. CASE n = k + 1
      <4>1. n # 0 /\ n - 1 = k /\ k \in 0..k
        BY <3>1
      <4>. QED  BY <2>3, <2>4, <3>1, <4>1
    <3>2. CASE n # k + 1
      <4>1. n \in 0..k /\ (n # 0 => n - 1 \in 0..k)
        BY <3>2
      <4>. QED  BY <2>2, <2>3, <4>1
    <3>. QED  BY <3>1, <3>2
  <2>6. g = [n \in 0..(k + 1) |-> g[n]]
    OBVIOUS
  <2>. HIDE DEF g
  <2>7. R(g, k + 1)
    BY <2>5, <2>6 DEF IsRun
  <2>. QED  BY <2>7, <1>2
<1>3. m \in S
  <2>. HIDE DEF S
  <2>1. \A n \in 0..m : n < m /\ n \in S => n + 1 \in S
    BY <1>2
  <2>. QED  BY <1>1, <2>1, UpTo
<1>. QED  BY <1>3

LEMMA ReplayIsARun ==
  ASSUME NEW events, Len(events) \in Nat, NEW initialState, NEW sourceRevision
  PROVE  \E f : /\ IsRun(f, Len(events), events, initialState, sourceRevision)
                /\ Replay(initialState, events, sourceRevision) = Result(f[Len(events)])
<1>. DEFINE R(f) == f = [n \in 0..Len(events) |->
                           IF n = 0 THEN Start(initialState, sourceRevision)
                           ELSE Replayed(f[n - 1], events[n])]
            run == CHOOSE f : R(f)
<1>1. Replay(initialState, events, sourceRevision) = Result(run[Len(events)])
  BY DEF Replay
<1>2. \E f : R(f)
  <2>1. \A f : R(f) <=> IsRun(f, Len(events), events, initialState, sourceRevision)
    BY Zenon DEF IsRun
  <2>2. \E f : IsRun(f, Len(events), events, initialState, sourceRevision)
    BY RunExists
  <2>. HIDE DEF R
  <2>. QED  BY <2>1, <2>2
<1>3. R(run)
  BY <1>2
<1>. QED  BY <1>1, <1>3 DEF IsRun

-----------------------------------------------------------------------------
\* The history of a stream, upcast.

\* The events of a stream after the first j, up to n, in the schema that runs.
HistoryFrom(s, j, n) ==
  [i \in 1..(n - j) |->
     [eventId |-> streams[s][j + i], revision |-> j + i - 1, schema |-> deployed]]

LEMMA UpcastedHistory ==
  ASSUME NEW s \in Stream, NEW n \in Nat
  PROVE  Upcasted(Read(s, n)) = HistoryFrom(s, 0, n)
<1>1. DOMAIN Read(s, n) = 1..n
  BY DEF Read
<1>2. \A i \in 1..n : Upcast(Read(s, n)[i], deployed)
                       = [eventId |-> streams[s][0 + i], revision |-> 0 + i - 1, schema |-> deployed]
  BY DEF Read, Envelope, Upcast
<1>3. n - 0 = n
  OBVIOUS
<1>. QED  BY <1>1, <1>2, <1>3 DEF Upcasted, HistoryFrom

\* Replaying the events after the first j onto the state after those gives the
\* state after all of them.
LEMMA ReplayFrom ==
  ASSUME HistoriesAreSound, NEW s \in Stream, NEW n \in 0..Len(streams[s]), NEW j \in 0..n
  PROVE  Replay(StateAfter(s, j, deployed), HistoryFrom(s, j, n), j - 1)
           = [error |-> "none", state |-> StateAfter(s, n, deployed), revision |-> n - 1]
<1>. DEFINE e == HistoryFrom(s, j, n)
            m == n - j
            Expected(k) == [error |-> "none", state |-> StateAfter(s, j + k, deployed),
                            seen |-> {streams[s][i] : i \in (j + 1)..(j + k)},
                            revision |-> j + k - 1]
<1>1. /\ streams[s] \in Seq(EventId) /\ Len(streams[s]) \in Nat
      /\ \A a, b \in 1..Len(streams[s]) : streams[s][a] = streams[s][b] => a = b
  BY DEF HistoriesAreSound, IsInjective
<1>2. m \in Nat /\ j \in Nat /\ n \in Nat /\ j + m = n /\ n <= Len(streams[s])
  BY <1>1
<1>3. e = [i \in 1..m |-> [eventId |-> streams[s][j + i], revision |-> j + i - 1,
                           schema |-> deployed]]
  BY DEF HistoryFrom
<1>4. Len(e) = m
  BY <1>2, <1>3
<1>5. \A i \in 1..m : /\ e[i].eventId = streams[s][j + i] /\ e[i].revision = j + i - 1
                      /\ e[i].schema = deployed
  BY <1>3
<1>. HIDE DEF e, m
<1>6. PICK f : /\ IsRun(f, Len(e), e, StateAfter(s, j, deployed), j - 1)
               /\ Replay(StateAfter(s, j, deployed), e, j - 1) = Result(f[Len(e)])
  BY <1>2, <1>4, ReplayIsARun
<1>7. \A k \in 0..m : f[k] = IF k = 0 THEN Start(StateAfter(s, j, deployed), j - 1)
                             ELSE Replayed(f[k - 1], e[k])
  BY <1>4, <1>6 DEF IsRun
<1>8. f[0] = Expected(0)
  <2>1. f[0] = Start(StateAfter(s, j, deployed), j - 1)
    BY <1>2, <1>7
  <2>2. {streams[s][i] : i \in (j + 1)..(j + 0)} = {}
    BY <1>2
  <2>3. j + 0 = j /\ j + 0 - 1 = j - 1
    BY <1>2
  <2>4. Expected(0) = [error |-> "none", state |-> StateAfter(s, j, deployed), seen |-> {},
                       revision |-> j - 1]
    BY <2>2, <2>3, Zenon
  <2>. HIDE DEF Expected
  <2>. QED  BY <2>1, <2>4 DEF Start
<1>9. ASSUME NEW k \in 0..m, k < m, f[k] = Expected(k)
      PROVE  f[k + 1] = Expected(k + 1)
  <2>1. k + 1 \in 1..m /\ k + 1 # 0 /\ k + 1 - 1 = k /\ k \in Nat
    BY <1>2, <1>9
  <2>2. f[k + 1] = Replayed(f[k], e[k + 1])
    BY <1>2, <1>7, <2>1
  <2>3. /\ f[k].error = "none" /\ f[k].revision = j + k - 1
        /\ f[k].seen = {streams[s][i] : i \in (j + 1)..(j + k)}
        /\ f[k].state = StateAfter(s, j + k, deployed)
    BY <1>9
  <2>4. /\ e[k + 1].eventId = streams[s][j + k + 1] /\ e[k + 1].revision = j + k
        /\ e[k + 1].schema = deployed
    <3>1. /\ e[k + 1].eventId = streams[s][j + (k + 1)] /\ e[k + 1].revision = j + (k + 1) - 1
          /\ e[k + 1].schema = deployed
      BY <1>5, <2>1
    <3>2. j + (k + 1) = j + k + 1 /\ j + (k + 1) - 1 = j + k
      BY <1>2, <2>1
    <3>. QED  BY <3>1, <3>2
  <2>5. e[k + 1].eventId \notin f[k].seen
    <3>1. j + k + 1 \in 1..Len(streams[s]) /\ (j + 1)..(j + k) \subseteq 1..Len(streams[s])
      BY <1>1, <1>2, <2>1
    <3>2. \A i \in (j + 1)..(j + k) : i # j + k + 1
      BY <1>2, <2>1
    <3>. QED  BY <1>1, <2>3, <2>4, <3>1, <3>2
  <2>6. e[k + 1].revision = f[k].revision + 1 /\ Applies(e[k + 1])
    BY <1>2, <2>1, <2>3, <2>4 DEF Applies
  <2>7. f[k + 1] = [error |-> "none",
                    state |-> Append(f[k].state, <<e[k + 1].eventId, e[k + 1].schema>>),
                    seen |-> f[k].seen \cup {e[k + 1].eventId},
                    revision |-> f[k].revision + 1]
    BY <2>2, <2>3, <2>5, <2>6 DEF Replayed
  <2>8. Append(StateAfter(s, j + k, deployed), <<streams[s][j + k + 1], deployed>>)
          = StateAfter(s, j + (k + 1), deployed)
    BY <1>2, <2>1 DEF StateAfter
  <2>9. {streams[s][i] : i \in (j + 1)..(j + k)} \cup {streams[s][j + k + 1]}
          = {streams[s][i] : i \in (j + 1)..(j + (k + 1))}
    <3>1. (j + 1)..(j + (k + 1)) = (j + 1)..(j + k) \cup {j + k + 1}
      BY <1>2, <2>1
    <3>. QED  BY <3>1
  <2>10. j + k - 1 + 1 = j + (k + 1) - 1
    BY <1>2, <2>1
  <2>11. f[k + 1] = [error |-> "none", state |-> StateAfter(s, j + (k + 1), deployed),
                     seen |-> {streams[s][i] : i \in (j + 1)..(j + (k + 1))},
                     revision |-> j + (k + 1) - 1]
    BY <2>3, <2>4, <2>8, <2>7, <2>9, <2>10, Zenon
  <2>. QED  BY <2>11
<1>10. f[m] = Expected(m)
  <2>. DEFINE S == {k \in 0..m : f[k] = Expected(k)}
  <2>1. 0 \in S
    BY <1>2, <1>8
  <2>2. \A k \in 0..m : k < m /\ k \in S => k + 1 \in S
    BY <1>2, <1>9
  <2>3. m \in 0..m
    BY <1>2
  <2>. HIDE DEF S, Expected
  <2>4. m \in S
    BY <1>2, <2>1, <2>2, <2>3, UpTo
  <2>. QED  BY <2>4 DEF S
<1>11. Result(f[m]) = [error |-> "none", state |-> StateAfter(s, n, deployed), revision |-> n - 1]
  BY <1>2, <1>10 DEF Result
<1>. QED  BY <1>4, <1>6, <1>11 DEF e

\* What is later than the j-th event's revision are the events after it.
LEMMA LaterHistory ==
  ASSUME NEW s \in Stream, NEW n \in Nat, NEW j \in 0..n
  PROVE  Later(HistoryFrom(s, 0, n), j - 1) = HistoryFrom(s, j, n)
<1>. DEFINE e == HistoryFrom(s, 0, n)
            Kept(f) == f = [i \in 0..Len(e) |->
                              IF i = 0 THEN <<>>
                              ELSE IF e[i].revision > j - 1 THEN Append(f[i - 1], e[i])
                              ELSE f[i - 1]]
            kept == CHOOSE f : Kept(f)
            g == [i \in 0..n |-> HistoryFrom(s, j, i)]
<1>1. Len(e) = n /\ \A i \in 1..n : /\ e[i] = [eventId |-> streams[s][i], revision |-> i - 1,
                                               schema |-> deployed]
                                    /\ e[i].revision = i - 1
  <2>1. n - 0 = n /\ \A i \in 1..n : 0 + i = i
    OBVIOUS
  <2>2. e = [i \in 1..n |-> [eventId |-> streams[s][0 + i], revision |-> 0 + i - 1,
                              schema |-> deployed]]
    BY <2>1 DEF HistoryFrom
  <2>3. Len(e) = n
    BY <2>2
  <2>. HIDE DEF e
  <2>4. \A i \in 1..n : e[i] = [eventId |-> streams[s][i], revision |-> i - 1,
                                schema |-> deployed]
    BY <2>1, <2>2
  <2>. QED  BY <2>3, <2>4
<1>2. j \in Nat /\ j <= n
  OBVIOUS
<1>. HIDE DEF e
<1>3. ASSUME NEW i \in 0..n
      PROVE  HistoryFrom(s, j, i) = IF i = 0 THEN <<>>
                                    ELSE IF e[i].revision > j - 1
                                         THEN Append(HistoryFrom(s, j, i - 1), e[i])
                                    ELSE HistoryFrom(s, j, i - 1)
  <2>1. ASSUME NEW m \in Int, m <= j
        PROVE  HistoryFrom(s, j, m) = <<>>
    <3>1. 1..(m - j) = {}
      BY <1>2, <2>1
    <3>. QED  BY <3>1 DEF HistoryFrom
  <2>2. CASE i <= j
    BY <1>1, <1>2, <2>1, <2>2
  <2>3. CASE i > j
    <3>1. i # 0 /\ i \in 1..n /\ e[i].revision > j - 1
      BY <1>1, <1>2, <2>3
    <3>2. e[i] = [eventId |-> streams[s][i], revision |-> i - 1, schema |-> deployed]
      BY <1>1, <3>1
    <3>. DEFINE h(m) == [eventId |-> streams[s][j + m], revision |-> j + m - 1,
                         schema |-> deployed]
                k == i - 1 - j
    <3>3. k \in Nat /\ i - j = k + 1 /\ j + (k + 1) = i /\ j + (k + 1) - 1 = i - 1
      BY <1>2, <2>3
    <3>4. HistoryFrom(s, j, i - 1) = [m \in 1..k |-> h(m)]
      BY DEF HistoryFrom
    <3>5. HistoryFrom(s, j, i) = [m \in 1..(k + 1) |-> h(m)]
      BY <3>3 DEF HistoryFrom
    <3>6. e[i] = h(k + 1)
      BY <3>2, <3>3
    <3>. HIDE DEF h, k
    <3>7. Append([m \in 1..k |-> h(m)], h(k + 1)) = [m \in 1..(k + 1) |-> h(m)]
      BY <3>3
    <3>8. Append(HistoryFrom(s, j, i - 1), e[i]) = HistoryFrom(s, j, i)
      BY <3>4, <3>5, <3>6, <3>7
    <3>. QED  BY <3>1, <3>8
  <2>. QED  BY <1>2, <2>2, <2>3
<1>4. Later(e, j - 1) = kept[n]
  BY <1>1 DEF Later
<1>5. Kept(kept)
  <2>1. \A i \in 0..n : i # 0 => i - 1 \in 0..n
    OBVIOUS
  <2>2. \A i \in 0..n : g[i] = HistoryFrom(s, j, i)
    OBVIOUS
  <2>3. g = [i \in 0..n |-> g[i]]
    OBVIOUS
  <2>. HIDE DEF g
  <2>4. \A i \in 0..n : g[i] = IF i = 0 THEN <<>>
                               ELSE IF e[i].revision > j - 1 THEN Append(g[i - 1], e[i])
                               ELSE g[i - 1]
    BY <1>3, <2>1, <2>2
  <2>5. Kept(g)
    BY <1>1, <2>3, <2>4
  <2>. QED  BY <2>5
<1>. HIDE DEF kept
<1>6. \A i \in 0..n : kept[i] = IF i = 0 THEN <<>>
                                ELSE IF e[i].revision > j - 1 THEN Append(kept[i - 1], e[i])
                                ELSE kept[i - 1]
  BY <1>1, <1>5
<1>7. \A i \in 0..n : kept[i] = HistoryFrom(s, j, i)
  <2>. DEFINE S == {i \in 0..n : kept[i] = HistoryFrom(s, j, i)}
  <2>1. 0 \in S
    BY <1>3, <1>6
  <2>2. ASSUME NEW i \in 0..n, i < n, i \in S
        PROVE  i + 1 \in S
    <3>1. i + 1 \in 0..n /\ i + 1 # 0 /\ i + 1 - 1 = i
      BY <2>2
    <3>2. kept[i + 1] = IF e[i + 1].revision > j - 1 THEN Append(kept[i], e[i + 1]) ELSE kept[i]
      BY <1>6, <3>1
    <3>3. HistoryFrom(s, j, i + 1) = IF e[i + 1].revision > j - 1
                                     THEN Append(HistoryFrom(s, j, i), e[i + 1])
                                     ELSE HistoryFrom(s, j, i)
      <4>1. PICK k \in 0..n : k = i + 1
        BY <3>1
      <4>2. HistoryFrom(s, j, k) = IF k = 0 THEN <<>>
                                   ELSE IF e[k].revision > j - 1
                                        THEN Append(HistoryFrom(s, j, k - 1), e[k])
                                   ELSE HistoryFrom(s, j, k - 1)
        BY <1>3
      <4>3. k # 0 /\ k - 1 = i
        BY <3>1, <4>1
      <4>. QED  BY <4>1, <4>2, <4>3
    <3>4. kept[i] = HistoryFrom(s, j, i)
      BY <2>2
    <3>5. kept[i + 1] = HistoryFrom(s, j, i + 1)
      <4>1. CASE e[i + 1].revision > j - 1
        BY <3>2, <3>3, <3>4, <4>1
      <4>2. CASE ~(e[i + 1].revision > j - 1)
        BY <3>2, <3>3, <3>4, <4>2
      <4>. QED  BY <4>1, <4>2
    <3>. QED  BY <3>1, <3>5
  <2>. HIDE DEF S
  <2>3. \A i \in 0..n : i \in S
    BY <2>1, <2>2, UpTo
  <2>. QED  BY <2>3 DEF S
<1>. QED  BY <1>4, <1>7 DEF e

-----------------------------------------------------------------------------
\* Theorems.

\* With or without a snapshot, what can be read is replayed to the state after
\* its last event.
LEMMA LoadIs ==
  ASSUME HistoriesAreSound, NEW s \in Stream, NEW n \in 0..Len(streams[s]),
         Readable(Read(s, n))
  PROVE  Load(Read(s, n))
           = [error |-> "none", state |-> StateAfter(s, n, deployed), revision |-> n - 1]
<1>1. n \in Nat /\ 0 \in 0..n
  BY DEF HistoriesAreSound
<1>2. Load(Read(s, n)) = Replay(<<>>, HistoryFrom(s, 0, n), -1)
  BY <1>1, UpcastedHistory DEF Load
<1>3. StateAfter(s, 0, deployed) = <<>>
  <2>1. 1..0 = {}
    OBVIOUS
  <2>. QED  BY <2>1 DEF StateAfter
<1>4. 0 - 1 = -1
  OBVIOUS
<1>5. Replay(StateAfter(s, 0, deployed), HistoryFrom(s, 0, n), 0 - 1)
        = [error |-> "none", state |-> StateAfter(s, n, deployed), revision |-> n - 1]
  BY <1>1, ReplayFrom
<1>. QED  BY <1>2, <1>3, <1>4, <1>5

\* What can be read is what has a chain of upcasters.
LEMMA ReadableIs ==
  ASSUME HistoriesAreSound, NEW s \in Stream, NEW n \in 0..Len(streams[s])
  PROVE  Readable(Read(s, n)) <=> \A i \in 1..n : CanBeRead(streams[s][i])
<1>1. deployed \in Nat
  BY RehydrationAssumption DEF HistoriesAreSound
<1>2. /\ DOMAIN Read(s, n) = 1..n
      /\ \A i \in 1..n : Read(s, n)[i].schema = schema[streams[s][i]]
  BY DEF Read, Envelope
<1>3. \A i \in 1..n : schema[streams[s][i]] \in Nat
  <2>1. Len(streams[s]) \in Nat /\ DOMAIN streams[s] = 1..Len(streams[s])
    BY DEF HistoriesAreSound
  <2>2. 1..n \subseteq DOMAIN streams[s]
    BY <2>1
  <2>. QED  BY <2>2, RehydrationAssumption DEF HistoriesAreSound
<1>4. ASSUME NEW i \in 1..n
      PROVE  Compatible(Read(s, n)[i], deployed) <=> CanBeRead(streams[s][i])
  <2>1. (deployed >= Read(s, n)[i].schema) <=> (schema[streams[s][i]] <= deployed)
    BY <1>1, <1>2, <1>3
  <2>2. ChainIsComplete(schema[streams[s][i]], deployed)
          <=> {<<v, v + 1>> : v \in schema[streams[s][i]]..(deployed - 1)}
                \subseteq Upcasters[deployed]
    BY DEF ChainIsComplete
  <2>. QED  BY <1>2, <2>1, <2>2 DEF Compatible, CanBeRead
<1>. QED  BY <1>2, <1>4 DEF Readable

LEMMA InvariantIsReplay ==
  ASSUME RehydrationInvariant
  PROVE  RehydrationIsReplay
<1>. SUFFICES ASSUME NEW s \in Stream, NEW n \in 0..Len(streams[s])
              PROVE  /\ Load(Read(s, n)) =
                          IF \A i \in 1..n : CanBeRead(streams[s][i])
                          THEN [error |-> "none", state |-> StateAfter(s, n, deployed),
                                revision |-> n - 1]
                          ELSE [error |-> "INCOMPATIBLE_SCHEMA"]
                     /\ \A snapshot \in snapshots :
                          LoadFrom(s, Read(s, n), snapshot) = Load(Read(s, n))
  BY DEF RehydrationIsReplay
<1>a. Load(Read(s, n)) = IF \A i \in 1..n : CanBeRead(streams[s][i])
                         THEN [error |-> "none", state |-> StateAfter(s, n, deployed),
                               revision |-> n - 1]
                         ELSE [error |-> "INCOMPATIBLE_SCHEMA"]
  <2>1. HistoriesAreSound
    BY DEF RehydrationInvariant
  <2>2. CASE \A i \in 1..n : CanBeRead(streams[s][i])
    BY <2>1, <2>2, ReadableIs, LoadIs
  <2>3. CASE ~\A i \in 1..n : CanBeRead(streams[s][i])
    <3>1. ~Readable(Read(s, n))
      BY <2>1, <2>3, ReadableIs
    <3>. QED  BY <2>3, <3>1 DEF Load
  <2>. QED  BY <2>2, <2>3
<1>. SUFFICES ASSUME NEW snapshot \in snapshots
              PROVE  LoadFrom(s, Read(s, n), snapshot) = Load(Read(s, n))
  BY <1>a
<1>0. HistoriesAreSound /\ n \in Nat
  BY DEF RehydrationInvariant, HistoriesAreSound
<1>. DEFINE e == HistoryFrom(s, 0, n)
<1>1. Upcasted(Read(s, n)) = e
  BY <1>0, UpcastedHistory
<1>2. CASE ~Readable(Read(s, n))
  BY <1>2 DEF LoadFrom, Load
<1>3. CASE Readable(Read(s, n)) /\ ~SnapshotIsUsable(snapshot, s, e)
  BY <1>1, <1>3 DEF LoadFrom, Load, Rehydrate
<1>4. CASE Readable(Read(s, n)) /\ SnapshotIsUsable(snapshot, s, e)
  <2>. DEFINE j == snapshot.sourceRevision + 1
  <2>1. /\ snapshot.aggregate = s /\ snapshot.schema = deployed /\ snapshot.intact
        /\ snapshot.sourceRevision \in 0..LastRevision(e)
    BY <1>4 DEF SnapshotIsUsable
  <2>2. LastRevision(e) <= n - 1 /\ LastRevision(e) \in Int
    <3>1. n - 0 = n /\ (n # 0 => n \in 1..n /\ 0 + n - 1 = n - 1)
      BY <1>0
    <3>2. Len(e) = n
      BY <1>0, <3>1 DEF HistoryFrom
    <3>3. CASE n = 0
      <4>1. e = <<>>
        <5>1. 1..(0 - 0) = {}
          OBVIOUS
        <5>. QED  BY <3>3, <5>1 DEF HistoryFrom
      <4>. QED  BY <3>3, <4>1 DEF LastRevision
    <3>4. CASE n # 0
      <4>1. e # <<>> /\ e[n].revision = n - 1
        BY <1>0, <3>1, <3>2, <3>4 DEF HistoryFrom
      <4>. HIDE DEF e
      <4>. QED  BY <1>0, <3>2, <4>1 DEF LastRevision
    <3>. QED  BY <3>3, <3>4
  <2>3. j \in 0..n /\ j - 1 = snapshot.sourceRevision
    BY <1>0, <2>1, <2>2
  <2>4. snapshot.state = StateAfter(s, j, deployed)
    BY <2>1 DEF RehydrationInvariant, SnapshotsAreSound
  <2>5. LoadFrom(s, Read(s, n), snapshot)
          = Replay(snapshot.state, Later(e, snapshot.sourceRevision), snapshot.sourceRevision)
    BY <1>1, <1>4 DEF LoadFrom, Rehydrate
  <2>. HIDE DEF j, e
  <2>6. Later(e, j - 1) = HistoryFrom(s, j, n)
    BY <1>0, <2>3, LaterHistory DEF e
  <2>7. LoadFrom(s, Read(s, n), snapshot)
          = Replay(StateAfter(s, j, deployed), HistoryFrom(s, j, n), j - 1)
    BY <2>3, <2>4, <2>5, <2>6
  <2>. QED  BY <1>0, <1>4, <2>3, <2>7, ReplayFrom, LoadIs
<1>. QED  BY <1>2, <1>3, <1>4

-----------------------------------------------------------------------------
\* The steps.

LEMMA RehydrationInitInvariant ==
  ASSUME RehydrationInit
  PROVE  RehydrationInvariant
<1>1. streams = [s \in Stream |-> <<>>] /\ snapshots = {} /\ deployed = 1
  BY DEF RehydrationInit, LogInit
<1>2. \A s \in Stream : streams[s] = <<>> /\ DOMAIN streams[s] = {}
  BY <1>1
<1>3. schema \in [EventId -> Versions \cup {0}]
  BY DEF RehydrationInit
<1>4. <<>> \in Seq(EventId)
  OBVIOUS
<1>5. streams \in [Stream -> Seq(EventId)]
  BY <1>1, <1>4
<1>. QED  BY <1>1, <1>2, <1>3, <1>5, RehydrationAssumption
          DEF RehydrationInvariant, HistoriesAreSound, SnapshotsAreSound, IsInjective

\* What an append leaves of a stream's history, and what it adds to it.
LEMMA AppendKeepsHistories ==
  ASSUME RehydrationInvariant, NEW s \in Stream, NEW batch \in Batches, AppendEvents(s, batch)
  PROVE  /\ HistoriesAreSound'
         /\ \A t \in Stream : /\ Len(streams[t]) <= Len(streams'[t])
                               /\ \A i \in 1..Len(streams[t]) : streams'[t][i] = streams[t][i]
<1>. DEFINE old == streams[s]
<1>1. HistoriesAreSound
  BY DEF RehydrationInvariant
<1>2. batch \in Seq(EventId) /\ IsInjective(batch) /\ Range(batch) \cap Known = {}
  BY DEF AppendEvents, AppendBatch, Batches
<1>3. /\ streams' = [streams EXCEPT ![s] = @ \o batch]
      /\ schema' = [e \in EventId |-> IF e \in Range(batch) THEN deployed ELSE schema[e]]
      /\ deployed' = deployed
  BY DEF AppendEvents, AppendBatch
<1>4. old \in Seq(EventId) /\ streams' \in [Stream -> Seq(EventId)] /\ streams'[s] = old \o batch
  BY <1>1, <1>2, <1>3 DEF HistoriesAreSound
<1>5. \A t \in Stream : t # s => streams'[t] = streams[t]
  BY <1>1, <1>3 DEF HistoriesAreSound
<1>6. /\ Len(old) \in Nat /\ Len(batch) \in Nat /\ Len(old \o batch) = Len(old) + Len(batch)
      /\ \A i \in 1..Len(old) : (old \o batch)[i] = old[i]
      /\ \A i \in 1..(Len(old) + Len(batch)) :
           i \notin 1..Len(old) => /\ i - Len(old) \in 1..Len(batch)
                                 /\ (old \o batch)[i] = batch[i - Len(old)]
  BY <1>2, <1>4
<1>7. \A t \in Stream : /\ Len(streams[t]) <= Len(streams'[t])
                        /\ \A i \in 1..Len(streams[t]) : streams'[t][i] = streams[t][i]
  <2>1. \A t \in Stream : Len(streams[t]) \in Nat
    BY <1>1 DEF HistoriesAreSound
  <2>2. /\ Len(old) <= Len(streams'[s])
        /\ \A i \in 1..Len(old) : streams'[s][i] = old[i]
    <3>. HIDE DEF old
    <3>. QED  BY <1>4, <1>6
  <2>. QED  BY <1>5, <2>1, <2>2
<1>8. \A i \in 1..Len(batch) : batch[i] \in Range(batch)
  BY <1>2 DEF Range
<1>9. \A i \in 1..Len(old) : old[i] \in Known
  BY <1>4 DEF Known, Range
<1>10. \A i, j \in 1..Len(batch) : batch[i] = batch[j] => i = j
  BY <1>2 DEF IsInjective
<1>11. \A i, j \in 1..Len(old) : old[i] = old[j] => i = j
  BY <1>1, <1>4 DEF HistoriesAreSound, IsInjective
<1>12. IsInjective(streams'[s])
  <2>. DEFINE new == old \o batch
  <2>1. ASSUME NEW i \in 1..(Len(old) + Len(batch)), NEW j \in 1..(Len(old) + Len(batch)),
               new[i] = new[j]
        PROVE  i = j
    <3>. HIDE DEF new, old
    <3>0. /\ \A k \in 1..Len(old) : new[k] = old[k]
          /\ \A k \in 1..(Len(old) + Len(batch)) :
               k \notin 1..Len(old) => /\ k - Len(old) \in 1..Len(batch)
                                     /\ new[k] = batch[k - Len(old)]
      BY <1>6 DEF new
    <3>1. CASE i \in 1..Len(old) /\ j \in 1..Len(old)
      BY <1>11, <2>1, <3>0, <3>1
    <3>2. CASE i \notin 1..Len(old) /\ j \notin 1..Len(old)
      <4>1. i - Len(old) = j - Len(old)
        BY <1>10, <2>1, <3>0, <3>2
      <4>. QED  BY <1>6, <4>1
    <3>3. CASE i \in 1..Len(old) /\ j \notin 1..Len(old)
      BY <1>2, <1>8, <1>9, <2>1, <3>0, <3>3
    <3>4. CASE i \notin 1..Len(old) /\ j \in 1..Len(old)
      BY <1>2, <1>8, <1>9, <2>1, <3>0, <3>4
    <3>. QED  BY <3>1, <3>2, <3>3, <3>4
  <2>2. DOMAIN streams'[s] = 1..(Len(old) + Len(batch))
    BY <1>4, <1>6
  <2>. QED  BY <1>4, <2>1, <2>2 DEF IsInjective
<1>13. \A t \in Stream : IsInjective(streams'[t])
  BY <1>1, <1>5, <1>12 DEF HistoriesAreSound
<1>14. schema' \in [EventId -> Versions \cup {0}]
  BY <1>1, <1>3 DEF HistoriesAreSound
<1>15. ASSUME NEW t \in Stream, NEW i \in DOMAIN streams'[t]
       PROVE  schema'[streams'[t][i]] \in Versions
  <2>1. streams'[t][i] \in EventId
    BY <1>4
  <2>2. CASE streams'[t][i] \in Range(batch)
    BY <1>1, <1>3, <2>1, <2>2 DEF HistoriesAreSound
  <2>3. CASE streams'[t][i] \notin Range(batch)
    <3>1. i \in DOMAIN streams[t] /\ streams'[t][i] = streams[t][i]
      <4>1. CASE t # s
        BY <1>5, <4>1
      <4>2. CASE t = s
        <5>1. i \in 1..(Len(old) + Len(batch)) /\ DOMAIN old = 1..Len(old)
          BY <1>4, <1>6, <4>2
        <5>2. i \in 1..Len(old)
          BY <1>4, <1>6, <1>8, <2>3, <4>2, <5>1
        <5>. QED  BY <1>4, <1>6, <4>2, <5>1, <5>2
      <4>. QED  BY <4>1, <4>2
    <3>2. schema'[streams'[t][i]] = schema[streams[t][i]]
      BY <1>3, <2>1, <2>3, <3>1
    <3>. QED  BY <1>1, <3>1, <3>2 DEF HistoriesAreSound
  <2>. QED  BY <2>2, <2>3
<1>16. HistoriesAreSound'
  <2>1. deployed' \in Versions
    BY <1>1, <1>3 DEF HistoriesAreSound
  <2>. QED  BY <1>4, <1>13, <1>14, <1>15, <2>1 DEF HistoriesAreSound
<1>. QED  BY <1>7, <1>16

\* A state after some events stays what it was.
LEMMA AppendKeepsSnapshots ==
  ASSUME RehydrationInvariant, NEW s \in Stream, NEW batch \in Batches, AppendEvents(s, batch)
  PROVE  SnapshotsAreSound'
<1>1. snapshots' = snapshots
  BY DEF AppendEvents
<1>2. ASSUME NEW snapshot \in snapshots, snapshot.intact
      PROVE  LET t == snapshot.aggregate
                 n == snapshot.sourceRevision + 1
             IN  /\ t \in Stream /\ n \in 1..Len(streams'[t])
                 /\ snapshot.state = StateAfter(t, n, snapshot.schema)'
  <2>. DEFINE t == snapshot.aggregate
              n == snapshot.sourceRevision + 1
  <2>1. /\ t \in Stream /\ n \in 1..Len(streams[t])
        /\ snapshot.state = StateAfter(t, n, snapshot.schema)
    BY <1>2 DEF RehydrationInvariant, SnapshotsAreSound
  <2>2. /\ Len(streams[t]) <= Len(streams'[t])
        /\ \A i \in 1..Len(streams[t]) : streams'[t][i] = streams[t][i]
    BY <2>1, AppendKeepsHistories
  <2>3. Len(streams[t]) \in Nat /\ Len(streams'[t]) \in Nat
    BY <2>1, AppendKeepsHistories DEF RehydrationInvariant, HistoriesAreSound
  <2>. HIDE DEF t, n
  <2>4. n \in 1..Len(streams'[t]) /\ 1..n \subseteq 1..Len(streams[t])
    BY <2>1, <2>2, <2>3
  <2>5. StateAfter(t, n, snapshot.schema)' = StateAfter(t, n, snapshot.schema)
    <3>1. \A i \in 1..n : <<streams'[t][i], snapshot.schema>> = <<streams[t][i], snapshot.schema>>
      BY <2>2, <2>4
    <3>. QED  BY <3>1 DEF StateAfter
  <2>. QED  BY <2>1, <2>4, <2>5 DEF t, n
<1>. QED  BY <1>1, <1>2 DEF SnapshotsAreSound

LEMMA SnapshotIsTaken ==
  ASSUME RehydrationInvariant, NEW s \in Stream, TakeSnapshot(s)
  PROVE  SnapshotsAreSound'
<1>. DEFINE n == Len(streams[s])
            loaded == Load(Read(s, n))
            new == [aggregate |-> s, sourceRevision |-> loaded.revision, schema |-> deployed,
                    intact |-> TRUE, state |-> loaded.state]
<1>0. HistoriesAreSound /\ n \in Nat /\ n \in 0..Len(streams[s])
  BY DEF RehydrationInvariant, HistoriesAreSound
<1>1. /\ loaded.error = "none" /\ loaded.revision >= 0 /\ snapshots' = snapshots \cup {new}
      /\ streams' = streams
  BY DEF TakeSnapshot
<1>2. Readable(Read(s, n))
  BY <1>1 DEF Load
<1>3. loaded = [error |-> "none", state |-> StateAfter(s, n, deployed), revision |-> n - 1]
  BY <1>0, <1>2, LoadIs
<1>4. loaded.revision = n - 1 /\ loaded.state = StateAfter(s, n, deployed)
  BY <1>3
<1>5. /\ new.aggregate = s /\ new.sourceRevision = loaded.revision /\ new.schema = deployed
      /\ new.state = loaded.state
  BY Zenon
<1>. HIDE DEF n, loaded, new
<1>6. new.sourceRevision + 1 = n /\ n \in 1..n
  BY <1>0, <1>1, <1>4, <1>5
<1>7. \A t, k, v : StateAfter(t, k, v)' = StateAfter(t, k, v)
  BY <1>1 DEF StateAfter
<1>8. /\ new.aggregate \in Stream
      /\ new.sourceRevision + 1 \in 1..Len(streams[new.aggregate])
      /\ new.state = StateAfter(new.aggregate, new.sourceRevision + 1, new.schema)
  BY <1>4, <1>5, <1>6 DEF n
<1>9. ASSUME NEW snapshot \in snapshots', snapshot.intact
      PROVE  /\ snapshot.aggregate \in Stream
             /\ snapshot.sourceRevision + 1 \in 1..Len(streams[snapshot.aggregate])
             /\ snapshot.state
                  = StateAfter(snapshot.aggregate, snapshot.sourceRevision + 1, snapshot.schema)
  BY <1>1, <1>8, <1>9 DEF RehydrationInvariant, SnapshotsAreSound
<1>. QED  BY <1>1, <1>7, <1>9 DEF SnapshotsAreSound

LEMMA RehydrationStep ==
  ASSUME RehydrationInvariant, [RehydrationNext]_rehydrationVars
  PROVE  RehydrationInvariant'
<1>0. HistoriesAreSound /\ SnapshotsAreSound
  BY DEF RehydrationInvariant
\* The histories depend on three variables, the snapshots on two.
<1>1. ASSUME UNCHANGED <<streams, schema>>, deployed' \in Versions
      PROVE  HistoriesAreSound'
  BY <1>0, <1>1 DEF HistoriesAreSound
<1>2. ASSUME UNCHANGED streams,
             \A snapshot \in snapshots' : snapshot \in snapshots \/ ~snapshot.intact
      PROVE  SnapshotsAreSound'
  <2>1. \A t, k, v : StateAfter(t, k, v)' = StateAfter(t, k, v)
    BY <1>2 DEF StateAfter
  <2>. QED  BY <1>0, <1>2, <2>1 DEF SnapshotsAreSound
<1>3. ASSUME NEW s \in Stream, NEW batch \in Batches, AppendEvents(s, batch)
      PROVE  RehydrationInvariant'
  BY <1>3, AppendKeepsHistories, AppendKeepsSnapshots DEF RehydrationInvariant
<1>4. ASSUME NEW s \in Stream, TakeSnapshot(s)
      PROVE  RehydrationInvariant'
  <2>1. UNCHANGED <<streams, schema, deployed>>
    BY <1>4 DEF TakeSnapshot
  <2>2. HistoriesAreSound'
    BY <1>0, <2>1 DEF HistoriesAreSound
  <2>. QED  BY <1>4, <2>2, SnapshotIsTaken DEF RehydrationInvariant
<1>5. ASSUME NEW snapshot \in snapshots, Damage(snapshot)
      PROVE  RehydrationInvariant'
  <2>. DEFINE damaged == [snapshot EXCEPT !.intact = FALSE, !.state = <<>>]
  <2>1. UNCHANGED <<streams, schema, deployed>>
    BY <1>5 DEF Damage
  <2>2. \A x \in snapshots' : x \in snapshots \/ x = damaged
    BY <1>5 DEF Damage
  <2>3. damaged.intact => damaged \in snapshots
    OBVIOUS
  <2>4. HistoriesAreSound'
    BY <1>0, <2>1 DEF HistoriesAreSound
  <2>. HIDE DEF damaged
  <2>5. SnapshotsAreSound'
    BY <1>2, <2>1, <2>2, <2>3
  <2>. QED  BY <2>4, <2>5 DEF RehydrationInvariant
<1>6. ASSUME NEW v \in Versions, Deploy(v)
      PROVE  RehydrationInvariant'
  BY <1>1, <1>2, <1>6 DEF Deploy, RehydrationInvariant
<1>7. CASE UNCHANGED rehydrationVars
  <2>1. UNCHANGED <<streams, schema, deployed, snapshots>>
    BY <1>7 DEF rehydrationVars
  <2>. QED  BY <1>0, <1>1, <1>2, <2>1 DEF RehydrationInvariant, HistoriesAreSound
<1>. QED  BY <1>3, <1>4, <1>5, <1>6, <1>7 DEF RehydrationNext

\* The inductive invariant: streams repeat no event and snapshots are what
\* their aggregates were.
THEOREM SoundHistories == RehydrationSpec => []RehydrationInvariant
<1>1. RehydrationInit => RehydrationInvariant
  BY RehydrationInitInvariant
<1>2. RehydrationInvariant /\ [RehydrationNext]_rehydrationVars => RehydrationInvariant'
  BY RehydrationStep
<1>. QED  BY <1>1, <1>2, PTL DEF RehydrationSpec

\* What has been read loads exactly if the version that runs can upcast each
\* event, to the state after the last; whatever snapshot comes to hand,
\* rehydration gives what replay gives.
THEOREM Rehydrated == RehydrationSpec => []RehydrationIsReplay
<1>1. RehydrationInvariant => RehydrationIsReplay
  BY InvariantIsReplay
<1>. QED  BY <1>1, SoundHistories, PTL
=============================================================================
