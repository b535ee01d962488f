# Verification of the Mostarda backend

TLA+ modules, TLC runs and TLAPS proofs for the TypeScript backend: its event
store, outbox, inbox, projection store, settlement and store of campaigns, the
kernel's replay, and the Edge with its runtime, playlists, daily schedule and
hardware records. `PROJECT.json` lists the components, runs, mutants, hazards,
findings and theorems, and maps every definition to the lines it stands for.

## The system

| Component | State | Operations | Interacts with |
|---|---|---|---|
| Event store (`persistence`, `persistence-postgres`) | event rows, outbox rows | `read`, `append` | PostgreSQL locks and unique keys; feeds the outbox |
| Outbox (`postgres-delivery-log`, `in-memory-event-store`) | lease, attempts and publication of each record, spent tokens | `claimOutbox`, `confirmPublished` | filled by `append`, drained by publishers |
| Inbox (`delivery-log`, `postgres-delivery-log`) | receipts, the tables effects write; in memory a promise per key | `consumeAtomically` | called by consumers of published events |
| Projection store | candidates, heads, invalidations | `stage`, `promote`, `invalidate`, `current` | fed by `rebuildProjection` from the event store |
| Settlement | cycles, split results, rights, journal, ledger | `settleEvidence`, `settleEvidencePersisted`, `save` | reads evidence; SQL triggers check its rows |
| Kernel | none of its own | `replay`, `rehydrate`, `upcastEvent`, `rebuildProjection`, envelopes | reads streams and snapshots its callers keep |
| Governance | a machine and its transitions | `evolveGovernanceMachine` | pure |
| RealEdgeRuntime (`edge-runtime`) | `#state`, the JSON state file, its temporary file | `start`, `sync`, `playCached`, `flush` | Cloud API over HTTP; local content servers call it |
| Playlist runtime | one RealEdgeRuntime per slot | `start`, `sync`, `playSlot`, `flush` | RealEdgeRuntime, single-slot store |
| Daily schedule, content server, Player | schedule snapshot, emitted playback keys | `replace`, `POST` of schedules and playbacks, the Player's loop | Cloud control plane, playlist runtime |
| Cloud API (`cloud-api`) | telemetry, PlaybackEvents, campaigns, slots, creatives, assignments | `/v1/edge/*`, `/e2e/*`, demo routes, readiness | Edge runtimes |
| E2E slice | the simulated Edge's queues | `start`, `sync`, `playCached`, `flushTelemetry` | demo routes of the Cloud |
| Discovery, profiles, compatibility, validation | JSON papers that others keep | compose, seal, profile, evaluate, validate | each reads what the former wrote |
| Telemetry vocabulary, artifact authorization, configuration, adapters, migrations | none or files | build records, read configuration | pure, or I/O |

What is hard in it, and what makes each part correct:

- **Event store.** Appends race on a stream's revision and on event ids. A
  batch writes two rows per event; any statement can fail; a commit can take
  effect without its answer. Correct: the history of a stream is gapless and
  linear, outbox and history agree, success means stored, every call ends.
- **Kernel.** Versions of the program are deployed and rolled back over streams
  and snapshots others have written, and a version may lack an upcaster. Correct: a
  history is loaded whole or refused, and a snapshot never changes what is loaded.
- **Outbox.** Claims race; publishers die or outlive their leases; tokens can be
  reused. Correct: two running leases never cover one record, and a record is
  settled by the lease it is under, once.
- **Inbox.** Deliveries repeat and race, effects fail half way. Correct: effect
  and receipt are committed together, at most once, and every later answer
  agrees with them.
- **Projection store.** Promotions and invalidations of one projection race, and
  a rebuild may be both promoted and invalidated. Correct: an invalidated rebuild
  is never current, an older one never replaces a newer one, and what a caller was
  told holds.
- **Settlement.** Settlements of one evidence race and are repeated, amounts are
  split by basis points and rounded, and triggers check the rows that result.
  Correct: an evidence is settled once and for good, every answer agrees with what
  is stored, the split is exact and fair, and the schema refuses only what has an
  empty text.
- **Edge runtime.** Calls interleave at every `await` over one `#state`;
  the Cloud goes away, an answer is lost, a write fails, the process restarts.
  Correct: an acknowledged playback is never lost, is sent under one identity,
  and reaches the Cloud.
- **Playlists and campaigns.** An Edge keeps a manifest for ever while campaigns
  are edited. Correct: what it has fetched stays true, and the Cloud attributes
  each playback to what its slot is assigned.
- **Daily schedule.** Commands come late, twice and out of order, the Player asks
  again after every failure, and the local clock repeats an hour. Correct: a
  schedule never goes back, and a playback is reported once, for the slot that was
  shown.
- **Hardware records.** The papers are kept by others between the calls. Correct:
  a requirement is satisfied only by evidence, and a validation is about one
  untouched discovery.

## Modules

A `*Proofs` module has the theorems of one component or of a few. Components that
share no variable are joined in one `MC*` module where one of them moves while the
others rest in their initial states: each is then explored exactly as alone.
`EventStore` and `Playlist` are run as they are.

| Module | Models |
|---|---|
| `EventLog` | the atomic compare-and-append both event stores promise (the in-memory `append`, which has no `await`) |
| `EventStore`, `EventStoreProofs` | `PostgresEventStore.append`, one action per SQL statement |
| `Rehydration`, `RehydrationProofs` | `replay`, `rehydrate` and `upcastEvent` over an `EventLog` |
| `OutboxLease` | the indivisible claim and confirmation (the in-memory calls) |
| `Outbox` | `claimOutbox` and `confirmPublished` on PostgreSQL, and publishers around them |
| `ExactlyOnce` | at most one effect per event |
| `DeliveryLog` | the keys and digests `consumeAtomically` is called with |
| `Inbox` | `consumeAtomically` on PostgreSQL, one action per SQL statement |
| `MemoryInbox` | `consumeAtomically` in memory, one action between two awaits |
| `DeliveryLogProofs` | theorems about `Inbox`, `Outbox` and `MemoryInbox` |
| `ProjectionHeads` | `stage`, `promote`, `invalidate` as single steps (the in-memory store) |
| `ProjectionStore`, `ProjectionProofs` | the same calls on PostgreSQL, one action per SQL statement |
| `Settlement` | the split policy, the allocation by largest remainders and what `settleEvidence` makes of them |
| `SettleOnce` | a store that settles each evidence once (the in-memory store) |
| `SettlementStore`, `SettlementProofs` | `settleEvidencePersisted` over the PostgreSQL store, table by table |
| `EdgeRuntime`, `EdgeRuntimeProofs` | `start`, `sync`, `playCached`, `flush`, the JSON storage and the Cloud's accept calls |
| `SimulatedEdge` | the demonstration slice: the simulated Edge against the demo routes |
| `CampaignRegistry` | a registry of campaigns, slots, creatives and assignments that is written once |
| `CampaignStore` | the single-slot store in memory and on PostgreSQL |
| `Playlist` | `EdgePlaylistRuntime` over `CampaignStore` |
| `DailySchedule` | the schedule store, the content server and the Player |
| `SlotGrid` | the planning of a day: `allocateAtomicSlots`, `buildDailySlotSchedule` |
| `MultiSlotProofs` | theorems about `DailySchedule`, `Playlist` and `SlotGrid` |
| `HardwareRecord` | discovery, intake, sealed record, profile, evaluation and validation |
| `EdgeProofs` | theorems about `SimulatedEdge` and `HardwareRecord` |
| `MCInbox`, `MCEdgeRuntime` | one component for TLC |
| `MCRebuild` | `ProjectionStore` and `Rehydration` |
| `MCDeliveryLog` | `Inbox`, `Outbox` and `MemoryInbox` |
| `MCEdge` | `EdgeRuntime` and `DailySchedule`, with fairness |
| `MCSettlementStore` | `SettlementStore` and `SimulatedEdge` |
| `MCMultiSlot` | `DailySchedule`, `SlotGrid`, `Playlist` and `HardwareRecord` |

### EventStore

`events` and `outbox` are the committed rows, `lock` the advisory locks; for
each writer `pc` is the next statement of its transaction, `call` the arguments,
`eventsIn` and `outboxIn` how many rows it has inserted but not committed,
`outcome` how the call ends. `Begin` is the call and `BEGIN`; `LockStream`,
`ReadRevision`, `InsertEvent`, `InsertOutbox`, `Commit` and `Rollback` are the
statements in the order of the code; `ConnectionLost`, `DeadlockAbort` and the
two outcomes of `Commit` are what PostgreSQL and the network add. An `INSERT`
whose unique key another transaction has in flight waits for it, which is how
batches that share event ids can deadlock across streams.

### Rehydration

`streams` is the abstract log, `schema` the version each event was written by,
`deployed` the version that runs (`Deploy` rolls forward and back), `Upcasters` the
ones each version has, in which a step may be missing or skipped, `snapshots`
whatever snapshots lie about: `TakeSnapshot` keeps one of the present, `Damage`
alters its content, and each is offered to every stream. `Upcast`, `Replay` and
`Rehydrate` are the kernel's functions; the caller (upcast, then rehydrate with a
snapshot of its own schema) is the one the kernel's tests play. A state is the
sequence of what was applied, so that equal states are equal in everything.

### Outbox

`record` and `spent` are the committed rows of `event_store_outbox` and
`event_store_outbox_claims`; a publisher's `token` and `now` are its claim's,
`locked` the rows its open transaction has updated, `held` the events the claim
returned, `sent` what the broker has received. `now` is read when the claim is
built, so it is old by the time the statements run. The attempt counter and the
lease owner, which decide nothing, are left out. No relay is in the repository:
`Send` and the order send-then-confirm are those of the tests and external.

### Inbox

`receipt` are the committed receipts, `effects` the committed effects of each
key in order, `effectIn` and `receiptIn` what an open transaction has done.
`InsertReceipt` joins the `INSERT ... ON CONFLICT DO NOTHING` with the `SELECT`
after a conflict, because receipts never change. `CommitDuplicate` commits
whatever effect the transaction has run, as the code does at line 261.
`TextAcceptsNul` says whether the server takes the U+0000 the lock key holds:
PostgreSQL does not, which is a finding; with TRUE the model is the protocol as
it is meant, which is what the other properties are about. A result travels
through JSONB; "the same result" is the same up to that.

### MemoryInbox

`records` are the receipts, `pending` the keys that have a promise. Once the key
is free a delivery is answered by the receipt (`Answer`) or sets the promise and
runs the effect (`Enter`); `Resolve`, `Reject` and `CloneFails` are its three ends.
A waiter that wakes looks again (the `while` loop), which keeps two of them from
entering together.

### ProjectionStore

`staged`, `head` and `invalidated` are the committed rows of the three tables,
`lock` the advisory lock of each projection; each caller has its `kind` of call,
its argument `call`, the `writes` of its open transaction and the `outcome`.
`promote` runs `LockProjection`, `ReadCandidate`, `ReadTombstone`,
`DecidePromotion`, `UpsertHead`, `Commit`; `invalidate` runs `LockProjection`,
`DecideInvalidation` and then `DeleteHead`, `InsertInvalidation` or
`ReadTombstone`, and `Commit`. `Write` only notes what has been written:
`Commit` makes it visible. A rebuild is its identity and its checkpoint, which
stands for the rest of its content (both are compared whole, and the checkpoint
is what the code decides on). `stage` is one statement and one step.

### Settlement and SettlementStore

`Settlement` has no state: `calculateSplit` gives the basis points of the seven
lines, `allocateMoney` their amounts (a line gets one of the remaining units for
every time its `Position` comes up), `Materialization` the cycle with shares,
rights, journal and ledger. Amounts are whole units of a ten-thousandth.

`settled` are the committed settlements, whole: the cycle's row and the rows under
it are committed together and never change. A caller computes its `result`
(`Begin`), looks for a settlement (`FindByEvidence`), and saves: `InsertCycle`
waits for a cycle in flight or goes on to `Replay`, `InsertRows` inserts the rows
of one table at a time with `RowsAreValid` for the row checks, `Commit` runs the
deferred `IsComplete`. `ON CONFLICT` names the key of campaign and evidence only,
so that a cycle which arrives meanwhile is met at the primary key
(`MeetPrimaryKey`, `PrimaryKeyIsFree`) and refused there. `settleEvidence` looks at no
identity and no payee: an empty one (`Nameless` evidences, a payee `""`) is met by the
checks of the tables, those of the cycle in `RefuseCycle`, before any key. `GrossLimit`
is the limit of `DECIMAL(18,4)`, which `parseMoney` enforces (`IsEligible`).

### EdgeRuntime

`mem` is `#state`, `disk` and `tmp` the state file and its temporary file. Each
operation has its own `pc` (the `await` it is at), `local` (the state it read,
then the one it saves), `rest` (what a flush has still to send). Code between
two awaits is one action: `Start`, `ReadState`, `Play`, `ApplyManifest`,
`Collect`, `FinishFlush`; the awaits are `ReadFile`, `Fetch`, `Deliver`,
`WriteFile`, `RenameFile`. `withRetry` adds nothing but repetition: a request
that fails is either repeated while the Cloud is back, or the call gives up.
The content of a record is its `stamp`, the call it was made by; its identity
is its type, manifest version and sequence number. `TelemetryCompared` tells the
two Cloud stores apart: the in-memory one refuses telemetry that repeats an id
with other content, the PostgreSQL one keeps the first.

### SimulatedEdge

`queuedTelemetry` and `queuedEvidence` are the queues, `flush` the copy each running
`flushTelemetry` sends, one `Post` at a time; `FinishFlush` removes as many
records from the front as the copy had. `FetchManifest` and `FetchAsset` are the
two requests of `sync`. Flushes may overlap. `shared` says whether a clock was passed to
the constructor, which all plays then read and move on (`reading`); otherwise each play
has one that starts at the same instant. Two plays have the same identities: with a
shared clock the Cloud refuses the second's for ever.

### CampaignStore and Playlist

`campaigns`, `slots`, `creatives` and `assignment` are the rows, `plays` the
PlaybackEvents. `backend` chooses the implementation: in memory
`AssignInMemory` is the whole call; on PostgreSQL `FindSlot`, `FindCreative`,
`CompareExisting`, `InsertAssignment` and `ReadManifest` are its five
autocommitted statements. The other calls write one statement.

`Playlist` adds the Edge: `runtimes` and `client` are the runtimes in memory and
the manifest each was created with, `cached`, `produced`, `queue` and `synced` are
on disk. `SyncBegin` fetches the manifests, `SyncSlot` goes through them one by
one, `SyncFails` stops half way; `PlaySlot` queues a playback; `FlushAll` and
`FlushFails` send the queues of the runtimes in order; `EdgeRestart` forgets what
is in memory.

### DailySchedule

`snapshot` is the schedule in force, `preparing` the commands whose
`beforeScheduleReplace` is awaited, `emitted` the keys of playbacks taken,
`playing` the reports whose `onPlayback` is awaited. `PostSchedule`,
`ApplySchedule`, `RejectSchedule` are the command; `LoadEntry`, `BeginShow`,
`EndShow`, `RetryShow`, `Abandon`, `NextSlot` the Player's loop; `PostPlayback`,
`PostDuplicate`, `PlaybackRecorded`, `PlaybackFails`, `ConnectionLost` the report
of what was shown. `Tick` moves the clock, `Restart` the Edge process. `now`
counts slots since the start and `LocalTime` reads the wall clock, which may read
the same twice.

### SlotGrid

`PlanDay` is the whole computation: creatives take their slots in order
(`PlaceItem`, at their own place or at the first fit), the fallbacks take turns
in the rest (`FillHoles`), a refusal refuses the day. What a day must be is said
without the loop (`PlannedDayIsSound`).

### HardwareRecord

`paper` is the discovery record as it is kept, `sealed` the records as they were
sealed, `profile` the candidate profile, `issued` the last evaluation or
validation. `SealIntake` and `ComposeAndSeal` make a record,
`CreateHardwareProfile` a profile of it, `EvaluateHardwareCompatibility` and
`CreateHardwareValidation` read both; `Alter` and `AlterProfile` are what may
happen to papers in between. A digest is the content it covers. An intake comes with
facts, declared conflicts and missing requirements of its own, which need not fit the
facts; `ComposeAndSeal` adds to them what it correlates and what the collector did not
get (`NotCollected`, `StillMissing`). HC-004, HC-005 and HC-018, which the evaluator
reports satisfied as constants, are not among the requirements.

## Runs

| Run | Instance | Shows |
|---|---|---|
| `event_store` | 2 writers, 2 streams, 2 event ids, batches up to 2, expected revisions -1..0, with fairness; 212 587 states | the safety properties, `ImplementsEventLog` and `AppendsTerminate` |
| `delivery_log` | inbox: 3 workers, 2 keys, 2 digests, 2 results; outbox: 2 publishers, 2 events, 3 tokens, instants 0..2, leases of 1, claims of 1; in memory: 2 deliveries, one key whose result cannot be cloned; 188 950 states | effects, receipts and answers agree, the lease properties, `ImplementsExactlyOnce` twice and `ImplementsLease` |
| `edge_runtime` | calls in sequence, 2 playbacks, 2 syncs, a crash and a failed write, any outages; the Player over 2 days of 2 slots with 2 commands and a restart; 265 059 states | nothing acknowledged is lost, everything is delivered, the Player goes on |
| `rebuild` | projections: 2 callers, 1 projection, 3 rebuild identities with checkpoints 0 and 1; kernel: 3 events of 4 versions in 2 streams, one snapshot, a version that lacks one upcaster and has another that skips; 449 141 states | heads, tombstones and answers agree, checkpoints advance, `ImplementsProjectionHeads`; what can be read is loaded, and a snapshot never changes it |
| `settlement_store` | 2 callers, 2 evidences with one cycle identity and one with an empty identity, replays, divergent payees and amounts, an empty payee, an amount of zero and one beyond the limit, objections; one caller alone with every amount up to 100 and every split; the demonstration Edge with overlapping flushes, with its own clocks and a shared one; 501 470 states | evidences are settled once (`ImplementsSettleOnce`), answers agree, splits are exact and fair, only empty texts are refused; what the simulated Edge produces is kept |
| `multi_slot` | 3 slots a day, one local time read twice, 3 commands, a restart; days of 10 slots with up to 3 creatives of 2 or 3 slots; 2 slots, 2 creatives, 2 assigning calls, one playback of each slot, a restart; 2 discoveries with 2 kinds of facts; 267 140 states | schedules, reports, plans, assignments, playlists and hardware records, and `ImplementsRegistry` |
| `event_store_duplicate` | 1 writer | violation: the conflict names the wrong event |
| `inbox_lock_key` | 1 worker, U+0000 refused | violation: the lock statement fails |
| `edge_overlap` | 2 overlapping calls | violation: an acknowledged playback is lost |
| `edge_resync` | in-memory Cloud store | violation: a second sync queues a record that is refused for ever |
| `playlist_restart` | 1 slot, 1 restart | violation: a playlist on disk cannot be played |
| `settlement_race` | 2 callers, each evidence with a cycle identity of its own | violation: a racing settlement is refused by the primary key |

**Bounds.** Two writers and two streams with two shared ids are the smallest instance
with a conflict on a revision, on an id across streams, and a deadlock (opposite orders
of two ids). With two ids no append that expects more than one event (`MaxLength`) can
succeed; the proofs cover longer streams. Three events of four versions let a stream
hold events older and newer than the version that runs, with a snapshot taken between
them, and the last version cannot read those of the first. Two publishers and three
tokens let a lease run out, be taken over and the old owner come back, with a token to
reuse; a third instant after a lease of one is what a takeover needs. Three workers let
a race be decided while a third delivery waits; in memory two deliveries that come again
and again do. Three identities and two checkpoints let a rebuild be replaced by an equal
and by a later one while another is invalidated; projections share no rows and no locks,
so one is enough for TLC and the proofs cover any number. A settlement's basis points
are multiples of 100, so that the remainders, and what is given out for them, repeat
with every 100 units: amounts from 1 to 100 with the 45 distinct splits are all cases of
the arithmetic. Two evidences with one cycle identity and two callers meet both of its
keys in either order. On the Edge, two playbacks with a flush between them reach a
sequence number given before and after an empty queue; two syncs repeat a manifest; one
crash with one failed write is where an unsaved state can be lost. Of the schedule's
commands one repeats the first in other words, two disagree under one revision. Ten
slots hold 7 of advertisers, so that creatives of 2 and 3 slots reach the cap, collide
and leave gaps. Two slots with two racing assignments of two creatives meet every order
of the five statements.

**Fairness.** `event_store`: strong fairness of each writer's statements. PostgreSQL
runs each statement that can run, grants a lock or a key that is released again and
again in queue order, and its deadlock detector breaks every cycle. `edge_runtime`: a
call that has begun goes on (weak, the event loop and the file system), and `flush` is
called again and again (strong: the scripts and the content server call it repeatedly,
between other calls); a playback the Player posts is answered and `onPlayback` settles
(weak), while nothing is assumed of the clock or of those who send commands.
`PlaybacksAreDelivered` supposes, in its statement, that the Cloud is reachable from
some time on, and no failed write; `PlayerGoesOn` that the slot shown stays in the
schedule.

**Exclusions.** Some properties name in their statement a case in which the code
does not have them, and the hazards say so: `AcknowledgedIsReported` a key the
local clock reads twice (the second slot counts as the first), `PlayerGoesOn` a
slot that an update removes (the Player's loop has no end), `ProducedIsKept`
flushes that overlap (and it does not say that what is kept arrives: with a clock that
all plays read the second play is refused for ever, which no caller in the repository
meets), `AnswersAreAsAsked` an assignment that another call overtakes
on PostgreSQL, `MemoryImplementsExactlyOnce` results that `structuredClone`
refuses, and the properties of `edge_runtime` failed writes (a failed write
followed by a delivery and a crash lets two playbacks share an id).

## Findings

1. `DuplicateEventConflict` of the PostgreSQL store carries the first id of the
   batch, not the duplicate (`event_store_duplicate`).
2. The inbox's lock key holds U+0000, which PostgreSQL refuses
   (`inbox_lock_key`).
3. Overlapping calls of the Edge runtime lose acknowledged playbacks
   (`edge_overlap`).
4. A second sync of one manifest, or a repeated flush, queues telemetry that the
   in-memory Cloud store refuses for ever, and the playbacks behind it
   (`edge_resync`).
5. After a restart no cached playlist can be played before a synchronisation,
   although the comment over `start` says it can (`playlist_restart`).
6. Of two racing settlements of one evidence one may fail with a key violation, where
   the tests of the store expect the settlement or the divergence
   (`settlement_race`); a call after the race gets its answer.

## Proofs

Each proof holds for every value of the constants that satisfies the module's
assumption, which TLC evaluates in the runs: `EventStoreAssumption`,
`RehydrationAssumption` (any upcasters in each version), `InboxAssumption`,
`OutboxAssumption`, `MemoryAssumption` (no digest is the absent one),
`ProjectionStoreAssumption`, `GrossLimitAssumption`, `SettlementStoreAssumption`,
`DailyScheduleAssumption`, `SlotGridAssumption` (durations and places the lab accepts,
and commercial slots named unlike those of the fallbacks, as the lab names them),
`CampaignStoreAssumption`, `EdgeRuntimeAssumption` and
`RequirementsAreOfFacts` (what a requirement asks for are kinds of facts).

`EventStoreProofs`, for any writers, streams, ids and bounds:

- `TypeCorrectness`, `ContiguousHistory`, `AtomicOutbox`, `DeclaredErrors`: the
  properties of the run of the same meaning. None is inductive: that a revision
  is free when it is inserted follows from the lock being held since the
  comparison (`LockIsHeld`), the stream still ending where the comparison found
  it (`RevisionIsCurrent`), and how many rows each statement finds inserted
  (`BatchProgress`). `HistoryInvariant` is their conjunction; `HistoryInitial`
  and `HistoryStep` establish it, one case per action.
- `StoreInvariantHolds` adds that event ids are unique among committed rows and
  rows in flight, which the unique key's waiting provides.
- `Refinement`: `Spec => ImplementsEventLog`. A commit maps to `AppendBatch`,
  every other step to a stutter; the committed rows of a stream read as the
  sequence of their ids because their revisions are an initial segment.
- `StoredAppends` (`AppendedIsStored`): the rows of a batch are its own from their
  insertion to the COMMIT, only a call that has committed answers "appended", and
  committed rows stay.

`RehydrationProofs` proves `Rehydrated` (`RehydrationIsReplay`) for any streams,
versions, upcasters, snapshots and events: a history is loaded exactly if none of its
events lacks a step of its chain (`ReadableIs`), to the state after the last of them,
and a snapshot changes nothing. The invariant (`SoundHistories`) says that streams
repeat no event and that an intact snapshot is what its aggregate was at its revision,
whatever has been appended and deployed since. `replay` is a fold: `ReplayFrom` says
what it comes to, from any state, over histories of any length (from `RunExists`, a
function over the events taken so far, and the absence of a first place where it goes
wrong, which is how induction on a number is done without an induction theorem).
`LaterHistory` says that what follows a snapshot's revision is just what it lacks.

`DeliveryLogProofs` is about the three sides of the delivery log. Of the inbox it
proves `TypeCorrectness`, `EffectOnce`, `RightAnswers` and
`Refinement` (`ImplementsExactlyOnce`) for any workers, keys,
digests and results. `InboxInvariant` adds to the properties that a delivery holds
the lock of its key while it is past it (`LockIsHeld`), what it has done by each
statement and that the receipt it found missing is still missing
(`TransactionProgress`), and that an answer is fixed once given (`OutcomeIsLast`).
Without the lock the second of these fails: that is the mutant of
`EffectsMatchReceipts`.

Of the inbox in memory it proves `MemoryRefinement` (`MemoryImplementsExactlyOnce`)
for any deliveries and keys: of the deliveries of a key one at most runs its effect,
and as long as it does the key is pending and has no receipt (`EffectIsAlone`).

Of the outbox it proves `ExclusiveLeases`, `UniqueTokens`, `PublishedByItsLease` and
`LeaseImplementation` (`ImplementsLease`) for any publishers, tokens, limit and
lease and any finite set of events. `OutboxInvariant` adds that a claim's token is
not spent up to its COMMIT and spent after it (`ClaimTokens`; two open transactions
never insert one), that the rows it has locked are still as it selected them
(`LocksHold`), and that a row a publisher holds is leased to it or its lease is over
(`HeldIsLeased`). `FirstIsBounded` says that `ORDER BY ... LIMIT` takes no more rows than
the limit: those it takes have a last one, because a finite set of numbers is
well-founded downwards.

`ProjectionProofs` proves `TypeCorrectness`, `ValidHeads`, `AcknowledgedCalls`,
`AdvancingCheckpoints` (an action property) and `Refinement`
(`ImplementsProjectionHeads`) for any callers, projections, generations and
checkpoints. `StoreInvariant` adds that a transaction past its first statement
holds the lock of its projection, that what it has read is still so
(`Progress`: every other transaction is about another projection, `SameView`),
and that there is one candidate of an identity. `CommitCases` says what a COMMIT
does to the tables; the properties and the refinement follow from it.

`SettlementProofs` proves `TypeCorrectness`, `RightAnswers`
and `Refinement` (`ImplementsSettleOnce`) for any callers, evidences, cycle
identities and offers. Its
`StoreInvariant` adds that one open transaction at most has inserted a cycle
identity (`KeyIsExclusive`) and that the identity is not taken as long as it is open
(`Progress`): a COMMIT then stores into a place that was free.

What a settlement is made of has its own theorems. `AllocationIsExactAndFair` is
about `allocateMoney` alone: for any amount and any basis points that add up to
the whole, the shares add up to the amount, each is what is due or the unit
around it, and a line that was rounded up had a larger remainder than one that was
not. It rests on two ways of counting the remaining units: as what the
quotients leave (`FewRemain`: fewer than there are lines) and as the first
places of the order by remainder (`PlacesFollowTheOrder`, `PlacesAreTaken`). With
it `FairSplits` (`SplitsAreFair`) says the same of what is stored, and
`SchemaRefusals` (`OnlyEmptyTextsAreRefused`) that the checks and triggers of the
schema, table after table (`InsertedSoFar`), refuse only what has an empty identity or
payee, and let none of that be stored.

`MultiSlotProofs` is about the schedule, the playlists and the grid. Of the schedule it
proves `AcceptedCommands`, `SingleReports` and `ReportedAcknowledgements` for any
commands, day and clock. For the first, `CommandInvariant` needs only that the
snapshot's revision never falls, and that equal revisions come with equal fingerprints.
For the others `PlayerInvariant` adds that the marked keys are those of the reports
(`KeysMatchReports`), and that a report is of the entry the Player shows or of one whose
slot it has left (`ReportsAreOfEntries`): an answer "deduplicated" for an entry is then
about that entry, unless the clock has read its time before.

Of the playlists it proves `StoredAnswers`, `AttributedPlays`, `AcceptableEvents` and
`RegistryImplementation` (`ImplementsRegistry`) for any campaigns, slots, creatives,
calls and restarts, on both backends. The store writes each row once (`StoreCases`);
so what a call has found is still so (`CallProgress`), whatever an Edge has fetched,
however long ago, is as the Cloud has it (`ManifestsHold`), and slot and sequence
number determine a playback (`PlaysHold`). Nothing that stale clients, restarts or
flushes that stop half way do can then queue an event that is refused.

Of the grid it proves `SoundDays` (`PlannedDayIsSound`) for any creatives, any
fallbacks and any number and length of the slots. The two loops are recursive
functions over the turns so far, which `StepsExist` shows to exist and `UpTo`
follows to the end. The allocation gives each creative as many identities as it
has slots and none of another's, since the sums of the counts grow (`SumsGrow`,
`ItemsAreAllocated`). The invariant of the loop over the advertisers
(`GridIsSound`, kept by `PlaceIsSound`) is that the items so far are placed, that
the slots taken are theirs and as many as `adverts` counts, and that no two have one
identity: an item goes where all is free, so that what is placed stays
(`StaysPlaced`). For the fallbacks, the slots that fall to one among the first holes
are counted hole by hole (`NextTurn`): those of an earlier fallback are as many as
those of a later one, or one more while the turn is between them (`TurnsAreEqual`).

`EdgeRuntimeProofs` proves `KeptPlaybacks`, `AdvancingSequence` and
`AcceptedRecords` for any playbacks, synchronisations, manifests, outages, crashes
and failed writes. Each supposes `OneCaller`, that calls follow each other: with two
overlapping calls the first fails (`edge_overlap`); `AcceptedRecords` also supposes
the Cloud store that keeps the first telemetry, since with the other it fails
(`edge_resync`). `RuntimeInvariant` says that a call works on the newest state there
is (`local` is `#state`, what start has read is the file), that going on from `#state`
or from the file loses nothing acknowledged (`GoesOn`), and that a flush still has to
send what it is about to remove and the Cloud does not have (`ProgressOf`). For the
identities `IdentityInvariant` adds that nothing is sent which the file does not
have, so that a restart does not give its sequence number again; a failed write
breaks just this.

`EdgeProofs` is about the demonstration and the papers of the hardware. `KeptRecords`
(`ProducedIsKept`) holds for any number of flushes as long as no two have overlapped,
whichever clock the plays read: a flush that runs alone has sent, or has still to send,
what it is going to remove (`Covers`). `EvidencedRequirements` (`SatisfiedIsEvidenced`)
and `OneDiscovery` (`ValidationsAreOfOneDiscovery`) hold for any facts and requirements
and whatever happens to the papers: what has the hash of a sealed record and passes the
integrity check is that record, because the hash covers all the rest
(`RecordsAreSealed`, `PaperWasSealed`, `ProfileWasMade`).

Only model-checked: the liveness properties `AppendsTerminate`,
`PlaybacksAreDelivered` and `PlayerGoesOn`; fairness and ENABLED are beyond the
prover.

## Not modelled

`PROJECT.json` lists every component with its status. Left out:

- **Rebuilds and candidate validation.** `rebuildProjection` is a pure fold like
  `replay`, which `Rehydration` has; the canonical JSON form is a conversion
  without state.
- **Governance.** One table of transitions over an immutable value: each property
  would restate the table.
- **Cloud API server.** The routes whose answers decide what a caller does next
  are in `CampaignStore`, `SimulatedEdge` and `EdgeRuntime`. Parsing, the rest of
  the routing, and the readiness probe shared by concurrent requests are not: all
  the probe promises is its timer.
- **RealEdgeRuntime.** Health, diagnostics and the queue of the legacy evidence;
  what the edge store publishes is fixed.
- **Content servers over a runtime.** They pass requests on.
- Envelopes, errors and command results, telemetry vocabulary, artifact
  authorization, Edge configuration, local content and hardware adapters, the
  migrations runner: constructors, checks of fields, and I/O.

Within what is modelled, amounts are whole units of a ten-thousandth (their parsing
and formatting are left out), digests have no
collisions, and identifiers and instants are left out where nothing is decided on
them.

Every hazard has a property, but not every property rules its hazard out: the notes in
`PROJECT.json` say what is left. The call whose COMMIT was lost ends failed; nothing
says that a publisher comes for a record whose lease is over; the faults behind the
exclusions above stay; a failed `onPlayback` counts as reported; an older rebuild may
follow an invalidation; of two evidences with one cycle identity the second can
never be settled.

## Plan

1. The safety lemmas the three liveness arguments rest on: which statement a waiting
   append waits for, what a flush still has to send.
2. Theorems about the transactions of the settlement store beyond their outcome: the
   lines and rights that a COMMIT makes visible together.
3. The readiness probe, if it comes to share more than its timer.
