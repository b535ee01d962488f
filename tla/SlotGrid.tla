------------------------------ MODULE SlotGrid ------------------------------
(***************************************************************************)
(* The grid of a day: which advertiser or fallback content each atomic     *)
(* slot shows, as buildDailySlotSchedule computes it from a list of        *)
(* advertisers and the institutional fallbacks, and the allocation of      *)
(* commercial slots to creatives that precedes it.                         *)
(*                                                                         *)
(* A slot identity is a tuple: <<id>> as the caller gave it, <<id, n>> for *)
(* `id#n` and <<actor, index>> for a fallback.                             *)
(***************************************************************************)
EXTENDS Integers, Sequences, FiniteSets, SequencesExt

CONSTANTS SlotCount,   \* atomic slots of a day (5760)
          SlotSeconds, \* length of an atomic slot (15)
          Available,   \* identities of the commercial slots a campaign has
          Media,       \* lists of creatives that may be planned
          Fallbacks    \* lists of institutional fallbacks

VARIABLE day  \* the day planned last: its inputs and what came of them

IsList(s) == Len(s) \in Nat /\ DOMAIN s = 1..Len(s)

\* The lab refuses other durations (requiredAtomicSlots) and other places
\* (parseDailySlotIndices), and names its slots unlike the fallbacks'.
ASSUME SlotGridAssumption ==
  /\ SlotCount \in Nat \ {0}
  /\ SlotSeconds \in Nat \ {0}
  /\ IsList(Available)
  /\ \A media \in Media :
       /\ IsList(media)
       /\ \A i \in DOMAIN media :
            media[i].seconds \in Nat \ {0} /\ media[i].start \in Nat \cup {-1}
  /\ \A fallbacks \in Fallbacks :
       /\ IsList(fallbacks)
       /\ \A k \in DOMAIN fallbacks :
            /\ fallbacks[k].actor \in {"MOSTARDA", "SPACE_OWNER", "INFLUENCER"}
            /\ \A i \in 1..Len(Available), j \in 0..(SlotCount - 1) :
                 Available[i] # <<fallbacks[k].actor, j>>

Position == 0..(SlotCount - 1)

MaxAdvertiserSlots == (SlotCount * 7) \div 10

Empty == [actor |-> "NONE"]

RequiredAtomicSlots(seconds) == (seconds + SlotSeconds - 1) \div SlotSeconds

\* The sum of the first n counts, for each n.
Sums(counts) ==
  LET sum[n \in 0..Len(counts)] == IF n = 0 THEN 0 ELSE sum[n - 1] + counts[n]
  IN  sum

\* The elements after the first `from`, up to the `to`-th.
Slice(s, from, to) == [a \in 1..(to - from) |-> s[from + a]]

\* allocateAtomicSlots: the items take the available identities in order, or
\* the call fails as a whole.
AllocateAtomicSlots(available, durations) ==
  LET required == [i \in DOMAIN durations |-> RequiredAtomicSlots(durations[i])]
      offset == Sums(required)
      total == offset[Len(durations)]
  IN IF ~IsInjective(available) \/ total > Len(available)
     THEN [error |-> "refused"]
     ELSE [error |-> "none",
           items |-> [i \in DOMAIN durations |-> Slice(available, offset[i - 1], offset[i])],
           remaining |-> Slice(available, total, Len(available))]

-----------------------------------------------------------------------------
\* An advertiser's item: [slotId, creativeId, campaignId, seconds, segments,
\* start], where segments is <<>> and start is -1 when they are omitted.

\* Mutant: the first slot of the run is free.
FitsAtItsStart(slots, start, count) ==
  /\ start + count <= SlotCount
  /\ count > 0 => slots[start] = Empty

Fits(slots, start, count) ==
  /\ start + count <= SlotCount
  /\ \A i \in start..(start + count - 1) : slots[i] = Empty

\* The first free run of slots at or after the cursor, -1 if there is none.
FindFirstFit(slots, from, count) ==
  LET starts == {s \in from..SlotCount : Fits(slots, s, count)}
  IN IF starts = {} THEN -1 ELSE CHOOSE s \in starts : \A r \in starts : s <= r

SegmentId(item, offset) ==
  IF item.segments # <<>> THEN item.segments[offset + 1]
  ELSE IF RequiredAtomicSlots(item.seconds) = 1 THEN item.slotId
  ELSE item.slotId \o <<offset + 1>>

AdvertiserSlot(item, offset) ==
  [actor |-> "ADVERTISER", slotId |-> SegmentId(item, offset),
   campaignId |-> item.campaignId, contentId |-> item.creativeId,
   offset |-> offset]

\* Where an item goes: to its own place or to the first fit.
StartOf(grid, item) ==
  IF item.start # -1 THEN item.start
  ELSE FindFirstFit(grid.slots, grid.cursor, RequiredAtomicSlots(item.seconds))

\* Why the next item of the list cannot be placed; "none" if it can.
Refusal(grid, item) ==
  LET count == RequiredAtomicSlots(item.seconds)
      start == StartOf(grid, item)
  IN IF item.slotId \in grid.identities THEN "DUPLICATE_ADVERTISER_SLOT"
     ELSE IF item.segments # <<>> /\ Len(item.segments) # count THEN "SEGMENTS_MISMATCH"
     ELSE IF grid.adverts + count > MaxAdvertiserSlots THEN "ADVERTISER_CAPACITY_EXCEEDED"
     ELSE IF start = -1 THEN "ADVERTISER_SLOT_CAPACITY_EXCEEDED"
     ELSE IF start + count > SlotCount THEN "ADVERTISER_SLOT_INDEX_INVALID"
     ELSE IF ~Fits(grid.slots, start, count) THEN "ADVERTISER_SLOT_POSITION_CONFLICT"
     ELSE "none"

\* One turn of the loop over the advertisers; the first error ends the build.
PlaceItem(grid, item) ==
  LET count == RequiredAtomicSlots(item.seconds)
      start == StartOf(grid, item)
  IN IF grid.error # "none" THEN grid
     ELSE IF Refusal(grid, item) # "none" THEN [grid EXCEPT !.error = Refusal(grid, item)]
     ELSE [slots |-> [i \in Position |-> IF i \in start..(start + count - 1)
                                        THEN AdvertiserSlot(item, i - start) ELSE grid.slots[i]],
           identities |-> grid.identities \cup {item.slotId},
           adverts |-> grid.adverts + count,
           cursor |-> start + count,
           error |-> "none"]

EmptyGrid ==
  [slots |-> [i \in Position |-> Empty], identities |-> {}, adverts |-> 0,
   cursor |-> 0, error |-> "none"]

\* Fallbacks: a sequence of [actor, contentId].
FallbacksAreValid(fallbacks) ==
  /\ fallbacks # <<>>
  /\ IsInjective([i \in DOMAIN fallbacks |-> fallbacks[i].actor])

\* The holes of the grid take the fallbacks in turn.
FallbackIndex(slots, i) == Cardinality({j \in 0..(i - 1) : slots[j] = Empty})

FallbackAt(slots, fallbacks, i) ==
  fallbacks[(FallbackIndex(slots, i) % Len(fallbacks)) + 1]

FallbackSlot(fallback, i) ==
  [actor |-> fallback.actor, slotId |-> <<fallback.actor, i>>,
   contentId |-> fallback.contentId, offset |-> 0]

FillHoles(slots, fallbacks) ==
  [i \in Position |-> IF slots[i] = Empty
                   THEN FallbackSlot(FallbackAt(slots, fallbacks, i), i) ELSE slots[i]]

\* The grid after the first n advertisers, for each n.
Grids(advertiser) ==
  LET grid[n \in 0..Len(advertiser)] ==
        IF n = 0 THEN EmptyGrid ELSE PlaceItem(grid[n - 1], advertiser[n])
  IN  grid

BuildDailySlotSchedule(advertiser, fallbacks) ==
  LET grid == Grids(advertiser)[Len(advertiser)]
  IN IF grid.error # "none" THEN [error |-> grid.error]
     ELSE IF ~FallbacksAreValid(fallbacks) THEN [error |-> "FALLBACKS_INVALID"]
     ELSE [error |-> "none", slots |-> FillHoles(grid.slots, fallbacks),
           adverts |-> grid.adverts]

-----------------------------------------------------------------------------
\* The multi-slot lab plans a day: a creative [creativeId, campaignId, seconds,
\* start] is allocated its slots, and becomes an item with them as segments.

Allocation(media) ==
  AllocateAtomicSlots(Available, [i \in DOMAIN media |-> media[i].seconds])

Items(media) ==
  [i \in DOMAIN media |->
    [slotId |-> Allocation(media).items[i][1], segments |-> Allocation(media).items[i],
     creativeId |-> media[i].creativeId, campaignId |-> media[i].campaignId,
     seconds |-> media[i].seconds, start |-> media[i].start]]

NoDay == [plan |-> [error |-> "no day"]]

GridInit == day = NoDay

PlanDay(media, fallbacks) ==
  /\ day = NoDay
  /\ Allocation(media).error = "none"
  /\ day' = [media |-> media, fallbacks |-> fallbacks,
              plan |-> BuildDailySlotSchedule(Items(media), fallbacks)]

GridNext == \E media \in Media, fallbacks \in Fallbacks : PlanDay(media, fallbacks)

GridSpec == GridInit /\ [][GridNext]_day

-----------------------------------------------------------------------------
\* What a day's grid has to be, said without the loop that builds it.

ContentOf(slots, actor) == {i \in Position : slots[i].actor = actor}

\* The item is shown whole, in consecutive slots and at its own place when it
\* asked for one.
IsPlaced(slots, item) ==
  LET count == RequiredAtomicSlots(item.seconds)
  IN \E start \in 0..(SlotCount - count) :
       /\ item.start \in {-1, start}
       /\ \A offset \in 0..(count - 1) : slots[start + offset] = AdvertiserSlot(item, offset)

\* Every item is, and nothing else of an advertiser is shown.
EveryItemIsPlaced(slots, advertiser) ==
  /\ \A k \in DOMAIN advertiser : IsPlaced(slots, advertiser[k])
  /\ Cardinality(ContentOf(slots, "ADVERTISER")) =
       Sums([k \in DOMAIN advertiser |->
               RequiredAtomicSlots(advertiser[k].seconds)])[Len(advertiser)]

\* The fallbacks share the rest of the day: their shares differ by at most one
\* and the order of the list decides who gets the odd slots.
FallbacksAreEqual(slots, fallbacks) ==
  \A k, l \in DOMAIN fallbacks :
    k < l => Cardinality(ContentOf(slots, fallbacks[k].actor))
               - Cardinality(ContentOf(slots, fallbacks[l].actor)) \in {0, 1}

AdvertisersAreCapped(slots) ==
  10 * Cardinality(ContentOf(slots, "ADVERTISER")) <= 7 * SlotCount

\* A playback is acknowledged under the identity of its slot alone.
IdentitiesAreUnique(slots) == IsInjective([i \in 1..SlotCount |-> slots[i - 1].slotId])

\* A day is planned whole or not at all: every creative is shown in full, at
\* its place, under slot identities no other slot of the day has, within the
\* advertisers' share, and the fallbacks share the rest equally.
PlannedDayIsSound ==
  day.plan.error = "none" =>
    /\ EveryItemIsPlaced(day.plan.slots, Items(day.media))
    /\ FallbacksAreEqual(day.plan.slots, day.fallbacks)
    /\ AdvertisersAreCapped(day.plan.slots)
    /\ IdentitiesAreUnique(day.plan.slots)
=============================================================================
