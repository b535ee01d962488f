---------------------------- MODULE MCMultiSlot ----------------------------
(***************************************************************************)
(* The multi-slot lab on small instances: the planning of a day, the daily *)
(* schedule with its Player, the Cloud's campaigns with the playlist       *)
(* runtime, and the papers of the hardware it all runs on.  The four share *)
(* no variable (what passes between them is a nondeterministic outcome in  *)
(* each), so their interleavings show nothing that each alone does not:    *)
(* one moves while the others rest in their initial states.                *)
(***************************************************************************)
EXTENDS DailySchedule, SlotGrid, Playlist, HardwareRecord

\* The day: 3 slots, two pages and an advertisement, in three later commands:
\* the first schedule again with its assets in another order, and two that
\* disagree under one revision.
Show(id, video) == [slotId |-> <<id>>, assetId |-> <<id>>, video |-> video]

Command(revision, ids, assets) ==
  [edgeId |-> "edge", revision |-> revision,
   slots |-> [i \in 0..2 |-> Show(ids[i + 1], ids[i + 1] = "ad")],
   assets |-> [i \in DOMAIN assets |-> [assetId |-> <<assets[i]>>, content |-> assets[i]]]]

MCInitial == Command(1, <<"ad", "page", "ad">>, <<"ad", "page">>)

MCUpdate ==
  {Command(1, <<"ad", "page", "ad">>, <<"page", "ad">>),
   Command(2, <<"page", "ad", "page">>, <<"ad", "page">>),
   Command(2, <<"page", "page", "page">>, <<"page">>)}

\* Daylight saving repeats the second slot.
MCLocalTime == [t \in 0..3 |-> [date |-> 1, index |-> <<0, 1, 1, 2>>[t + 1]]]

\* The grid: 10 slots of 15 seconds; creatives of 2 and 3 slots.
MCAvailable == [i \in 1..8 |-> <<"slot", i>>]

MCMedia ==
  LET Item(i, seconds, start) ==
        [creativeId |-> i, campaignId |-> "campaign", seconds |-> seconds, start |-> start]
  IN UNION {{[i \in 1..n |-> Item(i, f[i].seconds, f[i].start)] :
               f \in [1..n -> [seconds : {20, 45}, start : {-1, 0, 3}]]} : n \in 0..3}

MCFallbacks ==
  LET Fallback(actor) == [actor |-> actor, contentId |-> <<actor, "content">>]
  IN {<<Fallback("MOSTARDA"), Fallback("SPACE_OWNER")>>,
      <<Fallback("MOSTARDA"), Fallback("SPACE_OWNER"), Fallback("INFLUENCER")>>}

\* The hardware: facts of two types, the first of which identifies the device
\* and is what the one command observes; requirements of one and of both types,
\* and one that no evidence satisfies.  The intakes validate a fact of the first
\* type, or declare what only looks different from it and what differs, or a
\* conflict.
Known(type, kind, form, value, intact) ==
  [type |-> type, kind |-> kind, form |-> form, value |-> value, intact |-> intact]

MCIntake ==
  LET valid == Known("board", "VALIDATED", "NORMALIZED", 1, TRUE)
      raw == Known("board", "DECLARED", "RAW", 1, FALSE)
      other == Known("board", "DECLARED", "NORMALIZED", 2, FALSE)
      key == Known("key", "VALIDATED", "RAW", 1, TRUE)
      Declared(bound, facts, conflicts) ==
        [bound |-> bound, facts |-> facts, conflicts |-> conflicts, missing |-> {"key"}]
  IN  {Declared(FALSE, f, {}) :
         f \in {<<valid>>, <<valid, key>>, <<valid, raw>>, <<other, valid>>, <<key>>}}
        \cup {Declared(TRUE, <<valid>>, {}), Declared(FALSE, <<valid>>, {"board"})}

MCRequiredFacts == [one |-> {"board"}, both |-> {"board", "key"}, physical |-> {"board"}]

MCCapabilityFacts == [one |-> {"board"}, both |-> {"board", "key"}]

MCAndroidCommand == <<"getprop">>

MCObserves == [getprop |-> "board"]

allVars == <<vars, day, playlistVars, recordVars>>

ScheduleRests == now = 0 /\ pc = "load" /\ snapshot = Initial /\ preparing = {}
                 /\ accepted = {Initial} /\ restarts = 0
GridRests == day = NoDay
PlaylistRests == backend = "memory" /\ campaigns = [c \in Campaign |-> None]
                 /\ creatives = [v \in Creative |-> None] /\ at = [c \in Caller |-> "idle"]

HardwareRests == sealed = {}

MCInit == Init /\ GridInit /\ PlaylistInit /\ RecordInit

MCNext ==
  \/ /\ GridRests /\ PlaylistRests /\ HardwareRests
     /\ Next /\ UNCHANGED <<day, playlistVars, recordVars>>
  \/ /\ ScheduleRests /\ PlaylistRests /\ HardwareRests
     /\ GridNext /\ UNCHANGED <<vars, playlistVars, recordVars>>
  \/ /\ ScheduleRests /\ GridRests /\ HardwareRests
     /\ PlaylistNext /\ UNCHANGED <<vars, day, recordVars>>
  \/ /\ ScheduleRests /\ GridRests /\ PlaylistRests
     /\ RecordNext /\ UNCHANGED <<vars, day, playlistVars>>

MCSpec == MCInit /\ [][MCNext]_allVars

Symmetry == Permutations(Slot) \cup Permutations(Creative) \cup Permutations(Caller)
=============================================================================
