---------------------------- MODULE CampaignStore ----------------------------
(***************************************************************************)
(* The Cloud's E2E store of campaigns, slots, creatives, assignments and   *)
(* playback events, in its two implementations.  In memory every call is   *)
(* one step.  On PostgreSQL a call is a sequence of autocommitted          *)
(* statements; assignCreative is five of them, and assignments of one slot *)
(* interleave.  The other writing calls are one statement, or end with a   *)
(* comparison that reads only a row which never changes.                   *)
(***************************************************************************)
CONSTANTS Campaign, Slot, Creative,
          Name,     \* names of campaigns
          Content,  \* contents of creatives
          Caller,   \* calls of assignCreative
          None      \* no row

ASSUME CampaignStoreAssumption ==
  None \notin Campaign \cup Creative \cup Name \cup Content

VARIABLES backend,    \* the implementation: "postgres" or "memory"
          campaigns,  \* name of each campaign
          slots,      \* campaign of each slot
          creatives,  \* content of each creative
          assignment, \* creative of each slot; its other columns follow from
                      \* the slot: campaign_id and manifest_version
          plays,      \* e2e_playback_events
          at,         \* the statement a call of assignCreative runs next
          call,       \* its arguments, and the creative it answers with
          overlapped  \* another assignment of the slot was stored while the
                      \* call ran (history)

store == <<campaigns, slots, creatives, assignment>>
calls == <<at, call, overlapped>>
storeVars == <<backend, campaigns, slots, creatives, assignment, plays, at, call, overlapped>>

NoCall == [slot |-> None, creative |-> None, answer |-> None]

StoreInit ==
  /\ backend \in {"postgres", "memory"}
  /\ campaigns = [c \in Campaign |-> None]
  /\ slots = [s \in Slot |-> None]
  /\ creatives = [v \in Creative |-> None]
  /\ assignment = [s \in Slot |-> None]
  /\ plays = {}
  /\ at = [c \in Caller |-> "idle"]
  /\ call = [c \in Caller |-> NoCall]
  /\ overlapped = [c \in Caller |-> FALSE]

-----------------------------------------------------------------------------
\* Calls of one statement.  An identity that has a row keeps it: the call
\* answers with the row if it is what was asked, or fails, and nothing changes.
\* (createSlot in memory answers with the row whatever campaign was asked.)

\* INSERT ... ON CONFLICT (campaign_id) DO UPDATE SET name = its own value.
CreateCampaign(c, name) ==
  /\ campaigns[c] = None
  /\ campaigns' = [campaigns EXCEPT ![c] = name]
  /\ UNCHANGED <<backend, slots, creatives, assignment, plays, calls>>

\* The campaign must exist: checked in memory, a foreign key on PostgreSQL.
CreateSlot(s, c) ==
  /\ slots[s] = None
  /\ campaigns[c] # None
  /\ slots' = [slots EXCEPT ![s] = c]
  /\ UNCHANGED <<backend, campaigns, creatives, assignment, plays, calls>>

PublishCreative(v, content) ==
  /\ creatives[v] = None
  /\ creatives' = [creatives EXCEPT ![v] = content]
  /\ UNCHANGED <<backend, campaigns, slots, assignment, plays, calls>>

-----------------------------------------------------------------------------
\* assignCreative.

Goto(c, step) == at' = [at EXCEPT ![c] = step]

Begin(c, s, v) ==
  /\ at[c] = "idle"
  /\ call' = [call EXCEPT ![c] = [slot |-> s, creative |-> v, answer |-> None]]
  /\ Goto(c, IF backend = "postgres" THEN "slot" ELSE "memory")
  /\ UNCHANGED <<backend, store, plays, overlapped>>

\* The call rejects: 409.
Fail(c) ==
  /\ Goto(c, "failed")
  /\ call' = [call EXCEPT ![c] = NoCall]
  /\ overlapped' = [overlapped EXCEPT ![c] = FALSE]

\* SELECT from e2e_slots, then from e2e_creatives.
FindSlot(c) ==
  /\ at[c] = "slot"
  /\ IF slots[call[c].slot] = None THEN Fail(c)
     ELSE Goto(c, "creative") /\ UNCHANGED <<call, overlapped>>
  /\ UNCHANGED <<backend, store, plays>>

FindCreative(c) ==
  /\ at[c] = "creative"
  /\ IF creatives[call[c].creative] = None THEN Fail(c)
     ELSE Goto(c, "existing") /\ UNCHANGED <<call, overlapped>>
  /\ UNCHANGED <<backend, store, plays>>

\* Mutant: an assignment that exists is not compared.
Unchecked(c) == FALSE

\* The slot is assigned another creative.
Conflicts(c) == assignment[call[c].slot] \notin {None, call[c].creative}

\* SELECT from e2e_slot_creatives and the comparison.
CompareExisting(c) ==
  /\ at[c] = "existing"
  /\ IF Conflicts(c) THEN Fail(c)
     ELSE Goto(c, "insert") /\ UNCHANGED <<call, overlapped>>
  /\ UNCHANGED <<backend, store, plays>>

\* Mutant: the upsert takes the new values.
Overwrite(s, v) == assignment' = [assignment EXCEPT ![s] = v]

\* INSERT ... ON CONFLICT (slot_id) DO UPDATE SET every column to itself.
Upsert(s, v) ==
  assignment' = IF assignment[s] = None THEN [assignment EXCEPT ![s] = v] ELSE assignment

\* Every other call for the slot that is under way sees the store change.
MarkOverlap(c) ==
  overlapped' = [d \in Caller |->
    \/ overlapped[d]
    \/ d # c /\ at[d] \notin {"idle", "done", "failed"} /\ call[d].slot = call[c].slot
       /\ assignment'[call[c].slot] # assignment[call[c].slot]]

InsertAssignment(c) ==
  /\ at[c] = "insert"
  /\ Upsert(call[c].slot, call[c].creative)
  /\ MarkOverlap(c)
  /\ Goto(c, "manifest")
  /\ UNCHANGED <<backend, campaigns, slots, creatives, plays, call>>

\* manifest(): the answer is what the tables hold.
ReadManifest(c) ==
  /\ at[c] = "manifest"
  /\ call' = [call EXCEPT ![c].answer = assignment[call[c].slot]]
  /\ Goto(c, "done")
  /\ UNCHANGED <<backend, store, plays, overlapped>>

\* In memory the call is one step.
AssignInMemory(c) ==
  /\ at[c] = "memory"
  /\ LET s == call[c].slot
         v == call[c].creative
     IN IF slots[s] = None \/ creatives[v] = None \/ Conflicts(c)
        THEN Fail(c) /\ UNCHANGED assignment
        ELSE /\ assignment' = [assignment EXCEPT ![s] = v]
             /\ call' = [call EXCEPT ![c].answer = v]
             /\ Goto(c, "done")
             /\ UNCHANGED overlapped
  /\ UNCHANGED <<backend, campaigns, slots, creatives, plays>>

StoreNext ==
  \/ \E c \in Campaign, n \in Name : CreateCampaign(c, n)
  \/ \E s \in Slot, c \in Campaign : CreateSlot(s, c)
  \/ \E v \in Creative, t \in Content : PublishCreative(v, t)
  \/ \E c \in Caller :
       \/ \E s \in Slot, v \in Creative : Begin(c, s, v)
       \/ FindSlot(c) \/ FindCreative(c) \/ CompareExisting(c)
       \/ InsertAssignment(c) \/ ReadManifest(c) \/ AssignInMemory(c)

-----------------------------------------------------------------------------
\* What an Edge reads and writes.

\* MANIFEST_VERSION:slotId.  Mutant: without the slot.
SharedVersion(s) == "manifest-e2e-v1"

ManifestVersion(s) == <<"manifest-e2e-v1", s>>

Manifest(s) ==
  [slot |-> s, campaign |-> slots[s], creative |-> assignment[s],
   version |-> ManifestVersion(s)]

\* manifests(campaignId): the assigned slots of the campaign.
Manifests(c) == {Manifest(s) : s \in {t \in Slot : slots[t] = c /\ assignment[t] # None}}

\* A playback event: [id, slot, campaign, creative, version].

\* The foreign key to the assignment; nothing of the kind in memory.
AssignmentExists(event) ==
  event.slot \in Slot /\ Manifest(event.slot) =
    [slot |-> event.slot, campaign |-> event.campaign, creative |-> event.creative,
     version |-> event.version]

SameId(event) == {row \in plays : row.id = event.id}

\* acceptPlaybackEvent takes the event: it is new, or says again what is
\* stored.  playback_id is the event's identity without its suffix, so one
\* is unique when the other is.
Accepts(event) ==
  /\ SameId(event) \subseteq {event}
  /\ backend = "postgres" => AssignmentExists(event)

AcceptPlaybackEvent(event) == plays' = plays \cup {event}

-----------------------------------------------------------------------------
\* Properties.

Registry == INSTANCE CampaignRegistry

\* Whatever calls interleave, an identity is given its content once: both
\* stores implement the write-once registry.
ImplementsRegistry == Registry!RegistryInit /\ [][Registry!RegistryNext]_store

\* A call of assignCreative that succeeds answers with the stored assignment,
\* and that is the creative it was asked to assign unless, on PostgreSQL,
\* another call assigned the slot while this one ran.
AnswersAreAsAsked ==
  \A c \in Caller :
    at[c] = "done" =>
      /\ call[c].answer = assignment[call[c].slot]
      /\ overlapped[c] \/ call[c].answer = call[c].creative
=============================================================================
