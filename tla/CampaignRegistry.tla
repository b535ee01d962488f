-------------------------- MODULE CampaignRegistry --------------------------
(***************************************************************************)
(* What the store of campaigns, slots, creatives and assignments promises  *)
(* an Edge: an identity is given its content once and keeps it, a slot     *)
(* refers to a campaign that exists, and an assignment to a slot and a     *)
(* creative that exist.  An Edge may therefore keep what it has fetched.   *)
(***************************************************************************)
CONSTANTS Campaign, Slot, Creative, Name, Content,
          None  \* no value yet

VARIABLES campaigns,  \* the name of each campaign
          slots,      \* the campaign of each slot
          creatives,  \* the content of each creative
          assignment  \* the creative of each slot

registryVars == <<campaigns, slots, creatives, assignment>>

RegistryInit ==
  /\ campaigns = [c \in Campaign |-> None]
  /\ slots = [s \in Slot |-> None]
  /\ creatives = [v \in Creative |-> None]
  /\ assignment = [s \in Slot |-> None]

CreateCampaign(c, name) ==
  /\ campaigns[c] = None
  /\ campaigns' = [campaigns EXCEPT ![c] = name]
  /\ UNCHANGED <<slots, creatives, assignment>>

CreateSlot(s, c) ==
  /\ slots[s] = None
  /\ campaigns[c] # None
  /\ slots' = [slots EXCEPT ![s] = c]
  /\ UNCHANGED <<campaigns, creatives, assignment>>

PublishCreative(v, content) ==
  /\ creatives[v] = None
  /\ creatives' = [creatives EXCEPT ![v] = content]
  /\ UNCHANGED <<campaigns, slots, assignment>>

AssignCreative(s, v) ==
  /\ assignment[s] = None
  /\ slots[s] # None
  /\ creatives[v] # None
  /\ assignment' = [assignment EXCEPT ![s] = v]
  /\ UNCHANGED <<campaigns, slots, creatives>>

RegistryNext ==
  \/ \E c \in Campaign, n \in Name : CreateCampaign(c, n)
  \/ \E s \in Slot, c \in Campaign : CreateSlot(s, c)
  \/ \E v \in Creative, t \in Content : PublishCreative(v, t)
  \/ \E s \in Slot, v \in Creative : AssignCreative(s, v)

RegistrySpec == RegistryInit /\ [][RegistryNext]_registryVars
=============================================================================
