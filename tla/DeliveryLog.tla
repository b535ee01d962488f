---------------------------- MODULE DeliveryLog -----------------------------
(***************************************************************************)
(* What consumeAtomically of a DeliveryLog is called with, on PostgreSQL   *)
(* (Inbox) and in memory (MemoryInbox).                                    *)
(***************************************************************************)
CONSTANTS Key,     \* <<consumer, event id>> pairs
          Digest   \* payload digests a delivery may carry
=============================================================================
