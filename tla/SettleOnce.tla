----------------------------- MODULE SettleOnce -----------------------------
(***************************************************************************)
(* What a settlement store promises: an evidence of a campaign is settled  *)
(* once, as a whole and for good.  This is also the in-memory store.       *)
(* Evidences whose texts join to one cycle identity share the settlement's *)
(* place, and only the first of them can be settled.                       *)
(***************************************************************************)
CONSTANTS Evidence,   \* evidences, with their campaigns
          CycleId,    \* the cycle identity of each
          Settlement, \* the settlements there can be
          NoSettlement

VARIABLE settled

OnceInit == settled = [e \in Evidence |-> NoSettlement]

Settle(e) ==
  /\ \A f \in Evidence : CycleId[f] = CycleId[e] => settled[f] = NoSettlement
  /\ settled'[e] \in Settlement
  /\ settled' = [settled EXCEPT ![e] = settled'[e]]

OnceNext == \E e \in Evidence : Settle(e)

OnceSpec == OnceInit /\ [][OnceNext]_settled
=============================================================================
