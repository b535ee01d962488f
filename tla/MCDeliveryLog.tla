---------------------------- MODULE MCDeliveryLog ---------------------------
(***************************************************************************)
(* Small instances of the delivery logs for TLC: the inbox and the outbox  *)
(* of PostgreSQL and the inbox in memory.  They share no table and no      *)
(* variable, so each moves while the others rest in their initial states.  *)
(***************************************************************************)
EXTENDS Inbox, Outbox, MemoryInbox, TLC

InboxRests == /\ \A w \in Worker : pc[w] = "idle"
              /\ receipt = [k \in Key |-> NoReceipt]
OutboxRests == clock = 0 /\ spent = {} /\ \A p \in Publisher : stage[p] = "idle"
MemoryRests == done = [k \in Key |-> <<>>] /\ \A d \in Delivery : where[d] = "idle"

MCInit == Init /\ OutboxInit /\ MemoryInit

MCNext ==
  \/ OutboxRests /\ MemoryRests /\ Next /\ UNCHANGED <<outboxVars, memoryVars>>
  \/ InboxRests /\ MemoryRests /\ OutboxNext /\ UNCHANGED <<vars, memoryVars>>
  \/ InboxRests /\ OutboxRests /\ MemoryNext /\ UNCHANGED <<vars, outboxVars>>

MCSpec == MCInit /\ [][MCNext]_<<vars, outboxVars, memoryVars>>

\* Workers and tokens are interchangeable; a CHOOSE of the modules only fills
\* calls that have not begun.
Symmetry == Permutations(Worker) \cup Permutations(Token)
=============================================================================
