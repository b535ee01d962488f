----------------------------- MODULE MemoryInbox ----------------------------
(***************************************************************************)
(* InMemoryDeliveryLog.consumeAtomically: deliveries of one process that   *)
(* wait for each other through a promise per key.  A call runs on between  *)
(* its awaits; it awaits the pending promise of its key, then the effect.  *)
(***************************************************************************)
EXTENDS DeliveryLog, Naturals, Sequences

CONSTANTS Delivery, \* calls of consumeAtomically
          Uncloneable, \* keys whose effect returns what structuredClone refuses
          MaxApplied,  \* bound: effects of a key of these
          None      \* no record yet, no call

ASSUME MemoryAssumption == None \notin Digest

VARIABLES records, \* #records: the digest each key was consumed with
          pending, \* keys that have a pending promise
          done,    \* effects of each key, in order: the digests they were of
          what,    \* the key and digest of each delivery
          where,   \* what it does
          status   \* how it ended

memoryVars == <<records, pending, done, what, where, status>>

MemoryInit ==
  /\ records = [k \in Key |-> None]
  /\ pending = {}
  /\ done = [k \in Key |-> <<>>]
  /\ what = [d \in Delivery |-> None]
  /\ where = [d \in Delivery |-> "idle"]
  /\ status = [d \in Delivery |-> "pending"]

keyOf(d) == what[d].key

Settle(d, s) ==
  /\ where' = [where EXCEPT ![d] = "settled"]
  /\ status' = [status EXCEPT ![d] = s]

\* Mutant: the key is looked at once, before the await.
Unlocked(k) == TRUE

\* while (#pending.has(key)): a waiter that is woken looks again.
IsFree(k) == k \notin pending

Call(d, k, digest) ==
  /\ where[d] = "idle"
  /\ what' = [what EXCEPT ![d] = [key |-> k, digest |-> digest]]
  /\ where' = [where EXCEPT ![d] = "waiting"]
  /\ UNCHANGED <<records, pending, done, status>>

\* A receipt answers the delivery, or refuses it.
AnswerByReceipt(d) ==
  /\ where[d] = "waiting"
  /\ IsFree(keyOf(d))
  /\ records[keyOf(d)] # None
  /\ Settle(d, IF records[keyOf(d)] = what[d].digest THEN "duplicate" ELSE "conflict")
  /\ UNCHANGED <<records, pending, done, what>>

\* No receipt: the key becomes pending and the effect is called.
Enter(d) ==
  /\ where[d] = "waiting"
  /\ IsFree(keyOf(d))
  /\ records[keyOf(d)] = None
  /\ pending' = pending \cup {keyOf(d)}
  /\ where' = [where EXCEPT ![d] = "effect"]
  /\ UNCHANGED <<records, done, what, status>>

\* The effect resolves; its result is cloned into the record.
Resolve(d) ==
  /\ where[d] = "effect"
  /\ keyOf(d) \notin Uncloneable
  /\ done' = [done EXCEPT ![keyOf(d)] = Append(@, what[d].digest)]
  /\ pending' = pending \ {keyOf(d)}
  /\ records' = [records EXCEPT ![keyOf(d)] = what[d].digest]
  /\ Settle(d, "applied")
  /\ UNCHANGED what

\* The effect resolves and took effect, but its result cannot be cloned.
CloneFails(d) ==
  /\ where[d] = "effect"
  /\ keyOf(d) \in Uncloneable
  /\ Len(done[keyOf(d)]) < MaxApplied
  /\ done' = [done EXCEPT ![keyOf(d)] = Append(@, what[d].digest)]
  /\ pending' = pending \ {keyOf(d)}
  /\ Settle(d, "failed")
  /\ UNCHANGED <<records, what>>

\* The effect rejects, by assumption without having taken effect.
Reject(d) ==
  /\ where[d] = "effect"
  /\ pending' = pending \ {keyOf(d)}
  /\ Settle(d, "failed")
  /\ UNCHANGED <<records, done, what>>

\* The promise has settled; the delivery may be repeated.
Redeliver(d) ==
  /\ where[d] = "settled"
  /\ where' = [where EXCEPT ![d] = "idle"]
  /\ status' = [status EXCEPT ![d] = "pending"]
  /\ what' = [what EXCEPT ![d] = None]
  /\ UNCHANGED <<records, pending, done>>

MemoryNext ==
  \E d \in Delivery :
    \/ \E k \in Key, digest \in Digest : Call(d, k, digest)
    \/ AnswerByReceipt(d) \/ Enter(d)
    \/ Resolve(d) \/ CloneFails(d) \/ Reject(d) \/ Redeliver(d)

MemorySpec == MemoryInit /\ [][MemoryNext]_memoryVars

-----------------------------------------------------------------------------
\* Properties.

MemoryOnce == INSTANCE ExactlyOnce WITH
  Key <- Key \ Uncloneable, Effect <- Digest,
  effects <- [k \in Key \ Uncloneable |-> done[k]]

\* However many deliveries of an event wait for each other, its effect is
\* applied once; where the result cannot be cloned a redelivery applies it
\* again.
MemoryImplementsExactlyOnce == MemoryOnce!OnceSpec

-----------------------------------------------------------------------------
\* The inductive invariant behind it.

MemoryTypeOK ==
  /\ records \in [Key -> Digest \cup {None}]
  /\ pending \subseteq Key
  /\ done \in [Key -> Seq(Digest)]
  /\ what \in [Delivery -> [key : Key, digest : Digest] \cup {None}]
  /\ where \in [Delivery -> {"idle", "waiting", "effect", "settled"}]
  /\ status \in [Delivery -> {"pending", "applied", "duplicate", "conflict", "failed"}]

\* A delivery that runs its effect has the pending promise of its key, alone,
\* and the key has no record.
EffectIsAlone ==
  \A d \in Delivery : where[d] = "effect" =>
    /\ keyOf(d) \in pending /\ records[keyOf(d)] = None
    /\ \A c \in Delivery : where[c] = "effect" /\ keyOf(c) = keyOf(d) => c = d

MemoryInvariant ==
  /\ MemoryTypeOK
  /\ \A d \in Delivery : where[d] # "idle" => what[d] \in [key : Key, digest : Digest]
  /\ EffectIsAlone
  /\ \A k \in Key \ Uncloneable : records[k] = None => done[k] = <<>>
=============================================================================
