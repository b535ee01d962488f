---------------------------- MODULE OutboxLease -----------------------------
(***************************************************************************)
(* What the outbox promises its publishers: a record is leased as a whole  *)
(* to one claim, identified by a token no other claim ever carries; it can *)
(* be leased again once that lease has expired; only the token it is       *)
(* leased to confirms it, and a confirmed record never changes again.      *)
(* Both calls are indivisible.                                             *)
(***************************************************************************)
EXTENDS Integers, FiniteSets

CONSTANTS EventId,  \* identities of the queued events
          Token,    \* lease tokens
          NoToken,  \* the token of a record never leased
          Limit     \* most records of one claim

VARIABLES record,   \* the outbox record of each event
          spent     \* tokens some claim has carried

leaseVars == <<record, spent>>

Free == [token |-> NoToken, expires |-> 0, published |-> FALSE]

Claimable(e, now) ==
  /\ ~record[e].published
  /\ record[e].token = NoToken \/ record[e].expires <= now

LeaseInit ==
  /\ record = [e \in EventId |-> Free]
  /\ spent = {}

\* Which of the claimable records a claim gets is left open: it skips those
\* another claim has in hand.
Claim(t, now, until, S) ==
  /\ t \notin spent
  /\ until > now
  /\ Cardinality(S) <= Limit
  /\ \A e \in S : Claimable(e, now)
  /\ record' = [e \in EventId |->
       IF e \in S THEN [token |-> t, expires |-> until, published |-> FALSE]
       ELSE record[e]]
  /\ spent' = spent \cup {t}

Confirm(t, e) ==
  /\ record[e].token = t
  /\ record' = [record EXCEPT ![e].published = TRUE]
  /\ UNCHANGED spent

LeaseNext(Instant) ==
  \E t \in Token :
    \/ \E now, until \in Instant, S \in SUBSET EventId : Claim(t, now, until, S)
    \/ \E e \in EventId : Confirm(t, e)
=============================================================================
