------------------------------- MODULE Outbox -------------------------------
(***************************************************************************)
(* The outbox of PostgresDeliveryLog: claimOutbox, a transaction of three  *)
(* statements, and confirmPublished, a single UPDATE, called by publishers *)
(* that claim a batch, send each event to the broker and confirm it.       *)
(*                                                                         *)
(* Publishers interleave between statements, crash anywhere (the server    *)
(* then rolls an open transaction back), and may never see the answer to a *)
(* COMMIT or an UPDATE that took effect.  The repository has no publisher  *)
(* of its own; the loop here is the one its tests exercise: confirm only   *)
(* what was claimed and sent, under the token of that claim.               *)
(*                                                                         *)
(* Time is one clock that publishers read when they build a claim.  The    *)
(* claim's "now" is therefore old by the time its statements run.          *)
(***************************************************************************)
EXTENDS Integers, FiniteSets

CONSTANTS Publisher, \* processes that publish
          EventId,   \* events in the outbox, numbered in created_at order
          Token,     \* lease tokens callers may use
          NoToken,
          Limit,     \* limit of a claim
          Lease,     \* leaseUntil - now of a claim
          MaxTime    \* bound: the last instant of the clock

ASSUME OutboxAssumption ==
  /\ EventId \subseteq Nat /\ IsFiniteSet(EventId)
  /\ NoToken \notin Token
  /\ Limit \in Nat \ {0}
  /\ Lease \in Nat \ {0}
  /\ MaxTime \in Nat

VARIABLES record,    \* event_store_outbox: the committed row of each event
          spent,     \* event_store_outbox_claims: committed lease tokens
          clock,     \* the publishers' clock
          stage,        \* what each publisher does next
          token,     \* the token of its claim
          now,       \* "now" of its claim
          locked,    \* rows its open transaction has locked and updated
          held,      \* events its claim returned, not yet confirmed
          sent       \* <<event, token>>: what the broker received, and under
                     \* which claim (history)

tables == <<record, spent>>
outboxVars == <<record, spent, clock, stage, token, now, locked, held, sent>>

-----------------------------------------------------------------------------
Record == [token : Token \cup {NoToken}, expires : Nat, published : BOOLEAN]

OutboxTypeOK ==
  /\ record \in [EventId -> Record]
  /\ spent \in SUBSET Token
  /\ clock \in 0..MaxTime
  /\ stage \in [Publisher -> {"idle", "insert", "select", "commit", "rollback", "publish"}]
  /\ token \in [Publisher -> Token \cup {NoToken}]
  /\ now \in [Publisher -> 0..MaxTime]
  /\ locked \in [Publisher -> SUBSET EventId]
  /\ held \in [Publisher -> SUBSET EventId]
  /\ sent \in SUBSET (EventId \X Token)

OutboxInit ==
  /\ record = [e \in EventId |-> [token |-> NoToken, expires |-> 0, published |-> FALSE]]
  /\ spent = {}
  /\ clock = 0
  /\ stage = [p \in Publisher |-> "idle"]
  /\ token = [p \in Publisher |-> NoToken]
  /\ now = [p \in Publisher |-> 0]
  /\ locked = [p \in Publisher |-> {}]
  /\ held = [p \in Publisher |-> {}]
  /\ sent = {}

-----------------------------------------------------------------------------
GoTo(p, step) == stage' = [stage EXCEPT ![p] = step]

\* The publisher forgets its claim; an open transaction is gone with it.
GoIdle(p) ==
  /\ GoTo(p, "idle")
  /\ token' = [token EXCEPT ![p] = NoToken]
  /\ now' = [now EXCEPT ![p] = 0]
  /\ locked' = [locked EXCEPT ![p] = {}]
  /\ held' = [held EXCEPT ![p] = {}]

\* Mutant: rows are read without FOR UPDATE.
NoRowLocks(p, e) == FALSE

LockedByOther(p, e) == \E q \in Publisher \ {p} : e \in locked[q]

Tick ==
  /\ clock < MaxTime
  /\ clock' = clock + 1
  /\ UNCHANGED <<tables, stage, token, now, locked, held, sent>>

\* claimOutbox is called with a fresh or an already used token; BEGIN.
BeginClaim(p, t) ==
  /\ stage[p] = "idle"
  /\ GoTo(p, "insert")
  /\ token' = [token EXCEPT ![p] = t]
  /\ now' = [now EXCEPT ![p] = clock]
  /\ UNCHANGED <<tables, clock, locked, held, sent>>

\* Mutant: the token is looked up, not inserted under a unique key.
TokenLookedUp(p) == FALSE

\* Another transaction has inserted the same token and not yet ended.
TokenInFlight(p) ==
  \E q \in Publisher \ {p} : stage[q] \in {"select", "commit"} /\ token[q] = token[p]

\* INSERT INTO event_store_outbox_claims: waits for the same token in flight,
\* fails on a committed one.
InsertToken(p) ==
  /\ stage[p] = "insert"
  /\ ~TokenInFlight(p)
  /\ GoTo(p, IF token[p] \in spent THEN "rollback" ELSE "select")
  /\ UNCHANGED <<tables, clock, token, now, locked, held, sent>>

\* Mutant: any lease may be taken over.
LeaseIgnored(e, instant) == TRUE

Expired(e, instant) == record[e].expires <= instant

Candidates(p) ==
  {e \in EventId :
     /\ ~record[e].published
     /\ record[e].token = NoToken \/ Expired(e, now[p])
     /\ ~LockedByOther(p, e)}

\* The n least elements of S: ORDER BY created_at, outbox_id LIMIT n.
First(n, S) == {e \in S : Cardinality({d \in S : d < e}) < n}

\* SELECT ... FOR UPDATE SKIP LOCKED and UPDATE, one statement.
SelectAndUpdate(p) ==
  /\ stage[p] = "select"
  /\ locked' = [locked EXCEPT ![p] = First(Limit, Candidates(p))]
  /\ GoTo(p, "commit")
  /\ UNCHANGED <<tables, clock, token, now, held, sent>>

\* COMMIT publishes the leases and the token.  If the answer is lost the
\* publisher does not know that it holds them.
CommitClaim(p) ==
  /\ stage[p] = "commit"
  /\ record' = [e \in EventId |->
       IF e \in locked[p]
       THEN [record[e] EXCEPT !.token = token[p], !.expires = now[p] + Lease]
       ELSE record[e]]
  /\ spent' = spent \cup {token[p]}
  /\ \/ /\ locked[p] # {}
        /\ GoTo(p, "publish")
        /\ held' = [held EXCEPT ![p] = locked[p]]
        /\ locked' = [locked EXCEPT ![p] = {}]
        /\ UNCHANGED <<token, now>>
     \/ GoIdle(p)
  /\ UNCHANGED <<clock, sent>>

RollbackClaim(p) ==
  /\ stage[p] = "rollback"
  /\ GoIdle(p)
  /\ UNCHANGED <<tables, clock, sent>>

\* The broker receives a claimed event, again if the publisher is unsure.
Send(p, e) ==
  /\ stage[p] = "publish"
  /\ e \in held[p]
  /\ sent' = sent \cup {<<e, token[p]>>}
  /\ UNCHANGED <<tables, clock, stage, token, now, locked, held>>

\* Mutant: UPDATE without AND lease_token = $2.
AnyToken(p, e) == TRUE

OwnsLease(p, e) == record[e].token = token[p]

\* UPDATE ... WHERE event_id AND lease_token: waits for a claim that has the
\* row locked.  No row means an error; either way, unless the answer is lost
\* and the publisher asks again, it is done with the event.
ConfirmPublished(p, e) ==
  /\ stage[p] = "publish"
  /\ e \in held[p]
  /\ <<e, token[p]>> \in sent
  /\ ~LockedByOther(p, e)
  /\ record' = IF OwnsLease(p, e) THEN [record EXCEPT ![e].published = TRUE] ELSE record
  /\ \E rest \in {held[p], held[p] \ {e}} :
       IF rest = {} THEN GoIdle(p)
       ELSE held' = [held EXCEPT ![p] = rest] /\ UNCHANGED <<stage, token, now, locked>>
  /\ UNCHANGED <<spent, clock, sent>>

\* The process dies, or its connection does.
Crash(p) ==
  /\ stage[p] # "idle"
  /\ GoIdle(p)
  /\ UNCHANGED <<tables, clock, sent>>

PublisherStep(p) ==
  \/ \E t \in Token : BeginClaim(p, t)
  \/ InsertToken(p)
  \/ SelectAndUpdate(p)
  \/ CommitClaim(p)
  \/ RollbackClaim(p)
  \/ \E e \in EventId : Send(p, e) \/ ConfirmPublished(p, e)
  \/ Crash(p)

OutboxNext == Tick \/ \E p \in Publisher : PublisherStep(p)

OutboxSpec == OutboxInit /\ [][OutboxNext]_outboxVars

-----------------------------------------------------------------------------
\* Properties.

\* Of two publishers that hold the same event, at most one holds it under a
\* lease that has not expired: a second publisher starts only after the first
\* had to stop, whatever the order of their statements.
LeasesAreExclusive ==
  \A p, q \in Publisher :
    p # q => \A e \in held[p] \cap held[q] :
               now[p] + Lease <= clock \/ now[q] + Lease <= clock

\* No two publishers ever work under the same token, although nothing keeps
\* callers from asking for one twice.
TokensAreUnique ==
  \A p, q \in Publisher :
    p # q /\ stage[p] = "publish" /\ stage[q] = "publish" => token[p] # token[q]

\* An event counts as published only if the claim it is leased to has sent it:
\* a publisher that lost its lease cannot settle the event for its successor.
PublishedUnderItsLease ==
  \A e \in EventId : record[e].published => <<e, record[e].token>> \in sent

\* The statements implement the indivisible claims and confirmations.
LeaseSpec == INSTANCE OutboxLease

ImplementsLease ==
  LeaseSpec!LeaseInit /\ [][LeaseSpec!LeaseNext(0..(MaxTime + Lease))]_tables
=============================================================================
