-------------------------- MODULE ProjectionStore ---------------------------
(***************************************************************************)
(* PostgresProjectionStore: stage, a single statement, and promote and     *)
(* invalidate, READ COMMITTED transactions that begin by taking the        *)
(* advisory lock of the projection and then read, decide and write         *)
(* statement by statement.  Connections break at any statement, and the    *)
(* answer to a COMMIT that took effect may be lost.                        *)
(*                                                                         *)
(* A rebuild's content is its checkpoint: promote and stage compare all of *)
(* it with the staged row, and the checkpoint is the part they decide on.  *)
(* A rebuild id belongs to a generation; that the same rebuild id is       *)
(* staged under another identity only changes the error promote throws.    *)
(* The row locks of FOR UPDATE are left out: the advisory lock is taken    *)
(* first by all who take them for the same projection, and the one         *)
(* statement that locks a row of another projection is the last before the *)
(* ROLLBACK of its transaction.                                            *)
(***************************************************************************)
EXTENDS Integers

CONSTANTS Caller,      \* pooled connections that may run promote or invalidate
          NoCaller,    \* the holder of a free lock
          Name, Generation, Checkpoint, NoHead

ASSUME ProjectionStoreAssumption ==
  /\ NoCaller \notin Caller
  /\ Name # {} /\ Generation # {}
  /\ Checkpoint \subseteq Int /\ Checkpoint # {}
  /\ NoHead \notin [name : Name, generation : Generation, checkpoint : Checkpoint]

VARIABLES staged,      \* projection_rebuilds
          head,        \* projection_heads, joined with projection_rebuilds
          invalidated, \* projection_invalidations
          lock,        \* holder of each projection's advisory lock
          pc,          \* the statement each caller runs next
          kind,        \* promote or invalidate
          call,        \* the rebuild or identity it is called with
          writes,      \* what the open transaction has written
          outcome      \* how the call ended

tables == <<staged, head, invalidated>>
vars == <<tables, lock, pc, kind, call, writes, outcome>>

-----------------------------------------------------------------------------
Identity == [name : Name, generation : Generation]

Rebuild == [name : Name, generation : Generation, checkpoint : Checkpoint]

Id(r) == [name |-> r.name, generation |-> r.generation]

NoCall == CHOOSE r \in Rebuild : TRUE

Statement == {"idle", "lock", "candidate", "tombstone", "current", "head",
              "delete", "insert", "commit", "rollback", "done"}

Outcome == {"pending", "success", "refused", "regression", "failed"}

TypeOK ==
  /\ staged \in SUBSET Rebuild
  /\ head \in [Name -> Rebuild \cup {NoHead}]
  /\ invalidated \in SUBSET Identity
  /\ lock \in [Name -> Caller \cup {NoCaller}]
  /\ pc \in [Caller -> Statement]
  /\ kind \in [Caller -> {"promote", "invalidate"}]
  /\ call \in [Caller -> Rebuild]
  /\ writes \in [Caller -> SUBSET {"head", "delete", "tombstone"}]
  /\ outcome \in [Caller -> Outcome]

Init ==
  /\ staged = {}
  /\ head = [n \in Name |-> NoHead]
  /\ invalidated = {}
  /\ lock = [n \in Name |-> NoCaller]
  /\ pc = [c \in Caller |-> "idle"]
  /\ kind = [c \in Caller |-> "promote"]
  /\ call = [c \in Caller |-> NoCall]
  /\ writes = [c \in Caller |-> {}]
  /\ outcome = [c \in Caller |-> "pending"]

-----------------------------------------------------------------------------
name(c) == call[c].name

Goto(c, statement) == pc' = [pc EXCEPT ![c] = statement]

Raise(c, error) ==
  /\ Goto(c, "rollback")
  /\ outcome' = [outcome EXCEPT ![c] = error]

EndTransaction(c) ==
  /\ lock' = [n \in Name |-> IF lock[n] = c THEN NoCaller ELSE lock[n]]
  /\ writes' = [writes EXCEPT ![c] = {}]
  /\ Goto(c, "done")

\* stage: INSERT ... ON CONFLICT DO NOTHING, a transaction of its own.  A
\* candidate that is there already is compared with and left as it is.
Stage(r) ==
  /\ \A s \in staged : Id(s) # Id(r)
  /\ staged' = staged \cup {r}
  /\ UNCHANGED <<head, invalidated, lock, pc, kind, call, writes, outcome>>

\* promote or invalidate is called: take a connection and BEGIN.  invalidate
\* is given an identity, here a rebuild with a checkpoint nobody looks at.
Begin(c, k, r) ==
  /\ pc[c] = "idle"
  /\ k = "invalidate" => r.checkpoint = NoCall.checkpoint
  /\ kind' = [kind EXCEPT ![c] = k]
  /\ call' = [call EXCEPT ![c] = r]
  /\ Goto(c, "lock")
  /\ UNCHANGED <<tables, lock, writes, outcome>>

\* Mutant: the projection is not locked.
NoLock(n) == TRUE

LockIsFree(n) == lock[n] = NoCaller

LockProjection(c) ==
  /\ pc[c] = "lock"
  /\ LockIsFree(name(c))
  /\ lock' = [lock EXCEPT ![name(c)] = c]
  /\ Goto(c, IF kind[c] = "promote" THEN "candidate" ELSE "current")
  /\ UNCHANGED <<tables, kind, call, writes, outcome>>

\* Mutant: any candidate of that identity is taken.
CandidateOfIdentity(r) == Id(r) \in {Id(s) : s \in staged}

\* The staged candidate with this identity is the rebuild, whole.
IsStaged(r) == r \in staged

\* promote: the staged row is missing, or other than the rebuild.
ReadCandidate(c) ==
  /\ pc[c] = "candidate"
  /\ \/ IsStaged(call[c]) /\ Goto(c, "tombstone") /\ UNCHANGED outcome
     \/ ~IsStaged(call[c]) /\ Raise(c, "refused")
  /\ UNCHANGED <<tables, lock, kind, call, writes>>

\* Mutant: promote does not look for an invalidation.
NeverInvalidated(i) == FALSE

IsInvalidated(i) == i \in invalidated

\* promote refuses a rebuild that is invalidated; invalidate accepts one, and
\* refuses one that is neither current nor invalidated.
ReadTombstone(c) ==
  /\ pc[c] = "tombstone"
  /\ IF kind[c] = "promote"
     THEN \/ ~IsInvalidated(Id(call[c])) /\ Goto(c, "current") /\ UNCHANGED outcome
          \/ IsInvalidated(Id(call[c])) /\ Raise(c, "refused")
     ELSE \/ Id(call[c]) \in invalidated /\ Goto(c, "commit") /\ UNCHANGED outcome
          \/ Id(call[c]) \notin invalidated /\ Raise(c, "refused")
  /\ UNCHANGED <<tables, lock, kind, call, writes>>

Regresses(c) == head[name(c)] # NoHead /\ call[c].checkpoint < head[name(c)].checkpoint

IsCurrent(c) == head[name(c)] # NoHead /\ Id(head[name(c)]) = Id(call[c])

\* promote has read the current rebuild: it is this one already, it is a
\* later one, or it is replaced.
DecidePromotion(c) ==
  /\ pc[c] = "current" /\ kind[c] = "promote"
  /\ \/ IsCurrent(c) /\ Goto(c, "commit") /\ UNCHANGED outcome
     \/ ~IsCurrent(c) /\ Regresses(c) /\ Raise(c, "regression")
     \/ ~IsCurrent(c) /\ ~Regresses(c) /\ Goto(c, "head") /\ UNCHANGED outcome
  /\ UNCHANGED <<tables, lock, kind, call, writes>>

\* Mutant: whatever is current is invalidated.
DecideWithoutIdentity(c) ==
  /\ pc[c] = "current" /\ kind[c] = "invalidate"
  /\ Goto(c, IF head[name(c)] # NoHead THEN "delete" ELSE "tombstone")
  /\ UNCHANGED <<tables, lock, kind, call, writes, outcome>>

\* invalidate has read the current rebuild: it is this one, it is another, or
\* there is none.
DecideInvalidation(c) ==
  /\ pc[c] = "current" /\ kind[c] = "invalidate"
  /\ \/ IsCurrent(c) /\ Goto(c, "delete") /\ UNCHANGED outcome
     \/ head[name(c)] = NoHead /\ Goto(c, "tombstone") /\ UNCHANGED outcome
     \/ head[name(c)] # NoHead /\ ~IsCurrent(c) /\ Raise(c, "refused")
  /\ UNCHANGED <<tables, lock, kind, call, writes>>

\* A write of the transaction, and the statement after it.
Write(c, statement, row, next) ==
  /\ pc[c] = statement
  /\ writes' = [writes EXCEPT ![c] = @ \cup {row}]
  /\ Goto(c, next)
  /\ UNCHANGED <<tables, lock, kind, call, outcome>>

UpsertHead(c) == Write(c, "head", "head", "commit")
DeleteHead(c) == Write(c, "delete", "delete", "insert")
InsertInvalidation(c) == Write(c, "insert", "tombstone", "commit")

Tombstone(c) == Id(call[c])

\* COMMIT makes the writes of the transaction visible; its answer arrives or
\* is lost.
Commit(c) ==
  /\ pc[c] = "commit"
  /\ head' = CASE "head" \in writes[c]   -> [head EXCEPT ![name(c)] = call[c]]
               [] "delete" \in writes[c] -> [head EXCEPT ![name(c)] = NoHead]
               [] OTHER                  -> head
  /\ invalidated' = IF "tombstone" \in writes[c] THEN invalidated \cup {Tombstone(c)}
                                                 ELSE invalidated
  /\ \E result \in {"success", "failed"} : outcome' = [outcome EXCEPT ![c] = result]
  /\ EndTransaction(c)
  /\ UNCHANGED <<staged, kind, call>>

Rollback(c) ==
  /\ pc[c] = "rollback"
  /\ EndTransaction(c)
  /\ UNCHANGED <<tables, kind, call, outcome>>

\* The connection breaks: the server rolls back by itself.
ConnectionLost(c) ==
  /\ pc[c] \notin {"idle", "done"}
  /\ outcome' = [outcome EXCEPT ![c] = "failed"]
  /\ EndTransaction(c)
  /\ UNCHANGED <<tables, kind, call>>

\* The promise settles and the connection returns to the pool.
Return(c) ==
  /\ pc[c] = "done"
  /\ Goto(c, "idle")
  /\ kind' = [kind EXCEPT ![c] = "promote"]
  /\ call' = [call EXCEPT ![c] = NoCall]
  /\ outcome' = [outcome EXCEPT ![c] = "pending"]
  /\ UNCHANGED <<tables, lock, writes>>

Statements(c) ==
  \/ LockProjection(c)
  \/ ReadCandidate(c) \/ ReadTombstone(c)
  \/ DecidePromotion(c) \/ DecideInvalidation(c)
  \/ UpsertHead(c) \/ DeleteHead(c) \/ InsertInvalidation(c)
  \/ Commit(c) \/ Rollback(c) \/ ConnectionLost(c) \/ Return(c)

Next ==
  \/ \E r \in Rebuild : Stage(r)
  \/ \E c \in Caller : \/ \E k \in {"promote", "invalidate"}, r \in Rebuild : Begin(c, k, r)
                       \/ Statements(c)

Spec == Init /\ [][Next]_vars

-----------------------------------------------------------------------------
\* Properties.

\* What is current was staged as it is and is not invalidated, in whatever
\* order promotions and invalidations of it run and wherever they stop.
HeadIsValid ==
  \A n \in Name :
    head[n] # NoHead => head[n] \in staged /\ Id(head[n]) \notin invalidated

\* A rebuild is replaced only by one whose checkpoint is at least its own: two
\* promotions that race cannot leave the older one current.
CheckpointsOnlyAdvance ==
  [][\A n \in Name :
       head[n] # NoHead /\ head'[n] # NoHead =>
         head'[n].checkpoint >= head[n].checkpoint]_head

\* q is current, or a later rebuild or its own invalidation has come after it.
TookEffect(q) ==
  \E r \in staged : /\ r.name = q.name
                    /\ r.checkpoint >= q.checkpoint
                    /\ head[q.name] = r \/ Id(r) \in invalidated

\* A promotion that was acknowledged has taken effect and stays in effect
\* until a later rebuild replaces it or it is invalidated itself.
PromotionsHold ==
  \A c \in Caller :
    outcome[c] = "success" /\ kind[c] = "promote" => TookEffect(call[c])

\* An invalidation that was acknowledged is recorded: nothing can make the
\* rebuild current again.
InvalidationsHold ==
  \A c \in Caller :
    outcome[c] = "success" /\ kind[c] = "invalidate" => Id(call[c]) \in invalidated

\* Both: what a caller was told stays true, whoever else calls.
AcknowledgedCallsHold == PromotionsHold /\ InvalidationsHold

Heads == INSTANCE ProjectionHeads

\* The transactions implement the store whose calls are single steps.
ImplementsProjectionHeads == Heads!HeadsSpec

-----------------------------------------------------------------------------
\* The inductive invariant behind the safety properties.

\* From its first read to its COMMIT a transaction holds the lock of its
\* projection.
LockIsHeld ==
  \A c \in Caller :
    pc[c] \in {"candidate", "tombstone", "current", "head", "delete", "insert", "commit"} =>
      lock[name(c)] = c

\* What a transaction has found out and written by each statement.
Progress(c) ==
  /\ pc[c] \in {"candidate", "head"} => kind[c] = "promote"
  /\ pc[c] \in {"delete", "insert"} => kind[c] = "invalidate" /\ IsCurrent(c)
  /\ pc[c] \in {"tombstone", "current", "head", "commit"} /\ kind[c] = "promote" =>
       call[c] \in staged
  /\ pc[c] \in {"current", "head", "commit"} /\ kind[c] = "promote" =>
       Id(call[c]) \notin invalidated
  /\ pc[c] = "head" => ~Regresses(c)
  /\ pc[c] = "insert" => writes[c] = {"delete"}
  /\ pc[c] = "commit" /\ kind[c] = "promote" =>
       (writes[c] = {"head"} /\ ~Regresses(c)) \/ (writes[c] = {} /\ IsCurrent(c))
  /\ pc[c] = "commit" /\ kind[c] = "invalidate" =>
       \/ writes[c] = {"delete", "tombstone"} /\ IsCurrent(c)
       \/ writes[c] = {} /\ Id(call[c]) \in invalidated
  /\ pc[c] \notin {"insert", "commit"} => writes[c] = {}

TransactionProgress == \A c \in Caller : Progress(c)

\* The outcome of a call is open until its transaction ends.
OutcomeIsLast ==
  \A c \in Caller :
    /\ pc[c] \notin {"rollback", "done"} => outcome[c] = "pending"
    /\ outcome[c] = "success" => pc[c] = "done"

\* There is one candidate of an identity.
CandidatesAreUnique == \A r, s \in staged : Id(r) = Id(s) => r = s

\* A head is a rebuild of its own projection.
HeadNames == \A n \in Name : head[n] # NoHead => head[n].name = n

StoreInvariant ==
  /\ TypeOK
  /\ LockIsHeld
  /\ TransactionProgress
  /\ OutcomeIsLast
  /\ CandidatesAreUnique
  /\ HeadNames
  /\ HeadIsValid
  /\ PromotionsHold
  /\ InvalidationsHold
=============================================================================
