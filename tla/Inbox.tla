------------------------------- MODULE Inbox --------------------------------
(***************************************************************************)
(* The inbox of PostgresDeliveryLog: consumeAtomically, statement by       *)
(* statement, run by any number of workers on deliveries that may repeat,  *)
(* race each other and disagree on the payload.                            *)
(*                                                                         *)
(* One call is one READ COMMITTED transaction: take the advisory lock of   *)
(* the (consumer, event) key, look for its receipt, run the effect on the  *)
(* same connection, insert the receipt, commit.  The effect may throw, the *)
(* connection may break at any statement, and the answer to a COMMIT that  *)
(* took effect may be lost.                                                *)
(***************************************************************************)
EXTENDS DeliveryLog, Integers, Sequences

CONSTANTS Worker,    \* calls of consumeAtomically that can run at once
          NoWorker,  \* the holder of a free lock
          Result,    \* results an effect may return
          NoReceipt,
          TextAcceptsNul  \* whether the server takes U+0000 in a text parameter

ASSUME InboxAssumption ==
  /\ NoWorker \notin Worker
  /\ NoReceipt \notin [digest : Digest, result : Result]
  /\ Key # {} /\ Digest # {} /\ Result # {}
  /\ TextAcceptsNul \in BOOLEAN

VARIABLES receipt,   \* event_store_inbox: the committed row of each key
          effects,   \* committed effects of each key, in order (the tables
                     \* the effects write)
          lock,      \* holder of each key's advisory lock
          pc,        \* the statement each worker runs next
          call,      \* the arguments of its call
          effectIn,  \* results of the effect inside its open transaction
          receiptIn, \* whether the transaction has inserted its receipt
          outcome,   \* how the call ended
          answer     \* the result the call returned

vars == <<receipt, effects, lock, pc, call, effectIn, receiptIn, outcome, answer>>

-----------------------------------------------------------------------------
Applied == [digest : Digest, result : Result]

NoCall == [key |-> CHOOSE k \in Key : TRUE, digest |-> CHOOSE d \in Digest : TRUE]

Statement == {"idle", "lock", "select", "effect", "insert", "applied",
              "duplicate", "rollback", "done"}

Outcome == {"pending", "applied", "duplicate", "conflict", "failed", "refused"}

TypeOK ==
  /\ receipt \in [Key -> Applied \cup {NoReceipt}]
  /\ effects \in [Key -> Seq(Applied)]
  /\ lock \in [Key -> Worker \cup {NoWorker}]
  /\ pc \in [Worker -> Statement]
  /\ call \in [Worker -> [key : Key, digest : Digest]]
  /\ effectIn \in [Worker -> Seq(Result)]
  /\ receiptIn \in [Worker -> BOOLEAN]
  /\ outcome \in [Worker -> Outcome]
  /\ answer \in [Worker -> Seq(Result)]

Init ==
  /\ receipt = [k \in Key |-> NoReceipt]
  /\ effects = [k \in Key |-> <<>>]
  /\ lock = [k \in Key |-> NoWorker]
  /\ pc = [w \in Worker |-> "idle"]
  /\ call = [w \in Worker |-> NoCall]
  /\ effectIn = [w \in Worker |-> <<>>]
  /\ receiptIn = [w \in Worker |-> FALSE]
  /\ outcome = [w \in Worker |-> "pending"]
  /\ answer = [w \in Worker |-> <<>>]

-----------------------------------------------------------------------------
key(w) == call[w].key

Goto(w, statement) == pc' = [pc EXCEPT ![w] = statement]

Raise(w, error) ==
  /\ Goto(w, "rollback")
  /\ outcome' = [outcome EXCEPT ![w] = error]

\* The end of a transaction: its lock is released, its writes are committed
\* or forgotten.
EndTransaction(w) ==
  /\ lock' = [k \in Key |-> IF lock[k] = w THEN NoWorker ELSE lock[k]]
  /\ effectIn' = [effectIn EXCEPT ![w] = <<>>]
  /\ receiptIn' = [receiptIn EXCEPT ![w] = FALSE]
  /\ Goto(w, "done")

SamePayload(w) == receipt[key(w)].digest = call[w].digest

\* A delivery arrives: take a connection and BEGIN.
Begin(w, k, d) ==
  /\ pc[w] = "idle"
  /\ call' = [call EXCEPT ![w] = [key |-> k, digest |-> d]]
  /\ Goto(w, "lock")
  /\ UNCHANGED <<receipt, effects, lock, effectIn, receiptIn, outcome, answer>>

\* Mutant: the key is not locked.
NoLock(k) == TRUE

LockIsFree(k) == lock[k] = NoWorker

\* pg_advisory_xact_lock of the hash of consumer, U+0000 and event id: the
\* statement waits for the lock, or the server refuses its parameter.
LockKey(w) ==
  /\ pc[w] = "lock"
  /\ IF TextAcceptsNul
     THEN /\ LockIsFree(key(w))
          /\ lock' = [lock EXCEPT ![key(w)] = w]
          /\ Goto(w, "select")
          /\ UNCHANGED outcome
     ELSE Raise(w, "refused") /\ UNCHANGED lock
  /\ UNCHANGED <<receipt, effects, call, effectIn, receiptIn, answer>>

\* Mutant: a receipt is taken for a duplicate whatever its digest.
ReadIgnoresDigest(w) ==
  /\ pc[w] = "select"
  /\ Goto(w, IF receipt[key(w)] = NoReceipt THEN "effect" ELSE "duplicate")
  /\ UNCHANGED <<receipt, effects, lock, call, effectIn, receiptIn, outcome, answer>>

\* SELECT ... FOR UPDATE: the receipt decides whether the effect runs.
ReadReceipt(w) ==
  /\ pc[w] = "select"
  /\ \/ /\ receipt[key(w)] = NoReceipt
        /\ Goto(w, "effect")
        /\ UNCHANGED outcome
     \/ /\ receipt[key(w)] # NoReceipt
        /\ SamePayload(w)
        /\ Goto(w, "duplicate")
        /\ UNCHANGED outcome
     \/ /\ receipt[key(w)] # NoReceipt
        /\ ~SamePayload(w)
        /\ Raise(w, "conflict")
  /\ UNCHANGED <<receipt, effects, lock, call, effectIn, receiptIn, answer>>

\* The effect runs in the transaction, or throws.
RunEffect(w) ==
  /\ pc[w] = "effect"
  /\ \/ /\ \E r \in Result : effectIn' = [effectIn EXCEPT ![w] = Append(@, r)]
        /\ Goto(w, "insert")
        /\ UNCHANGED outcome
     \/ /\ Raise(w, "failed")
        /\ UNCHANGED effectIn
  /\ UNCHANGED <<receipt, effects, lock, call, receiptIn, answer>>

\* INSERT ... ON CONFLICT DO NOTHING: waits for the same key in flight.  If
\* it meets a receipt, SELECT ... FOR SHARE compares it with the call, in the
\* same step because receipts never change.
InsertReceipt(w) ==
  /\ pc[w] = "insert"
  /\ ~\E v \in Worker \ {w} : receiptIn[v] /\ key(v) = key(w)
  /\ IF receipt[key(w)] = NoReceipt
     THEN /\ receiptIn' = [receiptIn EXCEPT ![w] = TRUE]
          /\ Goto(w, "applied")
          /\ UNCHANGED outcome
     ELSE /\ IF SamePayload(w) THEN Goto(w, "duplicate") /\ UNCHANGED outcome
                              ELSE Raise(w, "conflict")
          /\ UNCHANGED receiptIn
  /\ UNCHANGED <<receipt, effects, lock, call, effectIn, answer>>

\* What COMMIT makes of the effect the transaction has run.
CommitEffects(w) ==
  effects' = [effects EXCEPT ![key(w)] =
    @ \o [i \in DOMAIN effectIn[w] |->
            [digest |-> call[w].digest, result |-> effectIn[w][i]]]]

\* The answer to COMMIT arrives, or is lost.
Answer(w, status, result) ==
  \/ /\ outcome' = [outcome EXCEPT ![w] = status]
     /\ answer' = [answer EXCEPT ![w] = <<result>>]
  \/ /\ outcome' = [outcome EXCEPT ![w] = "failed"]
     /\ UNCHANGED answer

\* Mutant: the effect is committed, its receipt is not.
CommitWithoutReceipt(w) ==
  /\ pc[w] = "applied"
  /\ CommitEffects(w)
  /\ Answer(w, "applied", Head(effectIn[w]))
  /\ EndTransaction(w)
  /\ UNCHANGED <<receipt, call>>

\* COMMIT of a transaction that inserted its receipt: Applied.
CommitApplied(w) ==
  /\ pc[w] = "applied"
  /\ receipt' = [receipt EXCEPT ![key(w)] =
       [digest |-> call[w].digest, result |-> Head(effectIn[w])]]
  /\ CommitEffects(w)
  /\ Answer(w, "applied", Head(effectIn[w]))
  /\ EndTransaction(w)
  /\ UNCHANGED call

\* COMMIT of a transaction that found a receipt: Duplicate.
CommitDuplicate(w) ==
  /\ pc[w] = "duplicate"
  /\ CommitEffects(w)
  /\ Answer(w, "duplicate", receipt[key(w)].result)
  /\ EndTransaction(w)
  /\ UNCHANGED <<receipt, call>>

Rollback(w) ==
  /\ pc[w] = "rollback"
  /\ EndTransaction(w)
  /\ UNCHANGED <<receipt, effects, call, outcome, answer>>

\* The connection breaks: the server rolls back by itself.
ConnectionLost(w) ==
  /\ pc[w] \notin {"idle", "done"}
  /\ outcome' = [outcome EXCEPT ![w] = "failed"]
  /\ EndTransaction(w)
  /\ UNCHANGED <<receipt, effects, call, answer>>

\* The promise settles and the connection returns to the pool.
Return(w) ==
  /\ pc[w] = "done"
  /\ Goto(w, "idle")
  /\ call' = [call EXCEPT ![w] = NoCall]
  /\ outcome' = [outcome EXCEPT ![w] = "pending"]
  /\ answer' = [answer EXCEPT ![w] = <<>>]
  /\ UNCHANGED <<receipt, effects, lock, effectIn, receiptIn>>

Statements(w) ==
  \/ LockKey(w)
  \/ ReadReceipt(w)
  \/ RunEffect(w)
  \/ InsertReceipt(w)
  \/ CommitApplied(w)
  \/ CommitDuplicate(w)
  \/ Rollback(w)
  \/ Return(w)

Next ==
  \E w \in Worker :
    \/ \E k \in Key, d \in Digest : Begin(w, k, d)
    \/ Statements(w)
    \/ ConnectionLost(w)

Spec == Init /\ [][Next]_vars

-----------------------------------------------------------------------------
\* Properties.

\* The effect of a key is committed together with its receipt and only once:
\* no race, crash or lost answer leaves an effect without a receipt, which a
\* redelivery would apply again, or a receipt without its effect, which would
\* never be applied.
EffectsMatchReceipts ==
  \A k \in Key :
    effects[k] = IF receipt[k] = NoReceipt THEN <<>> ELSE <<receipt[k]>>

\* Every caller that gets an answer, the one that applied the effect and all
\* the duplicates, gets the result of the one effect that was committed.
AnswersAgree ==
  \A w \in Worker :
    outcome[w] \in {"applied", "duplicate"} =>
      answer[w] = <<receipt[key(w)].result>> /\ SamePayload(w)

\* An IdempotencyPayloadConflict is only raised against a receipt that
\* carries another digest.
ConflictsAreReal ==
  \A w \in Worker :
    outcome[w] = "conflict" => receipt[key(w)] # NoReceipt /\ ~SamePayload(w)

\* Both of them: every delivery that ends with an answer is told the truth.
AnswersAreRight == AnswersAgree /\ ConflictsAreReal

\* The advisory lock of the key is taken before the effect runs: no delivery
\* is turned away by the lock statement itself.
LockIsTaken == \A w \in Worker : outcome[w] # "refused"

Once == INSTANCE ExactlyOnce WITH Effect <- Applied

\* The transactions implement at-most-once application of each event.
ImplementsExactlyOnce == Once!OnceSpec
-----------------------------------------------------------------------------
\* The inductive invariant behind the safety properties.

\* From its lookup to its COMMIT a transaction holds the lock of its key.
LockIsHeld ==
  \A w \in Worker :
    pc[w] \in {"select", "effect", "insert", "applied", "duplicate"} => lock[key(w)] = w

\* What a transaction has found out and done by each statement.
TransactionProgress ==
  \A w \in Worker :
    /\ pc[w] \in {"effect", "insert", "applied"} => receipt[key(w)] = NoReceipt
    /\ pc[w] = "duplicate" => receipt[key(w)] # NoReceipt /\ SamePayload(w)
    /\ pc[w] \in {"insert", "applied"} => \E r \in Result : effectIn[w] = <<r>>
    /\ pc[w] \notin {"insert", "applied", "rollback"} => effectIn[w] = <<>>

\* The outcome of a call is open until its transaction ends; one that
\* succeeded has a receipt.
OutcomeIsLast ==
  \A w \in Worker :
    /\ pc[w] \notin {"rollback", "done"} => outcome[w] = "pending"
    /\ outcome[w] \in {"applied", "duplicate"} =>
         pc[w] = "done" /\ receipt[key(w)] # NoReceipt

InboxInvariant ==
  /\ TypeOK
  /\ LockIsHeld
  /\ TransactionProgress
  /\ OutcomeIsLast
  /\ EffectsMatchReceipts
  /\ AnswersAgree
  /\ ConflictsAreReal
=============================================================================
