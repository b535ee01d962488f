------------------------- MODULE DeliveryLogProofs --------------------------
(***************************************************************************)
(* Proofs about the delivery logs: Inbox, for any workers, keys, digests   *)
(* and results; Outbox, for any publishers, tokens, limit and lease and    *)
(* any finite number of events; MemoryInbox, for any deliveries, keys and  *)
(* digests and any effects whose results cannot be cloned.                 *)
(***************************************************************************)
EXTENDS Inbox, Outbox, MemoryInbox, FiniteSetTheorems, WellFoundedInduction, TLAPS

-----------------------------------------------------------------------------
\* Inbox.

\* What TypeOK says of one worker's call.
LEMMA CallType ==
  ASSUME TypeOK, NEW w \in Worker
  PROVE  key(w) \in Key /\ call[w].digest \in Digest
  BY DEF TypeOK, key

\* What a COMMIT appends to the effects of a key: the one effect that has
\* run, or nothing.
LEMMA OneEffect ==
  ASSUME NEW r \in Result, NEW d \in Digest
  PROVE  <<>> \o [i \in DOMAIN <<r>> |-> [digest |-> d, result |-> <<r>>[i]]]
           = <<[digest |-> d, result |-> r]>>
  OBVIOUS

LEMMA NoEffect ==
  ASSUME NEW s \in Seq(Applied), NEW d \in Digest
  PROVE  s \o [i \in DOMAIN <<>> |-> [digest |-> d, result |-> <<>>[i]]] = s
  OBVIOUS

\* The tables are empty at first.
LEMMA InboxInit == Init => InboxInvariant
<1>. SUFFICES ASSUME Init PROVE InboxInvariant
  OBVIOUS
<1>1. NoCall \in [key : Key, digest : Digest]
  BY InboxAssumption DEF NoCall
<1>2. TypeOK
  BY <1>1 DEF Init, TypeOK, Statement, Outcome
<1>3. LockIsHeld /\ TransactionProgress /\ OutcomeIsLast
  BY DEF Init, LockIsHeld, TransactionProgress, OutcomeIsLast
<1>4. EffectsMatchReceipts /\ AnswersAgree /\ ConflictsAreReal
  BY DEF Init, EffectsMatchReceipts, AnswersAgree, ConflictsAreReal
<1>. QED  BY <1>2, <1>3, <1>4 DEF InboxInvariant

-----------------------------------------------------------------------------
\* What the two COMMITs write.

\* A COMMIT with a new receipt makes the effect that has run the only one of
\* the key.
LEMMA AppliedEffects ==
  ASSUME InboxInvariant, NEW w \in Worker, CommitApplied(w)
  PROVE  \E x \in Applied :
           /\ effects[key(w)] = <<>>
           /\ x.digest = call[w].digest
           /\ effectIn[w] = <<x.result>>
           /\ receipt' = [receipt EXCEPT ![key(w)] = x]
           /\ effects' = [effects EXCEPT ![key(w)] = <<x>>]
<1>1. PICK r \in Result : effectIn[w] = <<r>>
  BY DEF InboxInvariant, TransactionProgress, CommitApplied
<1>2. key(w) \in Key /\ call[w].digest \in Digest
  BY CallType DEF InboxInvariant
<1>3. effects[key(w)] = <<>>
  BY <1>2 DEF InboxInvariant, TransactionProgress, EffectsMatchReceipts, CommitApplied
<1>. DEFINE x == [digest |-> call[w].digest, result |-> r]
<1>4. x \in Applied
  BY <1>2 DEF Applied
<1>5. receipt' = [receipt EXCEPT ![key(w)] = x]
  BY <1>1 DEF CommitApplied
<1>6. effects' = [effects EXCEPT ![key(w)] = <<x>>]
  <2>1. effects' = [effects EXCEPT ![key(w)] = effects[key(w)] \o
          [i \in DOMAIN <<r>> |-> [digest |-> call[w].digest, result |-> <<r>>[i]]]]
    BY <1>1 DEF CommitApplied, CommitEffects
  <2>. QED  BY <2>1, <1>2, <1>3, OneEffect
<1>. QED  BY <1>1, <1>3, <1>4, <1>5, <1>6

\* A COMMIT of a duplicate writes nothing.
LEMMA DuplicateEffects ==
  ASSUME InboxInvariant, NEW w \in Worker, CommitDuplicate(w)
  PROVE  effects' = effects
<1>1. effectIn[w] = <<>>
  BY DEF InboxInvariant, TransactionProgress, CommitDuplicate
<1>2. /\ key(w) \in Key /\ call[w].digest \in Digest
      /\ effects \in [Key -> Seq(Applied)]
  BY CallType DEF InboxInvariant, TypeOK
<1>3. effects' = [effects EXCEPT ![key(w)] = effects[key(w)] \o
        [i \in DOMAIN <<>> |-> [digest |-> call[w].digest, result |-> <<>>[i]]]]
  BY <1>1 DEF CommitDuplicate, CommitEffects
<1>4. effects' = [effects EXCEPT ![key(w)] = effects[key(w)]]
  BY <1>2, <1>3, NoEffect
<1>. QED  BY <1>2, <1>4

-----------------------------------------------------------------------------
\* An answer is a result, and is there when the outcome says so.
LEMMA AnswerType ==
  ASSUME TypeOK, NEW w \in Worker, NEW how \in Outcome, NEW r \in Result,
         Answer(w, how, r)
  PROVE  outcome' \in [Worker -> Outcome] /\ answer' \in [Worker -> Seq(Result)]
<1>1. <<r>> \in Seq(Result)
  OBVIOUS
<1>. QED  BY <1>1 DEF Answer, TypeOK, Outcome

LEMMA EndType ==
  ASSUME TypeOK, NEW w \in Worker, EndTransaction(w)
  PROVE  /\ lock' \in [Key -> Worker \cup {NoWorker}]
         /\ effectIn' \in [Worker -> Seq(Result)]
         /\ receiptIn' \in [Worker -> BOOLEAN]
         /\ pc' \in [Worker -> Statement]
<1>1. <<>> \in Seq(Result)
  OBVIOUS
<1>. QED  BY <1>1 DEF EndTransaction, Goto, TypeOK, Statement

\* Every action keeps the types.
LEMMA InboxTypeStep ==
  ASSUME InboxInvariant, [Next]_vars
  PROVE  TypeOK'
<1>. USE DEF InboxInvariant, Statement
<1>1. ASSUME NEW w \in Worker, NEW k \in Key, NEW d \in Digest, Begin(w, k, d)
      PROVE  TypeOK'
  BY <1>1 DEF Begin, Goto, TypeOK
<1>2. ASSUME NEW w \in Worker, LockKey(w)
      PROVE  TypeOK'
  <2>1. key(w) \in Key
    BY CallType
  <2>2. lock' \in [Key -> Worker \cup {NoWorker}]
    BY <1>2, <2>1 DEF LockKey, TypeOK
  <2>3. pc' \in [Worker -> Statement] /\ outcome' \in [Worker -> Outcome]
    BY <1>2 DEF LockKey, Raise, Goto, TypeOK, Outcome
  <2>. QED  BY <1>2, <2>2, <2>3 DEF LockKey, TypeOK
<1>3. ASSUME NEW w \in Worker, ReadReceipt(w)
      PROVE  TypeOK'
  BY <1>3 DEF ReadReceipt, Raise, Goto, TypeOK, Outcome
<1>4. ASSUME NEW w \in Worker, RunEffect(w)
      PROVE  TypeOK'
  <2>1. effectIn' \in [Worker -> Seq(Result)]
    <3>1. ASSUME NEW r \in Result, effectIn' = [effectIn EXCEPT ![w] = Append(@, r)]
          PROVE  effectIn' \in [Worker -> Seq(Result)]
      BY <3>1 DEF TypeOK
    <3>. QED  BY <1>4, <3>1 DEF RunEffect, TypeOK
  <2>2. pc' \in [Worker -> Statement] /\ outcome' \in [Worker -> Outcome]
    BY <1>4 DEF RunEffect, Raise, Goto, TypeOK, Outcome
  <2>. QED  BY <1>4, <2>1, <2>2 DEF RunEffect, TypeOK
<1>5. ASSUME NEW w \in Worker, InsertReceipt(w)
      PROVE  TypeOK'
  BY <1>5 DEF InsertReceipt, Raise, Goto, TypeOK, Outcome
<1>6. ASSUME NEW w \in Worker, CommitApplied(w)
      PROVE  TypeOK'
  <2>1. PICK x \in Applied : /\ effectIn[w] = <<x.result>>
                             /\ receipt' = [receipt EXCEPT ![key(w)] = x]
                             /\ effects' = [effects EXCEPT ![key(w)] = <<x>>]
    BY <1>6, AppliedEffects
  <2>2. receipt' \in [Key -> Applied \cup {NoReceipt}] /\ effects' \in [Key -> Seq(Applied)]
    BY <2>1, CallType DEF TypeOK
  <2>3. Head(effectIn[w]) \in Result
    BY <2>1 DEF Applied
  <2>4. outcome' \in [Worker -> Outcome] /\ answer' \in [Worker -> Seq(Result)]
    BY <1>6, <2>3, AnswerType DEF CommitApplied, Outcome
  <2>5. call' = call
    BY <1>6 DEF CommitApplied
  <2>. QED  BY <1>6, <2>2, <2>4, <2>5, EndType DEF CommitApplied, TypeOK
<1>7. ASSUME NEW w \in Worker, CommitDuplicate(w)
      PROVE  TypeOK'
  <2>1. effects' = effects
    BY <1>7, DuplicateEffects
  <2>2. receipt[key(w)].result \in Result
    BY <1>7, CallType DEF CommitDuplicate, TransactionProgress, TypeOK, Applied
  <2>3. outcome' \in [Worker -> Outcome] /\ answer' \in [Worker -> Seq(Result)]
    BY <1>7, <2>2, AnswerType DEF CommitDuplicate, Outcome
  <2>. QED  BY <1>7, <2>1, <2>3, EndType DEF CommitDuplicate, TypeOK
<1>8. ASSUME NEW w \in Worker, Rollback(w)
      PROVE  TypeOK'
  BY <1>8 DEF Rollback, EndTransaction, Goto, TypeOK
<1>9. ASSUME NEW w \in Worker, ConnectionLost(w)
      PROVE  TypeOK'
  BY <1>9 DEF ConnectionLost, EndTransaction, Goto, TypeOK, Outcome
<1>10. ASSUME NEW w \in Worker, Return(w)
       PROVE  TypeOK'
  <2>1. NoCall \in [key : Key, digest : Digest]
    BY InboxAssumption DEF NoCall
  <2>. QED  BY <1>10, <2>1 DEF Return, Goto, TypeOK, Outcome
<1>11. CASE UNCHANGED vars
  BY <1>11 DEF vars, TypeOK
<1>. QED  BY <1>1, <1>2, <1>3, <1>4, <1>5, <1>6, <1>7, <1>8, <1>9, <1>10, <1>11
          DEF Next, Statements

-----------------------------------------------------------------------------
\* Every action keeps the locks, the progress of the transactions and their
\* outcomes in step.
LEMMA LockStep ==
  ASSUME InboxInvariant, [Next]_vars
  PROVE  LockIsHeld'
<1>. USE DEF InboxInvariant, LockIsHeld, key
<1>1. ASSUME NEW w \in Worker, NEW k \in Key, NEW d \in Digest, Begin(w, k, d)
      PROVE  LockIsHeld'
  BY <1>1 DEF Begin, Goto, TypeOK
<1>2. ASSUME NEW w \in Worker, LockKey(w)
      PROVE  LockIsHeld'
  <2>1. CASE TextAcceptsNul
    <3>1. /\ pc' = [pc EXCEPT ![w] = "select"]
          /\ lock' = [lock EXCEPT ![call[w].key] = w]
          /\ call' = call /\ lock[call[w].key] = NoWorker
      BY <1>2, <2>1 DEF LockKey, LockIsFree, Goto
    <3>2. call[w].key \in Key
      BY CallType
    <3>3. ASSUME NEW v \in Worker, v # w,
                 pc[v] \in {"select", "effect", "insert", "applied", "duplicate"}
          PROVE  lock'[call[v].key] = v
      <4>1. lock[call[v].key] = v /\ v # NoWorker
        BY <3>3, InboxAssumption
      <4>. QED  BY <3>1, <3>2, <4>1 DEF TypeOK
    <3>. QED  BY <3>1, <3>2, <3>3 DEF TypeOK
  <2>2. CASE ~TextAcceptsNul
    BY <1>2, <2>2 DEF LockKey, Raise, Goto, TypeOK
  <2>. QED  BY <2>1, <2>2
<1>3. ASSUME NEW w \in Worker,
             ReadReceipt(w) \/ RunEffect(w) \/ InsertReceipt(w) \/ Return(w)
      PROVE  LockIsHeld'
  BY <1>3 DEF ReadReceipt, RunEffect, InsertReceipt, Return, Raise, Goto, TypeOK
<1>4. ASSUME NEW w \in Worker, EndTransaction(w), UNCHANGED call
      PROVE  LockIsHeld'
  BY <1>4 DEF EndTransaction, Goto, TypeOK
<1>5. ASSUME NEW w \in Worker,
             CommitApplied(w) \/ CommitDuplicate(w) \/ Rollback(w) \/ ConnectionLost(w)
      PROVE  LockIsHeld'
  BY <1>4, <1>5 DEF CommitApplied, CommitDuplicate, Rollback, ConnectionLost
<1>6. CASE UNCHANGED vars
  BY <1>6 DEF vars
<1>. QED  BY <1>1, <1>2, <1>3, <1>5, <1>6 DEF Next, Statements

\* Two transactions that hold a lock hold the locks of different keys.
LEMMA DifferentKeys ==
  ASSUME LockIsHeld, NEW v \in Worker, NEW w \in Worker, v # w,
         pc[v] \in {"select", "effect", "insert", "applied", "duplicate"},
         pc[w] \in {"select", "effect", "insert", "applied", "duplicate"}
  PROVE  key(v) # key(w)
  BY DEF LockIsHeld

LEMMA InboxProgressStep ==
  ASSUME InboxInvariant, [Next]_vars
  PROVE  TransactionProgress'
<1>. USE DEF InboxInvariant, TransactionProgress, SamePayload, key
<1>1. ASSUME NEW w \in Worker, NEW k \in Key, NEW d \in Digest, Begin(w, k, d)
      PROVE  TransactionProgress'
  BY <1>1 DEF Begin, Goto, TypeOK
<1>2. ASSUME NEW w \in Worker, LockKey(w)
      PROVE  TransactionProgress'
  BY <1>2 DEF LockKey, Raise, Goto, TypeOK
<1>3. ASSUME NEW w \in Worker, ReadReceipt(w)
      PROVE  TransactionProgress'
  BY <1>3 DEF ReadReceipt, Raise, Goto, TypeOK
<1>4. ASSUME NEW w \in Worker, RunEffect(w)
      PROVE  TransactionProgress'
  <2>1. effectIn[w] = <<>>
    BY <1>4 DEF RunEffect
  <2>2. \A r \in Result : Append(<<>>, r) = <<r>>
    OBVIOUS
  <2>3. ASSUME NEW r \in Result, effectIn' = [effectIn EXCEPT ![w] = Append(@, r)],
               pc' = [pc EXCEPT ![w] = "insert"]
        PROVE  TransactionProgress'
    <3>1. effectIn' = [effectIn EXCEPT ![w] = <<r>>]
      BY <2>1, <2>2, <2>3 DEF TypeOK
    <3>2. receipt' = receipt /\ call' = call /\ receipt[call[w].key] = NoReceipt
      BY <1>4 DEF RunEffect
    <3>3. pc'[w] = "insert" /\ effectIn'[w] = <<r>>
      BY <2>3, <3>1 DEF TypeOK
    <3>4. \A v \in Worker : v # w => pc'[v] = pc[v] /\ effectIn'[v] = effectIn[v]
      BY <2>3, <3>1 DEF TypeOK
    <3>. QED  BY <3>2, <3>3, <3>4
  <2>4. CASE Raise(w, "failed") /\ UNCHANGED effectIn
    BY <1>4, <2>4 DEF RunEffect, Raise, Goto, TypeOK
  <2>. QED  BY <1>4, <2>3, <2>4 DEF RunEffect, Goto
<1>5. ASSUME NEW w \in Worker, InsertReceipt(w)
      PROVE  TransactionProgress'
  BY <1>5 DEF InsertReceipt, Raise, Goto, TypeOK
<1>6. ASSUME NEW w \in Worker, CommitApplied(w)
      PROVE  TransactionProgress'
  <2>1. PICK x \in Applied : receipt' = [receipt EXCEPT ![key(w)] = x]
    BY <1>6, AppliedEffects
  <2>2. /\ pc' = [pc EXCEPT ![w] = "done"]
        /\ effectIn' = [effectIn EXCEPT ![w] = <<>>]
        /\ call' = call
    BY <1>6 DEF CommitApplied, EndTransaction, Goto
  <2>3. x # NoReceipt /\ key(w) \in Key
    BY InboxAssumption, CallType DEF Applied
  <2>4. ASSUME NEW v \in Worker, v # w, pc[v] \in {"effect", "insert", "applied"}
        PROVE  receipt'[key(v)] = NoReceipt
    BY <2>1, <2>4, <1>6, DifferentKeys DEF CommitApplied, TypeOK
  <2>5. ASSUME NEW v \in Worker, v # w, pc[v] = "duplicate"
        PROVE  receipt'[key(v)] = receipt[key(v)]
    BY <2>1, <2>5, <1>6, DifferentKeys DEF CommitApplied, TypeOK
  <2>. QED  BY <2>1, <2>2, <2>3, <2>4, <2>5 DEF TypeOK
<1>7. ASSUME NEW w \in Worker,
             CommitDuplicate(w) \/ Rollback(w) \/ ConnectionLost(w)
      PROVE  TransactionProgress'
  <2>1. /\ pc' = [pc EXCEPT ![w] = "done"]
        /\ effectIn' = [effectIn EXCEPT ![w] = <<>>]
        /\ call' = call /\ receipt' = receipt
    BY <1>7 DEF CommitDuplicate, Rollback, ConnectionLost, EndTransaction, Goto
  <2>. QED  BY <2>1 DEF TypeOK
<1>8. ASSUME NEW w \in Worker, Return(w)
      PROVE  TransactionProgress'
  BY <1>8 DEF Return, Goto, TypeOK
<1>9. CASE UNCHANGED vars
  BY <1>9 DEF vars
<1>. QED  BY <1>1, <1>2, <1>3, <1>4, <1>5, <1>6, <1>7, <1>8, <1>9 DEF Next, Statements

\* An answer that arrives sets the outcome and the result together.
LEMMA OutcomeStep ==
  ASSUME InboxInvariant, [Next]_vars
  PROVE  OutcomeIsLast' /\ AnswersAgree' /\ ConflictsAreReal'
<1>. DEFINE Goal == OutcomeIsLast /\ AnswersAgree /\ ConflictsAreReal
<1>. USE DEF InboxInvariant, OutcomeIsLast, AnswersAgree, ConflictsAreReal, SamePayload, key
<1>1. ASSUME NEW w \in Worker, NEW k \in Key, NEW d \in Digest, Begin(w, k, d)
      PROVE  Goal'
  BY <1>1 DEF Begin, Goto, TypeOK
<1>2. ASSUME NEW w \in Worker, LockKey(w)
      PROVE  Goal'
  BY <1>2 DEF LockKey, Raise, Goto, TypeOK
<1>3. ASSUME NEW w \in Worker, ReadReceipt(w)
      PROVE  Goal'
  BY <1>3 DEF ReadReceipt, Raise, Goto, TypeOK
<1>4. ASSUME NEW w \in Worker, RunEffect(w)
      PROVE  Goal'
  BY <1>4 DEF RunEffect, Raise, Goto, TypeOK
<1>5. ASSUME NEW w \in Worker, InsertReceipt(w)
      PROVE  Goal'
  BY <1>5 DEF InsertReceipt, Raise, Goto, TypeOK
<1>6. ASSUME NEW w \in Worker, CommitApplied(w)
      PROVE  Goal'
  <2>1. PICK x \in Applied : /\ x.digest = call[w].digest
                             /\ effectIn[w] = <<x.result>>
                             /\ receipt' = [receipt EXCEPT ![call[w].key] = x]
    BY <1>6, AppliedEffects
  <2>2. /\ pc' = [pc EXCEPT ![w] = "done"]
        /\ call' = call
        /\ Answer(w, "applied", x.result)
    BY <1>6, <2>1 DEF CommitApplied, EndTransaction, Goto
  <2>3. x # NoReceipt /\ call[w].key \in Key /\ receipt[call[w].key] = NoReceipt
    BY <1>6, InboxAssumption, CallType DEF Applied, CommitApplied, TransactionProgress
  <2>4. receipt'[call[w].key] = x
    BY <2>1, <2>3 DEF TypeOK
  <2>5. \A v \in Worker : receipt[call[v].key] # NoReceipt =>
          receipt'[call[v].key] = receipt[call[v].key]
    BY <2>1, <2>3, CallType DEF TypeOK
  <2>6. \A v \in Worker : v # w =>
          outcome'[v] = outcome[v] /\ answer'[v] = answer[v] /\ pc'[v] = pc[v]
    BY <2>2 DEF Answer, TypeOK
  <2>7. /\ pc'[w] = "done"
        /\ outcome'[w] # "failed" => outcome'[w] = "applied" /\ answer'[w] = <<x.result>>
    BY <2>2 DEF Answer, TypeOK
  <2>8. \A v \in Worker : receipt[call[v].key] # NoReceipt => receipt'[call[v].key] # NoReceipt
    BY <2>5
  <2>9. OutcomeIsLast'
    BY <2>2, <2>3, <2>4, <2>6, <2>7, <2>8
  <2>10. AnswersAgree'
    <3>1. ASSUME NEW v \in Worker, v # w, outcome'[v] \in {"applied", "duplicate"}
          PROVE  /\ answer'[v] = <<receipt'[call[v].key].result>>
                 /\ receipt'[call[v].key].digest = call[v].digest
      BY <2>5, <2>6, <3>1
    <3>. QED  BY <2>1, <2>2, <2>4, <2>7, <3>1
  <2>11. ConflictsAreReal'
    BY <2>2, <2>5, <2>6, <2>7, <2>8
  <2>. QED  BY <2>9, <2>10, <2>11
<1>7. ASSUME NEW w \in Worker, CommitDuplicate(w)
      PROVE  Goal'
  <2>1. /\ pc' = [pc EXCEPT ![w] = "done"]
        /\ call' = call /\ receipt' = receipt
        /\ Answer(w, "duplicate", receipt[call[w].key].result)
    BY <1>7 DEF CommitDuplicate, EndTransaction, Goto
  <2>2. receipt[call[w].key] # NoReceipt /\ receipt[call[w].key].digest = call[w].digest
    BY <1>7 DEF CommitDuplicate, TransactionProgress
  <2>3. \A v \in Worker : v # w =>
          outcome'[v] = outcome[v] /\ answer'[v] = answer[v] /\ pc'[v] = pc[v]
    BY <2>1 DEF Answer, TypeOK
  <2>4. /\ pc'[w] = "done"
        /\ \/ outcome'[w] = "failed"
           \/ /\ outcome'[w] = "duplicate"
              /\ answer'[w] = <<receipt[call[w].key].result>>
    BY <2>1 DEF Answer, TypeOK
  <2>. QED  BY <2>1, <2>2, <2>3, <2>4
<1>8. ASSUME NEW w \in Worker, Rollback(w)
      PROVE  Goal'
  BY <1>8 DEF Rollback, EndTransaction, Goto, TypeOK
<1>9. ASSUME NEW w \in Worker, ConnectionLost(w)
      PROVE  Goal'
  BY <1>9 DEF ConnectionLost, EndTransaction, Goto, TypeOK
<1>10. ASSUME NEW w \in Worker, Return(w)
       PROVE  Goal'
  BY <1>10 DEF Return, Goto, TypeOK
<1>11. CASE UNCHANGED vars
  BY <1>11 DEF vars
<1>. QED  BY <1>1, <1>2, <1>3, <1>4, <1>5, <1>6, <1>7, <1>8, <1>9, <1>10, <1>11
          DEF Next, Statements

\* A step applies the effect of one key that had none and writes its receipt,
\* or touches neither table.
LEMMA TableStep ==
  ASSUME InboxInvariant, [Next]_vars
  PROVE  \/ \E k \in Key : \E x \in Applied :
              /\ effects[k] = <<>>
              /\ effects' = [effects EXCEPT ![k] = <<x>>]
              /\ receipt' = [receipt EXCEPT ![k] = x]
         \/ UNCHANGED <<effects, receipt>>
<1>1. ASSUME NEW w \in Worker, CommitApplied(w)
      PROVE  \E k \in Key : \E x \in Applied :
               /\ effects[k] = <<>>
               /\ effects' = [effects EXCEPT ![k] = <<x>>]
               /\ receipt' = [receipt EXCEPT ![k] = x]
  <2>1. key(w) \in Key
    BY CallType DEF InboxInvariant
  <2>. QED  BY <1>1, <2>1, AppliedEffects
<1>2. ASSUME NEW w \in Worker, CommitDuplicate(w)
      PROVE  UNCHANGED <<effects, receipt>>
  BY <1>2, DuplicateEffects DEF CommitDuplicate
<1>3. CASE UNCHANGED vars
  BY <1>3 DEF vars
<1>. QED  BY <1>1, <1>2, <1>3
          DEF Next, Statements, Begin, LockKey, ReadReceipt, RunEffect, InsertReceipt,
              Rollback, ConnectionLost, Return

LEMMA EffectsStep ==
  ASSUME InboxInvariant, [Next]_vars
  PROVE  EffectsMatchReceipts'
<1>1. CASE UNCHANGED <<effects, receipt>>
  BY <1>1 DEF InboxInvariant, EffectsMatchReceipts
<1>2. ASSUME NEW k \in Key, NEW x \in Applied,
             effects' = [effects EXCEPT ![k] = <<x>>],
             receipt' = [receipt EXCEPT ![k] = x]
      PROVE  EffectsMatchReceipts'
  <2>1. x # NoReceipt
    BY InboxAssumption DEF Applied
  <2>. QED  BY <1>2, <2>1 DEF InboxInvariant, EffectsMatchReceipts, TypeOK
<1>. QED  BY <1>1, <1>2, TableStep

-----------------------------------------------------------------------------
\* The inductive invariant holds in every state.
THEOREM InboxInvariantHolds == Spec => []InboxInvariant
<1>1. InboxInvariant /\ [Next]_vars => InboxInvariant'
  BY InboxTypeStep, LockStep, InboxProgressStep, OutcomeStep, EffectsStep DEF InboxInvariant
<1>. QED  BY InboxInit, <1>1, PTL DEF Spec

\* The variables of the inbox keep their types.
THEOREM TypeCorrectness == Spec => []TypeOK
<1>1. InboxInvariant => TypeOK
  BY DEF InboxInvariant
<1>. QED  BY <1>1, InboxInvariantHolds, PTL

\* The effect of a key and its receipt are committed together, once, whatever
\* the workers do and wherever their connections break.
THEOREM EffectOnce == Spec => []EffectsMatchReceipts
<1>1. InboxInvariant => EffectsMatchReceipts
  BY DEF InboxInvariant
<1>. QED  BY <1>1, InboxInvariantHolds, PTL

\* Everyone who gets an answer gets the result of the one committed effect.
THEOREM AgreedAnswers == Spec => []AnswersAgree
<1>1. InboxInvariant => AnswersAgree
  BY DEF InboxInvariant
<1>. QED  BY <1>1, InboxInvariantHolds, PTL

\* A payload conflict is raised only against a receipt with another digest.
THEOREM RealConflicts == Spec => []ConflictsAreReal
<1>1. InboxInvariant => ConflictsAreReal
  BY DEF InboxInvariant
<1>. QED  BY <1>1, InboxInvariantHolds, PTL

\* Every delivery that ends with an answer is told the truth.
THEOREM RightAnswers == Spec => []AnswersAreRight
<1>1. InboxInvariant => AnswersAreRight
  BY DEF InboxInvariant, AnswersAreRight
<1>. QED  BY <1>1, InboxInvariantHolds, PTL

\* The transactions of the workers implement at-most-once application.
THEOREM Refinement == Spec => ImplementsExactlyOnce
<1>1. Init => Once!OnceInit
  BY DEF Init, Once!OnceInit
<1>2. InboxInvariant /\ [Next]_vars => [Once!OnceNext]_effects
  BY TableStep DEF Once!OnceNext, Once!Apply
<1>. QED  BY <1>1, <1>2, InboxInvariantHolds, PTL
          DEF Spec, ImplementsExactlyOnce, Once!OnceSpec

-----------------------------------------------------------------------------
\* Outbox.

\* p has inserted the token of its claim and not yet ended the transaction.
InTransaction(p) == stage[p] \in {"select", "commit"}

\* A claim works under a token of its own: fresh until it commits, spent after.
ClaimTokens ==
  \A p \in Publisher :
    /\ stage[p] \in {"insert", "select", "commit", "publish"} => token[p] \in Token
    /\ InTransaction(p) => token[p] \notin spent
    /\ stage[p] = "publish" => token[p] \in spent

TransactionTokensAreUnique ==
  \A p, q \in Publisher :
    p # q /\ InTransaction(p) /\ InTransaction(q) => token[p] # token[q]

\* Rows are locked up to the COMMIT and held after it.
ClaimProgress ==
  \A p \in Publisher :
    /\ locked[p] # {} => stage[p] = "commit"
    /\ held[p] # {} => stage[p] = "publish"
    /\ now[p] <= clock

\* A locked row is still what the claim has selected.
LocksHold ==
  \A p \in Publisher :
    /\ Cardinality(locked[p]) <= Limit
    /\ \A e \in locked[p] :
         /\ ~record[e].published
         /\ record[e].token = NoToken \/ Expired(e, now[p])
         /\ ~LockedByOther(p, e)

\* A row that a publisher holds is leased to it, or was until its lease ended.
HeldIsLeased ==
  \A p \in Publisher : \A e \in held[p] :
    \/ record[e].token = token[p] /\ record[e].expires = now[p] + Lease
    \/ now[p] + Lease <= clock

OutboxInvariant ==
  /\ OutboxTypeOK
  /\ ClaimTokens
  /\ TransactionTokensAreUnique
  /\ TokensAreUnique
  /\ ClaimProgress
  /\ LocksHold
  /\ HeldIsLeased
  /\ PublishedUnderItsLease

-----------------------------------------------------------------------------
\* ORDER BY ... LIMIT n takes no more than n rows.

\* The rows before e.
Below(e, S) == {d \in S : d < e}

\* Of finitely many numbers, other than none, one has all the others before it.
LEMMA GreatestExists ==
  ASSUME NEW F, F \subseteq Nat, IsFiniteSet(F), F # {}
  PROVE  \E m \in F : \A e \in F : e <= m
<1>. DEFINE rank(m) == Cardinality(Below(m, F))
            ranks == {Cardinality(F) - rank(m) : m \in F}
<1>1. ASSUME NEW m \in F
      PROVE  /\ IsFiniteSet(Below(m, F)) /\ rank(m) \in Nat
             /\ Cardinality(F) \in Nat /\ rank(m) <= Cardinality(F)
  <2>1. Below(m, F) \in SUBSET F
    BY DEF Below
  <2>. QED  BY <2>1, FS_Subset, FS_CardinalityType
<1>2. ranks \subseteq Nat /\ ranks # {}
  <2>1. \A m \in F : Cardinality(F) - rank(m) \in Nat
    BY <1>1
  <2>. HIDE DEF rank
  <2>. QED  BY <2>1
<1>3. PICK k \in ranks : \A l \in ranks : ~ (<<l, k>> \in OpToRel(<, Nat))
  <2>. HIDE DEF ranks
  <2>. QED  BY <1>2, NatLessThanWellFounded, WFMin
<1>4. PICK m \in F : k = Cardinality(F) - rank(m)
  BY <1>3
<1>5. \A e \in F : rank(e) <= rank(m)
  <2>. SUFFICES ASSUME NEW e \in F PROVE rank(e) <= rank(m)
    OBVIOUS
  <2>1. Cardinality(F) - rank(e) \in ranks
    OBVIOUS
  <2>2. ~ (Cardinality(F) - rank(e) < k)
    BY <1>2, <1>3, <2>1 DEF OpToRel
  <2>. QED  BY <1>1, <1>4, <2>2
<1>6. ASSUME NEW e \in F, m < e PROVE FALSE
  <2>1. Below(m, F) \cup {m} \in SUBSET Below(e, F) /\ m \notin Below(m, F)
    <3>1. m \in Nat /\ e \in Nat
      BY <1>4, <1>6
    <3>2. \A d \in F : d < m => d < e
      BY <1>6, <3>1
    <3>3. ~ (m < m)
      BY <3>1
    <3>. QED  BY <1>4, <1>6, <3>2, <3>3 DEF Below
  <2>2. Cardinality(Below(m, F) \cup {m}) = rank(m) + 1
    BY <1>1, <1>4, <2>1, FS_AddElement
  <2>3. Cardinality(Below(m, F) \cup {m}) <= rank(e)
    BY <1>1, <2>1, FS_Subset
  <2>. QED  BY <1>1, <1>4, <1>5, <2>2, <2>3
<1>. QED  BY <1>4, <1>6

THEOREM FirstIsBounded ==
  ASSUME NEW S, S \subseteq Nat, IsFiniteSet(S), NEW n \in Nat
  PROVE  First(n, S) \subseteq S /\ Cardinality(First(n, S)) <= n
<1>. DEFINE F == First(n, S)
<1>1. F \in SUBSET S /\ IsFiniteSet(F)
  BY FS_Subset DEF First
<1>2. CASE F = {}
  BY <1>1, <1>2, FS_EmptySet
<1>3. CASE F # {}
  <2>1. PICK m \in F : \A e \in F : e <= m
    BY <1>1, <1>3, GreatestExists
  <2>2. /\ IsFiniteSet(Below(m, S)) /\ Cardinality(Below(m, S)) \in Nat
        /\ Cardinality(Below(m, S)) < n
    BY <1>1, FS_Subset, FS_CardinalityType DEF Below, First
  <2>3. F \ {m} \in SUBSET Below(m, S)
    <3>. HIDE DEF F
    <3>1. F \subseteq S /\ F \subseteq Nat
      BY <1>1
    <3>2. \A e \in F : e # m => e < m
      BY <2>1, <3>1
    <3>. QED  BY <3>1, <3>2 DEF Below
  <2>4. Cardinality(F \ {m}) <= Cardinality(Below(m, S))
    BY <2>2, <2>3, FS_Subset
  <2>5. Cardinality(F) \in Nat /\ Cardinality(F \ {m}) = Cardinality(F) - 1
    BY <1>1, FS_RemoveElement, FS_CardinalityType
  <2>. QED  BY <1>1, <2>2, <2>4, <2>5
<1>. QED  BY <1>1, <1>2, <1>3

-----------------------------------------------------------------------------
\* The tables are empty at first, and every publisher idle.
LEMMA OutboxInitInvariant == OutboxInit => OutboxInvariant
<1>. SUFFICES ASSUME OutboxInit PROVE OutboxInvariant
  OBVIOUS
<1>. USE OutboxAssumption DEF OutboxInit
<1>1. OutboxTypeOK
  BY DEF OutboxTypeOK, Record
<1>2. ClaimTokens /\ TransactionTokensAreUnique /\ TokensAreUnique
  BY DEF ClaimTokens, TransactionTokensAreUnique, TokensAreUnique, InTransaction
<1>3. ClaimProgress /\ HeldIsLeased /\ PublishedUnderItsLease
  BY DEF ClaimProgress, HeldIsLeased, PublishedUnderItsLease
<1>4. LocksHold
  BY FS_EmptySet DEF LocksHold
<1>. QED  BY <1>1, <1>2, <1>3, <1>4 DEF OutboxInvariant

-----------------------------------------------------------------------------
\* Every action keeps the types.

LEMMA IdleTypes ==
  ASSUME OutboxTypeOK, NEW p \in Publisher, GoIdle(p)
  PROVE  /\ stage' \in [Publisher -> {"idle", "insert", "select", "commit", "rollback", "publish"}]
         /\ token' \in [Publisher -> Token \cup {NoToken}]
         /\ now' \in [Publisher -> 0..MaxTime]
         /\ locked' \in [Publisher -> SUBSET EventId]
         /\ held' \in [Publisher -> SUBSET EventId]
  BY OutboxAssumption DEF OutboxTypeOK, GoIdle, GoTo

LEMMA OutboxTypeStep == OutboxTypeOK /\ ClaimTokens /\ [OutboxNext]_outboxVars => OutboxTypeOK'
<1>. SUFFICES ASSUME OutboxTypeOK, ClaimTokens, [OutboxNext]_outboxVars PROVE OutboxTypeOK'
  OBVIOUS
<1>. USE OutboxAssumption DEF OutboxTypeOK, GoTo
<1>1. CASE Tick
  BY <1>1 DEF Tick, tables
<1>2. ASSUME NEW p \in Publisher, NEW t \in Token, BeginClaim(p, t) PROVE OutboxTypeOK'
  BY <1>2 DEF BeginClaim, tables
<1>3. ASSUME NEW p \in Publisher, InsertToken(p) PROVE OutboxTypeOK'
  BY <1>3 DEF InsertToken, tables
<1>4. ASSUME NEW p \in Publisher, SelectAndUpdate(p) PROVE OutboxTypeOK'
  <2>1. First(Limit, Candidates(p)) \subseteq EventId
    BY DEF First, Candidates
  <2>. QED  BY <1>4, <2>1 DEF SelectAndUpdate, tables
<1>5. ASSUME NEW p \in Publisher, CommitClaim(p) PROVE OutboxTypeOK'
  <2>1. token[p] \in Token
    BY <1>5 DEF CommitClaim, ClaimTokens
  <2>. now[p] + Lease \in Nat
    OBVIOUS
  <2>2. record' \in [EventId -> Record] /\ spent' \in SUBSET Token
    BY <1>5, <2>1 DEF CommitClaim, Record
  <2>. QED  BY <1>5, <2>2, IdleTypes DEF CommitClaim
<1>6. ASSUME NEW p \in Publisher, RollbackClaim(p) \/ Crash(p) PROVE OutboxTypeOK'
  BY <1>6, IdleTypes DEF RollbackClaim, Crash, tables
<1>7. ASSUME NEW p \in Publisher, NEW e \in EventId, Send(p, e) PROVE OutboxTypeOK'
  <2>1. token[p] \in Token
    BY <1>7 DEF Send, ClaimTokens
  <2>. QED  BY <1>7, <2>1 DEF Send, tables
<1>8. ASSUME NEW p \in Publisher, NEW e \in EventId, ConfirmPublished(p, e) PROVE OutboxTypeOK'
  <2>1. record' \in [EventId -> Record]
    <3>1. [record EXCEPT ![e].published = TRUE] \in [EventId -> Record]
      BY DEF Record
    <3>. QED  BY <1>8, <3>1 DEF ConfirmPublished
  <2>2. clock' = clock /\ spent' = spent /\ sent' = sent
    BY <1>8 DEF ConfirmPublished
  <2>3. PICK rest \in SUBSET EventId :
          \/ GoIdle(p)
          \/ held' = [held EXCEPT ![p] = rest] /\ UNCHANGED <<stage, token, now, locked>>
    BY <1>8 DEF ConfirmPublished
  <2>4. CASE GoIdle(p)
    BY <2>1, <2>2, <2>4, IdleTypes
  <2>5. CASE held' = [held EXCEPT ![p] = rest] /\ UNCHANGED <<stage, token, now, locked>>
    BY <2>1, <2>2, <2>5
  <2>. QED  BY <2>3, <2>4, <2>5
<1>9. CASE UNCHANGED outboxVars
  BY <1>9 DEF outboxVars
<1>. QED  BY <1>1, <1>2, <1>3, <1>4, <1>5, <1>6, <1>7, <1>8, <1>9 DEF OutboxNext, PublisherStep

-----------------------------------------------------------------------------
\* What a step leaves alone, and what forgetting a claim does.

\* Publisher q's part of the state.
RestsWith(q) ==
  /\ stage'[q] = stage[q] /\ token'[q] = token[q] /\ now'[q] = now[q]
  /\ locked'[q] = locked[q] /\ held'[q] = held[q]

LEMMA IdleState ==
  ASSUME OutboxTypeOK, NEW p \in Publisher, GoIdle(p)
  PROVE  /\ stage'[p] = "idle" /\ now'[p] = 0 /\ locked'[p] = {} /\ held'[p] = {}
         /\ \A q \in Publisher \ {p} : RestsWith(q)
  BY DEF OutboxTypeOK, GoIdle, GoTo, RestsWith

LEMMA OthersRest ==
  ASSUME OutboxTypeOK, NEW p \in Publisher, PublisherStep(p), NEW q \in Publisher \ {p}
  PROVE  RestsWith(q)
<1>. USE DEF OutboxTypeOK, GoTo, RestsWith
<1>1. CASE GoIdle(p)
  BY <1>1, IdleState
<1>2. CASE \E t \in Token : BeginClaim(p, t)
  BY <1>2 DEF BeginClaim
<1>3. CASE InsertToken(p) \/ SelectAndUpdate(p)
  BY <1>3 DEF InsertToken, SelectAndUpdate
<1>4. CASE CommitClaim(p) \/ RollbackClaim(p) \/ Crash(p)
  BY <1>1, <1>4 DEF CommitClaim, RollbackClaim, Crash
<1>5. ASSUME NEW e \in EventId, Send(p, e) \/ ConfirmPublished(p, e) PROVE RestsWith(q)
  BY <1>1, <1>5 DEF Send, ConfirmPublished
<1>. QED  BY <1>2, <1>3, <1>4, <1>5 DEF PublisherStep

\* The tables are written by CommitClaim and ConfirmPublished alone.
LEMMA TablesRest ==
  ASSUME NEW p \in Publisher, PublisherStep(p)
  PROVE  \/ CommitClaim(p)
         \/ spent' = spent /\ \E e \in EventId : ConfirmPublished(p, e)
         \/ UNCHANGED tables
  BY DEF PublisherStep, BeginClaim, InsertToken, SelectAndUpdate, RollbackClaim, Crash, Send,
         ConfirmPublished

-----------------------------------------------------------------------------
\* Tokens: one that is inserted is nobody else's, and a committed one is spent.

LEMMA TokenStep ==
  ASSUME OutboxInvariant, NEW p \in Publisher, PublisherStep(p)
  PROVE  ClaimTokens' /\ TransactionTokensAreUnique' /\ TokensAreUnique'
<1>. DEFINE others == \A q \in Publisher \ {p} : RestsWith(q)
<1>. USE DEF OutboxInvariant
<1>0. others
  BY OthersRest
<1>1. CASE CommitClaim(p)
  <2>1. stage[p] = "commit" /\ token[p] \in Token \ spent /\ spent' = spent \cup {token[p]}
    BY <1>1 DEF CommitClaim, ClaimTokens, InTransaction
  <2>2. stage'[p] = "idle" \/ (stage'[p] = "publish" /\ token'[p] = token[p])
    BY <1>1, IdleState DEF CommitClaim, GoTo, OutboxTypeOK
  <2>3. \A q \in Publisher \ {p} :
          /\ InTransaction(q) => token[q] # token[p]
          /\ stage[q] = "publish" => token[q] # token[p]
    BY <2>1 DEF ClaimTokens, TransactionTokensAreUnique, InTransaction
  <2>4. ClaimTokens'
    BY <1>0, <2>1, <2>2, <2>3 DEF ClaimTokens, InTransaction, RestsWith
  <2>5. TransactionTokensAreUnique' /\ TokensAreUnique'
    BY <1>0, <2>2, <2>3 DEF TransactionTokensAreUnique, TokensAreUnique, InTransaction, RestsWith
  <2>. QED  BY <2>4, <2>5
<1>2. CASE InsertToken(p)
  <2>1. /\ stage[p] = "insert" /\ token[p] \in Token /\ token'[p] = token[p] /\ spent' = spent
        /\ stage'[p] = "rollback" \/ (stage'[p] = "select" /\ token[p] \notin spent)
    BY <1>2 DEF InsertToken, ClaimTokens, GoTo, OutboxTypeOK, tables
  <2>2. \A q \in Publisher \ {p} : InTransaction(q) => token[q] # token[p]
    BY <1>2 DEF InsertToken, TokenInFlight, InTransaction
  <2>3. ClaimTokens'
    BY <1>0, <2>1 DEF ClaimTokens, InTransaction, RestsWith
  <2>4. TransactionTokensAreUnique' /\ TokensAreUnique'
    BY <1>0, <2>1, <2>2 DEF TransactionTokensAreUnique, TokensAreUnique, InTransaction, RestsWith
  <2>. QED  BY <2>3, <2>4
<1>3. CASE spent' = spent /\ token'[p] \in Token /\ stage'[p] \in {"insert", "idle"}
  BY <1>0, <1>3 DEF ClaimTokens, TransactionTokensAreUnique, TokensAreUnique, InTransaction, RestsWith
<1>4. CASE spent' = spent /\ stage'[p] = "idle"
  BY <1>0, <1>4 DEF ClaimTokens, TransactionTokensAreUnique, TokensAreUnique, InTransaction, RestsWith
<1>5. CASE /\ spent' = spent /\ token'[p] = token[p]
           /\ stage'[p] = stage[p] \/ (InTransaction(p) /\ stage'[p] \in {"select", "commit"})
  BY <1>0, <1>5 DEF ClaimTokens, TransactionTokensAreUnique, TokensAreUnique, InTransaction, RestsWith
<1>6. CASE \E t \in Token : BeginClaim(p, t)
  BY <1>3, <1>6 DEF BeginClaim, GoTo, OutboxTypeOK, tables
<1>7. CASE SelectAndUpdate(p) \/ \E e \in EventId : Send(p, e)
  BY <1>5, <1>7 DEF SelectAndUpdate, Send, GoTo, OutboxTypeOK, InTransaction, tables
<1>8. CASE RollbackClaim(p) \/ Crash(p)
  BY <1>4, <1>8, IdleState DEF RollbackClaim, Crash, tables
<1>9. CASE \E e \in EventId : ConfirmPublished(p, e)
  BY <1>4, <1>5, <1>9, IdleState DEF ConfirmPublished
<1>. QED  BY <1>1, <1>2, <1>6, <1>7, <1>8, <1>9 DEF PublisherStep

-----------------------------------------------------------------------------
\* Rows: locked up to the COMMIT, held after it.

LEMMA OutboxProgressStep ==
  ASSUME OutboxInvariant, NEW p \in Publisher, PublisherStep(p)
  PROVE  ClaimProgress'
<1>. USE DEF OutboxInvariant
<1>1. clock' = clock /\ clock \in 0..MaxTime
  BY DEF OutboxTypeOK, PublisherStep, BeginClaim, InsertToken, SelectAndUpdate, CommitClaim,
     RollbackClaim, Crash, Send, ConfirmPublished
<1>2. \A q \in Publisher \ {p} : RestsWith(q)
  BY OthersRest
<1>. DEFINE progress == /\ locked'[p] # {} => stage'[p] = "commit"
                        /\ held'[p] # {} => stage'[p] = "publish"
                        /\ now'[p] <= clock
<1>3. CASE GoIdle(p)
  <2>. progress
    BY <1>1, <1>3, IdleState
  <2>. QED  BY <1>1, <1>2 DEF ClaimProgress, RestsWith
<1>4. CASE (\E t \in Token : BeginClaim(p, t)) \/ InsertToken(p) \/ SelectAndUpdate(p)
  <2>. progress
    BY <1>1, <1>4, OutboxAssumption
       DEF BeginClaim, InsertToken, SelectAndUpdate, GoTo, OutboxTypeOK, ClaimProgress
  <2>. QED  BY <1>1, <1>2 DEF ClaimProgress, RestsWith
<1>5. CASE CommitClaim(p)
  <2>1. CASE GoTo(p, "publish")
    <3>. progress
      BY <1>3, <1>5, <2>1 DEF CommitClaim, GoTo, OutboxTypeOK, ClaimProgress
    <3>. QED  BY <1>1, <1>2 DEF ClaimProgress, RestsWith
  <2>. QED  BY <1>3, <1>5, <2>1 DEF CommitClaim
<1>6. ASSUME NEW e \in EventId, Send(p, e) \/ ConfirmPublished(p, e), ~GoIdle(p) PROVE ClaimProgress'
  <2>. progress
    BY <1>1, <1>6 DEF Send, ConfirmPublished, OutboxTypeOK, ClaimProgress
  <2>. QED  BY <1>1, <1>2 DEF ClaimProgress, RestsWith
<1>. QED  BY <1>3, <1>4, <1>5, <1>6 DEF PublisherStep, RollbackClaim, Crash

\* What a claim selects, no other claim has locked, and no one confirms it.
LEMMA LocksStep ==
  ASSUME OutboxInvariant, NEW p \in Publisher, PublisherStep(p)
  PROVE  LocksHold'
<1>. USE DEF OutboxInvariant
<1>1. \A q \in Publisher \ {p} : RestsWith(q)
  BY OthersRest
<1>2. CASE SelectAndUpdate(p)
  <2>1. /\ locked'[p] = First(Limit, Candidates(p)) /\ now'[p] = now[p]
        /\ record' = record
    BY <1>2 DEF SelectAndUpdate, OutboxTypeOK, tables
  <2>2. Candidates(p) \subseteq Nat /\ IsFiniteSet(Candidates(p))
    BY OutboxAssumption, FS_Subset DEF Candidates
  <2>3. locked'[p] \subseteq Candidates(p) /\ Cardinality(locked'[p]) <= Limit
    BY <2>1, <2>2, FirstIsBounded, OutboxAssumption
  <2>4. \A e \in locked'[p] : \A q \in Publisher \ {p} : e \notin locked'[q]
    BY <1>1, <2>3 DEF Candidates, LockedByOther, RestsWith
  <2>5. \A e \in locked'[p] : ~record[e].published
                             /\ (record[e].token = NoToken \/ record[e].expires <= now[p])
    BY <2>3 DEF Candidates, Expired
  <2>6. \A q \in Publisher \ {p} : \A e \in locked[q] :
           /\ ~record[e].published /\ (record[e].token = NoToken \/ record[e].expires <= now[q])
           /\ Cardinality(locked[q]) <= Limit
           /\ \A r \in Publisher \ {q} : e \notin locked[r]
    BY DEF LocksHold, LockedByOther, Expired
  <2>. QED  BY <1>1, <2>1, <2>3, <2>4, <2>5, <2>6 DEF LocksHold, LockedByOther, Expired, RestsWith
<1>3. CASE locked'[p] = {} /\ \A q \in Publisher \ {p} : \A e \in locked[q] : record'[e] = record[e]
  <2>1. Cardinality(locked'[p]) <= Limit
    BY <1>3, FS_EmptySet, OutboxAssumption
  <2>. QED  BY <1>1, <1>3, <2>1 DEF LocksHold, LockedByOther, Expired, RestsWith
<1>4. CASE CommitClaim(p)
  <2>1. locked'[p] = {}
    BY <1>4, IdleState DEF CommitClaim, OutboxTypeOK
  <2>2. \A q \in Publisher \ {p} : \A e \in locked[q] : record'[e] = record[e]
    BY <1>4 DEF CommitClaim, LocksHold, LockedByOther, OutboxTypeOK
  <2>. QED  BY <1>3, <2>1, <2>2
<1>5. CASE \E e \in EventId : ConfirmPublished(p, e)
  <2>1. locked[p] = {}
    BY <1>5 DEF ConfirmPublished, ClaimProgress
  <2>2. locked'[p] = {}
    BY <1>5, <2>1, IdleState DEF ConfirmPublished
  <2>3. \A q \in Publisher \ {p} : \A e \in locked[q] : record'[e] = record[e]
    BY <1>5 DEF ConfirmPublished, LockedByOther, OutboxTypeOK
  <2>. QED  BY <1>3, <2>2, <2>3
<1>6. CASE \/ \E t \in Token : BeginClaim(p, t)
           \/ InsertToken(p) \/ RollbackClaim(p) \/ Crash(p) \/ \E e \in EventId : Send(p, e)
  <2>1. locked'[p] = {} /\ record' = record
    BY <1>6, IdleState DEF BeginClaim, InsertToken, RollbackClaim, Crash, Send, ClaimProgress, tables
  <2>. QED  BY <1>3, <2>1
<1>. QED  BY <1>2, <1>4, <1>5, <1>6 DEF PublisherStep

LEMMA RowsAreEqual ==
  ASSUME NEW r \in Record, NEW s \in Record,
         r.token = s.token, r.expires = s.expires, r.published = s.published
  PROVE  r = s
  BY DEF Record

\* What a COMMIT makes of a row it has locked.
LEMMA LeasedRow ==
  ASSUME NEW r \in Record, NEW t \in Token, NEW until \in Nat, ~r.published
  PROVE  /\ ~[r EXCEPT !.token = t, !.expires = until].published
         /\ [r EXCEPT !.token = t, !.expires = until]
              = [token |-> t, expires |-> until, published |-> FALSE]
<1>. DEFINE x == [r EXCEPT !.token = t, !.expires = until]
            y == [token |-> t, expires |-> until, published |-> FALSE]
<1>1. x \in Record /\ y \in Record
  BY DEF Record
<1>2. r.published = FALSE
  BY DEF Record
<1>3. x.token = y.token /\ x.expires = y.expires /\ x.published = y.published /\ ~x.published
  BY <1>2 DEF Record
<1>. HIDE DEF x, y
<1>4. x = y
  BY <1>1, <1>3, RowsAreEqual
<1>. QED  BY <1>3, <1>4, Zenon DEF x, y

\* A claim takes only rows that no unexpired lease covers.
LEMMA HeldStep ==
  ASSUME OutboxInvariant, NEW p \in Publisher, PublisherStep(p)
  PROVE  HeldIsLeased'
<1>. USE DEF OutboxInvariant
<1>1. \A q \in Publisher \ {p} : RestsWith(q)
  BY OthersRest
<1>2. clock' = clock
  BY DEF PublisherStep, BeginClaim, InsertToken, SelectAndUpdate, CommitClaim, RollbackClaim,
     Crash, Send, ConfirmPublished
<1>3. CASE CommitClaim(p)
  <2>1. ASSUME NEW q \in Publisher \ {p}, NEW e \in held[q]
        PROVE  \/ record'[e].token = token[q] /\ record'[e].expires = now[q] + Lease
               \/ now[q] + Lease <= clock
    <3>1. stage[q] = "publish" /\ token[q] \in Token /\ e \in EventId
      BY DEF ClaimProgress, ClaimTokens, OutboxTypeOK
    <3>2. CASE e \notin locked[p]
      BY <1>3, <3>1, <3>2 DEF CommitClaim, HeldIsLeased
    <3>3. CASE e \in locked[p] /\ record[e].token = token[q] /\ record[e].expires = now[q] + Lease
      <4>1. record[e].expires <= now[p]
        BY <3>1, <3>3, OutboxAssumption DEF LocksHold, Expired
      <4>2. now[p] <= clock /\ clock \in Nat /\ now[p] \in Nat /\ now[q] + Lease \in Nat
        BY OutboxAssumption DEF ClaimProgress, OutboxTypeOK
      <4>. QED  BY <3>3, <4>1, <4>2
    <3>. QED  BY <3>2, <3>3 DEF HeldIsLeased
  <2>2. ASSUME NEW e \in held'[p]
        PROVE  record'[e].token = token'[p] /\ record'[e].expires = now'[p] + Lease
    <3>1. held'[p] = locked[p] /\ token'[p] = token[p] /\ now'[p] = now[p]
      BY <1>3, <2>2, IdleState DEF CommitClaim, OutboxTypeOK
    <3>2. record[e] \in Record /\ e \in EventId
      BY <2>2, <3>1 DEF OutboxTypeOK
    <3>. QED  BY <1>3, <2>2, <3>1, <3>2 DEF CommitClaim, Record
  <2>. QED  BY <1>1, <1>2, <2>1, <2>2 DEF HeldIsLeased, RestsWith
<1>4. CASE /\ held'[p] = {} \/ (held'[p] \subseteq held[p] /\ token'[p] = token[p] /\ now'[p] = now[p])
           /\ \A e \in EventId : record'[e].token = record[e].token
                             /\ record'[e].expires = record[e].expires
  <2>1. \A q \in Publisher : held[q] \subseteq EventId
    BY DEF OutboxTypeOK
  <2>. QED  BY <1>1, <1>2, <1>4, <2>1 DEF HeldIsLeased, RestsWith
<1>5. CASE \E e \in EventId : ConfirmPublished(p, e)
  <2>1. held'[p] = {} \/ (held'[p] \subseteq held[p] /\ token'[p] = token[p] /\ now'[p] = now[p])
    BY <1>5, IdleState DEF ConfirmPublished, OutboxTypeOK
  <2>2. \A e \in EventId : record'[e].token = record[e].token
                        /\ record'[e].expires = record[e].expires
    BY <1>5 DEF ConfirmPublished, OutboxTypeOK, Record
  <2>. QED  BY <1>4, <2>1, <2>2
<1>6. CASE \/ \E t \in Token : BeginClaim(p, t)
           \/ InsertToken(p) \/ SelectAndUpdate(p) \/ RollbackClaim(p) \/ Crash(p)
           \/ \E e \in EventId : Send(p, e)
  <2>1. record' = record
    BY <1>6 DEF BeginClaim, InsertToken, SelectAndUpdate, RollbackClaim, Crash, Send, tables
  <2>2. held'[p] = {} \/ (held'[p] \subseteq held[p] /\ token'[p] = token[p] /\ now'[p] = now[p])
    BY <1>6, IdleState DEF BeginClaim, InsertToken, SelectAndUpdate, RollbackClaim, Crash, Send,
       ClaimProgress
  <2>. QED  BY <1>4, <2>1, <2>2
<1>. QED  BY <1>3, <1>5, <1>6 DEF PublisherStep

\* A published row is never leased again, and only its lease publishes it.
LEMMA PublishedStep ==
  ASSUME OutboxInvariant, NEW p \in Publisher, PublisherStep(p)
  PROVE  PublishedUnderItsLease'
<1>. USE DEF OutboxInvariant
<1>1. sent \subseteq sent'
  BY DEF PublisherStep, BeginClaim, InsertToken, SelectAndUpdate, CommitClaim, RollbackClaim,
     Crash, Send, ConfirmPublished
<1>2. CASE CommitClaim(p)
  <2>1. ASSUME NEW e \in EventId, record'[e].published PROVE record'[e] = record[e]
    <3>0. record[e] \in Record /\ now[p] + Lease \in Nat
      BY OutboxAssumption DEF OutboxTypeOK
    <3>2. token[p] \in Token
      BY <1>2 DEF CommitClaim, ClaimTokens
    <3>1. e \in locked[p] => ~record'[e].published
      BY <1>2, <3>0, <3>2, LeasedRow DEF CommitClaim, LocksHold
    <3>. QED  BY <1>2, <2>1, <3>1 DEF CommitClaim
  <2>. QED  BY <1>1, <2>1 DEF PublishedUnderItsLease
<1>3. ASSUME NEW e \in EventId, ConfirmPublished(p, e) PROVE PublishedUnderItsLease'
  <2>1. <<e, token[p]>> \in sent
    BY <1>3 DEF ConfirmPublished
  <2>2. \A d \in EventId : record'[d] = record[d] \/ (d = e /\ record[d].token = token[p])
    BY <1>3 DEF ConfirmPublished, OwnsLease, OutboxTypeOK, Record
  <2>4. \A d \in EventId : record'[d].token = record[d].token
    BY <1>3 DEF ConfirmPublished, OutboxTypeOK, Record
  <2>3. ASSUME NEW d \in EventId, record'[d].published PROVE <<d, record'[d].token>> \in sent
    <3>1. CASE record'[d] = record[d]
      BY <2>3, <3>1 DEF PublishedUnderItsLease
    <3>2. CASE d = e /\ record[d].token = token[p]
      <4>1. record'[d].token = token[p]
        BY <2>4, <3>2
      <4>. QED  BY <2>1, <3>2, <4>1
    <3>. QED  BY <2>2, <3>1, <3>2
  <2>. QED  BY <1>1, <2>3 DEF PublishedUnderItsLease
<1>4. CASE UNCHANGED tables
  BY <1>1, <1>4 DEF PublishedUnderItsLease, tables
<1>. QED  BY <1>2, <1>3, <1>4, TablesRest

-----------------------------------------------------------------------------
\* Time passes: leases end, and nothing else changes.
LEMMA TickStep ==
  ASSUME OutboxInvariant, Tick \/ UNCHANGED outboxVars
  PROVE  /\ ClaimTokens' /\ TransactionTokensAreUnique' /\ TokensAreUnique'
         /\ ClaimProgress' /\ LocksHold' /\ HeldIsLeased' /\ PublishedUnderItsLease'
<1>1. clock \in Nat /\ clock' \in {clock, clock + 1}
  BY OutboxAssumption DEF OutboxInvariant, OutboxTypeOK, Tick, outboxVars
<1>2. UNCHANGED <<record, spent, stage, token, now, locked, held, sent>>
  BY DEF Tick, outboxVars, tables
<1>3. \A q \in Publisher : now[q] \in Nat /\ now[q] + Lease \in Nat
  BY OutboxAssumption DEF OutboxInvariant, OutboxTypeOK
<1>4. ClaimTokens' /\ TransactionTokensAreUnique' /\ TokensAreUnique'
  BY <1>2 DEF OutboxInvariant, ClaimTokens, TransactionTokensAreUnique, TokensAreUnique, InTransaction
<1>5. ClaimProgress' /\ HeldIsLeased'
  BY <1>1, <1>2, <1>3 DEF OutboxInvariant, ClaimProgress, HeldIsLeased
<1>6. LocksHold' /\ PublishedUnderItsLease'
  BY <1>2 DEF OutboxInvariant, LocksHold, LockedByOther, Expired, PublishedUnderItsLease
<1>. QED  BY <1>4, <1>5, <1>6

\* The inductive invariant of the publishers: a claim works under a fresh
\* token, its rows are locked up to the COMMIT, and what a publisher holds is
\* leased to it or its lease is over.
THEOREM OutboxInvariantHolds == OutboxSpec => []OutboxInvariant
<1>1. OutboxInvariant /\ [OutboxNext]_outboxVars => OutboxInvariant'
  <2>. SUFFICES ASSUME OutboxInvariant, [OutboxNext]_outboxVars PROVE OutboxInvariant'
    OBVIOUS
  <2>1. OutboxTypeOK'
    BY OutboxTypeStep DEF OutboxInvariant
  <2>2. CASE Tick \/ UNCHANGED outboxVars
    BY <2>1, <2>2, TickStep DEF OutboxInvariant
  <2>3. ASSUME NEW p \in Publisher, PublisherStep(p) PROVE OutboxInvariant'
    BY <2>1, <2>3, TokenStep, OutboxProgressStep, LocksStep, HeldStep, PublishedStep DEF OutboxInvariant
  <2>. QED  BY <2>2, <2>3 DEF OutboxNext
<1>. QED  BY OutboxInitInvariant, <1>1, PTL DEF OutboxSpec

\* Of two publishers that hold one event, one must already have stopped.
THEOREM ExclusiveLeases == OutboxSpec => []LeasesAreExclusive
<1>1. OutboxInvariant => LeasesAreExclusive
  <2>. SUFFICES ASSUME OutboxInvariant, NEW p \in Publisher, NEW q \in Publisher, p # q,
                       NEW e \in held[p] \cap held[q]
                PROVE  now[p] + Lease <= clock \/ now[q] + Lease <= clock
    BY DEF LeasesAreExclusive
  <2>1. token[p] # token[q]
    BY DEF OutboxInvariant, ClaimProgress, TokensAreUnique
  <2>. QED  BY <2>1 DEF OutboxInvariant, HeldIsLeased
<1>. QED  BY OutboxInvariantHolds, <1>1, PTL

\* Whatever tokens callers ask for, no two claims work under the same one.
THEOREM UniqueTokens == OutboxSpec => []TokensAreUnique
<1>1. OutboxInvariant => TokensAreUnique
  BY DEF OutboxInvariant
<1>. QED  BY OutboxInvariantHolds, <1>1, PTL

\* What is published was sent by the claim that it is leased to.
THEOREM PublishedByItsLease == OutboxSpec => []PublishedUnderItsLease
<1>1. OutboxInvariant => PublishedUnderItsLease
  BY DEF OutboxInvariant
<1>. QED  BY OutboxInvariantHolds, <1>1, PTL

-----------------------------------------------------------------------------
\* The two modules count alike.
LEMMA SameCardinality == ASSUME NEW S PROVE LeaseSpec!Cardinality(S) = Cardinality(S)
  BY DEF LeaseSpec!Cardinality, Cardinality

\* A COMMIT is the claim of the abstract specification, an UPDATE its
\* confirmation.
LEMMA ImplementationStep ==
  ASSUME OutboxInvariant, [OutboxNext]_outboxVars
  PROVE  [LeaseSpec!LeaseNext(0..(MaxTime + Lease))]_tables
<1>. USE DEF OutboxInvariant
<1>1. ASSUME NEW p \in Publisher, CommitClaim(p)
      PROVE  LeaseSpec!LeaseNext(0..(MaxTime + Lease))
  <2>1. token[p] \in Token \ spent /\ locked[p] \in SUBSET EventId
    BY <1>1 DEF CommitClaim, ClaimTokens, InTransaction, OutboxTypeOK
  <2>2. /\ now[p] \in 0..(MaxTime + Lease) /\ now[p] + Lease \in 0..(MaxTime + Lease)
        /\ now[p] + Lease > now[p]
    BY OutboxAssumption DEF OutboxTypeOK
  <2>3. Cardinality(locked[p]) <= Limit
    BY DEF LocksHold
  <2>4. \A e \in locked[p] : LeaseSpec!Claimable(e, now[p])
    BY DEF LocksHold, Expired, LeaseSpec!Claimable
  <2>5. \A e \in locked[p] :
          [record[e] EXCEPT !.token = token[p], !.expires = now[p] + Lease]
            = [token |-> token[p], expires |-> now[p] + Lease, published |-> FALSE]
    <3>1. \A e \in locked[p] : record[e] \in Record /\ record[e].published = FALSE
      BY DEF LocksHold, OutboxTypeOK, Record
    <3>2. now[p] + Lease \in Nat
      BY <2>2, OutboxAssumption
    <3>. QED  BY <2>1, <3>1, <3>2, LeasedRow
  <2>6. record' = [e \in EventId |->
          IF e \in locked[p]
          THEN [token |-> token[p], expires |-> now[p] + Lease, published |-> FALSE]
          ELSE record[e]]
    BY <1>1, <2>5 DEF CommitClaim
  <2>7. spent' = spent \cup {token[p]}
    BY <1>1 DEF CommitClaim
  <2>8. LeaseSpec!Claim(token[p], now[p], now[p] + Lease, locked[p])
    <3>1. token[p] \notin spent /\ now[p] + Lease > now[p] /\ Cardinality(locked[p]) <= Limit
      BY <2>1, <2>2, <2>3
    <3>2. LeaseSpec!Cardinality(locked[p]) <= Limit
      BY <3>1, SameCardinality
    <3>. QED  BY <3>1, <3>2, <2>4, <2>6, <2>7, Zenon DEF LeaseSpec!Claim
  <2>. QED  BY <2>1, <2>2, <2>8 DEF LeaseSpec!LeaseNext
<1>2. ASSUME NEW p \in Publisher, NEW e \in EventId, ConfirmPublished(p, e), record' # record,
             spent' = spent
      PROVE  LeaseSpec!LeaseNext(0..(MaxTime + Lease))
  <2>1. token[p] \in Token
    BY <1>2 DEF ConfirmPublished, ClaimTokens
  <2>2. LeaseSpec!Confirm(token[p], e)
    BY <1>2 DEF ConfirmPublished, OwnsLease, LeaseSpec!Confirm
  <2>. QED  BY <2>1, <2>2 DEF LeaseSpec!LeaseNext
<1>3. CASE UNCHANGED tables
  BY <1>3
<1>4. CASE Tick \/ UNCHANGED outboxVars
  BY <1>3, <1>4 DEF Tick, outboxVars, tables
<1>5. ASSUME NEW p \in Publisher, PublisherStep(p)
      PROVE  [LeaseSpec!LeaseNext(0..(MaxTime + Lease))]_tables
  BY <1>1, <1>2, <1>3, <1>5, TablesRest DEF tables
<1>. QED  BY <1>4, <1>5 DEF OutboxNext

\* The interleaved statements implement indivisible claims and confirmations.
THEOREM LeaseImplementation == OutboxSpec => ImplementsLease
<1>1. OutboxInit => LeaseSpec!LeaseInit
  BY DEF OutboxInit, LeaseSpec!LeaseInit, LeaseSpec!Free
<1>. QED  BY <1>1, OutboxInvariantHolds, ImplementationStep, PTL DEF OutboxSpec, ImplementsLease

-----------------------------------------------------------------------------
\* MemoryInbox.

\* The log is empty at first.
LEMMA MemoryInitInvariant == MemoryInit => MemoryInvariant
  BY DEF MemoryInit, MemoryInvariant, MemoryTypeOK, EffectIsAlone

LEMMA DigestIsARecord == ASSUME NEW x \in Digest PROVE x # None
  BY MemoryAssumption

\* What the invariant says of a delivery that runs its effect.
LEMMA RunsItsEffect ==
  ASSUME MemoryInvariant, NEW d \in Delivery, where[d] = "effect"
  PROVE  /\ keyOf(d) \in Key /\ what[d].digest \in Digest
         /\ keyOf(d) \in pending /\ records[keyOf(d)] = None
         /\ keyOf(d) \notin Uncloneable => done[keyOf(d)] = <<>>
<1>1. what[d] \in [key : Key, digest : Digest]
  BY DEF MemoryInvariant
<1>2. keyOf(d) \in Key /\ what[d].digest \in Digest
  BY <1>1 DEF keyOf
<1>. QED  BY <1>2 DEF MemoryInvariant, EffectIsAlone

\* Every step keeps the types.
LEMMA MemoryTypeStep == MemoryInvariant /\ [MemoryNext]_memoryVars => MemoryTypeOK'
<1>. SUFFICES ASSUME MemoryInvariant, [MemoryNext]_memoryVars PROVE MemoryTypeOK'
  OBVIOUS
<1>. USE DEF MemoryInvariant
<1>1. CASE UNCHANGED memoryVars
  BY <1>1 DEF MemoryTypeOK, memoryVars
<1>2. ASSUME NEW d \in Delivery, NEW k \in Key, NEW digest \in Digest, Call(d, k, digest)
      PROVE  MemoryTypeOK'
  BY <1>2 DEF Call, MemoryTypeOK
<1>3. ASSUME NEW d \in Delivery, AnswerByReceipt(d) PROVE MemoryTypeOK'
  BY <1>3 DEF AnswerByReceipt, Settle, MemoryTypeOK
<1>4. ASSUME NEW d \in Delivery, Enter(d) PROVE MemoryTypeOK'
  <2>1. keyOf(d) \in Key
    BY <1>4 DEF Enter, keyOf
  <2>. QED  BY <1>4, <2>1 DEF Enter, MemoryTypeOK
<1>5. ASSUME NEW d \in Delivery, Resolve(d) PROVE MemoryTypeOK'
  <2>1. keyOf(d) \in Key /\ what[d].digest \in Digest
    BY <1>5, RunsItsEffect DEF Resolve
  <2>. QED  BY <1>5, <2>1 DEF Resolve, Settle, MemoryTypeOK
<1>6. ASSUME NEW d \in Delivery, CloneFails(d) PROVE MemoryTypeOK'
  <2>1. keyOf(d) \in Key /\ what[d].digest \in Digest
    BY <1>6, RunsItsEffect DEF CloneFails
  <2>. QED  BY <1>6, <2>1 DEF CloneFails, Settle, MemoryTypeOK
<1>7. ASSUME NEW d \in Delivery, Reject(d) PROVE MemoryTypeOK'
  BY <1>7 DEF Reject, Settle, MemoryTypeOK
<1>8. ASSUME NEW d \in Delivery, Redeliver(d) PROVE MemoryTypeOK'
  BY <1>8 DEF Redeliver, MemoryTypeOK
<1>. QED  BY <1>1, <1>2, <1>3, <1>4, <1>5, <1>6, <1>7, <1>8 DEF MemoryNext

\* A delivery keeps its key and digest until it may be repeated.
LEMMA DeliveryStep ==
  MemoryInvariant /\ [MemoryNext]_memoryVars =>
    (\A d \in Delivery : where[d] # "idle" => what[d] \in [key : Key, digest : Digest])'
<1>. SUFFICES ASSUME MemoryInvariant, [MemoryNext]_memoryVars, NEW c \in Delivery, where'[c] # "idle"
              PROVE  what'[c] \in [key : Key, digest : Digest]
  OBVIOUS
<1>. USE DEF MemoryInvariant, MemoryTypeOK
<1>1. CASE UNCHANGED memoryVars
  BY <1>1 DEF memoryVars
<1>2. ASSUME NEW d \in Delivery, NEW k \in Key, NEW digest \in Digest, Call(d, k, digest)
      PROVE  what'[c] \in [key : Key, digest : Digest]
  BY <1>2 DEF Call
<1>3. ASSUME NEW d \in Delivery,
             AnswerByReceipt(d) \/ Enter(d) \/ Resolve(d) \/ CloneFails(d) \/ Reject(d)
      PROVE  what'[c] \in [key : Key, digest : Digest]
  BY <1>3 DEF AnswerByReceipt, Enter, Resolve, CloneFails, Reject, Settle
<1>4. ASSUME NEW d \in Delivery, Redeliver(d) PROVE what'[c] \in [key : Key, digest : Digest]
  BY <1>4 DEF Redeliver
<1>. QED  BY <1>1, <1>2, <1>3, <1>4 DEF MemoryNext

\* The pending promise of a key keeps all other deliveries of it from its
\* effect until the one that runs it has ended.
LEMMA AloneStep == MemoryInvariant /\ [MemoryNext]_memoryVars => EffectIsAlone'
<1>. SUFFICES ASSUME MemoryInvariant, [MemoryNext]_memoryVars PROVE EffectIsAlone'
  OBVIOUS
<1>. USE DEF MemoryInvariant, MemoryTypeOK
<1>1. CASE UNCHANGED memoryVars
  BY <1>1 DEF memoryVars, EffectIsAlone, keyOf
<1>2. ASSUME NEW d \in Delivery, NEW k \in Key, NEW digest \in Digest, Call(d, k, digest)
      PROVE  EffectIsAlone'
  <2>1. \A c \in Delivery : where'[c] = "effect" => where[c] = "effect" /\ what'[c] = what[c]
    BY <1>2 DEF Call
  <2>. QED  BY <1>2, <2>1 DEF Call, EffectIsAlone, keyOf
<1>3. ASSUME NEW d \in Delivery, AnswerByReceipt(d) PROVE EffectIsAlone'
  <2>1. \A c \in Delivery : where'[c] = "effect" => where[c] = "effect"
    BY <1>3 DEF AnswerByReceipt, Settle
  <2>. QED  BY <1>3, <2>1 DEF AnswerByReceipt, EffectIsAlone, keyOf
<1>4. ASSUME NEW d \in Delivery, Enter(d) PROVE EffectIsAlone'
  <2>1. \A c \in Delivery : where'[c] = "effect" => c = d \/ where[c] = "effect"
    BY <1>4 DEF Enter
  <2>2. \A c \in Delivery : where[c] = "effect" => keyOf(c) # keyOf(d)
    BY <1>4 DEF Enter, IsFree, EffectIsAlone
  <2>. QED  BY <1>4, <2>1, <2>2 DEF Enter, EffectIsAlone, keyOf
<1>5. ASSUME NEW d \in Delivery, Resolve(d) \/ CloneFails(d) \/ Reject(d) PROVE EffectIsAlone'
  <2>1. where[d] = "effect" /\ pending' = pending \ {keyOf(d)} /\ what' = what
        /\ (records' = records \/ records' = [records EXCEPT ![keyOf(d)] = what[d].digest])
    BY <1>5 DEF Resolve, CloneFails, Reject
  <2>2. \A c \in Delivery : where'[c] = "effect" => c # d /\ where[c] = "effect"
    BY <1>5 DEF Resolve, CloneFails, Reject, Settle
  <2>3. \A c \in Delivery : where'[c] = "effect" => keyOf(c) # keyOf(d)
    BY <2>1, <2>2 DEF EffectIsAlone
  <2>4. \A c \in Delivery : where'[c] = "effect" => keyOf(c) \in pending' /\ records'[keyOf(c)] = None
    BY <2>1, <2>2, <2>3 DEF EffectIsAlone
  <2>. QED  BY <2>1, <2>2, <2>4 DEF EffectIsAlone, keyOf
<1>6. ASSUME NEW d \in Delivery, Redeliver(d) PROVE EffectIsAlone'
  <2>1. \A c \in Delivery : where'[c] = "effect" => where[c] = "effect" /\ what'[c] = what[c]
    BY <1>6 DEF Redeliver
  <2>. QED  BY <1>6, <2>1 DEF Redeliver, EffectIsAlone, keyOf
<1>. QED  BY <1>1, <1>2, <1>3, <1>4, <1>5, <1>6 DEF MemoryNext

\* What a step does to the effects of a key whose results can be cloned:
\* nothing, or the first one, with its record.
LEMMA DoneStep ==
  ASSUME MemoryInvariant, [MemoryNext]_memoryVars
  PROVE  \/ /\ records' = records
            /\ \A k \in Key \ Uncloneable : done'[k] = done[k]
         \/ \E k \in Key \ Uncloneable, x \in Digest :
              /\ records' = [records EXCEPT ![k] = x]
              /\ done[k] = <<>> /\ done' = [done EXCEPT ![k] = <<x>>]
<1>. USE DEF MemoryInvariant, MemoryTypeOK
<1>1. ASSUME NEW d \in Delivery, Resolve(d)
      PROVE  \E k \in Key \ Uncloneable, x \in Digest :
               /\ records' = [records EXCEPT ![k] = x]
               /\ done[k] = <<>> /\ done' = [done EXCEPT ![k] = <<x>>]
  <2>1. keyOf(d) \in Key \ Uncloneable /\ what[d].digest \in Digest /\ done[keyOf(d)] = <<>>
    BY <1>1, RunsItsEffect DEF Resolve
  <2>2. Append(done[keyOf(d)], what[d].digest) = <<what[d].digest>>
    BY <2>1
  <2>. QED  BY <1>1, <2>1, <2>2 DEF Resolve
<1>2. ASSUME NEW d \in Delivery, CloneFails(d)
      PROVE  records' = records /\ \A k \in Key \ Uncloneable : done'[k] = done[k]
  BY <1>2 DEF CloneFails
<1>3. ASSUME NEW d \in Delivery,
             \/ \E k \in Key, digest \in Digest : Call(d, k, digest)
             \/ AnswerByReceipt(d) \/ Enter(d) \/ Reject(d) \/ Redeliver(d)
      PROVE  records' = records /\ done' = done
  BY <1>3 DEF Call, AnswerByReceipt, Enter, Reject, Redeliver
<1>4. CASE UNCHANGED memoryVars
  BY <1>4 DEF memoryVars
<1>. QED  BY <1>1, <1>2, <1>3, <1>4 DEF MemoryNext

\* The inductive invariant of the log in memory holds in every state.
THEOREM MemoryInvariantHolds == MemorySpec => []MemoryInvariant
<1>1. ASSUME MemoryInvariant, [MemoryNext]_memoryVars PROVE MemoryInvariant'
  <2>1. (\A k \in Key \ Uncloneable : records[k] = None => done[k] = <<>>)'
    <3>1. CASE records' = records /\ \A k \in Key \ Uncloneable : done'[k] = done[k]
      BY <1>1, <3>1 DEF MemoryInvariant
    <3>2. ASSUME NEW k \in Key \ Uncloneable, NEW x \in Digest,
                 records' = [records EXCEPT ![k] = x], done' = [done EXCEPT ![k] = <<x>>]
          PROVE  (\A l \in Key \ Uncloneable : records[l] = None => done[l] = <<>>)'
      BY <1>1, <3>2, DigestIsARecord DEF MemoryInvariant, MemoryTypeOK
    <3>. QED  BY <1>1, <3>1, <3>2, DoneStep
  <2>. QED  BY <1>1, <2>1, MemoryTypeStep, DeliveryStep, AloneStep DEF MemoryInvariant
<1>. QED  BY MemoryInitInvariant, <1>1, PTL DEF MemorySpec

\* However many deliveries of an event wait for each other, its effect is
\* applied once, where its result can be cloned.
THEOREM MemoryRefinement == MemorySpec => MemoryImplementsExactlyOnce
<1>. DEFINE applied == [k \in Key \ Uncloneable |-> done[k]]
<1>1. MemoryInit => MemoryOnce!OnceInit
  BY DEF MemoryInit, MemoryOnce!OnceInit
<1>2. ASSUME MemoryInvariant, [MemoryNext]_memoryVars
      PROVE  [MemoryOnce!OnceNext]_applied
  <2>1. CASE \A k \in Key \ Uncloneable : done'[k] = done[k]
    BY <2>1
  <2>2. ASSUME NEW k \in Key \ Uncloneable, NEW x \in Digest,
               done[k] = <<>>, done' = [done EXCEPT ![k] = <<x>>]
        PROVE  MemoryOnce!OnceNext
    <3>1. applied[k] = <<>> /\ applied' = [applied EXCEPT ![k] = <<x>>]
      BY <1>2, <2>2 DEF MemoryInvariant, MemoryTypeOK
    <3>. QED  BY <3>1 DEF MemoryOnce!OnceNext, MemoryOnce!Apply
  <2>. QED  BY <1>2, <2>1, <2>2, DoneStep
<1>. QED  BY <1>1, <1>2, MemoryInvariantHolds, PTL
          DEF MemorySpec, MemoryImplementsExactlyOnce, MemoryOnce!OnceSpec

=============================================================================
