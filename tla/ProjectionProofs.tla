-------------------------- MODULE ProjectionProofs --------------------------
(***************************************************************************)
(* Proofs about ProjectionStore, for any callers, projections, generations *)
(* and checkpoints.                                                        *)
(***************************************************************************)
EXTENDS ProjectionStore, TLAPS

\* A call that has not begun has some rebuild as its argument.
LEMMA NoCallType == NoCall \in Rebuild
<1>1. PICK n \in Name, g \in Generation, k \in Checkpoint : TRUE
  BY ProjectionStoreAssumption
<1>2. [name |-> n, generation |-> g, checkpoint |-> k] \in Rebuild
  BY DEF Rebuild
<1>. QED  BY <1>2 DEF NoCall

\* What a rebuild is made of.
LEMMA RebuildParts ==
  ASSUME NEW r \in Rebuild
  PROVE  /\ r.name \in Name /\ r.checkpoint \in Int
         /\ Id(r) \in Identity /\ Id(r).name = r.name
         /\ r # NoHead
  BY ProjectionStoreAssumption DEF Rebuild, Identity, Id

\* What TypeOK says of one caller's call.
LEMMA CallType ==
  ASSUME TypeOK, NEW c \in Caller
  PROVE  /\ call[c] \in Rebuild /\ name(c) \in Name
         /\ call[c].checkpoint \in Int
         /\ Id(call[c]) \in Identity
  BY RebuildParts DEF TypeOK, name

\* The tables are empty at first.
LEMMA InitInvariant == Init => StoreInvariant
<1>. SUFFICES ASSUME Init PROVE StoreInvariant
  OBVIOUS
<1>1. TypeOK
  BY NoCallType DEF Init, TypeOK, Statement, Outcome
<1>2. LockIsHeld /\ TransactionProgress /\ OutcomeIsLast /\ CandidatesAreUnique
  BY DEF Init, LockIsHeld, TransactionProgress, Progress, OutcomeIsLast, CandidatesAreUnique
<1>3. HeadNames /\ HeadIsValid /\ PromotionsHold /\ InvalidationsHold
  BY DEF Init, HeadNames, HeadIsValid, PromotionsHold, InvalidationsHold
<1>. QED  BY <1>1, <1>2, <1>3 DEF StoreInvariant

-----------------------------------------------------------------------------
\* What a COMMIT does to the tables: it promotes the rebuild of the call, it
\* invalidates it, or it leaves the tables alone.

Promotes(c) ==
  /\ kind[c] = "promote"
  /\ call[c] \in staged
  /\ Id(call[c]) \notin invalidated
  /\ ~Regresses(c)
  /\ head' = [head EXCEPT ![name(c)] = call[c]]
  /\ invalidated' = invalidated

Invalidates(c) ==
  /\ kind[c] = "invalidate"
  /\ IsCurrent(c)
  /\ head' = [head EXCEPT ![name(c)] = NoHead]
  /\ invalidated' = invalidated \cup {Id(call[c])}

LeavesTables(c) ==
  /\ head' = head /\ invalidated' = invalidated
  /\ kind[c] = "promote" => IsCurrent(c) /\ call[c] \in staged
  /\ kind[c] = "invalidate" => Id(call[c]) \in invalidated

LEMMA CommitCases ==
  ASSUME StoreInvariant, NEW c \in Caller, Commit(c)
  PROVE  staged' = staged /\ (Promotes(c) \/ Invalidates(c) \/ LeavesTables(c))
<1>. USE DEF StoreInvariant
<1>1. pc[c] = "commit" /\ staged' = staged
  BY DEF Commit
<1>2. CASE kind[c] = "promote"
  <2>1. call[c] \in staged /\ Id(call[c]) \notin invalidated
    BY <1>1, <1>2 DEF TransactionProgress, Progress
  <2>2. CASE writes[c] = {"head"}
    BY <1>1, <1>2, <2>1, <2>2 DEF TransactionProgress, Progress, Commit, Promotes
  <2>3. CASE writes[c] = {} /\ IsCurrent(c)
    BY <1>1, <1>2, <2>1, <2>3 DEF Commit, LeavesTables
  <2>. QED  BY <1>1, <1>2, <2>2, <2>3 DEF TransactionProgress, Progress
<1>3. CASE kind[c] = "invalidate"
  <2>1. CASE writes[c] = {"delete", "tombstone"} /\ IsCurrent(c)
    BY <1>1, <1>3, <2>1 DEF Commit, Tombstone, Invalidates
  <2>2. CASE writes[c] = {} /\ Id(call[c]) \in invalidated
    BY <1>1, <1>3, <2>2 DEF Commit, LeavesTables
  <2>. QED  BY <1>1, <1>3, <2>1, <2>2 DEF TransactionProgress, Progress
<1>. QED  BY <1>2, <1>3 DEF TypeOK

\* Every action keeps the types.
LEMMA TypeStep ==
  ASSUME StoreInvariant, [Next]_vars
  PROVE  TypeOK'
<1>. USE DEF StoreInvariant, Statement, Outcome, tables
<1>1. ASSUME NEW r \in Rebuild, Stage(r)
      PROVE  TypeOK'
  BY <1>1 DEF Stage, TypeOK
<1>2. ASSUME NEW c \in Caller, NEW k \in {"promote", "invalidate"}, NEW r \in Rebuild,
             Begin(c, k, r)
      PROVE  TypeOK'
  BY <1>2 DEF Begin, Goto, TypeOK
<1>3. ASSUME NEW c \in Caller, LockProjection(c)
      PROVE  TypeOK'
  BY <1>3, CallType DEF LockProjection, Goto, TypeOK
<1>4. ASSUME NEW c \in Caller, ReadCandidate(c) \/ DecidePromotion(c) \/ DecideInvalidation(c)
      PROVE  TypeOK'
  BY <1>4 DEF ReadCandidate, DecidePromotion, DecideInvalidation, Raise, Goto, TypeOK
<1>5. ASSUME NEW c \in Caller, ReadTombstone(c)
      PROVE  TypeOK'
  <2>1. pc' \in [Caller -> Statement] /\ outcome' \in [Caller -> Outcome]
    BY <1>5 DEF ReadTombstone, Raise, Goto, TypeOK
  <2>. QED  BY <1>5, <2>1 DEF ReadTombstone, TypeOK
<1>6. ASSUME NEW c \in Caller, UpsertHead(c) \/ DeleteHead(c) \/ InsertInvalidation(c)
      PROVE  TypeOK'
  BY <1>6 DEF UpsertHead, DeleteHead, InsertInvalidation, Write, Goto, TypeOK
<1>7. ASSUME NEW c \in Caller, Commit(c)
      PROVE  TypeOK'
  <2>1. head' \in [Name -> Rebuild \cup {NoHead}] /\ invalidated' \in SUBSET Identity
    BY <1>7, CommitCases, CallType DEF Promotes, Invalidates, LeavesTables, TypeOK
  <2>. QED  BY <1>7, <2>1 DEF Commit, EndTransaction, Goto, TypeOK
<1>8. ASSUME NEW c \in Caller, Rollback(c) \/ ConnectionLost(c)
      PROVE  TypeOK'
  BY <1>8 DEF Rollback, ConnectionLost, EndTransaction, Goto, TypeOK
<1>9. ASSUME NEW c \in Caller, Return(c)
      PROVE  TypeOK'
  BY <1>9, NoCallType DEF Return, Goto, TypeOK
<1>10. CASE UNCHANGED vars
  BY <1>10 DEF vars, TypeOK
<1>. QED  BY <1>1, <1>2, <1>3, <1>4, <1>5, <1>6, <1>7, <1>8, <1>9, <1>10
          DEF Next, Statements

\* A transaction keeps its lock until it ends.
LEMMA LockStep ==
  ASSUME StoreInvariant, [Next]_vars
  PROVE  LockIsHeld'
<1>. USE DEF StoreInvariant, LockIsHeld, name
<1>1. ASSUME NEW r \in Rebuild, Stage(r)
      PROVE  LockIsHeld'
  BY <1>1 DEF Stage
<1>2. ASSUME NEW c \in Caller, NEW k \in {"promote", "invalidate"}, NEW r \in Rebuild,
             Begin(c, k, r)
      PROVE  LockIsHeld'
  BY <1>2 DEF Begin, Goto, TypeOK
<1>3. ASSUME NEW c \in Caller, LockProjection(c)
      PROVE  LockIsHeld'
  <2>1. /\ lock' = [lock EXCEPT ![call[c].name] = c] /\ lock[call[c].name] = NoCaller
        /\ call' = call
        /\ \A d \in Caller : d # c => pc'[d] = pc[d]
    BY <1>3 DEF LockProjection, LockIsFree, Goto, TypeOK
  <2>2. call[c].name \in Name /\ c # NoCaller
    BY CallType, ProjectionStoreAssumption
  <2>3. ASSUME NEW d \in Caller, d # c, lock[call[d].name] = d
        PROVE  lock'[call[d].name] = d
    BY <2>1, <2>3, CallType, ProjectionStoreAssumption DEF TypeOK
  <2>. QED  BY <2>1, <2>2, <2>3 DEF TypeOK
<1>4. ASSUME NEW c \in Caller, ReadCandidate(c) \/ DecidePromotion(c) \/ DecideInvalidation(c)
      PROVE  LockIsHeld'
  BY <1>4 DEF ReadCandidate, DecidePromotion, DecideInvalidation, Raise, Goto, TypeOK
<1>5. ASSUME NEW c \in Caller, ReadTombstone(c)
      PROVE  LockIsHeld'
  <2>1. /\ pc[c] = "tombstone" /\ lock' = lock /\ call' = call
        /\ \A d \in Caller : d # c => pc'[d] = pc[d]
    BY <1>5 DEF ReadTombstone, Raise, Goto, TypeOK
  <2>. QED  BY <2>1
<1>6. ASSUME NEW c \in Caller, UpsertHead(c) \/ DeleteHead(c) \/ InsertInvalidation(c)
      PROVE  LockIsHeld'
  BY <1>6 DEF UpsertHead, DeleteHead, InsertInvalidation, Write, Goto, TypeOK
<1>7. ASSUME NEW c \in Caller, EndTransaction(c), UNCHANGED call
      PROVE  LockIsHeld'
  <2>1. /\ lock' = [n \in Name |-> IF lock[n] = c THEN NoCaller ELSE lock[n]]
        /\ pc' = [pc EXCEPT ![c] = "done"]
    BY <1>7 DEF EndTransaction, Goto
  <2>2. ASSUME NEW d \in Caller, d # c, lock[call[d].name] = d
        PROVE  lock'[call[d].name] = d
    BY <2>1, <2>2, CallType
  <2>. QED  BY <1>7, <2>1, <2>2 DEF TypeOK
<1>8. ASSUME NEW c \in Caller, Return(c)
      PROVE  LockIsHeld'
  BY <1>8 DEF Return, Goto, TypeOK
<1>9. CASE UNCHANGED vars
  BY <1>9 DEF vars
<1>. QED  BY <1>1, <1>2, <1>3, <1>4, <1>5, <1>6, <1>7, <1>8, <1>9
          DEF Next, Statements, Commit, Rollback, ConnectionLost

-----------------------------------------------------------------------------
\* What a transaction knows stays true as long as it holds the lock.

Holding == {"candidate", "tombstone", "current", "head", "delete", "insert", "commit"}

\* Two transactions that hold a lock are about different projections.
LEMMA DifferentNames ==
  ASSUME LockIsHeld, NEW c \in Caller, NEW d \in Caller, c # d,
         pc[c] \in Holding, pc[d] \in Holding
  PROVE  name(c) # name(d)
  BY DEF LockIsHeld, Holding

\* The tables a caller has read are the same for it.
SameView(d) ==
  /\ staged \subseteq staged'
  /\ pc[d] \in Holding => /\ head'[name(d)] = head[name(d)]
                          /\ Id(call[d]) \in invalidated' <=> Id(call[d]) \in invalidated

\* A step of others.
LEMMA OtherProgress ==
  ASSUME NEW d \in Caller, Progress(d), SameView(d),
         pc'[d] = pc[d], kind'[d] = kind[d], call'[d] = call[d], writes'[d] = writes[d]
  PROVE  Progress(d)'
<1>1. CASE pc[d] \in Holding
  <2>1. /\ IsCurrent(d)' <=> IsCurrent(d)
        /\ Regresses(d)' <=> Regresses(d)
        /\ Id(call[d])' = Id(call[d])
    BY <1>1 DEF SameView, IsCurrent, Regresses, name, Id
  <2>2. Id(call[d])' \in invalidated' <=> Id(call[d]) \in invalidated
    BY <1>1, <2>1 DEF SameView
  <2>3. call[d] \in staged => call'[d] \in staged'
    BY DEF SameView
  <2>. QED  BY <2>1, <2>2, <2>3 DEF Progress
<1>2. CASE pc[d] \notin Holding
  BY <1>2 DEF Progress, Holding
<1>. QED  BY <1>1, <1>2

\* A step that leaves the tables to others.
LEMMA TablesUnchanged ==
  ASSUME NEW c \in Caller, TransactionProgress, UNCHANGED tables,
         \A d \in Caller \ {c} : /\ pc'[d] = pc[d] /\ kind'[d] = kind[d]
                                 /\ call'[d] = call[d] /\ writes'[d] = writes[d],
         Progress(c)'
  PROVE  TransactionProgress'
<1>1. ASSUME NEW d \in Caller, d # c
      PROVE  Progress(d)'
  <2>1. SameView(d)
    BY DEF tables, SameView
  <2>2. Progress(d)
    BY DEF TransactionProgress
  <2>. QED  BY <1>1, <2>1, <2>2, OtherProgress
<1>. QED  BY <1>1 DEF TransactionProgress

LEMMA ProgressStep ==
  ASSUME StoreInvariant, [Next]_vars
  PROVE  TransactionProgress'
<1>. USE DEF StoreInvariant
<1>0. ASSUME NEW c \in Caller
      PROVE  Progress(c)
  BY DEF TransactionProgress
<1>1. ASSUME NEW r \in Rebuild, Stage(r)
      PROVE  TransactionProgress'
  <2>1. ASSUME NEW d \in Caller
        PROVE  Progress(d)'
    <3>1. SameView(d)
      BY <1>1 DEF Stage, SameView
    <3>. QED  BY <1>0, <1>1, <3>1, OtherProgress DEF Stage
  <2>. QED  BY <2>1 DEF TransactionProgress
<1>2. ASSUME NEW c \in Caller, NEW k \in {"promote", "invalidate"}, NEW r \in Rebuild,
             Begin(c, k, r)
      PROVE  TransactionProgress'
  <2>1. Progress(c)'
    BY <1>0, <1>2 DEF Begin, Goto, TypeOK, Progress
  <2>. QED  BY <1>2, <2>1, TablesUnchanged DEF Begin, Goto, TypeOK
<1>3. ASSUME NEW c \in Caller, LockProjection(c)
      PROVE  TransactionProgress'
  <2>1. /\ pc[c] = "lock" /\ kind' = kind /\ writes' = writes
        /\ pc'[c] = IF kind[c] = "promote" THEN "candidate" ELSE "current"
    BY <1>3 DEF LockProjection, Goto, TypeOK
  <2>2. Progress(c)'
    BY <1>0, <2>1 DEF Progress
  <2>. QED  BY <1>3, <2>2, TablesUnchanged DEF LockProjection, Goto, TypeOK
<1>4. ASSUME NEW c \in Caller, ReadCandidate(c)
      PROVE  TransactionProgress'
  <2>1. Progress(c)'
    BY <1>0, <1>4 DEF ReadCandidate, IsStaged, Raise, Goto, TypeOK, Progress, tables
  <2>. QED  BY <1>4, <2>1, TablesUnchanged DEF ReadCandidate, Raise, Goto, TypeOK
<1>5. ASSUME NEW c \in Caller, ReadTombstone(c)
      PROVE  TransactionProgress'
  <2>1. UNCHANGED <<staged, head, invalidated, kind, call, writes>>
    BY <1>5 DEF ReadTombstone, tables
  <2>2. \/ pc' = [pc EXCEPT ![c] = "rollback"]
        \/ /\ kind[c] = "promote" /\ Id(call[c]) \notin invalidated
           /\ pc' = [pc EXCEPT ![c] = "current"]
        \/ /\ kind[c] = "invalidate" /\ Id(call[c]) \in invalidated
           /\ pc' = [pc EXCEPT ![c] = "commit"]
    BY <1>5 DEF ReadTombstone, IsInvalidated, Raise, Goto, TypeOK
  <2>3. pc[c] = "tombstone" /\ writes[c] = {} /\ (kind[c] = "promote" => call[c] \in staged)
    BY <1>0, <1>5 DEF ReadTombstone, Progress
  <2>4. Progress(c)'
    BY <2>1, <2>2, <2>3 DEF Progress, TypeOK, Id
  <2>. QED  BY <2>1, <2>2, <2>4, TablesUnchanged DEF TypeOK, tables
<1>6. ASSUME NEW c \in Caller, DecidePromotion(c) \/ DecideInvalidation(c)
      PROVE  TransactionProgress'
  <2>1. Progress(c)'
    BY <1>0, <1>6 DEF DecidePromotion, DecideInvalidation, Raise, Goto, TypeOK, Progress,
                      tables, IsCurrent, Regresses, Id, name
  <2>. QED  BY <1>6, <2>1, TablesUnchanged
            DEF DecidePromotion, DecideInvalidation, Raise, Goto, TypeOK
<1>7. ASSUME NEW c \in Caller, UpsertHead(c) \/ DeleteHead(c) \/ InsertInvalidation(c)
      PROVE  TransactionProgress'
  <2>1. Progress(c)'
    BY <1>0, <1>7 DEF UpsertHead, DeleteHead, InsertInvalidation, Write, Goto, TypeOK,
                      Progress, tables, IsCurrent, Regresses, Id, name
  <2>. QED  BY <1>7, <2>1, TablesUnchanged
            DEF UpsertHead, DeleteHead, InsertInvalidation, Write, Goto, TypeOK
<1>8. ASSUME NEW c \in Caller, EndTransaction(c), UNCHANGED <<kind, call>>
      PROVE  /\ Progress(c)'
             /\ \A d \in Caller : d # c => pc'[d] = pc[d] /\ writes'[d] = writes[d]
  BY <1>8 DEF EndTransaction, Goto, TypeOK, Progress
<1>9. ASSUME NEW c \in Caller, Commit(c)
      PROVE  TransactionProgress'
  <2>1. EndTransaction(c) /\ UNCHANGED <<kind, call>> /\ pc[c] = "commit"
    BY <1>9 DEF Commit
  <2>2. ASSUME NEW d \in Caller, d # c
        PROVE  SameView(d)
    <3>1. staged' = staged
      BY <1>9, CommitCases
    <3>2. CASE pc[d] \in Holding
      <4>1. name(d) # name(c)
        BY <2>1, <2>2, <3>2, DifferentNames DEF Holding
      <4>2. Id(call[d]) # Id(call[c])
        BY <4>1 DEF Id, name
      <4>. QED  BY <1>9, <3>1, <4>1, <4>2, CommitCases, CallType
                DEF Promotes, Invalidates, LeavesTables, SameView, TypeOK
    <3>. QED  BY <3>1, <3>2 DEF SameView
  <2>3. ASSUME NEW d \in Caller, d # c
        PROVE  Progress(d)'
    BY <1>0, <1>8, <2>1, <2>2, <2>3, OtherProgress
  <2>. QED  BY <1>8, <2>1, <2>3 DEF TransactionProgress
<1>10. ASSUME NEW c \in Caller, Rollback(c) \/ ConnectionLost(c)
       PROVE  TransactionProgress'
  <2>1. EndTransaction(c) /\ UNCHANGED <<kind, call>> /\ UNCHANGED tables
    BY <1>10 DEF Rollback, ConnectionLost
  <2>. QED  BY <1>8, <2>1, TablesUnchanged
<1>11. ASSUME NEW c \in Caller, Return(c)
       PROVE  TransactionProgress'
  <2>1. Progress(c)'
    BY <1>0, <1>11 DEF Return, Goto, TypeOK, Progress
  <2>. QED  BY <1>11, <2>1, TablesUnchanged DEF Return, Goto, TypeOK
<1>12. CASE UNCHANGED vars
  <2>1. ASSUME NEW d \in Caller
        PROVE  Progress(d)'
    <3>1. SameView(d)
      BY <1>12 DEF vars, tables, SameView
    <3>. QED  BY <1>0, <1>12, <3>1, OtherProgress DEF vars
  <2>. QED  BY <2>1 DEF TransactionProgress
<1>. QED  BY <1>1, <1>2, <1>3, <1>4, <1>5, <1>6, <1>7, <1>9, <1>10, <1>11, <1>12
          DEF Next, Statements

-----------------------------------------------------------------------------
\* What a step does to the three tables.
LEMMA TableStep ==
  ASSUME StoreInvariant, [Next]_vars
  PROVE  \/ \E r \in Rebuild : Stage(r)
         \/ \E c \in Caller : Commit(c) /\ staged' = staged /\ (Promotes(c) \/ Invalidates(c))
         \/ UNCHANGED tables
<1>1. ASSUME NEW c \in Caller, Commit(c)
      PROVE  \/ staged' = staged /\ (Promotes(c) \/ Invalidates(c))
             \/ UNCHANGED tables
  BY <1>1, CommitCases DEF LeavesTables, tables
<1>2. ASSUME NEW c \in Caller, NEW k \in {"promote", "invalidate"}, NEW r \in Rebuild,
             Begin(c, k, r)
      PROVE  UNCHANGED tables
  BY <1>2 DEF Begin
<1>3. ASSUME NEW c \in Caller, Statements(c), ~Commit(c)
      PROVE  UNCHANGED tables
  BY <1>3 DEF Statements, LockProjection, ReadCandidate, ReadTombstone, DecidePromotion,
              DecideInvalidation, UpsertHead, DeleteHead, InsertInvalidation, Write,
              Rollback, ConnectionLost, Return
<1>4. CASE UNCHANGED vars
  BY <1>4 DEF vars
<1>. QED  BY <1>1, <1>2, <1>3, <1>4 DEF Next

LEMMA HeadStep ==
  ASSUME StoreInvariant, [Next]_vars
  PROVE  CandidatesAreUnique' /\ HeadNames' /\ HeadIsValid'
<1>. USE DEF StoreInvariant
<1>1. ASSUME NEW r \in Rebuild, Stage(r)
      PROVE  CandidatesAreUnique' /\ HeadNames' /\ HeadIsValid'
  BY <1>1 DEF Stage, CandidatesAreUnique, HeadNames, HeadIsValid, Id
<1>2. ASSUME NEW c \in Caller, staged' = staged, Promotes(c)
      PROVE  CandidatesAreUnique' /\ HeadNames' /\ HeadIsValid'
  BY <1>2, CallType DEF Promotes, CandidatesAreUnique, HeadNames, HeadIsValid, TypeOK, Id, name
<1>3. ASSUME NEW c \in Caller, staged' = staged, Invalidates(c)
      PROVE  CandidatesAreUnique' /\ HeadNames' /\ HeadIsValid'
  <2>1. CandidatesAreUnique'
    BY <1>3 DEF CandidatesAreUnique, Id
  <2>2. ASSUME NEW n \in Name, head'[n] # NoHead
        PROVE  head'[n].name = n /\ head'[n] \in staged /\ Id(head'[n]) \notin invalidated'
    <3>1. n # name(c) /\ head'[n] = head[n]
      BY <1>3, <2>2, CallType DEF Invalidates, TypeOK
    <3>2. head[n] \in staged /\ Id(head[n]) \notin invalidated
      BY <2>2, <3>1 DEF HeadIsValid
    <3>3. head[n].name = n
      BY <2>2, <3>1 DEF HeadNames
    <3>4. Id(head[n]) # Id(call[c])
      BY <3>1, <3>3 DEF Id, name
    <3>. QED  BY <1>3, <3>1, <3>2, <3>3, <3>4 DEF Invalidates
  <2>. QED  BY <1>3, <2>1, <2>2 DEF HeadNames, HeadIsValid, Id
<1>4. CASE UNCHANGED tables
  BY <1>4 DEF tables, CandidatesAreUnique, HeadNames, HeadIsValid, Id
<1>. QED  BY <1>1, <1>2, <1>3, <1>4, TableStep

-----------------------------------------------------------------------------
\* What the callers have been told.

\* An outcome is written when the transaction ends, and cleared when the call
\* returns.
LEMMA OutcomeStep ==
  ASSUME StoreInvariant, [Next]_vars
  PROVE  OutcomeIsLast'
<1>. USE DEF StoreInvariant, OutcomeIsLast, TypeOK, Goto
<1>1. ASSUME NEW r \in Rebuild, Stage(r)
      PROVE  OutcomeIsLast'
  BY <1>1 DEF Stage
<1>2. ASSUME NEW c \in Caller, NEW k \in {"promote", "invalidate"}, NEW r \in Rebuild,
             Begin(c, k, r)
      PROVE  OutcomeIsLast'
  BY <1>2 DEF Begin
<1>3. ASSUME NEW c \in Caller, LockProjection(c) \/ DecidePromotion(c) \/ DecideInvalidation(c)
      PROVE  OutcomeIsLast'
  BY <1>3 DEF LockProjection, DecidePromotion, DecideInvalidation, Raise
<1>4. ASSUME NEW c \in Caller, ReadCandidate(c)
      PROVE  OutcomeIsLast'
  BY <1>4 DEF ReadCandidate, Raise
<1>5. ASSUME NEW c \in Caller, ReadTombstone(c)
      PROVE  OutcomeIsLast'
  <2>1. pc[c] = "tombstone"
    BY <1>5 DEF ReadTombstone
  <2>2. \/ \E next \in {"current", "commit"} : pc' = [pc EXCEPT ![c] = next] /\ outcome' = outcome
        \/ /\ pc' = [pc EXCEPT ![c] = "rollback"]
           /\ outcome' = [outcome EXCEPT ![c] = "refused"]
    BY <1>5 DEF ReadTombstone, Raise
  <2>. QED  BY <2>1, <2>2
<1>6. ASSUME NEW c \in Caller, UpsertHead(c) \/ DeleteHead(c) \/ InsertInvalidation(c)
      PROVE  OutcomeIsLast'
  BY <1>6 DEF UpsertHead, DeleteHead, InsertInvalidation, Write
<1>7. ASSUME NEW c \in Caller, Commit(c)
      PROVE  OutcomeIsLast'
  <2>1. /\ pc' = [pc EXCEPT ![c] = "done"]
        /\ \E result \in {"success", "failed"} : outcome' = [outcome EXCEPT ![c] = result]
    BY <1>7 DEF Commit, EndTransaction
  <2>. QED  BY <2>1
<1>8. ASSUME NEW c \in Caller, Rollback(c) \/ ConnectionLost(c)
      PROVE  OutcomeIsLast'
  BY <1>8 DEF Rollback, ConnectionLost, EndTransaction
<1>9. ASSUME NEW c \in Caller, Return(c)
      PROVE  OutcomeIsLast'
  BY <1>9 DEF Return
<1>10. CASE UNCHANGED vars
  BY <1>10 DEF vars
<1>. QED  BY <1>1, <1>2, <1>3, <1>4, <1>5, <1>6, <1>7, <1>8, <1>9, <1>10
          DEF Next, Statements

\* Who has been told of a success was told before, or is told by this COMMIT.
LEMMA SuccessStep ==
  ASSUME StoreInvariant, [Next]_vars, NEW d \in Caller, outcome'[d] = "success"
  PROVE  /\ kind'[d] = kind[d] /\ call'[d] = call[d]
         /\ outcome[d] = "success" \/ Commit(d)
<1>. USE DEF StoreInvariant, TypeOK
<1>1. outcome[d] = "success" => pc[d] = "done"
  BY DEF OutcomeIsLast
<1>2. ASSUME NEW r \in Rebuild, Stage(r)
      PROVE  kind' = kind /\ call' = call /\ outcome' = outcome
  BY <1>2 DEF Stage
<1>3. ASSUME NEW c \in Caller, NEW k \in {"promote", "invalidate"}, NEW r \in Rebuild,
             Begin(c, k, r)
      PROVE  kind'[d] = kind[d] /\ call'[d] = call[d] /\ outcome' = outcome
  BY <1>1, <1>3 DEF Begin, OutcomeIsLast
<1>4. ASSUME NEW c \in Caller, Return(c)
      PROVE  kind'[d] = kind[d] /\ call'[d] = call[d] /\ outcome'[d] = outcome[d]
  BY <1>4 DEF Return
<1>5. ASSUME NEW c \in Caller, Commit(c)
      PROVE  kind' = kind /\ call' = call /\ (outcome'[d] = outcome[d] \/ c = d)
  BY <1>5 DEF Commit
<1>6. ASSUME NEW c \in Caller, Statements(c), ~Commit(c), ~Return(c)
      PROVE  kind' = kind /\ call' = call /\ outcome'[d] = outcome[d]
  <2>1. CASE ReadTombstone(c)
    <3>1. /\ kind' = kind /\ call' = call
          /\ outcome' = outcome \/ outcome' = [outcome EXCEPT ![c] = "refused"]
      BY <2>1 DEF ReadTombstone, Raise
    <3>. QED  BY <3>1
  <2>. QED  BY <1>6, <2>1 DEF Statements, LockProjection, ReadCandidate, DecidePromotion,
              DecideInvalidation, UpsertHead, DeleteHead, InsertInvalidation, Write, Raise,
              Rollback, ConnectionLost
<1>7. CASE UNCHANGED vars
  BY <1>7 DEF vars
<1>. QED  BY <1>2, <1>3, <1>4, <1>5, <1>6, <1>7 DEF Next

\* The effect of a promotion is not lost.
LEMMA EffectLasts ==
  ASSUME StoreInvariant, [Next]_vars, NEW q \in Rebuild, TookEffect(q)
  PROVE  TookEffect(q)'
<1>. USE DEF StoreInvariant
<1>1. PICK r \in staged : /\ r.name = q.name
                          /\ r.checkpoint >= q.checkpoint
                          /\ head[q.name] = r \/ Id(r) \in invalidated
  BY DEF TookEffect
<1>2. r \in Rebuild /\ r.checkpoint \in Int /\ q.checkpoint \in Int /\ q.name \in Name
      /\ r # NoHead
  BY <1>1, RebuildParts DEF TypeOK
<1>3. ASSUME NEW s \in Rebuild, Stage(s)
      PROVE  TookEffect(q)'
  BY <1>1, <1>3 DEF Stage, TookEffect, Id
<1>4. ASSUME NEW c \in Caller, staged' = staged, Promotes(c)
      PROVE  TookEffect(q)'
  <2>1. CASE head[q.name] = r /\ q.name = name(c)
    <3>1. PICK s \in staged : s = call[c]
      BY <1>4 DEF Promotes
    <3>2. s.name = q.name /\ head'[q.name] = s /\ s.checkpoint \in Int
      BY <1>2, <1>4, <2>1, <3>1, CallType DEF Promotes, name, TypeOK
    <3>3. s.checkpoint >= r.checkpoint
      BY <1>2, <1>4, <2>1, <3>1, <3>2 DEF Promotes, Regresses
    <3>. QED  BY <1>1, <1>2, <1>4, <3>1, <3>2, <3>3 DEF TookEffect
  <2>2. CASE head[q.name] # r \/ q.name # name(c)
    <3>1. head'[q.name] = r \/ Id(r) \in invalidated'
      BY <1>1, <1>2, <1>4, <2>2, CallType DEF Promotes, TypeOK
    <3>. QED  BY <1>1, <1>4, <3>1 DEF TookEffect, Id
  <2>. QED  BY <2>1, <2>2
<1>5. ASSUME NEW c \in Caller, staged' = staged, Invalidates(c)
      PROVE  TookEffect(q)'
  <2>1. head'[q.name] = r \/ Id(r) \in invalidated'
    BY <1>1, <1>2, <1>5, CallType DEF Invalidates, IsCurrent, TypeOK
  <2>. QED  BY <1>1, <1>5, <2>1 DEF TookEffect, Id
<1>6. CASE UNCHANGED tables
  BY <1>1, <1>6 DEF tables, TookEffect, Id
<1>. QED  BY <1>3, <1>4, <1>5, <1>6, TableStep

\* What was acknowledged holds after the COMMIT, and from then on.
LEMMA AcknowledgedStep ==
  ASSUME StoreInvariant, [Next]_vars
  PROVE  PromotionsHold' /\ InvalidationsHold'
<1>. USE DEF StoreInvariant
<1>1. ASSUME NEW d \in Caller, outcome'[d] = "success", kind'[d] = "promote"
      PROVE  TookEffect(call[d])'
  <2>1. PICK q \in Rebuild : q = call[d]
    BY CallType
  <2>2. call'[d] = q /\ kind[d] = "promote" /\ (outcome[d] = "success" \/ Commit(d))
    BY <1>1, <2>1, SuccessStep
  <2>3. CASE outcome[d] = "success"
    <3>1. TookEffect(q)
      BY <2>1, <2>2, <2>3 DEF PromotionsHold
    <3>2. TookEffect(q)'
      BY <3>1, EffectLasts
    <3>. QED  BY <2>2, <3>2 DEF TookEffect
  <2>4. CASE Commit(d)
    <3>1. q.checkpoint \in Int /\ q.name \in Name /\ q.name = name(d) /\ q # NoHead
      BY <2>1, RebuildParts DEF name
    <3>2. CASE Promotes(d)
      <4>1. q \in staged' /\ head'[q.name] = q
        BY <2>1, <2>4, <3>1, <3>2, CommitCases DEF Promotes, TypeOK
      <4>. QED  BY <2>2, <3>1, <4>1 DEF TookEffect
    <3>3. CASE LeavesTables(d)
      <4>1. q \in staged /\ head[q.name] # NoHead /\ Id(head[q.name]) = Id(q)
        BY <2>1, <2>2, <3>1, <3>3 DEF LeavesTables, IsCurrent
      <4>2. head[q.name] = q
        BY <3>1, <4>1 DEF HeadIsValid, CandidatesAreUnique
      <4>3. q \in staged' /\ head'[q.name] = q
        BY <2>4, <3>3, <4>1, <4>2, CommitCases DEF LeavesTables
      <4>. QED  BY <2>2, <3>1, <4>3 DEF TookEffect
    <3>. QED  BY <2>2, <2>4, <3>2, <3>3, CommitCases DEF Invalidates
  <2>. QED  BY <2>2, <2>3, <2>4
<1>2. ASSUME NEW d \in Caller, outcome'[d] = "success", kind'[d] = "invalidate"
      PROVE  Id(call[d])' \in invalidated'
  <2>1. /\ kind[d] = "invalidate" /\ Id(call[d])' = Id(call[d])
        /\ outcome[d] = "success" \/ Commit(d)
    BY <1>2, SuccessStep DEF Id
  <2>2. CASE outcome[d] = "success"
    <3>1. Id(call[d]) \in invalidated
      BY <2>1, <2>2 DEF InvalidationsHold
    <3>2. invalidated \subseteq invalidated'
      BY TableStep DEF Stage, Promotes, Invalidates, tables
    <3>. QED  BY <2>1, <3>1, <3>2
  <2>3. CASE Commit(d)
    BY <2>1, <2>3, CommitCases DEF Promotes, Invalidates, LeavesTables
  <2>. QED  BY <2>1, <2>2, <2>3
<1>. QED  BY <1>1, <1>2 DEF PromotionsHold, InvalidationsHold

\* The inductive invariant: a transaction that holds the lock of its
\* projection acts on what it has read, whatever the others do.
THEOREM StoreInvariantHolds == Spec => []StoreInvariant
<1>1. Init => StoreInvariant
  BY InitInvariant
<1>2. StoreInvariant /\ [Next]_vars => StoreInvariant'
  BY TypeStep, LockStep, ProgressStep, OutcomeStep, HeadStep, AcknowledgedStep
     DEF StoreInvariant
<1>. QED  BY <1>1, <1>2, PTL DEF Spec

-----------------------------------------------------------------------------
\* The properties.

\* Every table row, lock, call and answer has its type.
THEOREM TypeCorrectness == Spec => []TypeOK
<1>1. StoreInvariant => TypeOK
  BY DEF StoreInvariant
<1>. QED  BY <1>1, StoreInvariantHolds, PTL

\* What promote makes current was staged as it is and is not invalidated.
THEOREM ValidHeads == Spec => []HeadIsValid
<1>1. StoreInvariant => HeadIsValid
  BY DEF StoreInvariant
<1>. QED  BY <1>1, StoreInvariantHolds, PTL

\* A promotion that returned normally is in effect until a later one or its
\* own invalidation, and an invalidation that returned normally is recorded.
THEOREM AcknowledgedCalls == Spec => []AcknowledgedCallsHold
<1>1. StoreInvariant => AcknowledgedCallsHold
  BY DEF StoreInvariant, AcknowledgedCallsHold
<1>. QED  BY <1>1, StoreInvariantHolds, PTL

\* promote never replaces the current rebuild by one with an earlier
\* checkpoint, however two promotions interleave.
THEOREM AdvancingCheckpoints == Spec => CheckpointsOnlyAdvance
<1>1. ASSUME StoreInvariant, [Next]_vars
      PROVE  [\A n \in Name :
                head[n] # NoHead /\ head'[n] # NoHead =>
                  head'[n].checkpoint >= head[n].checkpoint]_head
  <2>. USE <1>1 DEF StoreInvariant
  <2>. SUFFICES ASSUME NEW n \in Name, head[n] # NoHead, head'[n] # NoHead
                PROVE  head'[n].checkpoint >= head[n].checkpoint
    OBVIOUS
  <2>1. head[n].checkpoint \in Int
    BY RebuildParts DEF TypeOK
  <2>2. ASSUME NEW c \in Caller, Promotes(c)
        PROVE  head'[n].checkpoint >= head[n].checkpoint
    BY <2>1, <2>2, CallType DEF Promotes, Regresses, TypeOK
  <2>3. ASSUME NEW c \in Caller, Invalidates(c)
        PROVE  head'[n] = head[n]
    BY <2>3, CallType DEF Invalidates, TypeOK
  <2>. QED  BY <2>1, <2>2, <2>3, TableStep DEF Stage, tables
<1>. QED  BY <1>1, StoreInvariantHolds, PTL DEF Spec, CheckpointsOnlyAdvance

\* A COMMIT is one promotion or invalidation of the abstract store, and every
\* other statement is no step of it.
THEOREM Refinement == Spec => ImplementsProjectionHeads
<1>. USE DEF Heads!Rebuild, Heads!Identity, Heads!Id, Heads!headVars
<1>1. Init => Heads!HeadsInit
  BY DEF Init, Heads!HeadsInit
<1>2. ASSUME StoreInvariant, [Next]_vars
      PROVE  [Heads!HeadsNext]_<<staged, head, invalidated>>
  <2>. USE <1>2 DEF StoreInvariant
  <2>1. ASSUME NEW r \in Rebuild, Stage(r)
        PROVE  Heads!HeadsNext
    <3>1. Heads!Stage(r)
      BY <2>1 DEF Stage, Heads!Stage, Id
    <3>. QED  BY <3>1 DEF Rebuild, Heads!HeadsNext
  <2>2. ASSUME NEW c \in Caller, staged' = staged, Promotes(c)
        PROVE  Heads!HeadsNext
    <3>1. PICK r \in Rebuild : r = call[c]
      BY CallType
    <3>2. r.name = name(c) /\ r.checkpoint \in Int
      BY <3>1, RebuildParts DEF name
    <3>3. head[r.name] # NoHead => head[r.name].checkpoint <= r.checkpoint
      BY <2>2, <3>1, <3>2, RebuildParts DEF Promotes, Regresses, TypeOK, Rebuild
    <3>4. Heads!Promote(r)
      BY <2>2, <3>1, <3>2, <3>3 DEF Promotes, Heads!Promote, Id
    <3>. QED  BY <3>4 DEF Rebuild, Heads!HeadsNext
  <2>3. ASSUME NEW c \in Caller, staged' = staged, Invalidates(c)
        PROVE  Heads!HeadsNext
    <3>1. PICK i \in Identity : i = Id(call[c])
      BY CallType
    <3>2. i.name = name(c)
      BY <3>1, CallType DEF Id, name
    <3>3. Heads!Invalidate(i)
      BY <2>3, <3>1, <3>2 DEF Invalidates, IsCurrent, Heads!Invalidate, Id
    <3>. QED  BY <3>3 DEF Identity, Heads!HeadsNext
  <2>4. CASE UNCHANGED tables
    BY <2>4 DEF tables
  <2>. QED  BY <2>1, <2>2, <2>3, <2>4, TableStep
<1>. QED  BY <1>1, <1>2, StoreInvariantHolds, PTL
          DEF Spec, ImplementsProjectionHeads, Heads!HeadsSpec
=============================================================================
