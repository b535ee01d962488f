-------------------------- MODULE SettlementStore ---------------------------
(***************************************************************************)
(* settleEvidencePersisted over PostgresSettlementStore: the settlement is *)
(* computed, looked for, and saved in one READ COMMITTED transaction that  *)
(* begins with the cycle, whose unique keys decide who settles, and goes   *)
(* on table by table; triggers check the rows as they come and all of them *)
(* at COMMIT.  Connections break at any statement, and the answer to a     *)
(* COMMIT that took effect may be lost.                                    *)
(*                                                                         *)
(* The rows of a table are inserted in one step: no other transaction sees *)
(* them before COMMIT, and a failure between two of them ends as one       *)
(* between two tables does.  Committed rows never change (triggers refuse  *)
(* it), so that reading them takes one step as well.                       *)
(***************************************************************************)
EXTENDS Settlement

CONSTANTS Caller,    \* concurrent calls
          Evidence,  \* evidences, with their campaigns
          Nameless,  \* those whose identity, or whose campaign's, is the empty text
          CycleId,   \* the cycle identity of each; joined texts may coincide
          Offers,    \* what each caller may be called with, in one execution
          NoSettlement

\* The inputs of all offers, and what may be settled for them.
Offered == UNION {UNION {f[c] : c \in Caller} : f \in Offers}

Settlements == {Materialization(p[2]) : p \in {q \in Offered : IsEligible(q[2])}}

ASSUME SettlementStoreAssumption ==
  /\ Evidence # {} /\ Nameless \subseteq Evidence
  /\ Offers \subseteq [Caller -> SUBSET (Evidence \X Input)]
  /\ NoSettlement \notin Settlements

VARIABLES offer,     \* the offer of this execution
          settled,   \* the committed settlement of each evidence
          pc,        \* the statement each caller runs next
          evidence,  \* the evidence it is called with
          result,    \* the settlement it has computed
          written,   \* tables the open transaction has inserted into
          answer,    \* the settlement returned
          outcome    \* how the call ended

callVars == <<evidence, result, answer>>
vars == <<offer, settled, pc, callVars, written, outcome>>

-----------------------------------------------------------------------------
Table == <<"cycle", "shares", "rights", "journal", "lines", "ledger">>

Tables == {Table[t] : t \in DOMAIN Table}

Statement == Tables \cup {"idle", "find", "key", "replay", "commit", "rollback", "done"}

Outcome == {"pending", "success", "ineligible", "divergent", "key violation",
            "integrity", "failed"}

TypeOK ==
  /\ offer \in Offers
  /\ settled \in [Evidence -> Settlements \cup {NoSettlement}]
  /\ pc \in [Caller -> Statement]
  /\ evidence \in [Caller -> Evidence]
  /\ result \in [Caller -> Settlements \cup {NoSettlement}]
  /\ written \in [Caller -> SUBSET Tables]
  /\ answer \in [Caller -> Settlements \cup {NoSettlement}]
  /\ outcome \in [Caller -> Outcome]

NoEvidence == CHOOSE e \in Evidence : TRUE

Init ==
  /\ offer \in Offers
  /\ settled = [e \in Evidence |-> NoSettlement]
  /\ pc = [c \in Caller |-> "idle"]
  /\ evidence = [c \in Caller |-> NoEvidence]
  /\ result = [c \in Caller |-> NoSettlement]
  /\ written = [c \in Caller |-> {}]
  /\ answer = [c \in Caller |-> NoSettlement]
  /\ outcome = [c \in Caller |-> "pending"]

-----------------------------------------------------------------------------
Goto(c, statement) == pc' = [pc EXCEPT ![c] = statement]

End(c, how) ==
  /\ Goto(c, "done")
  /\ outcome' = [outcome EXCEPT ![c] = how]

Raise(c, error) ==
  /\ Goto(c, "rollback")
  /\ outcome' = [outcome EXCEPT ![c] = error]

Answer(c, s) == answer' = [answer EXCEPT ![c] = s]

\* The settlement is computed; evidence that may not be settled ends the call.
Begin(c, e, i) ==
  /\ pc[c] = "idle" /\ <<e, i>> \in offer[c]
  /\ evidence' = [evidence EXCEPT ![c] = e]
  /\ \/ /\ IsEligible(i)
        /\ result' = [result EXCEPT ![c] = Materialization(i)]
        /\ Goto(c, "find") /\ UNCHANGED outcome
     \/ ~IsEligible(i) /\ End(c, "ineligible") /\ UNCHANGED result
  /\ UNCHANGED <<offer, settled, written, answer>>

\* Mutant: a replay is not compared with what is stored.
AnySettlement(c) == TRUE

\* The replay equals what is stored, in every part.
IsReplay(c) == settled[evidence[c]] = result[c]

FindByEvidence(c) ==
  /\ pc[c] = "find"
  /\ \/ /\ settled[evidence[c]] = NoSettlement
        /\ Goto(c, "cycle") /\ UNCHANGED <<outcome, answer>>
     \/ /\ settled[evidence[c]] # NoSettlement /\ IsReplay(c)
        /\ Answer(c, settled[evidence[c]]) /\ End(c, "success")
     \/ /\ settled[evidence[c]] # NoSettlement /\ ~IsReplay(c)
        /\ End(c, "divergent") /\ UNCHANGED answer
  /\ UNCHANGED <<offer, settled, evidence, result, written>>

SameCycle(e) == {f \in Evidence : CycleId[f] = CycleId[e]}

\* Another transaction has inserted a cycle with this identity.
CycleInFlight(c) ==
  \E d \in Caller \ {c} : "cycle" \in written[d] /\ evidence[d] \in SameCycle(evidence[c])

CycleIsTaken(c) == \E f \in SameCycle(evidence[c]) : settled[f] # NoSettlement

\* Mutant: an identity that is taken stops nobody.
NoPrimaryKey(c) == /\ written' = [written EXCEPT ![c] = {"cycle"}]
                   /\ Goto(c, "shares") /\ UNCHANGED outcome

\* The primary key of the cycle refuses the row or takes it.
AddCycle(c) ==
  \/ CycleIsTaken(c) /\ Raise(c, "key violation") /\ UNCHANGED written
  \/ /\ ~CycleIsTaken(c)
     /\ written' = [written EXCEPT ![c] = {"cycle"}]
     /\ Goto(c, "shares") /\ UNCHANGED outcome

\* What the checks of settlement_cycles ask of the row: texts, and, since
\* migration 009, an amount above zero.
CycleIsValid(e, s) == e \notin Nameless /\ s.gross > 0

\* The checks come before the keys: a row they refuse waits for nobody.
RefuseCycle(c) ==
  /\ pc[c] = "cycle" /\ ~CycleIsValid(evidence[c], result[c])
  /\ Raise(c, "integrity")
  /\ UNCHANGED <<offer, settled, callVars, written>>

\* INSERT ... ON CONFLICT (campaign_id, evidence_id) DO NOTHING waits for a
\* cycle in flight.
InsertCycle(c) ==
  /\ pc[c] = "cycle" /\ ~CycleInFlight(c) /\ CycleIsValid(evidence[c], result[c])
  /\ IF settled[evidence[c]] # NoSettlement
     THEN Goto(c, "replay") /\ UNCHANGED <<written, outcome>>
     ELSE AddCycle(c)
  /\ UNCHANGED <<offer, settled, callVars>>

\* The conflict is looked for by campaign and evidence only: a cycle that
\* another transaction inserts meanwhile, or one of another evidence with the
\* same identity, is met at the primary key, which waits and does not forgive.
MeetPrimaryKey(c) ==
  /\ pc[c] = "cycle" /\ CycleInFlight(c) /\ CycleIsValid(evidence[c], result[c])
  /\ Goto(c, "key")
  /\ UNCHANGED <<offer, settled, callVars, written, outcome>>

PrimaryKeyIsFree(c) ==
  /\ pc[c] = "key" /\ ~CycleInFlight(c)
  /\ AddCycle(c)
  /\ UNCHANGED <<offer, settled, callVars>>

\* The conflicting settlement is read and compared; COMMIT may be lost.
Replay(c) ==
  /\ pc[c] = "replay"
  /\ \/ /\ IsReplay(c)
        /\ Answer(c, settled[evidence[c]])
        /\ \E how \in {"success", "failed"} : End(c, how)
     \/ ~IsReplay(c) /\ Raise(c, "divergent") /\ UNCHANGED answer
  /\ UNCHANGED <<offer, settled, evidence, result, written>>

-----------------------------------------------------------------------------
\* No payee among these is the empty text.
PayeesAreNamed(s, lines) == \A l \in lines : s.payees[l] # ""

\* What the row triggers and checks ask of the rows of each table.
RowsAreValid(s, table) ==
  CASE table = "shares" -> /\ PayeesAreNamed(s, Line)
                           /\ \A l \in Line : /\ 0 <= s.shares[l] /\ s.shares[l] <= GrossLimit
                                              /\ s.bps[l] = 0 => s.shares[l] = 0
    [] table = "rights" -> /\ PayeesAreNamed(s, DOMAIN s.rights)
                           /\ \A l \in DOMAIN s.rights :
                                s.bps[l] # 0 /\ s.rights[l] = s.shares[l] /\ s.rights[l] > 0
    [] table = "journal" -> s.debit = s.gross /\ TotalOf(s.credits) = s.gross
    [] table = "lines" -> /\ PayeesAreNamed(s, DOMAIN s.credits)
                          /\ s.debit > 0
                          /\ \A l \in DOMAIN s.credits : s.credits[l] = s.rights[l]
    [] table = "ledger" -> /\ PayeesAreNamed(s, DOMAIN s.ledger)
                           /\ \A l \in DOMAIN s.ledger : s.ledger[l] = s.rights[l]

InsertRows(c, t) ==
  /\ t > 1 /\ pc[c] = Table[t]
  /\ \/ /\ RowsAreValid(result[c], Table[t])
        /\ written' = [written EXCEPT ![c] = @ \cup {Table[t]}]
        /\ Goto(c, IF t + 1 \in DOMAIN Table THEN Table[t + 1] ELSE "commit")
        /\ UNCHANGED outcome
     \/ ~RowsAreValid(result[c], Table[t]) /\ Raise(c, "integrity") /\ UNCHANGED written
  /\ UNCHANGED <<offer, settled, callVars>>

\* What the deferred triggers ask of all rows of the cycle.
IsComplete(c) ==
  LET s == result[c]
      rights == DOMAIN s.rights
  IN  /\ written[c] = Tables
      /\ DOMAIN s.shares = Line /\ TotalOf(s.shares) = s.gross
      /\ rights = {l \in Line : s.shares[l] > 0} /\ TotalOf(s.rights) = s.gross
      /\ TotalOf(s.credits) = s.gross /\ DOMAIN s.credits = rights
      /\ TotalOf(s.ledger) = s.gross /\ DOMAIN s.ledger = rights

Saved(c) == result[c]

Commit(c) ==
  /\ pc[c] = "commit"
  /\ \/ /\ IsComplete(c)
        /\ settled' = [settled EXCEPT ![evidence[c]] = Saved(c)]
        /\ Answer(c, Saved(c))
        /\ \E how \in {"success", "failed"} : End(c, how)
     \/ ~IsComplete(c) /\ End(c, "integrity") /\ UNCHANGED <<settled, answer>>
  /\ written' = [written EXCEPT ![c] = {}]
  /\ UNCHANGED <<offer, evidence, result>>

Rollback(c) ==
  /\ pc[c] = "rollback"
  /\ written' = [written EXCEPT ![c] = {}]
  /\ Goto(c, "done")
  /\ UNCHANGED <<offer, settled, callVars, outcome>>

\* The connection breaks: the server rolls back by itself.
ConnectionLost(c) ==
  /\ pc[c] \notin {"idle", "done"}
  /\ written' = [written EXCEPT ![c] = {}]
  /\ End(c, "failed")
  /\ UNCHANGED <<offer, settled, callVars>>

\* The promise settles; the caller may be called again.
Return(c) ==
  /\ pc[c] = "done"
  /\ Goto(c, "idle")
  /\ evidence' = [evidence EXCEPT ![c] = NoEvidence]
  /\ result' = [result EXCEPT ![c] = NoSettlement]
  /\ answer' = [answer EXCEPT ![c] = NoSettlement]
  /\ outcome' = [outcome EXCEPT ![c] = "pending"]
  /\ UNCHANGED <<offer, settled, written>>

Statements(c) ==
  \/ FindByEvidence(c)
  \/ RefuseCycle(c) \/ InsertCycle(c) \/ MeetPrimaryKey(c) \/ PrimaryKeyIsFree(c) \/ Replay(c)
  \/ \E t \in DOMAIN Table : InsertRows(c, t)
  \/ Commit(c) \/ Rollback(c) \/ ConnectionLost(c) \/ Return(c)

Next ==
  \E c \in Caller :
    \/ \E p \in offer[c] : Begin(c, p[1], p[2])
    \/ Statements(c)

Spec == Init /\ [][Next]_vars

-----------------------------------------------------------------------------
\* Properties.

\* The split adds up to the gross amount; a line without basis points gets
\* nothing; a line gets what it is due or the unit around it; and of two lines
\* the one that was rounded up had the larger remainder.
IsFair(gross, bps, shares) ==
  LET due(l) == gross * bps[l]  \* in ten thousandths of a unit
      short(l) == due(l) - 10000 * shares[l]
  IN  /\ TotalOf(shares) = gross
      /\ \A l \in Line : /\ bps[l] = 0 => shares[l] = 0
                         /\ -10000 < short(l) /\ short(l) < 10000
      /\ \A l, m \in Line : short(l) < 0 /\ short(m) > 0 => short(l) + 10000 >= short(m)

\* Every stored split gives out the gross amount, to each line what it is due
\* up to the rounding that the order of the remainders decides.
SplitsAreFair ==
  \A e \in Evidence :
    settled[e] # NoSettlement => IsFair(settled[e].gross, settled[e].bps, settled[e].shares)

\* Every text that the schema wants filled is: the payees of all seven lines,
\* those that get nothing included.
HasTexts(e, s) == e \notin Nameless /\ PayeesAreNamed(s, Line)

\* Of what settleEvidence computes the schema refuses what has an empty text,
\* which nothing before it looks for, and nothing else: the amounts and the
\* links between the rows pass every check and every trigger, up to the limit
\* of DECIMAL(18,4).  No settlement with an empty text is ever stored.
OnlyEmptyTextsAreRefused ==
  /\ \A c \in Caller : outcome[c] = "integrity" => ~HasTexts(evidence[c], result[c])
  /\ \A e \in Evidence : settled[e] # NoSettlement => HasTexts(e, settled[e])

\* A call that returns a settlement returns the one that is stored, which is
\* the one it computed; the winner of a race and those who replay agree.
AnswersAgree ==
  \A c \in Caller :
    outcome[c] = "success" =>
      /\ answer[c] = settled[evidence[c]]
      /\ answer[c] = result[c] /\ answer[c] # NoSettlement

\* Only a settlement that differs from the stored one is refused as divergent.
DivergenceIsReal ==
  \A c \in Caller :
    outcome[c] = "divergent" => /\ settled[evidence[c]] # NoSettlement
                                /\ settled[evidence[c]] # result[c]

\* Both of them: however calls race, are repeated or are cut off, a settlement
\* that is returned, and a divergence that is raised, is what is stored.  A
\* caller may also learn nothing: its connection breaks, or a racing call for
\* the same evidence is met at the primary key.
AnswersAreRight == AnswersAgree /\ DivergenceIsReal

\* PostgreSQL "serializes concurrent Settlement materialization by Evidence
\* identity": of the calls for one evidence all get the settlement, or learn
\* that theirs diverges; the primary key refuses a cycle only when another
\* evidence has its identity.
KeyViolationIsOfAnother ==
  \A c \in Caller :
    outcome[c] = "key violation" =>
      \E e \in SameCycle(evidence[c]) \ {evidence[c]} : settled[e] # NoSettlement

Once == INSTANCE SettleOnce WITH Settlement <- Settlements

\* The transactions settle each evidence in one step, once and for good.
ImplementsSettleOnce == Once!OnceSpec

-----------------------------------------------------------------------------
\* The inductive invariant behind the safety properties.

\* Of the open transactions one at most has inserted a cycle identity.
KeyIsExclusive ==
  \A c, d \in Caller :
    c # d /\ "cycle" \in written[c] /\ "cycle" \in written[d] =>
      evidence[d] \notin SameCycle(evidence[c])

\* What a call has found out and written by each statement, and what it has
\* been answered.
Progress(c) ==
  /\ pc[c] \in {"idle", "find", "cycle", "key", "replay", "done"} => written[c] = {}
  /\ pc[c] \in {"shares", "rights", "journal", "lines", "ledger", "commit"} =>
       "cycle" \in written[c]
  /\ "cycle" \in written[c] => ~CycleIsTaken(c)
  /\ pc[c] \notin {"idle", "rollback", "done"} => result[c] # NoSettlement
  /\ pc[c] = "replay" => settled[evidence[c]] # NoSettlement
  /\ pc[c] \notin {"rollback", "done"} => outcome[c] = "pending"
  /\ outcome[c] = "success" => /\ answer[c] = settled[evidence[c]]
                               /\ answer[c] = result[c] /\ answer[c] # NoSettlement
  /\ outcome[c] = "divergent" => /\ settled[evidence[c]] # NoSettlement
                                 /\ settled[evidence[c]] # result[c]

StoreInvariant ==
  /\ TypeOK
  /\ KeyIsExclusive
  /\ \A c \in Caller : Progress(c)

\* The tables an open transaction has written by each statement: all of them at
\* COMMIT; and the texts they had to have.
InsertedSoFar(c) ==
  /\ pc[c] = "key" \/ "cycle" \in written[c] => evidence[c] \notin Nameless
  /\ "shares" \in written[c] => PayeesAreNamed(result[c], Line)
  /\ \A t \in DOMAIN Table \ {1} : pc[c] = Table[t] => written[c] = {Table[i] : i \in 1..(t - 1)}
  /\ pc[c] = "commit" => written[c] = Tables

SchemaInvariant ==
  /\ StoreInvariant
  /\ OnlyEmptyTextsAreRefused
  /\ \A c \in Caller : InsertedSoFar(c)
=============================================================================
