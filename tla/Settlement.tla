----------------------------- MODULE Settlement -----------------------------
(***************************************************************************)
(* What settleEvidence computes from its input: the split of the policy in *)
(* basis points, the amounts by largest remainders, and the settlement     *)
(* made of them.  Amounts are whole units, ten thousandths of a real; the  *)
(* texts they are parsed from and formatted to are left out.               *)
(***************************************************************************)
EXTENDS Integers, FiniteSets

CONSTANT GrossLimit  \* the largest amount of a DECIMAL(18,4)

ASSUME GrossLimitAssumption == GrossLimit \in Nat

\* The order of the lines' names, which breaks ties.
CanonicalOrder ==
  <<"INFLUENCER", "INFLUENCER_ACQUISITION_FUND", "MOSTARDA", "SELLER",
    "SELLER_ACQUISITION_FUND", "SPACE_OWNER", "TV_OWNER">>

Line == {CanonicalOrder[i] : i \in DOMAIN CanonicalOrder}

Before(l, m) ==
  \E i, j \in DOMAIN CanonicalOrder :
    CanonicalOrder[i] = l /\ CanonicalOrder[j] = m /\ i < j

\* What each component adds to the seller's and the influencer's share.
SellerComponent ==
  [acquisition |-> 500, activationPayment |-> 500, renewal |-> 500, volume |-> 500]

InfluencerComponent ==
  [entry |-> 300, activation |-> 200, performanceEngagement |-> 200, recurrenceResult |-> 300]

\* What may keep an evidence from being settled.
Objection == {"other campaign", "not valid", "not anchored", "reverted", "disputed"}

\* The payee of each line may be the empty text: nothing looks at it here.
Input == [gross : Nat, seller : SUBSET DOMAIN SellerComponent,
          influencer : SUBSET DOMAIN InfluencerComponent,
          payees : [Line -> STRING], objections : SUBSET Objection]

Restricted(f, S) == [x \in S |-> f[x]]

\* What f has for x; nothing for what it leaves out.
Part(f, x) == IF x \in DOMAIN f THEN f[x] ELSE 0

\* The sum of what the lines have.
TotalOf(f) ==
  Part(f, "INFLUENCER") + Part(f, "INFLUENCER_ACQUISITION_FUND") + Part(f, "MOSTARDA")
    + Part(f, "SELLER") + Part(f, "SELLER_ACQUISITION_FUND")
    + Part(f, "SPACE_OWNER") + Part(f, "TV_OWNER")

\* The basis points of each line.
calculateSplit(input) ==
  LET sold(x) == Part(Restricted(SellerComponent, input.seller), x)
      earned(x) == Part(Restricted(InfluencerComponent, input.influencer), x)
      seller == sold("acquisition") + sold("activationPayment") + sold("renewal") + sold("volume")
      influencer == earned("entry") + earned("activation") + earned("performanceEngagement")
                      + earned("recurrenceResult")
  IN  [l \in Line |->
         CASE l = "TV_OWNER"                    -> 2000
           [] l = "SPACE_OWNER"                 -> 2000
           [] l = "SELLER"                      -> seller
           [] l = "SELLER_ACQUISITION_FUND"     -> 2000 - seller
           [] l = "INFLUENCER"                  -> influencer
           [] l = "INFLUENCER_ACQUISITION_FUND" -> 1000 - influencer
           [] l = "MOSTARDA"                    -> 10000 - 2000 - 2000 - 2000 - 1000]

-----------------------------------------------------------------------------
\* The portion of a line before the remainder is given out.
Base(gross, bps, l) == (gross * bps[l]) \div 10000

Remainder(gross, bps, l) == (gross * bps[l]) % 10000

\* Mutant: the first lines by name get what remains.
PositionByName(gross, bps, l) == Cardinality({m \in Line : Before(m, l)})

\* The portions are sorted, the largest remainder first, equal ones by name.
Ahead(gross, bps, m, l) ==
  \/ Remainder(gross, bps, m) > Remainder(gross, bps, l)
  \/ Remainder(gross, bps, m) = Remainder(gross, bps, l) /\ Before(m, l)

\* The line's place among them.
Position(gross, bps, l) == Cardinality({m \in Line : Ahead(gross, bps, m, l)})

Remaining(gross, bps) == gross - TotalOf([l \in Line |-> Base(gross, bps, l)])

\* What remains is given out unit by unit, round the sorted portions.
allocateMoney(gross, bps) ==
  LET extra(l) == {i \in 0..(Remaining(gross, bps) - 1) :
                     i % Cardinality(Line) = Position(gross, bps, l)}
  IN  [l \in Line |-> Base(gross, bps, l) + Cardinality(extra(l))]

-----------------------------------------------------------------------------
\* The input may be settled: neither the payees nor the identities are asked.
IsEligible(input) ==
  /\ input.objections = {}
  /\ input.gross > 0 /\ input.gross <= GrossLimit

\* Mutant: every line gets a right.
AllLines(amounts) == Line

\* The lines that get a right, a credit and a ledger entry.
LinesWithRights(amounts) == {l \in Line : amounts[l] # 0}

\* The cycle with its shares, its rights, its journal and its ledger.
Materialization(input) ==
  LET bps     == calculateSplit(input)
      amounts == allocateMoney(input.gross, bps)
      rights  == Restricted(amounts, LinesWithRights(amounts))
  IN  [gross |-> input.gross, payees |-> input.payees, bps |-> bps, shares |-> amounts,
       rights |-> rights, debit |-> input.gross, credits |-> rights, ledger |-> rights]
=============================================================================
