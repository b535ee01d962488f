------------------------- MODULE MCSettlementStore --------------------------
(***************************************************************************)
(* Evidence, on small instances: the demonstration slice that produces it  *)
(* and the settlement of it.  No code carries the one to the other, so     *)
(* each moves while the other rests in its initial state.                  *)
(***************************************************************************)
EXTENDS SettlementStore, SimulatedEdge

CONSTANTS c1, c2, e1, e2, e3

\* Two evidences' campaigns and identities join to the same text.
OneCycleId == [e \in Evidence |-> IF e = e3 THEN "another" ELSE "cycle"]

\* Every evidence has a cycle identity of its own.
OwnCycleId == [e \in Evidence |-> e]

\* One choice of components for each number of basis points.
Sellers == {{}, {"acquisition"}, {"acquisition", "renewal"},
            {"acquisition", "renewal", "volume"}, DOMAIN SellerComponent}

Influencers == {{}, {"activation"}, {"entry"}, {"activation", "performanceEngagement"},
                {"entry", "activation"}, {"entry", "recurrenceResult"},
                {"entry", "activation", "performanceEngagement"},
                {"entry", "activation", "recurrenceResult"}, DOMAIN InfluencerComponent}

InputOf(gross, seller, influencer, payees, objections) ==
  [gross |-> gross, seller |-> seller, influencer |-> influencer, payees |-> payees,
   objections |-> objections]

\* The payees; with "" one of them is the empty text, that of a line to which
\* the calls below give nothing.
Payees(text) == [l \in Line |-> IF l = "SELLER" THEN text ELSE "payee"]

\* Calls that race: replays, divergent amounts and payees, an empty payee, both
\* evidences, an evidence that may not be settled, an amount beyond the limit.
Usual == InputOf(7, {}, {"entry"}, Payees("usual"), {})

Racing ==
  LET other == InputOf(7, {}, {"entry"}, Payees("other"), {})
      unnamed == InputOf(7, {}, {"entry"}, Payees(""), {})
      more == InputOf(50, {}, {}, Payees("usual"), {})
      disputed == InputOf(7, {}, {"entry"}, Payees("usual"), {"disputed"})
      nothing == InputOf(0, {}, {"entry"}, Payees("usual"), {})
      beyond == InputOf(GrossLimit + 1, {}, {"entry"}, Payees("usual"), {})
  IN  {[c \in Caller |-> IF c = c1 THEN {<<e1, Usual>>, <<e2, Usual>>}
                                   ELSE {<<e1, Usual>>, <<e1, x>>}] :
         x \in {other, unnamed, more, disputed, nothing, beyond}}

\* A call for an evidence whose identity is the empty text.
Unnamed == {[c \in Caller |-> {<<e1, Usual>>, <<e3, Usual>>}]}

\* One caller settles every amount up to the limit with every split.
Lone ==
  {[c \in Caller |-> IF c = c1 THEN {<<e1, InputOf(gross, s, i, Payees("usual"), {})>>} ELSE {}] :
     gross \in 1..GrossLimit, s \in Sellers, i \in Influencers}

AllOffers == Racing \cup Unnamed \cup Lone

\* The demonstration moves beside one of the offers.
SettlementRests ==
  /\ offer = CHOOSE o \in Racing : TRUE
  /\ settled = [e \in Evidence |-> NoSettlement]
  /\ \A c \in Caller : pc[c] = "idle"

DemoRests == calls = 0 /\ available

MCInit == Init /\ DemoInit

MCNext ==
  \/ DemoRests /\ Next /\ UNCHANGED demoVars
  \/ SettlementRests /\ DemoNext /\ UNCHANGED vars

MCSpec == MCInit /\ [][MCNext]_<<vars, demoVars>>
=============================================================================
