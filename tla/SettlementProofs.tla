-------------------------- MODULE SettlementProofs --------------------------
(***************************************************************************)
(* Proofs about SettlementStore, for any callers, evidences, cycle         *)
(* identities and offers: first what allocateMoney gives each line, for    *)
(* any amount and basis points, then what a transaction may do.            *)
(***************************************************************************)
EXTENDS SettlementStore, FiniteSetTheorems, TLAPS

-----------------------------------------------------------------------------
\* The allocation by largest remainders.

\* A gross amount and the basis points of the lines, which make up the whole.
Divisible(gross, bps) ==
  gross \in Nat /\ bps \in [Line -> Nat] /\ TotalOf(bps) = 10000

LEMMA LineIs ==
  Line = {"INFLUENCER", "INFLUENCER_ACQUISITION_FUND", "MOSTARDA", "SELLER",
          "SELLER_ACQUISITION_FUND", "SPACE_OWNER", "TV_OWNER"}
BY DEF Line, CanonicalOrder

LEMMA LinesAre ==
  /\ "INFLUENCER" \in Line /\ "INFLUENCER_ACQUISITION_FUND" \in Line /\ "MOSTARDA" \in Line
  /\ "SELLER" \in Line /\ "SELLER_ACQUISITION_FUND" \in Line
  /\ "SPACE_OWNER" \in Line /\ "TV_OWNER" \in Line
BY LineIs

\* A total over all the lines.
LEMMA TotalOfLines ==
  ASSUME NEW f, DOMAIN f = Line
  PROVE  TotalOf(f) = f["INFLUENCER"] + f["INFLUENCER_ACQUISITION_FUND"] + f["MOSTARDA"]
                        + f["SELLER"] + f["SELLER_ACQUISITION_FUND"]
                        + f["SPACE_OWNER"] + f["TV_OWNER"]
BY LineIs DEF TotalOf, Part

LEMMA AddToCount ==
  ASSUME NEW S, NEW T, NEW x, x \notin T, IsFiniteSet(S \cap T)
  PROVE  /\ IsFiniteSet(S \cap (T \cup {x}))
         /\ Cardinality(S \cap (T \cup {x})) =
              Cardinality(S \cap T) + (IF x \in S THEN 1 ELSE 0)
<1>1. Cardinality(S \cap T) \in Nat
  BY FS_CardinalityType
<1>2. CASE x \in S
  <2>1. S \cap (T \cup {x}) = (S \cap T) \cup {x}
    BY <1>2
  <2>. QED  BY <1>2, <2>1, FS_AddElement
<1>3. CASE x \notin S
  <2>1. S \cap (T \cup {x}) = S \cap T
    BY <1>3
  <2>2. Cardinality(S \cap T) = Cardinality(S \cap T) + (IF x \in S THEN 1 ELSE 0)
    BY <1>1, <1>3
  <2>. QED  BY <2>1, <2>2, Zenon
<1>. QED  BY <1>2, <1>3

\* The number of lines in a set, line by line.
LEMMA CountOfLines ==
  ASSUME NEW S \in SUBSET Line
  PROVE  /\ IsFiniteSet(S)
         /\ Cardinality(S) = TotalOf([l \in Line |-> IF l \in S THEN 1 ELSE 0])
<1>. DEFINE f == [l \in Line |-> IF l \in S THEN 1 ELSE 0]
            T1 == {} \cup {"INFLUENCER"}
            T2 == T1 \cup {"INFLUENCER_ACQUISITION_FUND"}
            T3 == T2 \cup {"MOSTARDA"}
            T4 == T3 \cup {"SELLER"}
            T5 == T4 \cup {"SELLER_ACQUISITION_FUND"}
            T6 == T5 \cup {"SPACE_OWNER"}
            T7 == T6 \cup {"TV_OWNER"}
<1>0. IsFiniteSet(S \cap {}) /\ Cardinality(S \cap {}) = 0
  <2>1. S \cap {} = {}
    OBVIOUS
  <2>. QED  BY <2>1, FS_EmptySet
<1>f. \A l \in Line : f[l] = IF l \in S THEN 1 ELSE 0
  OBVIOUS
<1>t. TotalOf(f) = f["INFLUENCER"] + f["INFLUENCER_ACQUISITION_FUND"] + f["MOSTARDA"]
                     + f["SELLER"] + f["SELLER_ACQUISITION_FUND"]
                     + f["SPACE_OWNER"] + f["TV_OWNER"]
  BY TotalOfLines
<1>. HIDE DEF f
<1>1. IsFiniteSet(S \cap T1) /\ Cardinality(S \cap T1) = f["INFLUENCER"]
  BY <1>0, <1>f, LineIs, AddToCount
<1>n1. /\ "INFLUENCER_ACQUISITION_FUND" \notin T1 /\ "MOSTARDA" \notin T2
       /\ "SELLER" \notin T3 /\ "SELLER_ACQUISITION_FUND" \notin T4
       /\ "SPACE_OWNER" \notin T5 /\ "TV_OWNER" \notin T6
  OBVIOUS
<1>n2. S \cap T7 = S
  BY LineIs
<1>. HIDE DEF T1
<1>2. /\ IsFiniteSet(S \cap T2)
      /\ Cardinality(S \cap T2) = Cardinality(S \cap T1) + f["INFLUENCER_ACQUISITION_FUND"]
  BY <1>1, <1>f, <1>n1, LineIs, AddToCount
<1>. HIDE DEF T2
<1>3. /\ IsFiniteSet(S \cap T3)
      /\ Cardinality(S \cap T3) = Cardinality(S \cap T2) + f["MOSTARDA"]
  BY <1>2, <1>f, <1>n1, LineIs, AddToCount
<1>. HIDE DEF T3
<1>4. /\ IsFiniteSet(S \cap T4)
      /\ Cardinality(S \cap T4) = Cardinality(S \cap T3) + f["SELLER"]
  BY <1>3, <1>f, <1>n1, LineIs, AddToCount
<1>. HIDE DEF T4
<1>5. /\ IsFiniteSet(S \cap T5)
      /\ Cardinality(S \cap T5) = Cardinality(S \cap T4) + f["SELLER_ACQUISITION_FUND"]
  BY <1>4, <1>f, <1>n1, LineIs, AddToCount
<1>. HIDE DEF T5
<1>6. /\ IsFiniteSet(S \cap T6)
      /\ Cardinality(S \cap T6) = Cardinality(S \cap T5) + f["SPACE_OWNER"]
  BY <1>5, <1>f, <1>n1, LineIs, AddToCount
<1>. HIDE DEF T6
<1>7. /\ IsFiniteSet(S \cap T7)
      /\ Cardinality(S \cap T7) = Cardinality(S \cap T6) + f["TV_OWNER"]
  BY <1>6, <1>f, <1>n1, LineIs, AddToCount
<1>8. Cardinality(S \cap T7) = TotalOf(f)
  BY <1>1, <1>2, <1>3, <1>4, <1>5, <1>6, <1>7, <1>t
<1>. QED  BY <1>7, <1>8, <1>n2 DEF f

LEMMA SevenLines == IsFiniteSet(Line) /\ Cardinality(Line) = 7
<1>. DEFINE f == [l \in Line |-> IF l \in Line THEN 1 ELSE 0]
<1>1. IsFiniteSet(Line) /\ Cardinality(Line) = TotalOf(f)
  BY CountOfLines
<1>2. TotalOf(f) = f["INFLUENCER"] + f["INFLUENCER_ACQUISITION_FUND"] + f["MOSTARDA"]
                     + f["SELLER"] + f["SELLER_ACQUISITION_FUND"]
                     + f["SPACE_OWNER"] + f["TV_OWNER"]
  BY TotalOfLines
<1>3. \A l \in Line : f[l] = 1
  OBVIOUS
<1>. HIDE DEF f
<1>. QED  BY <1>1, <1>2, <1>3, LineIs

-----------------------------------------------------------------------------
\* The names are in a strict total order.
LEMMA BeforeIsAnOrder ==
  /\ \A l \in Line : ~Before(l, l)
  /\ \A l, m, n \in Line : Before(l, m) /\ Before(m, n) => Before(l, n)
  /\ \A l, m \in Line : l # m => Before(l, m) \/ Before(m, l)
<1>1. \A i, j \in DOMAIN CanonicalOrder : CanonicalOrder[i] = CanonicalOrder[j] => i = j
  BY DEF CanonicalOrder
<1>2. DOMAIN CanonicalOrder = 1..7
  BY DEF CanonicalOrder
<1>. QED  BY <1>1, <1>2 DEF Before, Line

\* The parts of an amount: what is due to a line is its base and its remainder.
LEMMA BaseAndRemainder ==
  ASSUME NEW gross, NEW bps, Divisible(gross, bps), NEW l \in Line
  PROVE  /\ Base(gross, bps, l) \in Nat
         /\ Remainder(gross, bps, l) \in Nat /\ Remainder(gross, bps, l) < 10000
         /\ gross * bps[l] = 10000 * Base(gross, bps, l) + Remainder(gross, bps, l)
         /\ bps[l] = 0 => Base(gross, bps, l) = 0 /\ Remainder(gross, bps, l) = 0
<1>1. bps[l] \in Nat /\ gross \in Nat
  BY DEF Divisible
<1>2. gross * bps[l] \in Nat
  BY <1>1
<1>3. ASSUME NEW p \in Nat
      PROVE  /\ p % 10000 \in Nat /\ p % 10000 < 10000 /\ p \div 10000 \in Nat
             /\ p = 10000 * (p \div 10000) + (p % 10000)
             /\ p = 0 => p \div 10000 = 0 /\ p % 10000 = 0
  BY <1>3
<1>4. bps[l] = 0 => gross * bps[l] = 0
  BY <1>1
<1>. DEFINE p == gross * bps[l]
<1>5. Base(gross, bps, l) = p \div 10000 /\ Remainder(gross, bps, l) = p % 10000
  BY DEF Base, Remainder
<1>6. p \in Nat /\ (bps[l] = 0 => p = 0)
  BY <1>2, <1>4
<1>. HIDE DEF p
<1>7. /\ Base(gross, bps, l) \in Nat
         /\ Remainder(gross, bps, l) \in Nat /\ Remainder(gross, bps, l) < 10000
      /\ p = 10000 * Base(gross, bps, l) + Remainder(gross, bps, l)
      /\ bps[l] = 0 => Base(gross, bps, l) = 0 /\ Remainder(gross, bps, l) = 0
  BY <1>3, <1>5, <1>6
<1>. QED  BY <1>7 DEF p

-----------------------------------------------------------------------------
\* The sum of what is due is the gross amount, line by line.
LEMMA DueInAll ==
  ASSUME NEW gross, NEW bps, Divisible(gross, bps)
  PROVE  /\ Remaining(gross, bps) \in 0..6
         /\ 10000 * Remaining(gross, bps) = TotalOf([l \in Line |-> Remainder(gross, bps, l)])
<1>. DEFINE B(l) == Base(gross, bps, l)
            R(l) == Remainder(gross, bps, l)
            due(l) == gross * bps[l]
            base == [l \in Line |-> Base(gross, bps, l)]
            rem == [l \in Line |-> Remainder(gross, bps, l)]
<1>0. gross \in Nat /\ bps \in [Line -> Nat] /\ TotalOf(bps) = 10000
  BY DEF Divisible
<1>1. \A l \in Line : B(l) \in Nat /\ R(l) \in Nat /\ R(l) < 10000 /\ due(l) = 10000 * B(l) + R(l)
  BY BaseAndRemainder
<1>2. due("INFLUENCER") + due("INFLUENCER_ACQUISITION_FUND") + due("MOSTARDA") + due("SELLER")
        + due("SELLER_ACQUISITION_FUND") + due("SPACE_OWNER") + due("TV_OWNER")
        = gross * 10000
  <2>1. bps["INFLUENCER"] + bps["INFLUENCER_ACQUISITION_FUND"] + bps["MOSTARDA"]
          + bps["SELLER"] + bps["SELLER_ACQUISITION_FUND"] + bps["SPACE_OWNER"]
          + bps["TV_OWNER"] = 10000
    BY <1>0, TotalOfLines
  <2>2. \A l \in Line : bps[l] \in Nat
    BY <1>0
  <2>. DEFINE a == bps["INFLUENCER"]
              b == bps["INFLUENCER_ACQUISITION_FUND"]
              c == bps["MOSTARDA"]
              d == bps["SELLER"]
              e == bps["SELLER_ACQUISITION_FUND"]
              f == bps["SPACE_OWNER"]
              h == bps["TV_OWNER"]
  <2>3. /\ a \in Nat /\ b \in Nat /\ c \in Nat /\ d \in Nat /\ e \in Nat /\ f \in Nat /\ h \in Nat
        /\ a + b + c + d + e + f + h = 10000
    BY <2>1, <2>2, LineIs
  <2>. HIDE DEF a, b, c, d, e, f, h
  <2>4. gross * a + gross * b + gross * c + gross * d + gross * e + gross * f + gross * h
          = gross * (a + b + c + d + e + f + h)
    BY <1>0, <2>3
  <2>5. gross * a + gross * b + gross * c + gross * d + gross * e + gross * f + gross * h
          = gross * 10000
    BY <2>3, <2>4
  <2>. QED  BY <2>5 DEF a, b, c, d, e, f, h
<1>3. Remaining(gross, bps) = gross - TotalOf(base)
  BY DEF Remaining
<1>4. TotalOf(base) = B("INFLUENCER") + B("INFLUENCER_ACQUISITION_FUND") + B("MOSTARDA")
                        + B("SELLER") + B("SELLER_ACQUISITION_FUND") + B("SPACE_OWNER")
                        + B("TV_OWNER")
  <2>1. \A l \in Line : base[l] = B(l)
    OBVIOUS
  <2>2. DOMAIN base = Line
    OBVIOUS
  <2>. HIDE DEF base, B
  <2>. QED  BY <2>1, <2>2, TotalOfLines, LineIs
<1>5. TotalOf(rem) = R("INFLUENCER") + R("INFLUENCER_ACQUISITION_FUND") + R("MOSTARDA")
                       + R("SELLER") + R("SELLER_ACQUISITION_FUND") + R("SPACE_OWNER")
                       + R("TV_OWNER")
  <2>1. \A l \in Line : rem[l] = R(l)
    OBVIOUS
  <2>2. DOMAIN rem = Line
    OBVIOUS
  <2>. HIDE DEF rem, R
  <2>. QED  BY <2>1, <2>2, TotalOfLines, LineIs
<1>6. ASSUME NEW g \in Nat, NEW t \in Int, NEW u \in Int, NEW r \in Int,
             10000 * t + u = g * 10000, r = g - t
      PROVE  10000 * r = u
  BY <1>6
<1>. HIDE DEF B, R, base, rem
<1>7. TotalOf(base) \in Int
  <2>1. \A l \in Line : B(l) \in Int
    BY <1>1
  <2>. QED  BY <2>1, <1>4, LinesAre
<1>8. TotalOf(rem) \in Nat /\ TotalOf(rem) < 7 * 10000
  <2>1. \A l \in Line : R(l) \in Nat /\ R(l) < 10000
    BY <1>1
  <2>. QED  BY <2>1, <1>5, LinesAre
<1>9. 10000 * TotalOf(base) + TotalOf(rem) = gross * 10000
  <2>1. /\ due("INFLUENCER") = 10000 * B("INFLUENCER") + R("INFLUENCER")
        /\ due("INFLUENCER_ACQUISITION_FUND")
             = 10000 * B("INFLUENCER_ACQUISITION_FUND") + R("INFLUENCER_ACQUISITION_FUND")
        /\ due("MOSTARDA") = 10000 * B("MOSTARDA") + R("MOSTARDA")
        /\ due("SELLER") = 10000 * B("SELLER") + R("SELLER")
        /\ due("SELLER_ACQUISITION_FUND")
             = 10000 * B("SELLER_ACQUISITION_FUND") + R("SELLER_ACQUISITION_FUND")
        /\ due("SPACE_OWNER") = 10000 * B("SPACE_OWNER") + R("SPACE_OWNER")
        /\ due("TV_OWNER") = 10000 * B("TV_OWNER") + R("TV_OWNER")
    BY <1>1, LinesAre
  <2>2. \A l \in Line : B(l) \in Int /\ R(l) \in Int
    BY <1>1
  <2>. HIDE DEF due
  <2>. QED  BY <1>2, <1>4, <1>5, <2>1, <2>2, LinesAre
<1>10. Remaining(gross, bps) \in Int
  BY <1>0, <1>3, <1>7
<1>11. 10000 * Remaining(gross, bps) = TotalOf(rem)
  <2>1. TotalOf(rem) \in Int
    BY <1>8
  <2>. QED  BY <1>0, <1>3, <1>6, <1>7, <1>9, <1>10, <2>1
<1>12. ASSUME NEW r \in Int, 0 <= 10000 * r, 10000 * r < 7 * 10000
       PROVE  r \in 0..6
  BY <1>12
<1>13. Remaining(gross, bps) \in 0..6
  <2>1. 0 <= TotalOf(rem)
    BY <1>8
  <2>. QED  BY <2>1, <1>8, <1>10, <1>11, <1>12
<1>. QED  BY <1>11, <1>13 DEF rem

LEMMA FewRemain ==
  ASSUME NEW gross, NEW bps, Divisible(gross, bps)
  PROVE  Remaining(gross, bps) \in 0..6
<1>. DEFINE rem == [l \in Line |-> Remainder(gross, bps, l)]
<1>1. /\ Remaining(gross, bps) \in 0..6
      /\ 10000 * Remaining(gross, bps) = TotalOf(rem)
  BY DueInAll
<1>. HIDE DEF rem
<1>. QED  BY <1>1

-----------------------------------------------------------------------------
\* The portions are in a strict total order.
LEMMA AheadIsAnOrder ==
  ASSUME NEW gross, NEW bps, Divisible(gross, bps)
  PROVE  /\ \A l \in Line : ~Ahead(gross, bps, l, l)
         /\ \A l, m, n \in Line : Ahead(gross, bps, l, m) /\ Ahead(gross, bps, m, n)
                                   => Ahead(gross, bps, l, n)
         /\ \A l, m \in Line : l # m => Ahead(gross, bps, l, m) \/ Ahead(gross, bps, m, l)
<1>1. \A l \in Line : Remainder(gross, bps, l) \in Nat
  BY BaseAndRemainder
<1>. DEFINE R(l) == Remainder(gross, bps, l)
<1>a. \A l, m \in Line : Ahead(gross, bps, l, m) <=> R(l) > R(m) \/ (R(l) = R(m) /\ Before(l, m))
  BY DEF Ahead
<1>r. \A l \in Line : R(l) \in Nat
  BY <1>1
<1>. HIDE DEF R
<1>2. \A l \in Line : ~Ahead(gross, bps, l, l)
  BY <1>a, <1>r, BeforeIsAnOrder
<1>3. ASSUME NEW l \in Line, NEW m \in Line, NEW n \in Line,
             Ahead(gross, bps, l, m), Ahead(gross, bps, m, n)
      PROVE  Ahead(gross, bps, l, n)
  BY <1>a, <1>r, <1>3, BeforeIsAnOrder
<1>4. ASSUME NEW l \in Line, NEW m \in Line, l # m
      PROVE  Ahead(gross, bps, l, m) \/ Ahead(gross, bps, m, l)
  BY <1>a, <1>r, <1>4, BeforeIsAnOrder
<1>. QED  BY <1>2, <1>3, <1>4

\* A portion ahead of another has a smaller place.
LEMMA PlacesFollowTheOrder ==
  ASSUME NEW gross, NEW bps, Divisible(gross, bps), NEW l \in Line
  PROVE  /\ Position(gross, bps, l) \in 0..6
         /\ \A m \in Line : Ahead(gross, bps, m, l)
                              <=> Position(gross, bps, m) < Position(gross, bps, l)
<1>. DEFINE front(x) == {m \in Line : Ahead(gross, bps, m, x)}
<1>1. \A x \in Line : /\ IsFiniteSet(front(x)) /\ Position(gross, bps, x) = Cardinality(front(x))
                      /\ Cardinality(front(x)) \in Nat
  BY SevenLines, FS_Subset, FS_CardinalityType DEF Position
<1>2. Position(gross, bps, l) \in 0..6
  <2>1. front(l) \subseteq Line \ {l}
    BY AheadIsAnOrder
  <2>2. IsFiniteSet(Line \ {l}) /\ Cardinality(Line \ {l}) = 6
    BY SevenLines, FS_RemoveElement
  <2>3. Cardinality(front(l)) <= 6
    BY <2>1, <2>2, FS_Subset
  <2>. QED  BY <1>1, <2>3
<1>3. ASSUME NEW x \in Line, NEW y \in Line, Ahead(gross, bps, x, y)
      PROVE  Position(gross, bps, x) < Position(gross, bps, y)
  <2>1. x \notin front(x) /\ front(x) \cup {x} \subseteq front(y)
    BY <1>3, AheadIsAnOrder
  <2>2. Cardinality(front(x) \cup {x}) = Cardinality(front(x)) + 1
    BY <1>1, <2>1, FS_AddElement
  <2>3. Cardinality(front(x) \cup {x}) <= Cardinality(front(y))
    BY <1>1, <2>1, FS_Subset
  <2>. HIDE DEF front
  <2>. QED  BY <1>1, <2>2, <2>3
<1>4. \A m \in Line : Position(gross, bps, m) \in Nat
  BY <1>1
<1>. QED  BY <1>2, <1>3, <1>4, AheadIsAnOrder

\* As many portions have one of the first places as there are such places.
LEMMA PlacesAreTaken ==
  ASSUME NEW gross, NEW bps, Divisible(gross, bps), NEW r \in 0..7
  PROVE  Cardinality({l \in Line : Position(gross, bps, l) < r}) = r
<1>. DEFINE place == [l \in Line |-> Position(gross, bps, l)]
            first == {l \in Line : Position(gross, bps, l) < r}
            firstPlace == [l \in first |-> Position(gross, bps, l)]
<1>1. \A l \in Line : Position(gross, bps, l) \in 0..6
  BY PlacesFollowTheOrder
<1>2. ASSUME NEW l \in Line, NEW m \in Line, Position(gross, bps, l) = Position(gross, bps, m)
      PROVE  l = m
  BY <1>1, <1>2, PlacesFollowTheOrder, AheadIsAnOrder
<1>3. place \in Injection(Line, 0..6)
  BY <1>1, <1>2 DEF Injection, IsInjective
<1>4. IsFiniteSet(0..6) /\ Cardinality(0..6) = 7
  <2>. DEFINE n == 6
  <2>1. n \in Nat
    OBVIOUS
  <2>. HIDE DEF n
  <2>2. IsFiniteSet(0..n) /\ Cardinality(0..n) = n + 1
    BY <2>1, FS_Interval
  <2>. QED  BY <2>2 DEF n
<1>5. place \in Surjection(Line, 0..6)
  BY <1>3, <1>4, SevenLines, FS_Injection
<1>6. \A i \in 0..6 : \E l \in Line : Position(gross, bps, l) = i
  BY <1>5 DEF Surjection
<1>7. firstPlace \in Bijection(first, 0..(r - 1))
  <2>1. firstPlace \in [first -> 0..(r - 1)]
    BY <1>1
  <2>2. \A l, m \in first : firstPlace[l] = firstPlace[m] => l = m
    BY <1>2
  <2>3. \A i \in 0..(r - 1) : \E l \in first : firstPlace[l] = i
    BY <1>6
  <2>. HIDE DEF firstPlace, first
  <2>. QED  BY <2>1, <2>2, <2>3 DEF Bijection, Injection, IsInjective, Surjection
<1>8. IsFiniteSet(first) /\ IsFiniteSet(0..(r - 1)) /\ Cardinality(0..(r - 1)) = r
  <2>1. IsFiniteSet(0..(r - 1)) /\ Cardinality(0..(r - 1)) = r
    BY FS_Interval
  <2>. QED  BY <2>1, CountOfLines
<1>9. Cardinality(0..(r - 1)) = Cardinality(first)
  <2>. HIDE DEF firstPlace, first
  <2>. QED  BY <1>7, <1>8, FS_Bijection DEF ExistsBijection
<1>. QED  BY <1>8, <1>9

\* The portions in the first places get one unit more; one without a remainder
\* is never among them.
LEMMA AllocatedShares ==
  ASSUME NEW gross, NEW bps, Divisible(gross, bps), NEW l \in Line
  PROVE  /\ allocateMoney(gross, bps)[l]
              = Base(gross, bps, l)
                  + (IF Position(gross, bps, l) < Remaining(gross, bps) THEN 1 ELSE 0)
         /\ Remainder(gross, bps, l) = 0
              => ~(Position(gross, bps, l) < Remaining(gross, bps))
<1>. DEFINE r == Remaining(gross, bps)
            p == Position(gross, bps, l)
<1>1. r \in 0..6 /\ p \in 0..6
  <2>1. r \in 0..6
    BY FewRemain
  <2>2. p \in 0..6
    BY PlacesFollowTheOrder
  <2>. QED  BY <2>1, <2>2
<1>2. allocateMoney(gross, bps)[l]
        = Base(gross, bps, l) + Cardinality({i \in 0..(r - 1) : i % Cardinality(Line) = p})
  BY DEF allocateMoney
<1>3. Cardinality(Line) = 7
  BY SevenLines
<1>. HIDE DEF r, p
<1>4. {i \in 0..(r - 1) : i % Cardinality(Line) = p} = IF p < r THEN {p} ELSE {}
  <2>1. ASSUME NEW i \in 0..6 PROVE i % 7 = i
    BY <2>1
  <2>2. 0..(r - 1) \subseteq 0..6
    BY <1>1
  <2>3. \A i : i \in 0..(r - 1) /\ i = p <=> p < r /\ i = p
    BY <1>1
  <2>4. {i \in 0..(r - 1) : i % Cardinality(Line) = p} = {i \in 0..(r - 1) : i = p}
    BY <1>3, <2>1, <2>2
  <2>5. {i \in 0..(r - 1) : i = p} = IF p < r THEN {p} ELSE {}
    BY <2>3
  <2>. QED  BY <2>4, <2>5
<1>5. Cardinality({i \in 0..(r - 1) : i % Cardinality(Line) = p}) = IF p < r THEN 1 ELSE 0
  <2>1. Cardinality({p}) = 1 /\ Cardinality({}) = 0
    BY FS_Singleton, FS_EmptySet
  <2>2. CASE p < r
    BY <1>4, <2>1, <2>2
  <2>3. CASE ~(p < r)
    BY <1>4, <2>1, <2>3
  <2>. QED  BY <2>2, <2>3
<1>6. ASSUME Remainder(gross, bps, l) = 0
      PROVE  ~(p < r)
  <2>. DEFINE some == {m \in Line : Remainder(gross, bps, m) > 0}
              front == {m \in Line : Ahead(gross, bps, m, l)}
              rem == [m \in Line |-> Remainder(gross, bps, m)]
              one == [m \in Line |-> IF m \in some THEN 1 ELSE 0]
  <2>1. \A m \in Line : Remainder(gross, bps, m) \in Nat /\ Remainder(gross, bps, m) < 10000
    BY BaseAndRemainder
  <2>2. some \subseteq front
    BY <1>6, <2>1 DEF Ahead
  <2>3. IsFiniteSet(front) /\ Cardinality(front) = p
    BY CountOfLines DEF Position, p
  <2>4. Cardinality(some) <= p
    BY <2>2, <2>3, FS_Subset
  <2>5. Cardinality(some) = TotalOf(one) /\ Cardinality(some) \in Nat
    BY CountOfLines, FS_CardinalityType
  <2>6. 10000 * r = TotalOf(rem)
    BY DueInAll DEF r
  <2>7. \A m \in Line : /\ rem[m] \in Nat /\ rem[m] <= 9999 * one[m]
                        /\ one[m] \in Nat
    BY <2>1
  <2>8. DOMAIN rem = Line /\ DOMAIN one = Line
    OBVIOUS
  <2>. HIDE DEF some, front, rem, one
  <2>9. TotalOf(rem) <= 9999 * TotalOf(one)
    <3>1. TotalOf(rem) = rem["INFLUENCER"] + rem["INFLUENCER_ACQUISITION_FUND"]
                           + rem["MOSTARDA"] + rem["SELLER"] + rem["SELLER_ACQUISITION_FUND"]
                           + rem["SPACE_OWNER"] + rem["TV_OWNER"]
      BY <2>8, TotalOfLines
    <3>2. TotalOf(one) = one["INFLUENCER"] + one["INFLUENCER_ACQUISITION_FUND"]
                           + one["MOSTARDA"] + one["SELLER"] + one["SELLER_ACQUISITION_FUND"]
                           + one["SPACE_OWNER"] + one["TV_OWNER"]
      BY <2>8, TotalOfLines
    <3>. QED  BY <2>7, <3>1, <3>2, LinesAre
  <2>10. ASSUME NEW k \in Nat, k <= p, 10000 * r <= 9999 * k
         PROVE  ~(p < r)
    BY <1>1, <2>10
  <2>. QED  BY <2>4, <2>5, <2>6, <2>9, <2>10
<1>. QED  BY <1>2, <1>5, <1>6 DEF r, p

\* allocateMoney gives out any gross amount, whatever the basis points, to the
\* last unit: a line without basis points gets nothing, a line gets what it is
\* due or the unit around it, and of two lines the one that was rounded up had
\* the larger remainder.
THEOREM AllocationIsExactAndFair ==
  ASSUME NEW gross, NEW bps, Divisible(gross, bps)
  PROVE  /\ allocateMoney(gross, bps) \in [Line -> Nat]
         /\ IsFair(gross, bps, allocateMoney(gross, bps))
<1>. DEFINE shares == allocateMoney(gross, bps)
            short(l) == gross * bps[l] - 10000 * shares[l]
            B(l) == Base(gross, bps, l)
            R(l) == Remainder(gross, bps, l)
            p(l) == Position(gross, bps, l)
            r == Remaining(gross, bps)
            first == {l \in Line : p(l) < r}
            one == [l \in Line |-> IF l \in first THEN 1 ELSE 0]
            base == [l \in Line |-> B(l)]
<1>0. gross \in Nat /\ \A l \in Line : bps[l] \in Nat
  BY DEF Divisible
<1>1. \A l \in Line : /\ B(l) \in Nat /\ R(l) \in Nat /\ R(l) < 10000
                      /\ gross * bps[l] = 10000 * B(l) + R(l)
                      /\ bps[l] = 0 => B(l) = 0 /\ R(l) = 0
  BY BaseAndRemainder
<1>2. \A l \in Line : /\ shares[l] = B(l) + (IF p(l) < r THEN 1 ELSE 0)
                      /\ R(l) = 0 => ~(p(l) < r)
  BY AllocatedShares
<1>3. r \in 0..6 /\ \A l \in Line : p(l) \in 0..6
  <2>1. r \in 0..6
    BY FewRemain
  <2>2. \A l \in Line : p(l) \in 0..6
    BY PlacesFollowTheOrder
  <2>. QED  BY <2>1, <2>2
<1>4. \A l, m \in Line : p(l) < r /\ ~(p(m) < r) => R(l) >= R(m)
  <2>1. ASSUME NEW l \in Line, NEW m \in Line, p(l) < r, ~(p(m) < r)
        PROVE  ~Ahead(gross, bps, m, l)
    BY <1>3, <2>1, PlacesFollowTheOrder
  <2>2. \A l, m \in Line : ~Ahead(gross, bps, m, l) => ~(R(m) > R(l))
    BY DEF Ahead
  <2>. HIDE DEF R, p, r
  <2>. QED  BY <1>1, <2>1, <2>2
<1>5. DOMAIN shares = Line /\ r = gross - TotalOf(base)
  BY DEF allocateMoney, Remaining
<1>6. TotalOf(one) = r
  <2>1. Cardinality(first) = TotalOf(one)
    BY CountOfLines
  <2>2. r \in 0..7
    BY <1>3
  <2>3. Cardinality(first) = r
    <3>. HIDE DEF r
    <3>. QED  BY <2>2, PlacesAreTaken
  <2>. QED  BY <2>1, <2>3
<1>7. /\ DOMAIN one = Line /\ DOMAIN base = Line
      /\ \A l \in Line : one[l] = (IF p(l) < r THEN 1 ELSE 0) /\ base[l] = B(l)
  OBVIOUS
<1>. HIDE DEF shares, B, R, p, r, first, one, base
<1>8. \A l \in Line : shares[l] = base[l] + one[l] /\ base[l] \in Nat /\ one[l] \in Nat
  BY <1>1, <1>2, <1>7
<1>9. TotalOf(shares) = TotalOf(base) + TotalOf(one) /\ TotalOf(base) \in Nat
  <2>1. TotalOf(shares) = shares["INFLUENCER"] + shares["INFLUENCER_ACQUISITION_FUND"]
                            + shares["MOSTARDA"] + shares["SELLER"]
                            + shares["SELLER_ACQUISITION_FUND"] + shares["SPACE_OWNER"]
                            + shares["TV_OWNER"]
    BY <1>5, TotalOfLines
  <2>2. TotalOf(base) = base["INFLUENCER"] + base["INFLUENCER_ACQUISITION_FUND"]
                          + base["MOSTARDA"] + base["SELLER"] + base["SELLER_ACQUISITION_FUND"]
                          + base["SPACE_OWNER"] + base["TV_OWNER"]
    BY <1>7, TotalOfLines
  <2>3. TotalOf(one) = one["INFLUENCER"] + one["INFLUENCER_ACQUISITION_FUND"]
                         + one["MOSTARDA"] + one["SELLER"] + one["SELLER_ACQUISITION_FUND"]
                         + one["SPACE_OWNER"] + one["TV_OWNER"]
    BY <1>7, TotalOfLines
  <2>. QED  BY <1>8, <2>1, <2>2, <2>3, LinesAre
<1>10. TotalOf(shares) = gross
  BY <1>0, <1>5, <1>6, <1>9
<1>11. shares \in [Line -> Nat]
  <2>1. \A l \in Line : shares[l] \in Nat
    BY <1>8
  <2>2. shares = [l \in Line |-> shares[l]]
    BY DEF shares, allocateMoney
  <2>. QED  BY <2>1, <2>2
<1>12. ASSUME NEW l \in Line
       PROVE  /\ short(l) = IF p(l) < r THEN R(l) - 10000 ELSE R(l)
              /\ bps[l] = 0 => shares[l] = 0
  <2>1. /\ B(l) \in Nat /\ R(l) \in Nat /\ gross * bps[l] = 10000 * B(l) + R(l)
        /\ shares[l] = B(l) + (IF p(l) < r THEN 1 ELSE 0)
    BY <1>1, <1>2
  <2>2. bps[l] = 0 => shares[l] = 0
    <3>1. bps[l] = 0 => B(l) = 0 /\ ~(p(l) < r)
      BY <1>1, <1>2
    <3>. QED  BY <2>1, <3>1
  <2>3. short(l) = 10000 * B(l) + R(l) - 10000 * shares[l]
    BY <2>1
  <2>. HIDE DEF short
  <2>4. CASE p(l) < r
    BY <2>1, <2>2, <2>3, <2>4
  <2>5. CASE ~(p(l) < r)
    BY <2>1, <2>2, <2>3, <2>5
  <2>. QED  BY <2>4, <2>5
<1>. HIDE DEF short
<1>13. \A l \in Line : /\ bps[l] = 0 => shares[l] = 0
                       /\ -10000 < short(l) /\ short(l) < 10000
  BY <1>1, <1>2, <1>12
<1>14. \A l, m \in Line : short(l) < 0 /\ short(m) > 0 => short(l) + 10000 >= short(m)
  BY <1>1, <1>4, <1>12
<1>. QED  BY <1>10, <1>11, <1>13, <1>14 DEF IsFair, shares, short

\* The basis points of calculateSplit make up the whole, whoever took part.
LEMMA SplitIsWhole ==
  ASSUME NEW input \in Input
  PROVE  Divisible(input.gross, calculateSplit(input))
<1>. DEFINE sold(x) == Part(Restricted(SellerComponent, input.seller), x)
            earned(x) == Part(Restricted(InfluencerComponent, input.influencer), x)
            seller == sold("acquisition") + sold("activationPayment") + sold("renewal")
                        + sold("volume")
            influencer == earned("entry") + earned("activation")
                            + earned("performanceEngagement") + earned("recurrenceResult")
            bps == calculateSplit(input)
<1>1. /\ input.gross \in Nat
      /\ input.seller \subseteq {"acquisition", "activationPayment", "renewal", "volume"}
      /\ input.influencer
           \subseteq {"entry", "activation", "performanceEngagement", "recurrenceResult"}
  BY DEF Input, SellerComponent, InfluencerComponent
<1>2. \A x : sold(x) = 0 \/ sold(x) = 500
  BY <1>1 DEF Part, Restricted, SellerComponent
<1>3. /\ earned("entry") \in {0, 300} /\ earned("activation") \in {0, 200}
      /\ earned("performanceEngagement") \in {0, 200}
      /\ earned("recurrenceResult") \in {0, 300}
  BY <1>1 DEF Part, Restricted, InfluencerComponent
<1>4. DOMAIN bps = Line
  BY DEF calculateSplit
<1>5. /\ bps["TV_OWNER"] = 2000 /\ bps["SPACE_OWNER"] = 2000
      /\ bps["SELLER"] = seller /\ bps["SELLER_ACQUISITION_FUND"] = 2000 - seller
      /\ bps["INFLUENCER"] = influencer
      /\ bps["INFLUENCER_ACQUISITION_FUND"] = 1000 - influencer
      /\ bps["MOSTARDA"] = 10000 - 2000 - 2000 - 2000 - 1000
  BY LinesAre DEF calculateSplit
<1>6. bps = [l \in Line |-> bps[l]]
  <2>. DEFINE points(l) ==
         CASE l = "TV_OWNER"                    -> 2000
           [] l = "SPACE_OWNER"                 -> 2000
           [] l = "SELLER"                      -> seller
           [] l = "SELLER_ACQUISITION_FUND"     -> 2000 - seller
           [] l = "INFLUENCER"                  -> influencer
           [] l = "INFLUENCER_ACQUISITION_FUND" -> 1000 - influencer
           [] l = "MOSTARDA"                    -> 10000 - 2000 - 2000 - 2000 - 1000
  <2>1. bps = [l \in Line |-> points(l)]
    BY DEF calculateSplit
  <2>. HIDE DEF points, bps
  <2>. QED  BY <2>1
<1>. HIDE DEF sold, earned, bps
<1>7. seller \in Nat /\ seller <= 2000
  BY <1>2
<1>8. influencer \in Nat /\ influencer <= 1000
  BY <1>3
<1>. HIDE DEF seller, influencer
<1>9. \A l \in Line : bps[l] \in Nat
  BY <1>5, <1>7, <1>8, LineIs
<1>10. TotalOf(bps) = 10000
  <2>1. TotalOf(bps) = bps["INFLUENCER"] + bps["INFLUENCER_ACQUISITION_FUND"]
                         + bps["MOSTARDA"] + bps["SELLER"] + bps["SELLER_ACQUISITION_FUND"]
                         + bps["SPACE_OWNER"] + bps["TV_OWNER"]
    BY <1>4, TotalOfLines
  <2>. QED  BY <1>5, <1>7, <1>8, <2>1
<1>. QED  BY <1>1, <1>6, <1>9, <1>10 DEF Divisible, bps

\* Leaving out the lines that get nothing changes no sum.
LEMMA TotalOfRights ==
  ASSUME NEW amounts \in [Line -> Nat]
  PROVE  TotalOf(Restricted(amounts, LinesWithRights(amounts))) = TotalOf(amounts)
<1>. DEFINE rights == Restricted(amounts, LinesWithRights(amounts))
<1>1. \A l \in Line : Part(rights, l) = Part(amounts, l)
  BY DEF Part, Restricted, LinesWithRights
<1>. HIDE DEF rights
<1>2. TotalOf(rights) = TotalOf(amounts)
  BY <1>1, LinesAre DEF TotalOf
<1>. QED  BY <1>2 DEF rights

-----------------------------------------------------------------------------

\* A step of one caller.
Step(c) == (\E p \in offer[c] : Begin(c, p[1], p[2])) \/ Statements(c)

\* A caller is called with evidence and an input of the offers.
LEMMA OfferType ==
  ASSUME TypeOK, NEW c \in Caller, NEW p \in offer[c]
  PROVE  /\ p[1] \in Evidence
         /\ IsEligible(p[2]) => Materialization(p[2]) \in Settlements
<1>1. offer \in Offers /\ offer \in [Caller -> SUBSET (Evidence \X Input)]
  BY SettlementStoreAssumption DEF TypeOK
<1>2. p \in Offered
  BY <1>1 DEF Offered
<1>. QED  BY <1>1, <1>2 DEF Settlements

LEMMA InitInvariant == Init => StoreInvariant
<1>. SUFFICES ASSUME Init PROVE StoreInvariant
  OBVIOUS
<1>1. NoEvidence \in Evidence
  BY SettlementStoreAssumption DEF NoEvidence
<1>2. TypeOK
  BY <1>1 DEF Init, TypeOK, Statement, Outcome
<1>3. KeyIsExclusive /\ \A c \in Caller : Progress(c)
  BY DEF Init, KeyIsExclusive, Progress
<1>. QED  BY <1>2, <1>3 DEF StoreInvariant

\* Every action keeps the types.
LEMMA TypeStep ==
  ASSUME StoreInvariant, NEW c \in Caller, Step(c)
  PROVE  TypeOK'
<1>. USE DEF StoreInvariant, TypeOK, Goto, callVars
<1>1. ASSUME NEW p \in offer[c], Begin(c, p[1], p[2])
      PROVE  TypeOK'
  <2>1. p[1] \in Evidence /\ (IsEligible(p[2]) => Materialization(p[2]) \in Settlements)
    BY OfferType
  <2>2. evidence' \in [Caller -> Evidence]
    BY <1>1, <2>1 DEF Begin
  <2>3. result' \in [Caller -> Settlements \cup {NoSettlement}]
    BY <1>1, <2>1 DEF Begin
  <2>4. pc' \in [Caller -> Statement]
    BY <1>1 DEF Begin, End, Statement, Tables, Table
  <2>5. outcome' \in [Caller -> Outcome]
    BY <1>1 DEF Begin, End, Outcome
  <2>. QED  BY <1>1, <2>2, <2>3, <2>4, <2>5 DEF Begin
<1>2. CASE FindByEvidence(c)
  <2>1. pc' \in [Caller -> Statement]
    BY <1>2 DEF FindByEvidence, End, Statement, Tables, Table
  <2>2. outcome' \in [Caller -> Outcome]
    BY <1>2 DEF FindByEvidence, End, Outcome
  <2>3. answer' \in [Caller -> Settlements \cup {NoSettlement}]
    BY <1>2 DEF FindByEvidence, Answer
  <2>. QED  BY <1>2, <2>1, <2>2, <2>3 DEF FindByEvidence
<1>3. ASSUME AddCycle(c)
      PROVE  /\ pc' \in [Caller -> Statement] /\ outcome' \in [Caller -> Outcome]
             /\ written' \in [Caller -> SUBSET Tables]
  <2>1. CASE Raise(c, "key violation") /\ UNCHANGED written
    BY <2>1 DEF Raise, Statement, Outcome
  <2>2. CASE /\ written' = [written EXCEPT ![c] = {"cycle"}]
             /\ Goto(c, "shares") /\ UNCHANGED outcome
    <3>1. "cycle" \in Tables /\ "shares" \in Statement
      BY DEF Statement, Tables, Table
    <3>. QED  BY <2>2, <3>1
  <2>. QED  BY <1>3, <2>1, <2>2 DEF AddCycle
<1>4. CASE InsertCycle(c)
  <2>1. CASE Goto(c, "replay") /\ UNCHANGED <<written, outcome>>
    BY <1>4, <2>1 DEF InsertCycle, Statement
  <2>2. CASE AddCycle(c)
    BY <1>3, <1>4, <2>2 DEF InsertCycle
  <2>. QED  BY <1>4, <2>1, <2>2 DEF InsertCycle
<1>5. CASE RefuseCycle(c) \/ MeetPrimaryKey(c)
  BY <1>5 DEF RefuseCycle, Raise, MeetPrimaryKey, Statement, Outcome
<1>6. CASE PrimaryKeyIsFree(c)
  BY <1>3, <1>6 DEF PrimaryKeyIsFree
<1>7. CASE Replay(c)
  BY <1>7 DEF Replay, End, Raise, Answer, Statement, Outcome
<1>8. ASSUME NEW t \in DOMAIN Table, InsertRows(c, t)
      PROVE  TypeOK'
  <2>1. Table[t] \in Tables /\ (t + 1 \in DOMAIN Table => Table[t + 1] \in Statement)
    BY DEF Statement, Tables
  <2>2. pc' \in [Caller -> Statement]
    BY <1>8, <2>1 DEF InsertRows, Raise, Statement, Tables, Table
  <2>3. outcome' \in [Caller -> Outcome]
    BY <1>8 DEF InsertRows, Raise, Outcome
  <2>4. written' \in [Caller -> SUBSET Tables]
    BY <1>8, <2>1 DEF InsertRows, Tables, Table
  <2>. QED  BY <1>8, <2>2, <2>3, <2>4 DEF InsertRows
<1>9. CASE Commit(c)
  BY <1>9 DEF Commit, End, Answer, Saved, Statement, Outcome
<1>10. CASE Rollback(c) \/ ConnectionLost(c)
  BY <1>10 DEF Rollback, ConnectionLost, End, Statement, Outcome
<1>11. CASE Return(c)
  <2>1. NoEvidence \in Evidence
    BY SettlementStoreAssumption DEF NoEvidence
  <2>. QED  BY <1>11, <2>1 DEF Return, Statement, Outcome
<1>. QED  BY <1>1, <1>2, <1>4, <1>5, <1>6, <1>7, <1>8, <1>9, <1>10, <1>11
          DEF Step, Statements

\* A caller's step leaves the others' calls alone.
LEMMA OthersUnchanged ==
  ASSUME StoreInvariant, NEW c \in Caller, Step(c), NEW d \in Caller, d # c
  PROVE  /\ pc'[d] = pc[d] /\ evidence'[d] = evidence[d] /\ result'[d] = result[d]
         /\ written'[d] = written[d] /\ answer'[d] = answer[d] /\ outcome'[d] = outcome[d]
<1>. USE DEF StoreInvariant, TypeOK, Goto, End, Raise, Answer, callVars
<1>1. ASSUME NEW p \in offer[c], Begin(c, p[1], p[2])
      PROVE  /\ pc'[d] = pc[d] /\ evidence'[d] = evidence[d] /\ result'[d] = result[d]
             /\ written'[d] = written[d] /\ answer'[d] = answer[d] /\ outcome'[d] = outcome[d]
  BY <1>1 DEF Begin
<1>2. CASE FindByEvidence(c)
  BY <1>2 DEF FindByEvidence
<1>3. CASE InsertCycle(c)
  BY <1>3 DEF InsertCycle, AddCycle
<1>4. CASE RefuseCycle(c) \/ MeetPrimaryKey(c) \/ PrimaryKeyIsFree(c)
  BY <1>4 DEF RefuseCycle, MeetPrimaryKey, PrimaryKeyIsFree, AddCycle
<1>5. CASE Replay(c)
  BY <1>5 DEF Replay
<1>6. ASSUME NEW t \in DOMAIN Table, InsertRows(c, t)
      PROVE  /\ pc'[d] = pc[d] /\ evidence'[d] = evidence[d] /\ result'[d] = result[d]
             /\ written'[d] = written[d] /\ answer'[d] = answer[d] /\ outcome'[d] = outcome[d]
  BY <1>6 DEF InsertRows
<1>7. CASE Commit(c)
  BY <1>7 DEF Commit
<1>8. CASE Rollback(c) \/ ConnectionLost(c) \/ Return(c)
  BY <1>8 DEF Rollback, ConnectionLost, Return
<1>. QED  BY <1>1, <1>2, <1>3, <1>4, <1>5, <1>6, <1>7, <1>8 DEF Step, Statements

-----------------------------------------------------------------------------
\* The settlement of the call is stored, in a place that was free.
Settles(c) ==
  /\ "cycle" \in written[c] /\ ~CycleIsTaken(c)
  /\ result[c] \in Settlements /\ result[c] # NoSettlement
  /\ settled' = [settled EXCEPT ![evidence[c]] = result[c]]

LEMMA CommitCases ==
  ASSUME StoreInvariant, NEW c \in Caller, Commit(c)
  PROVE  settled' = settled \/ Settles(c)
  BY DEF StoreInvariant, TypeOK, Progress, Commit, Saved, Settles

LEMMA SettledStep ==
  ASSUME StoreInvariant, NEW c \in Caller, Step(c)
  PROVE  settled' = settled \/ Settles(c)
  BY CommitCases
     DEF Step, Statements, Begin, FindByEvidence, RefuseCycle, InsertCycle, MeetPrimaryKey,
         PrimaryKeyIsFree, Replay, InsertRows, Rollback, ConnectionLost, Return

\* What is settled stays as it is.
LEMMA SettledForGood ==
  ASSUME StoreInvariant, NEW c \in Caller, Step(c),
         NEW e \in Evidence, settled[e] # NoSettlement
  PROVE  settled'[e] = settled[e]
  BY SettledStep DEF Settles, CycleIsTaken, SameCycle, StoreInvariant, TypeOK

\* Others do not take the place of a cycle that a transaction has inserted.
LEMMA CycleStaysFree ==
  ASSUME StoreInvariant, NEW c \in Caller, Step(c), NEW d \in Caller, d # c,
         "cycle" \in written[d]
  PROVE  CycleIsTaken(d)' <=> CycleIsTaken(d)
<1>1. evidence'[d] = evidence[d]
  BY OthersUnchanged
<1>2. ASSUME Settles(c)
      PROVE  \A f \in SameCycle(evidence[d]) : settled'[f] = settled[f]
  <2>1. evidence[c] \notin SameCycle(evidence[d])
    BY <1>2 DEF StoreInvariant, KeyIsExclusive, Settles
  <2>. QED  BY <1>2, <2>1 DEF Settles, SameCycle, StoreInvariant, TypeOK
<1>3. \A f \in SameCycle(evidence[d]) : settled'[f] = settled[f]
  BY <1>2, SettledStep
<1>. QED  BY <1>1, <1>3 DEF CycleIsTaken, SameCycle

LEMMA OtherProgress ==
  ASSUME StoreInvariant, NEW c \in Caller, Step(c), NEW d \in Caller, d # c
  PROVE  Progress(d)'
<1>1. Progress(d) /\ evidence[d] \in Evidence
  BY DEF StoreInvariant, TypeOK
<1>2. /\ pc'[d] = pc[d] /\ evidence'[d] = evidence[d] /\ result'[d] = result[d]
      /\ written'[d] = written[d] /\ answer'[d] = answer[d] /\ outcome'[d] = outcome[d]
  BY OthersUnchanged
<1>3. settled[evidence[d]] # NoSettlement => settled'[evidence[d]] = settled[evidence[d]]
  BY <1>1, SettledForGood
<1>4. "cycle" \in written[d] => ~CycleIsTaken(d)'
  BY <1>1, CycleStaysFree DEF Progress
<1>. QED  BY <1>1, <1>2, <1>3, <1>4 DEF Progress

LEMMA OwnProgress ==
  ASSUME StoreInvariant, NEW c \in Caller, Step(c)
  PROVE  Progress(c)'
<1>. USE DEF StoreInvariant, TypeOK, Goto, callVars
<1>0. Progress(c) /\ evidence[c] \in Evidence
  OBVIOUS
<1>1. ASSUME NEW p \in offer[c], Begin(c, p[1], p[2])
      PROVE  Progress(c)'
  BY <1>0, <1>1, OfferType, SettlementStoreAssumption DEF Begin, End, Progress
<1>2. CASE FindByEvidence(c)
  BY <1>0, <1>2 DEF FindByEvidence, IsReplay, End, Answer, Progress
<1>3. ASSUME AddCycle(c), UNCHANGED <<offer, settled, callVars>>, pc[c] \in {"cycle", "key"}
      PROVE  Progress(c)'
  <2>1. CycleIsTaken(c)' <=> CycleIsTaken(c)
    BY <1>3 DEF CycleIsTaken, SameCycle
  <2>2. CASE CycleIsTaken(c) /\ Raise(c, "key violation") /\ UNCHANGED written
    <3>1. pc'[c] = "rollback" /\ outcome'[c] = "key violation" /\ written'[c] = {}
      BY <1>0, <1>3, <2>2 DEF Raise, Progress
    <3>. QED  BY <3>1 DEF Progress
  <2>3. CASE /\ ~CycleIsTaken(c)
             /\ written' = [written EXCEPT ![c] = {"cycle"}]
             /\ Goto(c, "shares") /\ UNCHANGED outcome
    <3>1. pc'[c] = "shares" /\ outcome'[c] = "pending" /\ written'[c] = {"cycle"}
      BY <1>0, <1>3, <2>3 DEF Progress
    <3>2. result'[c] # NoSettlement /\ ~CycleIsTaken(c)'
      BY <1>0, <1>3, <2>1, <2>3 DEF Progress
    <3>. QED  BY <3>1, <3>2 DEF Progress
  <2>. QED  BY <1>3, <2>2, <2>3 DEF AddCycle
<1>4. CASE InsertCycle(c)
  BY <1>0, <1>3, <1>4 DEF InsertCycle, Progress
<1>5. CASE RefuseCycle(c) \/ MeetPrimaryKey(c)
  BY <1>0, <1>5 DEF RefuseCycle, Raise, MeetPrimaryKey, Progress
<1>6. CASE PrimaryKeyIsFree(c)
  BY <1>3, <1>6 DEF PrimaryKeyIsFree
<1>7. CASE Replay(c)
  BY <1>0, <1>7 DEF Replay, IsReplay, End, Raise, Answer, Progress
<1>8. ASSUME NEW t \in DOMAIN Table, InsertRows(c, t)
      PROVE  Progress(c)'
  <2>1. CycleIsTaken(c)' <=> CycleIsTaken(c)
    BY <1>8 DEF InsertRows, CycleIsTaken, SameCycle
  <2>2. pc[c] \in {"shares", "rights", "journal", "lines", "ledger"}
    BY <1>8 DEF InsertRows, Table
  <2>3. pc'[c] \in {"shares", "rights", "journal", "lines", "ledger", "commit", "rollback"}
    BY <1>8 DEF InsertRows, Raise, Table
  <2>4. "cycle" \in written'[c] /\ ~CycleIsTaken(c)
    BY <1>0, <1>8, <2>2 DEF InsertRows, Progress
  <2>5. /\ outcome[c] = "pending" /\ result[c] # NoSettlement
        /\ outcome'[c] = IF pc'[c] = "rollback" THEN "integrity" ELSE "pending"
    BY <1>0, <1>8, <2>2 DEF InsertRows, Raise, Progress, Table
  <2>. QED  BY <1>8, <2>1, <2>3, <2>4, <2>5 DEF InsertRows, Progress
<1>9. CASE Commit(c)
  BY <1>0, <1>9, CommitCases DEF Commit, Settles, Saved, End, Answer, Progress
<1>10. CASE Rollback(c) \/ ConnectionLost(c)
  BY <1>0, <1>10 DEF Rollback, ConnectionLost, End, Progress
<1>11. CASE Return(c)
  BY <1>0, <1>11 DEF Return, Progress
<1>. QED  BY <1>1, <1>2, <1>4, <1>5, <1>6, <1>7, <1>8, <1>9, <1>10, <1>11
          DEF Step, Statements

\* A cycle is inserted when no other transaction has it.
LEMMA ExclusiveStep ==
  ASSUME StoreInvariant, NEW c \in Caller, Step(c)
  PROVE  KeyIsExclusive'
<1>. USE DEF StoreInvariant, TypeOK, Goto, End, Raise, callVars
<1>1. "cycle" \in written'[c] =>
        evidence'[c] = evidence[c] /\ ("cycle" \in written[c] \/ ~CycleInFlight(c))
  <2>1. ASSUME NEW p \in offer[c], Begin(c, p[1], p[2])
        PROVE  "cycle" \notin written'[c]
    BY <2>1 DEF Begin, Progress
  <2>2. CASE FindByEvidence(c) \/ RefuseCycle(c) \/ MeetPrimaryKey(c) \/ Replay(c)
    BY <2>2 DEF FindByEvidence, RefuseCycle, MeetPrimaryKey, Replay
  <2>3. CASE InsertCycle(c) \/ PrimaryKeyIsFree(c)
    BY <2>3 DEF InsertCycle, PrimaryKeyIsFree, AddCycle
  <2>4. ASSUME NEW t \in DOMAIN Table, InsertRows(c, t)
        PROVE  evidence'[c] = evidence[c] /\ "cycle" \in written[c]
    <3>1. pc[c] \in {"shares", "rights", "journal", "lines", "ledger"}
      BY <2>4 DEF InsertRows, Table
    <3>. QED  BY <2>4, <3>1 DEF InsertRows, Progress
  <2>5. CASE Commit(c) \/ Rollback(c) \/ ConnectionLost(c)
    BY <2>5 DEF Commit, Rollback, ConnectionLost
  <2>6. CASE Return(c)
    BY <2>6 DEF Return, Progress
  <2>. QED  BY <2>1, <2>2, <2>3, <2>4, <2>5, <2>6 DEF Step, Statements
<1>2. ASSUME NEW d \in Caller, d # c, "cycle" \in written'[c], "cycle" \in written'[d]
      PROVE  /\ evidence'[d] \notin SameCycle(evidence'[c])
             /\ evidence'[c] \notin SameCycle(evidence'[d])
  <2>1. /\ written'[d] = written[d] /\ evidence'[d] = evidence[d]
        /\ evidence[d] \in Evidence /\ evidence[c] \in Evidence
    BY <1>2, OthersUnchanged
  <2>2. evidence[d] \notin SameCycle(evidence[c])
    BY <1>1, <1>2, <2>1 DEF KeyIsExclusive, CycleInFlight
  <2>. QED  BY <1>1, <1>2, <2>1, <2>2 DEF SameCycle
<1>3. ASSUME NEW d \in Caller, NEW f \in Caller, d # f, d # c, f # c,
             "cycle" \in written'[d], "cycle" \in written'[f]
      PROVE  evidence'[f] \notin SameCycle(evidence'[d])
  BY <1>3, OthersUnchanged DEF KeyIsExclusive
<1>. QED  BY <1>2, <1>3 DEF KeyIsExclusive, SameCycle

-----------------------------------------------------------------------------
\* Theorems.

LEMMA InvariantStep ==
  ASSUME StoreInvariant, [Next]_vars
  PROVE  StoreInvariant'
<1>1. ASSUME NEW c \in Caller, Step(c)
      PROVE  StoreInvariant'
  BY <1>1, TypeStep, ExclusiveStep, OwnProgress, OtherProgress DEF StoreInvariant
<1>2. CASE UNCHANGED vars
  BY <1>2 DEF vars, callVars, StoreInvariant, TypeOK, KeyIsExclusive, Progress, CycleIsTaken,
              SameCycle
<1>. QED  BY <1>1, <1>2 DEF Next, Step

\* The inductive invariant: the primary key of the cycle lets one transaction
\* at a time go on for a cycle identity, and nobody for one that is taken.
THEOREM StoreInvariantHolds == Spec => []StoreInvariant
<1>. QED  BY InitInvariant, InvariantStep, PTL DEF Spec

\* Every call, stored settlement and answer has its type.
THEOREM TypeCorrectness == Spec => []TypeOK
<1>1. StoreInvariant => TypeOK
  BY DEF StoreInvariant
<1>. QED  BY <1>1, StoreInvariantHolds, PTL

\* Whoever is answered gets the settlement that is stored.
THEOREM AgreedAnswers == Spec => []AnswersAgree
<1>1. StoreInvariant => AnswersAgree
  BY DEF StoreInvariant, Progress, AnswersAgree
<1>. QED  BY <1>1, StoreInvariantHolds, PTL

\* A replay is refused as divergent only if it differs from what is stored.
THEOREM RealDivergence == Spec => []DivergenceIsReal
<1>1. StoreInvariant => DivergenceIsReal
  BY DEF StoreInvariant, Progress, DivergenceIsReal
<1>. QED  BY <1>1, StoreInvariantHolds, PTL

\* A settlement that is returned, and a divergence that is raised, is what is
\* stored.
THEOREM RightAnswers == Spec => []AnswersAreRight
<1>1. StoreInvariant => AnswersAreRight
  BY DEF StoreInvariant, Progress, AnswersAreRight, AnswersAgree, DivergenceIsReal
<1>. QED  BY <1>1, StoreInvariantHolds, PTL

-----------------------------------------------------------------------------
\* What the settlements are made of.

\* The parts of a settlement agree with each other in every way that the schema
\* checks, up to the payees' texts, and its split is fair.
IsSound(s) ==
  /\ IsFair(s.gross, s.bps, s.shares) /\ s.gross > 0
  /\ PayeesAreNamed(s, Line) => \A t \in DOMAIN Table \ {1} : RowsAreValid(s, Table[t])
  /\ DOMAIN s.shares = Line
  /\ DOMAIN s.rights = {l \in Line : s.shares[l] > 0} /\ TotalOf(s.rights) = s.gross
  /\ s.credits = s.rights /\ s.ledger = s.rights

LEMMA SettlementsAreSound ==
  ASSUME NEW s \in Settlements
  PROVE  IsSound(s)
<1>1. PICK input \in Input : IsEligible(input) /\ s = Materialization(input)
  BY SettlementStoreAssumption DEF Settlements, Offered
<1>. DEFINE gross == input.gross
            bps == calculateSplit(input)
            shares == allocateMoney(gross, bps)
            rights == Restricted(shares, LinesWithRights(shares))
<1>2. /\ s.gross = gross /\ s.bps = bps /\ s.shares = shares /\ s.rights = rights
      /\ s.debit = gross /\ s.credits = rights /\ s.ledger = rights
  BY <1>1 DEF Materialization
<1>3. Divisible(gross, bps)
  BY SplitIsWhole
<1>4. shares \in [Line -> Nat] /\ IsFair(gross, bps, shares)
  BY <1>3, AllocationIsExactAndFair
<1>5. TotalOf(shares) = gross /\ \A l \in Line : bps[l] = 0 => shares[l] = 0
  BY <1>4 DEF IsFair
<1>6. TotalOf(rights) = gross
  BY <1>4, <1>5, TotalOfRights
<1>7. /\ DOMAIN rights = {l \in Line : shares[l] > 0}
      /\ \A l \in DOMAIN rights : l \in Line /\ rights[l] = shares[l] /\ rights[l] > 0
  BY <1>4 DEF Restricted, LinesWithRights
<1>8. gross > 0
  BY <1>1 DEF IsEligible
<1>. HIDE DEF gross, bps, shares, rights
<1>9. ASSUME PayeesAreNamed(s, Line)
      PROVE  \A t \in DOMAIN Table \ {1} : RowsAreValid(s, Table[t])
  <2>0. PayeesAreNamed(s, DOMAIN rights)
    BY <1>7, <1>9 DEF PayeesAreNamed
  <2>1. RowsAreValid(s, "shares")
    <3>1. \A l \in Line : 0 <= shares[l] /\ shares[l] <= gross
      <4>1. TotalOf(shares) = shares["INFLUENCER"] + shares["INFLUENCER_ACQUISITION_FUND"]
                               + shares["MOSTARDA"] + shares["SELLER"]
                               + shares["SELLER_ACQUISITION_FUND"]
                               + shares["SPACE_OWNER"] + shares["TV_OWNER"]
        BY <1>4, TotalOfLines
      <4>2. \A l \in Line : shares[l] \in Nat
        BY <1>4
      <4>3. /\ shares["INFLUENCER"] \in Nat /\ shares["INFLUENCER_ACQUISITION_FUND"] \in Nat
            /\ shares["MOSTARDA"] \in Nat /\ shares["SELLER"] \in Nat
            /\ shares["SELLER_ACQUISITION_FUND"] \in Nat
            /\ shares["SPACE_OWNER"] \in Nat /\ shares["TV_OWNER"] \in Nat
        BY <4>2, LinesAre
      <4>4. TotalOf(shares) = gross
        BY <1>5
      <4>. QED  BY <4>1, <4>3, <4>4, LineIs
    <3>2. gross <= GrossLimit /\ gross \in Nat
      BY <1>1 DEF IsEligible, Input, gross
    <3>. QED  BY <1>2, <1>4, <1>5, <1>9, <3>1, <3>2, GrossLimitAssumption DEF RowsAreValid
  <2>2. RowsAreValid(s, "rights")
    BY <1>2, <1>5, <1>7, <2>0 DEF RowsAreValid
  <2>3. RowsAreValid(s, "journal")
    BY <1>2, <1>6 DEF RowsAreValid
  <2>4. RowsAreValid(s, "lines")
    BY <1>2, <1>8, <2>0 DEF RowsAreValid
  <2>5. RowsAreValid(s, "ledger")
    BY <1>2, <2>0 DEF RowsAreValid
  <2>. QED  BY <2>1, <2>2, <2>3, <2>4, <2>5 DEF Table
<1>10. DOMAIN shares = Line
  BY <1>4
<1>. QED  BY <1>2, <1>4, <1>6, <1>7, <1>8, <1>9, <1>10 DEF IsSound

\* Every stored split gives out the gross amount, fairly.
THEOREM FairSplits == Spec => []SplitsAreFair
<1>1. ASSUME StoreInvariant
      PROVE  SplitsAreFair
  <2>1. \A e \in Evidence : settled[e] # NoSettlement => settled[e] \in Settlements
    BY <1>1 DEF StoreInvariant, TypeOK
  <2>. QED  BY <2>1, SettlementsAreSound DEF SplitsAreFair, IsSound
<1>. QED  BY <1>1, StoreInvariantHolds, PTL

-----------------------------------------------------------------------------
\* What the schema accepts.

\* The call was refused by the schema for an empty text only.
Refusal(c) == outcome[c] = "integrity" => ~HasTexts(evidence[c], result[c])

LEMMA InitSchema == Init => SchemaInvariant
<1>1. ASSUME Init
      PROVE  OnlyEmptyTextsAreRefused /\ \A c \in Caller : InsertedSoFar(c)
  BY <1>1 DEF Init, OnlyEmptyTextsAreRefused, InsertedSoFar, Table
<1>. QED  BY <1>1, InitInvariant DEF SchemaInvariant

\* A row is refused for an empty text only, and a transaction that reaches
\* COMMIT is complete.
LEMMA OnlyTextsAreRefused ==
  ASSUME SchemaInvariant, NEW c \in Caller
  PROVE  /\ pc[c] = "cycle" => result[c].gross > 0
         /\ \A t \in DOMAIN Table : t > 1 /\ pc[c] = Table[t] /\ PayeesAreNamed(result[c], Line)
                                      => RowsAreValid(result[c], Table[t])
         /\ pc[c] = "commit" => IsComplete(c)
<1>1. pc[c] \notin {"idle", "rollback", "done"} => IsSound(result[c])
  BY SettlementsAreSound DEF SchemaInvariant, StoreInvariant, TypeOK, Progress
<1>2. ASSUME NEW t \in DOMAIN Table, t > 1, pc[c] = Table[t], PayeesAreNamed(result[c], Line)
      PROVE  RowsAreValid(result[c], Table[t])
  <2>1. pc[c] \notin {"idle", "rollback", "done"}
    BY <1>2 DEF Table
  <2>. QED  BY <1>1, <1>2, <2>1 DEF IsSound
<1>3. ASSUME pc[c] = "commit"
      PROVE  IsComplete(c)
  <2>1. IsSound(result[c]) /\ written[c] = Tables
    BY <1>1, <1>3 DEF SchemaInvariant, InsertedSoFar
  <2>2. TotalOf(result[c].shares) = result[c].gross
    BY <2>1 DEF IsSound, IsFair
  <2>. QED  BY <2>1, <2>2 DEF IsSound, IsComplete
<1>4. pc[c] = "cycle" => result[c].gross > 0
  BY <1>1 DEF IsSound
<1>. QED  BY <1>2, <1>3, <1>4

LEMMA OwnInsertions ==
  ASSUME SchemaInvariant, NEW c \in Caller, Step(c)
  PROVE  InsertedSoFar(c)' /\ Refusal(c)'
<1>. DEFINE Goal == InsertedSoFar(c)' /\ Refusal(c)'
            Same == evidence'[c] = evidence[c] /\ result'[c] = result[c]
<1>0. /\ pc \in [Caller -> Statement] /\ outcome \in [Caller -> Outcome]
      /\ written \in [Caller -> SUBSET Tables]
      /\ evidence \in [Caller -> Evidence]
      /\ result \in [Caller -> Settlements \cup {NoSettlement}]
      /\ InsertedSoFar(c) /\ Refusal(c) /\ Progress(c)
  BY DEF SchemaInvariant, StoreInvariant, TypeOK, OnlyEmptyTextsAreRefused, Refusal
\* A transaction with nothing written has nothing to show, nor does a statement
\* outside the tables.
<1>1. ASSUME pc'[c] \notin {Table[t] : t \in DOMAIN Table \ {1}},
             pc'[c] \notin {"key", "commit"},
             \/ written'[c] = {}
             \/ written'[c] = written[c] /\ Same,
             Refusal(c)'
      PROVE  Goal
  BY <1>0, <1>1 DEF InsertedSoFar
<1>2. ASSUME NEW p \in offer[c], Begin(c, p[1], p[2])
      PROVE  Goal
  <2>1. written'[c] = {} /\ outcome'[c] # "integrity" /\ pc'[c] \in {"find", "done"}
    BY <1>0, <1>2 DEF Begin, Goto, End, Progress
  <2>2. Refusal(c)'
    BY <2>1 DEF Refusal
  <2>. QED  BY <1>1, <2>1, <2>2 DEF Table
<1>3. CASE FindByEvidence(c) \/ Replay(c)
  <2>1. Same /\ written'[c] = written[c]
    BY <1>0, <1>3 DEF FindByEvidence, Replay, callVars
  <2>2. outcome'[c] # "integrity"
    BY <1>0, <1>3 DEF FindByEvidence, Replay, End, Raise, Goto, Progress
  <2>3. pc'[c] \in {"cycle", "rollback", "done"}
    BY <1>0, <1>3 DEF FindByEvidence, Replay, End, Raise, Goto
  <2>4. Refusal(c)'
    BY <2>2 DEF Refusal
  <2>. QED  BY <1>1, <2>1, <2>3, <2>4 DEF Table
<1>4. ASSUME AddCycle(c), UNCHANGED callVars, evidence[c] \notin Nameless,
             written[c] = {}, outcome[c] = "pending"
      PROVE  Goal
  <2>1. CASE Raise(c, "key violation") /\ UNCHANGED written
    <3>1. pc'[c] = "rollback" /\ outcome'[c] = "key violation" /\ written'[c] = {}
      BY <1>0, <1>4, <2>1 DEF Raise, Goto
    <3>2. "rollback" \notin {Table[t] : t \in DOMAIN Table \ {1}}
      BY DEF Table
    <3>. QED  BY <1>1, <3>1, <3>2 DEF Refusal
  <2>2. CASE /\ written' = [written EXCEPT ![c] = {"cycle"}]
             /\ Goto(c, "shares") /\ UNCHANGED outcome
    <3>1. pc'[c] = "shares" /\ written'[c] = {"cycle"} /\ outcome'[c] = "pending"
      BY <1>0, <1>4, <2>2 DEF Goto
    <3>2. {Table[i] : i \in 1..(2 - 1)} = {"cycle"}
      BY DEF Table
    <3>3. evidence'[c] \notin Nameless
      BY <1>4 DEF callVars
    <3>. QED  BY <3>1, <3>2, <3>3 DEF InsertedSoFar, Refusal, Table
  <2>. QED  BY <1>4, <2>1, <2>2 DEF AddCycle
<1>5. CASE RefuseCycle(c)
  <2>1. Same /\ written'[c] = {} /\ pc'[c] = "rollback"
    BY <1>0, <1>5 DEF RefuseCycle, Raise, Goto, callVars, Progress
  <2>2. evidence[c] \in Nameless
    BY <1>5, OnlyTextsAreRefused DEF RefuseCycle, CycleIsValid
  <2>3. Refusal(c)'
    BY <2>1, <2>2 DEF Refusal, HasTexts
  <2>. QED  BY <1>1, <2>1, <2>3 DEF Table
<1>6. CASE InsertCycle(c)
  <2>1. written[c] = {} /\ outcome[c] = "pending" /\ evidence[c] \notin Nameless
    BY <1>0, <1>6 DEF InsertCycle, CycleIsValid, Progress
  <2>2. CASE Goto(c, "replay") /\ UNCHANGED <<written, outcome>>
    <3>1. pc'[c] = "replay" /\ outcome'[c] = "pending" /\ written'[c] = {}
      BY <1>0, <2>1, <2>2 DEF Goto
    <3>. QED  BY <1>1, <3>1 DEF Refusal, Table
  <2>3. CASE AddCycle(c)
    BY <1>4, <1>6, <2>1, <2>3 DEF InsertCycle
  <2>. QED  BY <1>6, <2>2, <2>3 DEF InsertCycle
<1>7. CASE PrimaryKeyIsFree(c)
  <2>1. written[c] = {} /\ outcome[c] = "pending" /\ evidence[c] \notin Nameless
    BY <1>0, <1>7 DEF PrimaryKeyIsFree, InsertedSoFar, Progress
  <2>. QED  BY <1>4, <1>7, <2>1 DEF PrimaryKeyIsFree
<1>8. ASSUME NEW t \in DOMAIN Table, InsertRows(c, t), ~RowsAreValid(result[c], Table[t])
      PROVE  Goal
  <2>1. ~PayeesAreNamed(result[c], Line)
    BY <1>8, OnlyTextsAreRefused DEF InsertRows
  <2>2. Same /\ written'[c] = written[c] /\ pc'[c] = "rollback"
    BY <1>0, <1>8 DEF InsertRows, Raise, Goto, callVars
  <2>3. Refusal(c)'
    BY <2>1, <2>2 DEF Refusal, HasTexts, PayeesAreNamed
  <2>. QED  BY <1>1, <2>2, <2>3 DEF Table
<1>9. ASSUME NEW t \in DOMAIN Table, InsertRows(c, t), RowsAreValid(result[c], Table[t])
      PROVE  Goal
  <2>1. t > 1 /\ pc[c] = Table[t]
    BY <1>9 DEF InsertRows
  <2>2. /\ written'[c] = written[c] \cup {Table[t]} /\ outcome'[c] = "pending"
        /\ pc'[c] = IF t + 1 \in DOMAIN Table THEN Table[t + 1] ELSE "commit"
        /\ Same
    <3>1. outcome[c] = "pending"
      BY <1>0, <2>1 DEF Progress, Table
    <3>. QED  BY <1>0, <1>9, <3>1 DEF InsertRows, Goto, callVars
  <2>3. DOMAIN Table = 1..6
    BY DEF Table
  <2>4. written'[c] = {Table[i] : i \in 1..t}
    <3>1. written[c] = {Table[i] : i \in 1..(t - 1)}
      BY <1>0, <2>1, <2>3 DEF InsertedSoFar
    <3>2. 1..t = 1..(t - 1) \cup {t}
      BY <2>1, <2>3
    <3>. QED  BY <2>2, <3>1, <3>2
  <2>5. \A i, j \in 1..6 : Table[i] = Table[j] => i = j
    BY DEF Table
  <2>6. \A i \in 1..6 : Table[i] # "commit"
    BY DEF Table
  <2>7. /\ "cycle" \in written'[c] => evidence'[c] \notin Nameless
        /\ "shares" \in written'[c] => PayeesAreNamed(result'[c], Line)
    <3>1. Table[t] # "cycle"
      BY <2>1, <2>3 DEF Table
    <3>2. Table[t] = "shares" => PayeesAreNamed(result[c], Line)
      BY <1>9 DEF RowsAreValid
    <3>. QED  BY <1>0, <2>2, <3>1, <3>2 DEF InsertedSoFar
  <2>8. CASE t = 6
    BY <2>2, <2>3, <2>4, <2>6, <2>7, <2>8 DEF InsertedSoFar, Refusal, Tables
  <2>9. CASE t # 6
    <3>1. t + 1 \in 1..6 /\ pc'[c] = Table[t + 1]
      BY <2>1, <2>2, <2>3, <2>9
    <3>2. pc'[c] # "commit" /\ pc'[c] # "key"
      BY <2>6, <3>1 DEF Table
    <3>3. \A i \in DOMAIN Table \ {1} : pc'[c] = Table[i] => i = t + 1
      BY <2>3, <2>5, <3>1
    <3>4. written'[c] = {Table[i] : i \in 1..((t + 1) - 1)}
      BY <2>1, <2>3, <2>4
    <3>. QED  BY <2>2, <2>7, <3>2, <3>3, <3>4 DEF InsertedSoFar, Refusal
  <2>. QED  BY <2>8, <2>9
<1>10. CASE Commit(c)
  <2>1. IsComplete(c) /\ outcome'[c] # "integrity"
    BY <1>0, <1>10, OnlyTextsAreRefused DEF Commit, End
  <2>2. written'[c] = {} /\ pc'[c] = "done"
    BY <1>0, <1>10 DEF Commit, End, Goto
  <2>. QED  BY <1>1, <2>1, <2>2 DEF Refusal, Table
<1>11. CASE Rollback(c) \/ ConnectionLost(c) \/ Return(c)
  <2>1. pc'[c] \in {"idle", "done"} /\ written'[c] = {}
    BY <1>0, <1>11 DEF Rollback, ConnectionLost, Return, Goto, End, Progress
  <2>2. Refusal(c)'
    BY <1>0, <1>11 DEF Rollback, ConnectionLost, Return, End, Refusal, callVars
  <2>. QED  BY <1>1, <2>1, <2>2 DEF Table
<1>12. CASE MeetPrimaryKey(c)
  <2>1. /\ pc'[c] = "key" /\ evidence'[c] \notin Nameless
        /\ written'[c] = {} /\ outcome'[c] = "pending"
    BY <1>0, <1>12 DEF MeetPrimaryKey, CycleIsValid, Goto, callVars, Progress
  <2>. QED  BY <2>1 DEF InsertedSoFar, Refusal, Table
<1>. QED  BY <1>2, <1>3, <1>5, <1>6, <1>7, <1>8, <1>9, <1>10, <1>11, <1>12 DEF Step, Statements

\* What a COMMIT stores has every text.
LEMMA StoredTexts ==
  ASSUME SchemaInvariant, NEW c \in Caller, Step(c), NEW e \in Evidence,
         settled'[e] # NoSettlement
  PROVE  HasTexts(e, settled'[e])
<1>1. settled \in [Evidence -> Settlements \cup {NoSettlement}] /\ evidence[c] \in Evidence
  BY DEF SchemaInvariant, StoreInvariant, TypeOK
<1>2. CASE settled'[e] = settled[e]
  BY <1>2 DEF SchemaInvariant, OnlyEmptyTextsAreRefused
<1>3. CASE settled'[e] # settled[e]
  <2>1. Commit(c)
    BY <1>3 DEF Step, Statements, Begin, FindByEvidence, RefuseCycle, InsertCycle,
                MeetPrimaryKey, PrimaryKeyIsFree, Replay, InsertRows, Rollback, ConnectionLost,
                Return
  <2>2. e = evidence[c] /\ settled'[e] = result[c]
    BY <1>1, <1>3, <2>1 DEF Commit, Saved
  <2>3. "cycle" \in written[c] /\ "shares" \in written[c]
    <3>1. written[c] = Tables
      BY <2>1 DEF Commit, SchemaInvariant, InsertedSoFar
    <3>. QED  BY <3>1 DEF Tables, Table
  <2>. QED  BY <2>2, <2>3 DEF SchemaInvariant, InsertedSoFar, HasTexts
<1>. QED  BY <1>2, <1>3

LEMMA SchemaStep ==
  ASSUME SchemaInvariant, [Next]_vars
  PROVE  SchemaInvariant'
<1>1. StoreInvariant'
  BY InvariantStep DEF SchemaInvariant
<1>2. ASSUME NEW c \in Caller, Step(c), NEW d \in Caller
      PROVE  InsertedSoFar(d)' /\ Refusal(d)'
  <2>1. CASE d = c
    BY <1>2, <2>1, OwnInsertions
  <2>2. CASE d # c
    BY <1>2, <2>2, OthersUnchanged
       DEF SchemaInvariant, OnlyEmptyTextsAreRefused, InsertedSoFar, Refusal
  <2>. QED  BY <2>1, <2>2
<1>3. CASE \E c \in Caller : Step(c)
  <2>1. \A e \in Evidence : settled'[e] # NoSettlement => HasTexts(e, settled'[e])
    BY <1>3, StoredTexts
  <2>. QED  BY <1>1, <1>2, <1>3, <2>1 DEF SchemaInvariant, OnlyEmptyTextsAreRefused, Refusal
<1>4. CASE UNCHANGED vars
  BY <1>1, <1>4 DEF SchemaInvariant, OnlyEmptyTextsAreRefused, InsertedSoFar, vars, callVars
<1>. QED  BY <1>3, <1>4 DEF Next, Step

\* The schema refuses what settleEvidence computes for an empty text only: an
\* evidence or a campaign without an identity, or a line without a payee,
\* whatever the line's amount.  Every other eligible evidence, up to the limit
\* of the amounts, passes all checks and triggers; and nothing that is stored
\* has an empty text.
THEOREM SchemaRefusals == Spec => []OnlyEmptyTextsAreRefused
<1>1. SchemaInvariant => OnlyEmptyTextsAreRefused
  BY DEF SchemaInvariant
<1>. QED  BY <1>1, InitSchema, SchemaStep, PTL DEF Spec

\* The transactions implement the store that settles in one step: a COMMIT
\* stores the settlement of an evidence whose cycle identity is free.
THEOREM Refinement == Spec => ImplementsSettleOnce
<1>1. Init => Once!OnceInit
  BY DEF Init, Once!OnceInit
<1>2. ASSUME StoreInvariant, [Next]_vars
      PROVE  [Once!OnceNext]_settled
  <2>1. ASSUME NEW c \in Caller, Settles(c)
        PROVE  Once!OnceNext
    <3>1. PICK e \in Evidence : e = evidence[c]
      BY <1>2 DEF StoreInvariant, TypeOK
    <3>2. Once!Settle(e)
      BY <1>2, <2>1, <3>1
         DEF Settles, CycleIsTaken, SameCycle, Once!Settle, StoreInvariant, TypeOK
    <3>. QED  BY <3>2 DEF Once!OnceNext
  <2>. QED  BY <1>2, <2>1, SettledStep DEF Next, Step, vars
<1>. QED  BY <1>1, <1>2, StoreInvariantHolds, PTL DEF Spec, ImplementsSettleOnce, Once!OnceSpec
=============================================================================
