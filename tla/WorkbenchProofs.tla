-------------------------- MODULE WorkbenchProofs --------------------------
(***************************************************************************)
(* Six of the algorithms on the workbench, proved right on every input and *)
(* not only on those the runs build: the reputation of an annotator, the   *)
(* hotkeys of a template, the batches of active learning, what clicks on   *)
(* two panels say, the conditions of a pipeline and the lease episodes of  *)
(* an event log.                                                           *)
(*                                                                         *)
(* A reputation is the floor of fractions with variable denominators.  The *)
(* proof compares floors by cross-multiplication (QuotientOrder), and what *)
(* one more graded gold does to the window by adding its index and         *)
(* dropping the oldest (GradedWindow).  A batch is kept down a ranking;    *)
(* the proof says of each rank what is kept there (KeptFacts) and that the *)
(* first places of a ranking are taken one unit each (FirstPlaces).  The   *)
(* parser is a fixpoint of calls that call later ones (ParserExists); how  *)
(* far each reads does not depend on what the metrics are worth            *)
(* (ParsedAlike), and it reads what the grammar gives and no less          *)
(* (ParserDerives, ParserCompletes).  The log is the one input whose growth matters: LogInv   *)
(* says of a log and the slots held what is reconstructed from it so far,  *)
(* and which skips wait for the next lease of their rater.                 *)
(***************************************************************************)
EXTENDS Workbench, FiniteSetTheorems, SequenceTheorems, WellFoundedInduction, TLAPS

-----------------------------------------------------------------------------
(* Integers.                                                               *)

LEMMA MinOfTwo ==
  ASSUME NEW a \in Int, NEW b \in Int
  PROVE  Min({a, b}) = IF a <= b THEN a ELSE b
BY DEF Min

LEMMA MaxOfTwo ==
  ASSUME NEW a \in Int, NEW b \in Int
  PROVE  Max({a, b}) = IF a >= b THEN a ELSE b
BY DEF Max

LEMMA LeastNumber ==
  ASSUME NEW T \in SUBSET Nat, T # {}
  PROVE  \E n \in T : \A k \in T : n <= k
<1>1. \E n \in T : \A k \in T : ~(<<k, n>> \in OpToRel(<, Nat))
  BY WFMin, NatLessThanWellFounded, Zenon
<1>2. PICK n \in T : \A k \in T : ~(<<k, n>> \in OpToRel(<, Nat))
  BY <1>1, Zenon
<1>3. \A k \in T : ~(k < n)
  BY <1>2, Zenon DEF OpToRel
<1> QED BY <1>3

LEMMA NatInd ==
  ASSUME NEW S, 0 \in S, \A n \in Nat : n \in S => n + 1 \in S
  PROVE  Nat \subseteq S
<1> SUFFICES ASSUME Nat \ S # {} PROVE FALSE
  OBVIOUS
<1>1. PICK n \in Nat \ S : \A k \in Nat \ S : n <= k
  BY LeastNumber
<1>2. n # 0 /\ n - 1 \in Nat
  BY <1>1
<1>3. n - 1 \in S
  BY <1>1, <1>2
<1> QED BY <1>1, <1>2, <1>3

\* A bounded set of numbers has a greatest, the one at the least distance from the bound.
LEMMA MaxOfBounded ==
  ASSUME NEW n \in Nat, NEW T \in SUBSET (0..n), T # {}
  PROVE  Max(T) \in T
<1> DEFINE gaps == {g \in 0..n : n - g \in T}
<1>1. gaps \in SUBSET Nat /\ gaps # {}
  <2>1. PICK k \in T : TRUE
    OBVIOUS
  <2>2. n - k \in gaps
    BY <2>1
  <2>3. gaps \subseteq Nat
    OBVIOUS
  <2> HIDE DEF gaps
  <2> QED BY <2>2, <2>3
<1>2. PICK g \in gaps : \A h \in gaps : g <= h
  BY <1>1, LeastNumber
<1>3. n - g \in T
  OBVIOUS
<1>4. ASSUME NEW k \in T PROVE n - g >= k
  <2>1. n - k \in gaps
    OBVIOUS
  <2> QED BY <1>2, <2>1
<1> QED BY <1>3, <1>4 DEF Max

LEMMA Quotient ==
  ASSUME NEW a \in Nat, NEW d \in Nat \ {0}
  PROVE  a \div d \in Nat /\ d * (a \div d) <= a /\ a < d * (a \div d) + d
BY Z3

LEMMA ProductOrder ==
  ASSUME NEW a \in Nat, NEW b \in Nat, NEW c \in Nat, a <= b
  PROVE  a * c \in Nat /\ b * c \in Nat /\ a * c <= b * c /\ c * a <= c * b
BY Z3

\* A fraction that is not above another has no larger a floor.
LEMMA QuotientOrder ==
  ASSUME NEW a \in Nat, NEW d \in Nat \ {0}, NEW b \in Nat, NEW e \in Nat \ {0}, a * e <= b * d
  PROVE  a \div d <= b \div e
<1> DEFINE q == a \div d
           s == b \div e
<1>1. q \in Nat /\ s \in Nat /\ d * q <= a /\ b < e * s + e
  BY Quotient
<1> HIDE DEF q, s
<1>2. SUFFICES ASSUME s + 1 <= q PROVE FALSE
  BY <1>1 DEF q, s
<1>3. e * (s + 1) <= e * q
  BY <1>1, <1>2, ProductOrder
<1>4. b + 1 <= e * q
  BY <1>1, <1>3
<1>5. (b + 1) * d <= (e * q) * d
  BY <1>1, <1>4, ProductOrder
<1>6. (d * q) * e <= a * e
  BY <1>1, ProductOrder
<1>7. (e * q) * d = (d * q) * e
  BY <1>1
<1>8. (b + 1) * d = b * d + d
  OBVIOUS
<1>9. a * e \in Nat /\ b * d \in Nat /\ (e * q) * d \in Nat
  BY <1>1
<1> QED BY <1>5, <1>6, <1>7, <1>8, <1>9

\* A fraction of a whole is at most the whole.
LEMMA QuotientBound ==
  ASSUME NEW w \in Nat, NEW a \in Nat, NEW d \in Nat \ {0}, a <= d
  PROVE  (w * a) \div d \in 0..w
<1>1. w * a \in Nat /\ (w * a) * 1 <= w * d /\ 1 \in Nat \ {0}
  BY ProductOrder
<1> DEFINE part == w * a
<1> HIDE DEF part
<1>2. part \div d <= w \div 1
  BY <1>1, QuotientOrder DEF part
<1>3. w \div 1 = w
  OBVIOUS
<1>4. part \div d \in Nat
  BY <1>1, Quotient DEF part
<1> QED BY <1>2, <1>3, <1>4 DEF part

-----------------------------------------------------------------------------
(* The window of golds.                                                    *)

Records ==
  [kind : {"human", "model"}, golds : Seq(BOOLEAN), agreed : Nat, compared : Nat, first : Nat, second : Nat, flags : Nat]

LEMMA WindowFacts ==
  ASSUME NEW golds \in Seq(BOOLEAN)
  PROVE  /\ IsFiniteSet(Recently(golds))
         /\ Cardinality(Recently(golds)) = IF Len(golds) <= Window THEN Len(golds) ELSE Window
         /\ IsFiniteSet({i \in Recently(golds) : golds[i]})
         /\ Passes(golds) \in 0..Cardinality(Recently(golds))
<1> DEFINE n == Len(golds)
           from == IF n <= Window THEN 1 ELSE n - Window + 1
<1>1. n \in Nat /\ DOMAIN golds = 1..n /\ Window \in Nat
  BY LenProperties, StandingAssumption
<1>2. Recently(golds) = from..n /\ from \in Int
  BY <1>1 DEF Recently
<1>3. IsFiniteSet(from..n) /\ Cardinality(from..n) = IF from > n THEN 0 ELSE n - from + 1
  <2>1. from \in Int /\ n \in Int
    BY <1>1, <1>2
  <2> HIDE DEF from, n
  <2> QED BY <2>1, FS_Interval
<1>4. Cardinality(Recently(golds)) = IF n <= Window THEN n ELSE Window
  <2>1. Cardinality(Recently(golds)) = IF from > n THEN 0 ELSE n - from + 1
    BY <1>2, <1>3
  <2>2. (IF from > n THEN 0 ELSE n - from + 1) = IF n <= Window THEN n ELSE Window
    <3> HIDE DEF n
    <3> QED BY <1>1
  <2> QED BY <2>1, <2>2
<1>5. IsFiniteSet({i \in Recently(golds) : golds[i]}) /\ Passes(golds) <= Cardinality(Recently(golds))
  <2>1. {i \in Recently(golds) : golds[i]} \in SUBSET Recently(golds)
    OBVIOUS
  <2> QED BY <2>1, <1>2, <1>3, FS_Subset DEF Passes
<1>6. Passes(golds) \in Nat
  BY <1>5, FS_CardinalityType DEF Passes
<1> QED BY <1>1, <1>2, <1>3, <1>4, <1>5, <1>6

\* One more graded gold either widens the window by itself or pushes the oldest out.
LEMMA GradedWindow ==
  ASSUME NEW golds \in Seq(BOOLEAN), NEW passed \in BOOLEAN, NEW more, more = Append(golds, passed),
         NEW one \in {0, 1}, one = 1 <=> passed
  PROVE  /\ more \in Seq(BOOLEAN)
         /\ \/ /\ Cardinality(Recently(more)) = Cardinality(Recently(golds)) + 1
               /\ Passes(more) = Passes(golds) + one
            \/ /\ Cardinality(Recently(more)) = Cardinality(Recently(golds))
               /\ Passes(more) \in {Passes(golds) + one, Passes(golds) + one - 1}
<1> DEFINE len == Len(golds)
           old == {i \in Recently(golds) : golds[i]}
           new == {i \in Recently(more) : more[i]}
           added == IF passed THEN old \cup {len + 1} ELSE old
           gone == len + 1 - Window
<1>1. len \in Nat /\ DOMAIN golds = 1..len /\ Window \in Nat
  BY LenProperties, StandingAssumption
<1>2. /\ more \in Seq(BOOLEAN) /\ Len(more) = len + 1 /\ DOMAIN more = 1..len + 1
      /\ \A i \in 1..len : more[i] = golds[i]
      /\ more[len + 1] = passed
  BY <1>1, AppendProperties, LenProperties
<1>3. IsFiniteSet(old) /\ len + 1 \notin old /\ Cardinality(old) \in Nat
  <2>1. IsFiniteSet(old)
    BY WindowFacts
  <2>2. len + 1 \notin old
    BY <1>1 DEF Recently
  <2> HIDE DEF old
  <2> QED BY <2>1, <2>2, FS_CardinalityType
<1>4. IsFiniteSet(added) /\ Cardinality(added) = Cardinality(old) + one
  <2> HIDE DEF old, len
  <2>1. IsFiniteSet(old \cup {len + 1}) /\ Cardinality(old \cup {len + 1}) = Cardinality(old) + 1
    BY <1>3, FS_AddElement
  <2>2. CASE passed
    BY <2>1, <2>2
  <2>3. CASE ~passed
    <3>1. one = 0
      BY <2>3
    <3> QED BY <1>3, <2>3, <3>1
  <2> QED BY <2>2, <2>3
<1>5. Passes(golds) = Cardinality(old) /\ Passes(more) = Cardinality(new)
  BY DEF Passes
<1>6. /\ Cardinality(Recently(golds)) = IF len <= Window THEN len ELSE Window
      /\ Cardinality(Recently(more)) = IF len + 1 <= Window THEN len + 1 ELSE Window
  BY <1>2, WindowFacts
<1>7. CASE len < Window
  <2>1. new = added
    BY <1>1, <1>2, <1>7 DEF Recently
  <2>2. Passes(more) = Passes(golds) + one
    <3> HIDE DEF new, added, old
    <3> QED BY <1>4, <1>5, <2>1
  <2>3. Cardinality(Recently(more)) = Cardinality(Recently(golds)) + 1
    BY <1>1, <1>6, <1>7
  <2> QED BY <1>2, <2>2, <2>3
<1>8. CASE ~(len < Window)
  <2>1. new = added \ {gone}
    BY <1>1, <1>2, <1>8 DEF Recently
  <2> HIDE DEF new, added, old, gone
  <2>2. Cardinality(new) = IF gone \in added THEN Cardinality(added) - 1 ELSE Cardinality(added)
    BY <1>4, <2>1, FS_RemoveElement
  <2>3. Passes(more) \in {Passes(golds) + one, Passes(golds) + one - 1}
    BY <1>3, <1>4, <1>5, <2>2
  <2>4. Cardinality(Recently(more)) = Cardinality(Recently(golds))
    BY <1>1, <1>6, <1>8
  <2> QED BY <1>2, <2>3, <2>4
<1> QED BY <1>7, <1>8

LEMMA WindowCounts ==
  ASSUME NEW golds \in Seq(BOOLEAN)
  PROVE  /\ Cardinality(Recently(golds)) \in Nat /\ Passes(golds) \in Nat
         /\ Passes(golds) <= Cardinality(Recently(golds))
<1>1. Cardinality(Recently(golds)) \in Nat
  BY WindowFacts, FS_CardinalityType
<1>2. Passes(golds) \in 0..Cardinality(Recently(golds))
  BY WindowFacts
<1> QED BY <1>1, <1>2

LEMMA FailedWindow ==
  ASSUME NEW golds \in Seq(BOOLEAN), NEW more, more = Append(golds, FALSE)
  PROVE  /\ more \in Seq(BOOLEAN)
         /\ \/ /\ Cardinality(Recently(more)) = Cardinality(Recently(golds)) + 1
               /\ Passes(more) = Passes(golds)
            \/ /\ Cardinality(Recently(more)) = Cardinality(Recently(golds))
               /\ Passes(more) \in {Passes(golds), Passes(golds) - 1}
<1>1. 0 \in {0, 1} /\ (0 = 1 <=> FALSE)
  OBVIOUS
<1>2. FALSE \in BOOLEAN
  OBVIOUS
<1>3. /\ more \in Seq(BOOLEAN)
      /\ \/ /\ Cardinality(Recently(more)) = Cardinality(Recently(golds)) + 1
            /\ Passes(more) = Passes(golds) + 0
         \/ /\ Cardinality(Recently(more)) = Cardinality(Recently(golds))
            /\ Passes(more) \in {Passes(golds) + 0, Passes(golds) + 0 - 1}
  BY <1>1, <1>2, GradedWindow
<1>4. Passes(golds) + 0 = Passes(golds) /\ Passes(golds) + 0 - 1 = Passes(golds) - 1
  BY WindowCounts
<1> QED BY <1>3, <1>4

LEMMA PassedWindow ==
  ASSUME NEW golds \in Seq(BOOLEAN), NEW more, more = Append(golds, TRUE)
  PROVE  /\ more \in Seq(BOOLEAN)
         /\ \/ /\ Cardinality(Recently(more)) = Cardinality(Recently(golds)) + 1
               /\ Passes(more) = Passes(golds) + 1
            \/ /\ Cardinality(Recently(more)) = Cardinality(Recently(golds))
               /\ Passes(more) \in {Passes(golds) + 1, Passes(golds)}
<1>1. 1 \in {0, 1} /\ (1 = 1 <=> TRUE)
  OBVIOUS
<1>2. Passes(golds) + 1 - 1 = Passes(golds)
  BY WindowCounts
<1> QED BY <1>1, <1>2, GradedWindow

-----------------------------------------------------------------------------
(* The score.                                                              *)

\* Fractions of one whole are ordered as they cross-multiply.
LEMMA FractionOrder ==
  ASSUME NEW w \in Nat, NEW a \in Nat, NEW d \in Nat \ {0}, NEW b \in Nat, NEW e \in Nat \ {0}, a * e <= b * d
  PROVE  (w * a) \div d <= (w * b) \div e
<1> DEFINE aw == w * a
           bw == w * b
<1>1. aw \in Nat /\ bw \in Nat
  BY ProductOrder
<1>2. a * e \in Nat /\ b * d \in Nat
  BY ProductOrder
<1>3. w * (a * e) <= w * (b * d)
  BY <1>2, ProductOrder
<1>4. w * (a * e) = aw * e /\ w * (b * d) = bw * d
  OBVIOUS
<1> HIDE DEF aw, bw
<1>5. aw \div d <= bw \div e
  BY <1>1, <1>3, <1>4, QuotientOrder
<1> QED BY <1>5 DEF aw, bw

LEMMA GoldRateRange ==
  ASSUME NEW r \in Records
  PROVE  GoldRate(r) \in 0..Whole
<1> DEFINE a == Passes(r.golds) + PriorSuccesses
           d == Cardinality(Recently(r.golds)) + PriorTrials
<1>1. r.golds \in Seq(BOOLEAN)
  BY DEF Records
<1>2. Cardinality(Recently(r.golds)) \in Nat /\ Passes(r.golds) \in 0..Cardinality(Recently(r.golds))
  BY <1>1, WindowCounts
<1>3. a \in Nat /\ d \in Nat \ {0} /\ a <= d /\ Whole \in Nat
  BY <1>2, SMT DEF PriorSuccesses, PriorTrials, Whole
<1> HIDE DEF a, d
<1>4. (Whole * a) \div d \in 0..Whole
  BY <1>3, QuotientBound
<1> QED BY <1>4 DEF GoldRate, a, d

\* A failed gold never raises the smoothed accuracy, a passed one never lowers it.
LEMMA GoldRateGraded ==
  ASSUME NEW r \in Records
  PROVE  GoldRate(Graded(r, FALSE)) <= GoldRate(r) /\ GoldRate(r) <= GoldRate(Graded(r, TRUE))
<1> DEFINE n == Cardinality(Recently(r.golds))
           p == Passes(r.golds)
           worse == Append(r.golds, FALSE)
           better == Append(r.golds, TRUE)
<1>1. r.golds \in Seq(BOOLEAN)
  BY DEF Records
<1>2. n \in Nat /\ p \in Nat /\ p <= n
  BY <1>1, WindowCounts
<1>3. Graded(r, FALSE).golds = worse /\ Graded(r, TRUE).golds = better
  BY DEF Graded, Records
<1> DEFINE wn == Cardinality(Recently(worse))
           wp == Passes(worse)
           bn == Cardinality(Recently(better))
           bp == Passes(better)
<1>4. worse \in Seq(BOOLEAN) /\ ((wn = n + 1 /\ wp = p) \/ (wn = n /\ wp \in {p, p - 1}))
  BY <1>1, FailedWindow
<1>5. better \in Seq(BOOLEAN) /\ ((bn = n + 1 /\ bp = p + 1) \/ (bn = n /\ bp \in {p + 1, p}))
  BY <1>1, PassedWindow
<1>6. wn \in Nat /\ wp \in Nat /\ bn \in Nat /\ bp \in Nat
  BY <1>4, <1>5, WindowCounts
<1>9. /\ GoldRate(r) = (Whole * (p + 2)) \div (n + 2)
      /\ GoldRate(Graded(r, FALSE)) = (Whole * (wp + 2)) \div (wn + 2)
      /\ GoldRate(Graded(r, TRUE)) = (Whole * (bp + 2)) \div (bn + 2)
  BY <1>3 DEF GoldRate, PriorSuccesses, PriorTrials
<1> HIDE DEF n, p, wn, wp, bn, bp
<1>10. (wp + 2) * (n + 2) <= (p + 2) * (wn + 2)
  BY <1>2, <1>4, <1>6, ProductOrder
<1>11. (p + 2) * (bn + 2) <= (bp + 2) * (n + 2)
  <2>1. CASE bn = n + 1 /\ bp = p + 1
    <3>1. (p + 2) * (n + 3) = (p + 2) * (n + 2) + (p + 2)
      BY <1>2
    <3>2. (p + 3) * (n + 2) = (p + 2) * (n + 2) + (n + 2)
      BY <1>2
    <3>3. (p + 2) * (n + 2) \in Nat
      BY <1>2, ProductOrder
    <3>4. (p + 2) * (n + 3) <= (p + 3) * (n + 2)
      BY <1>2, <3>1, <3>2, <3>3
    <3> QED BY <1>2, <2>1, <3>4
  <2>2. CASE bn = n /\ bp \in {p + 1, p}
    BY <1>2, <1>6, <2>2, ProductOrder
  <2> QED BY <1>5, <2>1, <2>2
<1>12. /\ p + 2 \in Nat /\ wp + 2 \in Nat /\ bp + 2 \in Nat
       /\ n + 2 \in Nat \ {0} /\ wn + 2 \in Nat \ {0} /\ bn + 2 \in Nat \ {0} /\ Whole \in Nat
  BY <1>2, <1>6, SMT DEF Whole
<1>13. (Whole * (wp + 2)) \div (wn + 2) <= (Whole * (p + 2)) \div (n + 2)
  BY <1>10, <1>12, FractionOrder
<1>14. (Whole * (p + 2)) \div (n + 2) <= (Whole * (bp + 2)) \div (bn + 2)
  BY <1>11, <1>12, FractionOrder
<1> QED BY <1>9, <1>13, <1>14

\* What the rest of the composite is made of, and between which bounds.
AgreementRate(r) == (Whole * r.agreed) \div r.compared

\* A hundredth of a whole, exactly.
Percent == Whole \div 100
LEMMA PercentFacts == Whole \in Nat /\ Percent \in Nat \ {0} /\ Whole = 100 * Percent
BY SMT DEF Whole, Percent

LEMMA CompositeParts ==
  ASSUME NEW r \in Records, r.agreed <= r.compared
  PROVE  /\ r.compared # 0 => AgreementRate(r) \in 0..Whole
         /\ Composite(r) \in 0..Whole
         /\ BiasPenalty(r) \in 0..15 * Percent
         /\ SpeedPenalty(r) \in 0..10 * Percent
<1>1. GoldRate(r) \in 0..Whole /\ Whole \in Nat
  BY GoldRateRange, PercentFacts
<1>2. r.agreed \in Nat /\ r.compared \in Nat /\ r.first \in Nat /\ r.second \in Nat /\ r.flags \in Nat
  BY DEF Records
<1>3. ASSUME r.compared # 0 PROVE AgreementRate(r) \in 0..Whole
  BY <1>1, <1>2, <1>3, QuotientBound DEF AgreementRate
<1>4. Composite(r) \in 0..Whole
  <2>1. CASE r.compared = 0
    BY <1>1, <2>1 DEF Composite
  <2>2. CASE r.compared # 0
    <3>1. Composite(r) = (3 * GoldRate(r) + AgreementRate(r)) \div 4
      BY <2>2 DEF Composite, AgreementRate
    <3> QED BY <1>1, <1>3, <2>2, <3>1
  <2> QED BY <2>1, <2>2
<1>5. BiasPenalty(r) \in 0..15 * Percent
  <2> DEFINE clicks == r.first + r.second
             lead == IF r.first >= r.second THEN r.first - r.second ELSE r.second - r.first
  <2>1. clicks \in Nat /\ lead \in Nat /\ lead <= clicks
    BY <1>2
  <2>2. 15 * Percent \in Nat
    BY PercentFacts
  <2>3. BiasPenalty(r) = IF clicks = 0 THEN 0 ELSE (15 * Percent * lead) \div clicks
    BY DEF BiasPenalty, Percent
  <2> HIDE DEF clicks, lead
  <2>4. CASE clicks = 0
    BY <2>2, <2>3, <2>4
  <2>5. CASE clicks # 0
    <3>1. clicks \in Nat \ {0}
      BY <2>1, <2>5
    <3> QED BY <2>1, <2>2, <2>3, <2>5, <3>1, QuotientBound
  <2> QED BY <2>4, <2>5
<1>6. SpeedPenalty(r) \in 0..10 * Percent
  <2>1. Min({r.flags, 5}) \in 0..5
    BY <1>2, MinOfTwo
  <2>2. 10 * Percent \in Nat /\ 5 \in Nat \ {0}
    BY PercentFacts
  <2>3. CASE r.kind = "human"
    <3>1. SpeedPenalty(r) = (10 * Percent * Min({r.flags, 5})) \div 5
      BY <2>3 DEF SpeedPenalty, Percent
    <3> QED BY <2>1, <2>2, <3>1, QuotientBound
  <2>4. CASE r.kind # "human"
    BY <2>2, <2>4 DEF SpeedPenalty
  <2> QED BY <2>3, <2>4
<1> QED BY <1>3, <1>4, <1>5, <1>6

Unclamped(r) == Composite(r) - BiasPenalty(r) - SpeedPenalty(r)

LEMMA ScoreOfUnclamped ==
  ASSUME NEW r \in Records, r.agreed <= r.compared
  PROVE  /\ Unclamped(r) \in Int /\ Unclamped(r) <= Composite(r)
         /\ Unclamped(r) <= Whole
         /\ Score(r) = IF Unclamped(r) >= 0 THEN Unclamped(r) ELSE 0
         /\ Score(r) \in 0..Whole
<1>1. Unclamped(r) \in Int /\ Unclamped(r) <= Composite(r) /\ Composite(r) \in 0..Whole /\ Whole \in Nat
  BY CompositeParts, PercentFacts DEF Unclamped
<1>2. Unclamped(r) <= Whole
  BY <1>1
<1>3. Score(r) = Max({0, Min({Whole, Unclamped(r)})})
  BY DEF Score, Unclamped
<1>4. Min({Whole, Unclamped(r)}) = Unclamped(r)
  BY <1>1, <1>2, MinOfTwo
<1>5. Score(r) = IF 0 >= Unclamped(r) THEN 0 ELSE Unclamped(r)
  BY <1>1, <1>3, <1>4, MaxOfTwo
<1> QED BY <1>1, <1>2, <1>5

\* Two records with the same penalties are ordered as their composites.
LEMMA ScoreOrder ==
  ASSUME NEW r \in Records, r.agreed <= r.compared, NEW q \in Records, q.agreed <= q.compared,
         Composite(r) <= Composite(q), BiasPenalty(r) = BiasPenalty(q), SpeedPenalty(r) = SpeedPenalty(q)
  PROVE  Score(r) <= Score(q)
<1>1. Unclamped(r) <= Unclamped(q)
  BY CompositeParts, PercentFacts DEF Unclamped
<1> QED BY <1>1, ScoreOfUnclamped

\* The composite rises with each of its two rates.
LEMMA CompositeOrder ==
  ASSUME NEW r \in Records, r.agreed <= r.compared, NEW q \in Records, q.agreed <= q.compared,
         GoldRate(r) <= GoldRate(q), q.compared = r.compared,
         r.compared # 0 => AgreementRate(r) <= AgreementRate(q)
  PROVE  Composite(r) <= Composite(q)
<1>1. GoldRate(r) \in Nat /\ GoldRate(q) \in Nat
  BY GoldRateRange, PercentFacts
<1>2. CASE r.compared = 0
  BY <1>2 DEF Composite
<1>3. CASE r.compared # 0
  <2>1. AgreementRate(r) \in Nat /\ AgreementRate(q) \in Nat
    BY <1>3, CompositeParts, PercentFacts
  <2>2. /\ Composite(r) = (3 * GoldRate(r) + AgreementRate(r)) \div 4
        /\ Composite(q) = (3 * GoldRate(q) + AgreementRate(q)) \div 4
    BY <1>3 DEF Composite, AgreementRate
  <2> QED BY <1>1, <1>3, <2>1, <2>2
<1> QED BY <1>2, <1>3

-----------------------------------------------------------------------------
(* The reputation is honest.                                               *)

LEMMA GradedRecord ==
  ASSUME NEW r \in Records, NEW passed \in BOOLEAN
  PROVE  LET q == Graded(r, passed)
         IN  /\ q \in Records /\ q.agreed = r.agreed /\ q.compared = r.compared
             /\ AgreementRate(q) = AgreementRate(r)
             /\ BiasPenalty(q) = BiasPenalty(r) /\ SpeedPenalty(q) = SpeedPenalty(r)
<1> DEFINE q == Graded(r, passed)
<1>1. Append(r.golds, passed) \in Seq(BOOLEAN)
  BY AppendProperties DEF Records
<1>2. q = [r EXCEPT !.golds = Append(r.golds, passed)]
  BY DEF Graded, Records
<1>3. /\ q \in Records /\ q.kind = r.kind /\ q.agreed = r.agreed /\ q.compared = r.compared
      /\ q.first = r.first /\ q.second = r.second /\ q.flags = r.flags
  BY <1>1, <1>2 DEF Records
<1> HIDE DEF q
<1>4. AgreementRate(q) = AgreementRate(r)
  BY <1>3 DEF AgreementRate
<1>5. BiasPenalty(q) = BiasPenalty(r)
  BY <1>3 DEF BiasPenalty
<1>6. SpeedPenalty(q) = SpeedPenalty(r)
  BY <1>3 DEF SpeedPenalty
<1> QED BY <1>3, <1>4, <1>5, <1>6 DEF q

LEMMA GradedScore ==
  ASSUME NEW r \in Records, r.agreed <= r.compared
  PROVE  Score(Graded(r, FALSE)) <= Score(r) /\ Score(r) <= Score(Graded(r, TRUE))
<1> DEFINE worse == Graded(r, FALSE)
           better == Graded(r, TRUE)
<1>1. /\ worse \in Records /\ worse.agreed = r.agreed /\ worse.compared = r.compared
      /\ AgreementRate(worse) = AgreementRate(r)
      /\ BiasPenalty(worse) = BiasPenalty(r) /\ SpeedPenalty(worse) = SpeedPenalty(r)
  BY GradedRecord
<1>2. /\ better \in Records /\ better.agreed = r.agreed /\ better.compared = r.compared
      /\ AgreementRate(better) = AgreementRate(r)
      /\ BiasPenalty(better) = BiasPenalty(r) /\ SpeedPenalty(better) = SpeedPenalty(r)
  BY GradedRecord
<1>3. GoldRate(worse) <= GoldRate(r) /\ GoldRate(r) <= GoldRate(better)
  BY GoldRateGraded
<1>4. r.compared # 0 => AgreementRate(r) \in Int
  BY CompositeParts
<1> HIDE DEF worse, better
<1>5. Composite(worse) <= Composite(r)
  <2>1. worse.compared # 0 => AgreementRate(worse) <= AgreementRate(r)
    BY <1>1, <1>4
  <2> QED BY <1>1, <1>3, <2>1, CompositeOrder
<1>6. Composite(r) <= Composite(better)
  <2>1. r.compared # 0 => AgreementRate(r) <= AgreementRate(better)
    BY <1>2, <1>4
  <2> QED BY <1>2, <1>3, <2>1, CompositeOrder
<1>7. Score(worse) <= Score(r)
  BY <1>1, <1>5, ScoreOrder
<1>8. Score(r) <= Score(better)
  BY <1>2, <1>6, ScoreOrder
<1> QED BY <1>7, <1>8 DEF worse, better

LEMMA AgreedScore ==
  ASSUME NEW r \in Records, r.agreed < r.compared
  PROVE  Score(r) <= Score([r EXCEPT !.agreed = @ + 1])
<1> DEFINE q == [r EXCEPT !.agreed = @ + 1]
<1>1. /\ q \in Records /\ q.kind = r.kind /\ q.golds = r.golds /\ q.agreed = r.agreed + 1 /\ q.compared = r.compared
      /\ q.first = r.first /\ q.second = r.second /\ q.flags = r.flags
  BY DEF Records
<1>2. r.agreed \in Nat /\ r.compared \in Nat
  BY DEF Records
<1> HIDE DEF q
<1>3. GoldRate(q) = GoldRate(r)
  BY <1>1 DEF GoldRate
<1>4. BiasPenalty(q) = BiasPenalty(r)
  BY <1>1 DEF BiasPenalty
<1>5. SpeedPenalty(q) = SpeedPenalty(r)
  BY <1>1 DEF SpeedPenalty
<1>6. r.compared \in Nat \ {0} /\ r.agreed <= r.compared /\ q.agreed <= q.compared
  BY <1>1, <1>2
<1>7. AgreementRate(r) <= AgreementRate(q)
  <2>1. q.agreed \in Nat /\ r.agreed <= q.agreed
    BY <1>1, <1>2
  <2>2. r.agreed * r.compared <= q.agreed * r.compared
    BY <1>2, <1>6, <2>1, ProductOrder
  <2>3. (Whole * r.agreed) \div r.compared <= (Whole * q.agreed) \div r.compared
    BY <1>2, <1>6, <2>1, <2>2, PercentFacts, FractionOrder
  <2> QED BY <1>1, <2>3 DEF AgreementRate
<1>8. Composite(r) <= Composite(q)
  <2>1. GoldRate(r) <= GoldRate(q)
    BY <1>3, GoldRateRange
  <2> QED BY <1>1, <1>6, <1>7, <2>1, CompositeOrder
<1>9. Score(r) <= Score(q)
  BY <1>1, <1>4, <1>5, <1>6, <1>8, ScoreOrder
<1> QED BY <1>9 DEF q

LEMMA NewcomerScore ==
  ASSUME NEW r \in Records, r = Newcomer(r.kind)
  PROVE  Score(r) = Whole
<1>1. r.golds = <<>> /\ r.agreed = 0 /\ r.compared = 0 /\ r.first = 0 /\ r.second = 0 /\ r.flags = 0
  BY DEF Newcomer
<1>2. r.golds \in Seq(BOOLEAN) /\ Len(r.golds) = 0
  BY <1>1, EmptySeq DEF Records
<1>3. Cardinality(Recently(r.golds)) = 0
  <2>1. Cardinality(Recently(r.golds)) = IF Len(r.golds) <= Window THEN Len(r.golds) ELSE Window
    BY <1>2, WindowFacts
  <2> QED BY <1>2, <2>1, StandingAssumption
<1>4. Passes(r.golds) = 0
  BY <1>2, <1>3, WindowCounts
<1>5. GoldRate(r) = (Whole * (0 + 2)) \div (0 + 2)
  BY <1>3, <1>4 DEF GoldRate, PriorSuccesses, PriorTrials
<1>6. GoldRate(r) = Whole
  BY <1>5, PercentFacts
<1>7. Composite(r) = Whole
  BY <1>1, <1>6 DEF Composite
<1>8. BiasPenalty(r) = 0
  BY <1>1 DEF BiasPenalty
<1>9. SpeedPenalty(r) = 0
  <2>1. Min({0, 5}) = 0
    BY MinOfTwo
  <2>2. (10 * (Whole \div 100) * 0) \div 5 = 0
    BY PercentFacts DEF Percent
  <2> QED BY <1>1, <2>1, <2>2 DEF SpeedPenalty
<1>10. Unclamped(r) = Whole
  BY <1>7, <1>8, <1>9, PercentFacts DEF Unclamped
<1> QED BY <1>1, <1>10, ScoreOfUnclamped, PercentFacts

\* Past five golds in the window, whoever failed them all stands below whoever
\* passed them all, for any other evidence about the two: 13/28 of a whole is
\* the most the one can reach, a half the least the other can fall to.
LEMMA DominantScore ==
  ASSUME Window >= 5, MinSamples >= 5, NEW r \in Records, r.agreed <= r.compared,
         Len(r.golds) >= MinSamples, Passes(r.golds) = 0
  PROVE  Score(r) < Score(Worst([r EXCEPT !.golds = [i \in DOMAIN @ |-> TRUE]]))
<1> DEFINE n == Cardinality(Recently(r.golds))
           all == [i \in DOMAIN r.golds |-> TRUE]
           q == Worst([r EXCEPT !.golds = [i \in DOMAIN @ |-> TRUE]])
<1>1. r.golds \in Seq(BOOLEAN) /\ Len(r.golds) \in Nat /\ DOMAIN r.golds = 1..Len(r.golds)
  BY LenProperties DEF Records
<1>2. n \in Nat /\ n >= 5
  <2>1. n = IF Len(r.golds) <= Window THEN Len(r.golds) ELSE Window
    BY <1>1, WindowFacts
  <2> HIDE DEF n
  <2> QED BY <1>1, <2>1, StandingAssumption
<1>3. all \in Seq(BOOLEAN) /\ Len(all) = Len(r.golds) /\ DOMAIN all = DOMAIN r.golds
  <2>1. all \in [1..Len(r.golds) -> BOOLEAN]
    BY <1>1
  <2> HIDE DEF all
  <2> QED BY <1>1, <2>1, SeqDef, LenProperties
<1>4. Recently(all) = Recently(r.golds)
  <2> HIDE DEF all
  <2> QED BY <1>3 DEF Recently
<1>5. Passes(all) = n
  <2>1. {i \in Recently(all) : all[i]} = Recently(r.golds)
    BY <1>4 DEF Recently
  <2> HIDE DEF all
  <2> QED BY <2>1 DEF Passes
<1> HIDE DEF all
<1>6. /\ q \in Records /\ q.golds = all /\ q.agreed = 0 /\ q.compared = 1
      /\ q.first = 1 /\ q.second = 0 /\ q.flags = 5 /\ q.kind = r.kind
  BY <1>3 DEF Worst, Records, all
<1> HIDE DEF n, q
<1>7. GoldRate(r) = (Whole * 2) \div (n + 2)
  BY DEF GoldRate, PriorSuccesses, PriorTrials, n
<1>8. GoldRate(r) <= (Whole * 2) \div 7
  <2>1. n + 2 \in Nat \ {0} /\ 7 \in Nat \ {0} /\ 2 \in Nat /\ 2 * 7 <= 2 * (n + 2)
    BY <1>2
  <2> QED BY <1>7, <2>1, PercentFacts, FractionOrder
<1>9. Score(r) < 50 * Percent
  <2>1. Composite(r) < 50 * Percent
    <3>1. GoldRate(r) \in Nat /\ 7 * GoldRate(r) <= 200 * Percent
      BY <1>8, GoldRateRange, PercentFacts
    <3>2. CASE r.compared = 0
      <4>1. Composite(r) = GoldRate(r)
        BY <3>2 DEF Composite
      <4> QED BY <3>1, <4>1, PercentFacts
    <3>3. CASE r.compared # 0
      <4>1. Composite(r) = (3 * GoldRate(r) + AgreementRate(r)) \div 4
        BY <3>3 DEF Composite, AgreementRate
      <4>2. AgreementRate(r) \in Nat /\ AgreementRate(r) <= 100 * Percent
        BY <3>3, CompositeParts, PercentFacts
      <4> QED BY <3>1, <4>1, <4>2, PercentFacts
    <3> QED BY <3>2, <3>3
  <2>2. Unclamped(r) \in Int /\ Unclamped(r) <= Composite(r) /\ Composite(r) \in Int
    BY ScoreOfUnclamped, CompositeParts
  <2>3. Score(r) = IF Unclamped(r) >= 0 THEN Unclamped(r) ELSE 0
    BY ScoreOfUnclamped
  <2> QED BY <2>1, <2>2, <2>3, PercentFacts
<1>10. GoldRate(q) = Whole
  <2>1. GoldRate(q) = (Whole * (n + 2)) \div (n + 2)
    BY <1>4, <1>5, <1>6 DEF GoldRate, PriorSuccesses, PriorTrials, n
  <2>2. n + 2 \in Nat \ {0} /\ Whole \in Nat /\ 1 \in Nat \ {0} /\ 1 \in Nat /\ n + 2 \in Nat
    BY <1>2, PercentFacts
  <2>3. (Whole * 1) \div 1 <= (Whole * (n + 2)) \div (n + 2)
    <3>1. 1 * (n + 2) <= (n + 2) * 1
      BY <2>2
    <3> QED BY <2>2, <3>1, FractionOrder
  <2>4. (Whole * 1) \div 1 = Whole
    BY PercentFacts
  <2> QED BY <1>6, <2>1, <2>3, <2>4, GoldRateRange, PercentFacts
<1>11. Composite(q) = 75 * Percent
  <2>1. Composite(q) = (3 * Whole + (Whole * 0) \div 1) \div 4
    BY <1>6, <1>10 DEF Composite
  <2> QED BY <2>1, PercentFacts
<1>12. q.agreed <= q.compared
  BY <1>6
<1>13. Unclamped(q) >= 50 * Percent
  <2>1. BiasPenalty(q) \in 0..15 * Percent /\ SpeedPenalty(q) \in 0..10 * Percent
    BY <1>6, <1>12, CompositeParts
  <2>2. Unclamped(q) = 75 * Percent - BiasPenalty(q) - SpeedPenalty(q)
    BY <1>11 DEF Unclamped
  <2> HIDE DEF q
  <2> QED BY <2>1, <2>2, PercentFacts
<1>14. Score(q) >= 50 * Percent
  BY <1>6, <1>12, <1>13, ScoreOfUnclamped, PercentFacts
<1>15. Score(q) \in Int /\ Score(r) \in Int
  BY <1>6, <1>12, ScoreOfUnclamped, PercentFacts
<1>16. Score(r) < Score(q)
  BY <1>9, <1>14, <1>15, PercentFacts
<1> QED BY <1>16 DEF q

LEMMA ReputationOfRecord ==
  ASSUME Window >= 5, MinSamples >= 5, NEW r \in Records, r.agreed <= r.compared
  PROVE  ReputationHonestFor(r)
<1>1. Score(r) \in 0..Whole
  BY ScoreOfUnclamped
<1>2. r = Newcomer(r.kind) => Score(r) = Whole
  BY NewcomerScore
<1>3. Score(Graded(r, FALSE)) <= Score(r) /\ Score(r) <= Score(Graded(r, TRUE))
  BY GradedScore
<1>4. r.agreed < r.compared => Score(r) <= Score([r EXCEPT !.agreed = @ + 1])
  BY AgreedScore
<1>5. Len(r.golds) >= MinSamples /\ Passes(r.golds) = 0 =>
        Score(r) < Score(Worst([r EXCEPT !.golds = [i \in DOMAIN @ |-> TRUE]]))
  BY DominantScore
<1> QED BY <1>1, <1>2, <1>3, <1>4, <1>5 DEF ReputationHonestFor

-----------------------------------------------------------------------------
(* Hotkeys: what an input draws.                                           *)

\* The inputs that the prefix of a template shares with it.
Extends(inputs, before) ==
  /\ inputs \in Seq(InputRow) /\ before \in Seq(InputRow) /\ Len(before) <= Len(inputs)
  /\ \A i \in 1..Len(before) : before[i] = inputs[i]

LEMMA InputFacts ==
  ASSUME NEW inputs \in Seq(InputRow)
  PROVE  /\ Len(inputs) \in Nat /\ DOMAIN inputs = 1..Len(inputs)
         /\ \A i \in DOMAIN inputs : inputs[i] \in InputRow
BY LenProperties, ElementOfSeq

LEMMA TwoElements ==
  ASSUME NEW S, NEW a \in S, NEW b \in S
  PROVE  <<a, b>> \in Seq(S)
OBVIOUS

LEMMA LabelsType ==
  ASSUME NEW in \in InputRow
  PROVE  Len(Labels(in)) \in Nat /\ DOMAIN Labels(in) = 1..Len(Labels(in))
<1>1. <<"Yes", "No">> \in Seq({"Yes", "No"})
  BY TwoElements
<1>2. in.options \in Seq(STRING) /\ in.labels \in Seq(STRING)
  BY DEF InputRow
<1>3. Labels(in) \in {in.labels, <<"Yes", "No">>, in.options}
  BY DEF Labels
<1> QED BY <1>1, <1>2, <1>3, LenProperties

LEMMA CursorType ==
  ASSUME NEW inputs \in Seq(InputRow), NEW i \in DOMAIN inputs
  PROVE  LetterCursor(inputs, i) \in Nat
<1> DEFINE taken == {k \in 1..i - 1 : Secondary(inputs, k)}
           of(j) == {j} \X DOMAIN Labels(inputs[j])
           all == {of(j) : j \in taken}
<1>1. i \in Nat /\ \A j \in taken : inputs[j] \in InputRow
  BY InputFacts
<1>2. IsFiniteSet(taken)
  <2>1. IsFiniteSet(1..i - 1)
    BY <1>1, FS_Interval
  <2> QED BY <2>1, FS_Subset
<1>3. ASSUME NEW j \in taken PROVE IsFiniteSet(of(j))
  <2>1. IsFiniteSet({j})
    BY FS_Singleton
  <2>2. IsFiniteSet(DOMAIN Labels(inputs[j]))
    <3>1. Len(Labels(inputs[j])) \in Nat /\ DOMAIN Labels(inputs[j]) = 1..Len(Labels(inputs[j]))
      BY <1>1, LabelsType
    <3> QED BY <3>1, FS_Interval
  <2> QED BY <2>1, <2>2, FS_Product
<1>4. IsFiniteSet(all)
  <2> DEFINE f == [j \in taken |-> of(j)]
  <2>1. f \in Surjection(taken, all)
    BY DEF Surjection
  <2> HIDE DEF taken, all, f
  <2> QED BY <1>2, <2>1, FS_Surjection
<1>5. IsFiniteSet(UNION all)
  <2>1. \A T \in all : IsFiniteSet(T)
    BY <1>3
  <2> HIDE DEF all
  <2> QED BY <1>4, <2>1, FS_UNION
<1>6. LetterCursor(inputs, i) = Cardinality(UNION all)
  BY DEF LetterCursor
<1> HIDE DEF all
<1> QED BY <1>5, <1>6, FS_CardinalityType

\* The pool an input draws its keys from.
Pooled(inputs, i) ==
  CASE Explicit(inputs[i]) -> [k \in DOMAIN inputs[i].hotkeys |-> Normal[inputs[i].hotkeys[k]]]
    [] Secondary(inputs, i) -> SubSeq(LetterKeys, LetterCursor(inputs, i) + 1, Len(LetterKeys))
    [] Automatic(inputs[i]) /\ ~Secondary(inputs, i) -> DigitKeys
    [] OTHER -> <<>>

LEMMA PooledType ==
  ASSUME NEW inputs \in Seq(InputRow), NEW i \in DOMAIN inputs
  PROVE  Pooled(inputs, i) \in Seq(STRING)
<1> DEFINE in == inputs[i]
           explicit == [k \in DOMAIN in.hotkeys |-> Normal[in.hotkeys[k]]]
           letters == SubSeq(LetterKeys, LetterCursor(inputs, i) + 1, Len(LetterKeys))
<1>1. in.hotkeys \in Seq(DOMAIN Normal)
  BY InputFacts DEF InputRow
<1>2. explicit \in Seq(STRING)
  <2> DEFINE keys == in.hotkeys
  <2>1. keys \in Seq(DOMAIN Normal)
    BY <1>1
  <2> HIDE DEF keys
  <2>2. Len(keys) \in Nat /\ DOMAIN keys = 1..Len(keys) /\ \A k \in 1..Len(keys) : keys[k] \in DOMAIN Normal
    BY <2>1, LenProperties, ElementOfSeq
  <2>3. [k \in DOMAIN keys |-> Normal[keys[k]]] \in [1..Len(keys) -> STRING]
    BY <2>2, HotkeysAssumption
  <2>4. [k \in DOMAIN keys |-> Normal[keys[k]]] \in Seq(STRING)
    BY <2>2, <2>3, SeqDef
  <2> QED BY <2>4 DEF keys
<1>3. letters \in Seq(STRING)
  <2> DEFINE from == LetterCursor(inputs, i) + 1
  <2>1. from \in Nat /\ from >= 1
    BY CursorType
  <2> HIDE DEF from
  <2>2. Len(LetterKeys) \in Nat /\ \A k \in from..Len(LetterKeys) : LetterKeys[k] \in STRING
    BY <2>1, HotkeysAssumption, LenProperties, ElementOfSeq
  <2>3. SubSeq(LetterKeys, from, Len(LetterKeys)) \in Seq(STRING)
    BY <2>1, <2>2, SubSeqProperties
  <2> QED BY <2>3 DEF from
<1>4. <<>> \in Seq(STRING)
  OBVIOUS
<1>5. Explicit(in) => Pooled(inputs, i) = explicit
  BY DEF Pooled, Secondary, Automatic
<1>6. ~Explicit(in) /\ Secondary(inputs, i) => Pooled(inputs, i) = letters
  BY DEF Pooled
<1>7. ~Explicit(in) /\ ~Secondary(inputs, i) => Pooled(inputs, i) \in {DigitKeys, <<>>}
  BY DEF Pooled
<1> HIDE DEF explicit, letters
<1> QED BY <1>2, <1>3, <1>4, <1>5, <1>6, <1>7, HotkeysAssumption

LEMMA DrawnType ==
  ASSUME NEW inputs \in Seq(InputRow), NEW i \in DOMAIN inputs
  PROVE  /\ Drawn(inputs, i) \in Seq(STRING) /\ Len(Drawn(inputs, i)) \in Nat
         /\ DOMAIN Drawn(inputs, i) = 1..Len(Drawn(inputs, i))
         /\ Len(Drawn(inputs, i)) <= Len(Labels(inputs[i]))
<1> DEFINE pool == Pooled(inputs, i)
           most == Min({Len(pool), Len(Labels(inputs[i]))})
<1>1. pool \in Seq(STRING) /\ Len(pool) \in Nat /\ Len(Labels(inputs[i])) \in Nat
  BY PooledType, LenProperties, InputFacts, LabelsType
<1>2. Drawn(inputs, i) = SubSeq(pool, 1, most)
  BY DEF Drawn, Pooled
<1> HIDE DEF pool
<1>3. most \in Nat /\ most <= Len(pool) /\ most <= Len(Labels(inputs[i]))
  <2> DEFINE m == Len(pool)
             n == Len(Labels(inputs[i]))
  <2>1. m \in Nat /\ n \in Nat
    BY <1>1
  <2> HIDE DEF m, n
  <2>2. Min({m, n}) = IF m <= n THEN m ELSE n
    BY <2>1, MinOfTwo
  <2>3. Min({m, n}) \in Nat /\ Min({m, n}) <= m /\ Min({m, n}) <= n
    BY <2>1, <2>2
  <2> QED BY <2>3 DEF m, n
<1> HIDE DEF most
<1>4. \A k \in 1..most : pool[k] \in STRING
  BY <1>1, <1>3, ElementOfSeq
<1>5. SubSeq(pool, 1, most) \in Seq(STRING) /\ Len(SubSeq(pool, 1, most)) = most
  BY <1>3, <1>4, SubSeqProperties
<1> QED BY <1>2, <1>3, <1>5, LenProperties

\* What an input draws depends on it and on the inputs before it alone.
LEMMA PrefixDraws ==
  ASSUME NEW inputs, NEW before, Extends(inputs, before), NEW i \in DOMAIN before
  PROVE  /\ i \in DOMAIN inputs /\ before[i] = inputs[i]
         /\ Drawn(before, i) = Drawn(inputs, i) /\ KeyMap(before, i) = KeyMap(inputs, i)
<1>1. /\ i \in Nat /\ i \in 1..Len(before) /\ i \in DOMAIN inputs
      /\ \A j \in 1..i : before[j] = inputs[j]
  BY InputFacts DEF Extends
<1>2. before[i] = inputs[i]
  BY <1>1
<1>3. ASSUME NEW j \in 1..i PROVE Secondary(before, j) = Secondary(inputs, j)
  BY <1>1 DEF Secondary
<1>4. LetterCursor(before, i) = LetterCursor(inputs, i)
  <2> DEFINE taken(s) == {k \in 1..i - 1 : Secondary(s, k)}
             letters(s) == {{j} \X DOMAIN Labels(s[j]) : j \in taken(s)}
  <2>1. taken(before) = taken(inputs)
    BY <1>1, <1>3
  <2>2. \A j \in taken(inputs) : before[j] = inputs[j]
    BY <1>1
  <2> HIDE DEF taken
  <2>3. letters(before) = letters(inputs)
    BY <2>1, <2>2
  <2>4. /\ LetterCursor(before, i) = Cardinality(UNION letters(before))
        /\ LetterCursor(inputs, i) = Cardinality(UNION letters(inputs))
    BY DEF LetterCursor, taken
  <2> HIDE DEF letters
  <2> QED BY <2>3, <2>4
<1>5. Secondary(before, i) = Secondary(inputs, i)
  BY <1>1, <1>3
<1>6. Pooled(before, i) = Pooled(inputs, i)
  <2>1. CASE Secondary(inputs, i)
    <3>1. Secondary(before, i)
      BY <1>5, <2>1
    <3> QED BY <1>2, <1>4, <2>1, <3>1 DEF Pooled
  <2>2. CASE ~Secondary(inputs, i)
    <3>1. ~Secondary(before, i)
      BY <1>5, <2>2
    <3> QED BY <1>2, <1>4, <2>2, <3>1 DEF Pooled
  <2> QED BY <2>1, <2>2
<1>7. /\ Drawn(before, i) = SubSeq(Pooled(before, i), 1, Min({Len(Pooled(before, i)), Len(Labels(before[i]))}))
      /\ Drawn(inputs, i) = SubSeq(Pooled(inputs, i), 1, Min({Len(Pooled(inputs, i)), Len(Labels(inputs[i]))}))
  BY DEF Drawn, Pooled
<1>8. Drawn(before, i) = Drawn(inputs, i)
  BY <1>2, <1>6, <1>7
<1>9. KeyMap(before, i) = KeyMap(inputs, i)
  BY <1>2, <1>8 DEF KeyMap
<1> QED BY <1>1, <1>2, <1>8, <1>9

-----------------------------------------------------------------------------
(* Hotkeys: what validation rules out.                                     *)

Short(inputs, i) == IsChoice(inputs[i]) /\ Len(Drawn(inputs, i)) < Len(Labels(inputs[i]))
Long(inputs, i) ==
  IsChoice(inputs[i]) /\ Explicit(inputs[i]) /\ Len(inputs[i].hotkeys) > Len(Labels(inputs[i]))

\* A template without a problem, as a conjunction.
Flawless(inputs) ==
  /\ \A j \in DOMAIN inputs : \A k \in 1..j - 1 : inputs[k].id # inputs[j].id
  /\ \A j \in DOMAIN inputs : ~Misplaced(inputs[j]) /\ ~BadBounds(inputs[j]) /\ ~BadOptions(inputs[j])
  /\ \A j \in DOMAIN inputs : ~Short(inputs, j) /\ ~Long(inputs, j)
  /\ \A c \in Claims(inputs) : ClaimedKey(inputs, c) \notin ReservedActionKeys
  /\ \A a, b \in Claims(inputs) : ClaimedKey(inputs, a) = ClaimedKey(inputs, b) => a = b

LEMMA NoConflicts ==
  ASSUME NEW inputs
  PROVE  Conflicts(inputs) = {} <=>
           /\ \A j \in DOMAIN inputs : ~Short(inputs, j) /\ ~Long(inputs, j)
           /\ \A c \in Claims(inputs) : ClaimedKey(inputs, c) \notin ReservedActionKeys
           /\ \A a, b \in Claims(inputs) : ClaimedKey(inputs, a) = ClaimedKey(inputs, b) => a = b
<1> DEFINE reserved == {b \in Claims(inputs) : ClaimedKey(inputs, b) \in ReservedActionKeys}
           repeated == {b \in Claims(inputs) : \E a \in Claims(inputs) \ {b} : ClaimedKey(inputs, a) = ClaimedKey(inputs, b)}
           miscounted == {j \in DOMAIN inputs : Short(inputs, j) \/ Long(inputs, j)}
<1>1. Conflicts(inputs) = {<<"reserved", ClaimedKey(inputs, c)>> : c \in reserved}
        \cup {<<"duplicate", ClaimedKey(inputs, c)>> : c \in repeated} \cup {<<"count", i>> : i \in miscounted}
  BY DEF Conflicts, Short, Long
<1>2. Conflicts(inputs) = {} <=> reserved = {} /\ repeated = {} /\ miscounted = {}
  <2> HIDE DEF reserved, repeated, miscounted
  <2> QED BY <1>1
<1>3. reserved = {} <=> \A c \in Claims(inputs) : ClaimedKey(inputs, c) \notin ReservedActionKeys
  OBVIOUS
<1>4. repeated = {} <=> \A a, b \in Claims(inputs) : ClaimedKey(inputs, a) = ClaimedKey(inputs, b) => a = b
  OBVIOUS
<1>5. miscounted = {} <=> \A j \in DOMAIN inputs : ~Short(inputs, j) /\ ~Long(inputs, j)
  OBVIOUS
<1> HIDE DEF reserved, repeated, miscounted
<1> QED BY <1>2, <1>3, <1>4, <1>5

LEMMA NoProblems ==
  ASSUME NEW inputs
  PROVE  Problems(inputs) = {} <=> Flawless(inputs)
<1> DEFINE ids == {j \in DOMAIN inputs : \E k \in 1..j - 1 : inputs[k].id = inputs[j].id}
           bad == {j \in DOMAIN inputs : Misplaced(inputs[j]) \/ BadBounds(inputs[j])}
           wrong == {j \in DOMAIN inputs : BadOptions(inputs[j])}
           options == {<<"options", i>> : i \in wrong}
<1>1. Problems(inputs) = {<<"id", i>> : i \in ids} \cup {<<"input", i>> : i \in bad}
        \cup (IF options = {} THEN Conflicts(inputs) ELSE options)
  BY DEF Problems
<1>2. options = {} <=> wrong = {}
  <2> HIDE DEF wrong
  <2> QED OBVIOUS
<1>3. Problems(inputs) = {} <=> ids = {} /\ bad = {} /\ wrong = {} /\ Conflicts(inputs) = {}
  <2> HIDE DEF ids, bad, options, wrong
  <2> QED BY <1>1, <1>2
<1>4. ids = {} <=> \A j \in DOMAIN inputs : \A k \in 1..j - 1 : inputs[k].id # inputs[j].id
  OBVIOUS
<1>5. bad = {} /\ wrong = {}
        <=> \A j \in DOMAIN inputs : ~Misplaced(inputs[j]) /\ ~BadBounds(inputs[j]) /\ ~BadOptions(inputs[j])
  OBVIOUS
<1> HIDE DEF ids, bad, wrong
<1> QED BY <1>3, <1>4, <1>5, NoConflicts DEF Flawless

LEMMA ClaimsAre ==
  ASSUME NEW inputs
  PROVE  /\ \A i \in DOMAIN inputs : \A k \in DOMAIN Drawn(inputs, i) : <<i, k>> \in Claims(inputs)
         /\ \A i \in DOMAIN inputs : inputs[i].other => <<i, 0>> \in Claims(inputs)
         /\ \A c \in Claims(inputs) : \E i \in DOMAIN inputs : \E k :
               c = <<i, k>> /\ (k \in DOMAIN Drawn(inputs, i) \/ (k = 0 /\ inputs[i].other))
<1> DEFINE of(i) == DOMAIN Drawn(inputs, i) \cup OtherClaim(inputs[i])
<1>1. Claims(inputs) = UNION {{i} \X of(i) : i \in DOMAIN inputs}
  BY DEF Claims
<1>2. \A i \in DOMAIN inputs : \A k : k \in of(i) <=> k \in DOMAIN Drawn(inputs, i) \/ (k = 0 /\ inputs[i].other)
  BY DEF OtherClaim
<1> HIDE DEF of
<1>3. \A i \in DOMAIN inputs : \A k : k \in of(i) => <<i, k>> \in Claims(inputs)
  <2> TAKE i \in DOMAIN inputs
  <2> TAKE k
  <2>1. HAVE k \in of(i)
  <2>2. <<i, k>> \in {i} \X of(i)
    BY <2>1
  <2> QED BY <1>1, <2>2
<1>4. \A c \in Claims(inputs) : \E i \in DOMAIN inputs : \E k : c = <<i, k>> /\ k \in of(i)
  <2> TAKE c \in Claims(inputs)
  <2>1. PICK i \in DOMAIN inputs : c \in {i} \X of(i)
    BY <1>1
  <2> QED BY <2>1
<1> QED BY <1>2, <1>3, <1>4

-----------------------------------------------------------------------------
(* Hotkeys: no key means two things.                                       *)

\* What the option behind a claim is called.
Called(inputs, i, k) == IF k = 0 THEN "Other" ELSE Labels(inputs[i])[k]

\* Every key of an input's map is one it has claimed, for the option so called.
LEMMA KeyIsClaimed ==
  ASSUME NEW inputs \in Seq(InputRow), NEW i \in DOMAIN inputs, NEW m \in KeyMap(inputs, i)
  PROVE  \E k : /\ <<i, k>> \in Claims(inputs)
                /\ m = <<Called(inputs, i, k), ClaimedKey(inputs, <<i, k>>)>>
<1> DEFINE keys == Drawn(inputs, i)
           labels == Labels(inputs[i])
           named(o) == {k \in DOMAIN keys : labels[k] = o}
           names == {labels[k] : k \in DOMAIN keys}
<1>1. Len(keys) \in Nat /\ DOMAIN keys = 1..Len(keys)
  BY DrawnType
<1>2. KeyMap(inputs, i) = {<<o, keys[Max(named(o))]>> : o \in names}
                            \cup (IF inputs[i].other THEN {<<"Other", OtherKey>>} ELSE {})
  BY DEF KeyMap
<1>3. ASSUME NEW o \in names, m = <<o, keys[Max(named(o))]>>
      PROVE  \E k : <<i, k>> \in Claims(inputs) /\ m = <<Called(inputs, i, k), ClaimedKey(inputs, <<i, k>>)>>
  <2>1. Max(named(o)) \in named(o)
    <3>1. named(o) # {} /\ named(o) \in SUBSET (0..Len(keys))
      BY <1>1
    <3> HIDE DEF named, keys
    <3> QED BY <1>1, <3>1, MaxOfBounded DEF keys
  <2>2. PICK k \in DOMAIN keys : k = Max(named(o)) /\ labels[k] = o
    BY <2>1
  <2>3. k # 0
    BY <1>1, <2>2
  <2>4. <<i, k>> \in Claims(inputs)
    BY <2>2, ClaimsAre
  <2>5. Called(inputs, i, k) = o
    BY <2>2, <2>3 DEF Called
  <2>6. ClaimedKey(inputs, <<i, k>>) = keys[Max(named(o))]
    BY <2>2, <2>3 DEF ClaimedKey
  <2> HIDE DEF keys, named
  <2> QED BY <1>3, <2>4, <2>5, <2>6
<1>4. ASSUME inputs[i].other, m = <<"Other", OtherKey>>
      PROVE  \E k : <<i, k>> \in Claims(inputs) /\ m = <<Called(inputs, i, k), ClaimedKey(inputs, <<i, k>>)>>
  <2>1. <<i, 0>> \in Claims(inputs)
    BY <1>4, ClaimsAre
  <2>2. Called(inputs, i, 0) = "Other" /\ ClaimedKey(inputs, <<i, 0>>) = OtherKey
    BY DEF Called, ClaimedKey
  <2> QED BY <1>4, <2>1, <2>2
<1>5. (\E o \in names : m = <<o, keys[Max(named(o))]>>) \/ (inputs[i].other /\ m = <<"Other", OtherKey>>)
  <2> HIDE DEF names, keys, named
  <2> QED BY <1>2
<1> HIDE DEF names, keys, named
<1> QED BY <1>3, <1>4, <1>5

\* An option that an input draws a key for is in its map.
LEMMA DrawnIsMapped ==
  ASSUME NEW inputs \in Seq(InputRow), NEW i \in DOMAIN inputs, NEW k \in DOMAIN Drawn(inputs, i)
  PROVE  \E m \in KeyMap(inputs, i) : m[1] = Labels(inputs[i])[k]
<1> DEFINE keys == Drawn(inputs, i)
           labels == Labels(inputs[i])
           named(o) == {j \in DOMAIN keys : labels[j] = o}
           m == <<labels[k], keys[Max(named(labels[k]))]>>
<1>1. m \in KeyMap(inputs, i)
  BY DEF KeyMap
<1>2. m[1] = labels[k]
  OBVIOUS
<1> HIDE DEF m
<1> QED BY <1>1, <1>2

\* Taking the last inputs away leaves a template that can be saved.
LEMMA PrefixFlawless ==
  ASSUME NEW inputs, NEW before, Extends(inputs, before), Flawless(inputs)
  PROVE  Flawless(before)
<1>1. ASSUME NEW i \in DOMAIN before
      PROVE  i \in DOMAIN inputs /\ before[i] = inputs[i] /\ Drawn(before, i) = Drawn(inputs, i)
  BY PrefixDraws
<1>2. DOMAIN before = 1..Len(before) /\ Len(before) \in Nat
  BY InputFacts DEF Extends
<1>3. \A j \in DOMAIN before : \A k \in 1..j - 1 : before[k].id # before[j].id
  <2> TAKE j \in DOMAIN before
  <2> TAKE k \in 1..j - 1
  <2>1. k \in DOMAIN before
    BY <1>2
  <2> QED BY <1>1, <2>1 DEF Flawless
<1>4. \A j \in DOMAIN before : ~Misplaced(before[j]) /\ ~BadBounds(before[j]) /\ ~BadOptions(before[j])
  BY <1>1 DEF Flawless
<1>5. \A j \in DOMAIN before : ~Short(before, j) /\ ~Long(before, j)
  BY <1>1 DEF Flawless, Short, Long
<1>6. ASSUME NEW c \in Claims(before)
      PROVE  c \in Claims(inputs) /\ ClaimedKey(before, c) = ClaimedKey(inputs, c)
  <2>1. PICK i, k :
          i \in DOMAIN before /\ c = <<i, k>> /\ (k \in DOMAIN Drawn(before, i) \/ (k = 0 /\ before[i].other))
    BY ClaimsAre
  <2>2. k \in DOMAIN Drawn(inputs, i) \/ (k = 0 /\ inputs[i].other)
    BY <1>1, <2>1
  <2>3. c \in Claims(inputs)
    BY <1>1, <2>1, <2>2, ClaimsAre
  <2>4. ClaimedKey(before, c) = ClaimedKey(inputs, c)
    BY <1>1, <2>1 DEF ClaimedKey
  <2> QED BY <2>3, <2>4
<1>7. \A c \in Claims(before) : ClaimedKey(before, c) \notin ReservedActionKeys
  BY <1>6 DEF Flawless
<1>8. \A a, b \in Claims(before) : ClaimedKey(before, a) = ClaimedKey(before, b) => a = b
  BY <1>6 DEF Flawless
<1> QED BY <1>3, <1>4, <1>5, <1>7, <1>8 DEF Flawless

LEMMA HotkeysOfInputs ==
  ASSUME NEW inputs \in Seq(InputRow)
  PROVE  HotkeysUnambiguousIn(inputs)
<1> SUFFICES ASSUME Accepted(inputs) PROVE HotkeysUnambiguousIn(inputs)
  BY DEF HotkeysUnambiguousIn
<1> DEFINE of(i) == {<<i, m[1], m[2]>> : m \in KeyMap(inputs, i)}
           bound == UNION {of(i) : i \in DOMAIN inputs}
           before == Front(inputs)
<1>1. Flawless(inputs) /\ inputs # <<>>
  BY NoProblems DEF Accepted
<1>2. ASSUME NEW a \in bound
      PROVE  \E i \in DOMAIN inputs : \E k : /\ <<i, k>> \in Claims(inputs)
                                        /\ a[1] = i /\ a[2] = Called(inputs, i, k)
                                        /\ a[3] = ClaimedKey(inputs, <<i, k>>)
                                        /\ a = <<a[1], a[2], a[3]>>
  <2>1. PICK i \in DOMAIN inputs : a \in of(i)
    OBVIOUS
  <2>2. PICK m \in KeyMap(inputs, i) : a = <<i, m[1], m[2]>>
    BY <2>1
  <2>3. PICK k : <<i, k>> \in Claims(inputs) /\ m = <<Called(inputs, i, k), ClaimedKey(inputs, <<i, k>>)>>
    BY KeyIsClaimed
  <2> QED BY <2>2, <2>3
<1>3. ASSUME NEW a \in bound, NEW b \in bound, a[3] = b[3]
      PROVE  a = b
  <2>1. PICK i, k : /\ i \in DOMAIN inputs /\ <<i, k>> \in Claims(inputs)
                    /\ a[1] = i /\ a[2] = Called(inputs, i, k)
                    /\ a[3] = ClaimedKey(inputs, <<i, k>>)
                    /\ a = <<a[1], a[2], a[3]>>
    BY <1>2
  <2>2. PICK j, l : /\ j \in DOMAIN inputs /\ <<j, l>> \in Claims(inputs)
                    /\ b[1] = j /\ b[2] = Called(inputs, j, l)
                    /\ b[3] = ClaimedKey(inputs, <<j, l>>)
                    /\ b = <<b[1], b[2], b[3]>>
    BY <1>2
  <2>3. <<i, k>> = <<j, l>>
    BY <1>1, <1>3, <2>1, <2>2 DEF Flawless
  <2>4. i = j /\ k = l
    BY <2>3
  <2>5. a[1] = b[1] /\ a[2] = b[2] /\ a[3] = b[3]
    BY <1>3, <2>1, <2>2, <2>4
  <2> QED BY <2>1, <2>2, <2>5
<1>4. ASSUME NEW a \in bound
      PROVE  a[3] \notin ReservedActionKeys
  <2>1. PICK i, k : i \in DOMAIN inputs /\ <<i, k>> \in Claims(inputs) /\ a[3] = ClaimedKey(inputs, <<i, k>>)
    BY <1>2
  <2> QED BY <1>1, <2>1 DEF Flawless
<1>5. ASSUME NEW i \in DOMAIN inputs, IsChoice(inputs[i]), NEW o \in Range(Labels(inputs[i]))
      PROVE  \E a \in bound : a[1] = i /\ a[2] = o
  <2>1. Len(Labels(inputs[i])) \in Nat /\ DOMAIN Labels(inputs[i]) = 1..Len(Labels(inputs[i]))
    BY LabelsType, InputFacts
  <2>2. PICK k \in 1..Len(Labels(inputs[i])) : o = Labels(inputs[i])[k]
    BY <2>1 DEF Range
  <2>3. k \in DOMAIN Drawn(inputs, i)
    <3>1. ~(Len(Drawn(inputs, i)) < Len(Labels(inputs[i])))
      BY <1>1, <1>5 DEF Flawless, Short
    <3>2. Len(Drawn(inputs, i)) \in Nat /\ DOMAIN Drawn(inputs, i) = 1..Len(Drawn(inputs, i))
      BY DrawnType
    <3> QED BY <2>1, <2>2, <3>1, <3>2
  <2>4. PICK m \in KeyMap(inputs, i) : m[1] = o
    BY <2>2, <2>3, DrawnIsMapped
  <2>5. <<i, m[1], m[2]>> \in bound
    OBVIOUS
  <2> HIDE DEF bound
  <2> QED BY <2>4, <2>5
<1>6. Extends(inputs, before)
  <2>1. Len(inputs) \in Nat \ {0} /\ \A i \in 1..Len(inputs) : inputs[i] \in InputRow
    BY <1>1, EmptySeq, InputFacts
  <2> DEFINE last == Len(inputs) - 1
  <2>2. last \in Nat /\ last <= Len(inputs) /\ \A i \in 1..last : inputs[i] \in InputRow
    BY <2>1
  <2>3. before = SubSeq(inputs, 1, last)
    BY DEF Front
  <2> HIDE DEF last, before
  <2>4. before \in Seq(InputRow) /\ Len(before) = last /\ \A i \in 1..last : before[i] = inputs[i]
    BY <2>2, <2>3, SubSeqProperties
  <2> QED BY <2>2, <2>4 DEF Extends
<1> HIDE DEF before
<1>7. before # <<>> => Accepted(before)
  BY <1>1, <1>6, PrefixFlawless, NoProblems DEF Accepted
<1>8. \A i \in DOMAIN before : KeyMap(before, i) = KeyMap(inputs, i)
  BY <1>6, PrefixDraws
<1> HIDE DEF bound
<1>9. /\ \A a, b \in bound : a[3] = b[3] => a = b
      /\ \A a \in bound : a[3] \notin ReservedActionKeys
      /\ \A i \in DOMAIN inputs : IsChoice(inputs[i]) =>
           \A o \in Range(Labels(inputs[i])) : \E a \in bound : a[1] = i /\ a[2] = o
      /\ before # <<>> => Accepted(before) /\ \A i \in DOMAIN before : KeyMap(before, i) = KeyMap(inputs, i)
  BY <1>3, <1>4, <1>5, <1>7, <1>8
<1> QED BY <1>9 DEF HotkeysUnambiguousIn, bound, before

-----------------------------------------------------------------------------
(* Batches: iterations and scores.                                         *)

\* What starts in S and goes from step to step by a function into S can be iterated.
Steps(S, L, h) == h \in [1..L -> [S -> S]]
Iterated(S, base, L, h) == \E f \in [0..L -> S] : f[0] = base /\ \A n \in 1..L : f[n] = h[n][f[n - 1]]

LEMMA Iteration ==
  ASSUME NEW S, NEW base \in S, NEW L \in Nat, NEW h, Steps(S, L, h)
  PROVE  Iterated(S, base, L, h)
<1> DEFINE Good(f, l) == f \in [0..l -> S] /\ f[0] = base /\ \A n \in 1..l : f[n] = h[n][f[n - 1]]
           N == {l \in Nat : l <= L => \E f : Good(f, l)}
<1>1. 0 \in N
  <2> DEFINE f == [n \in 0..0 |-> base]
  <2>1. Good(f, 0)
    OBVIOUS
  <2> HIDE DEF Good
  <2> QED BY <2>1
<1>2. ASSUME NEW l \in Nat, l \in N PROVE l + 1 \in N
  <2> SUFFICES ASSUME l + 1 <= L PROVE \E f : Good(f, l + 1)
    OBVIOUS
  <2>1. PICK f : Good(f, l)
    BY <1>2
  <2> DEFINE x == h[l + 1][f[l]]
             g == [n \in 0..l + 1 |-> IF n = l + 1 THEN x ELSE f[n]]
  <2>2. x \in S
    <3>1. l \in 0..l /\ l + 1 \in 1..L
      OBVIOUS
    <3>2. f[l] \in S
      BY <2>1, <3>1
    <3> QED BY <3>1, <3>2 DEF Steps
  <2>3. \A n \in 0..l + 1 : n \in 0..l \/ n = l + 1
    OBVIOUS
  <2>4. (\A n \in 0..l : n # l + 1 /\ g[n] = f[n]) /\ g[l + 1] = x
    OBVIOUS
  <2>5. g \in [0..l + 1 -> S]
    <3> HIDE DEF x
    <3> QED BY <2>1, <2>2, <2>3
  <2>6. 0 \in 0..l /\ l \in 0..l /\ (l + 1) - 1 = l
    OBVIOUS
  <2>7. ASSUME NEW n \in 1..l + 1 PROVE g[n] = h[n][g[n - 1]]
    <3>1. CASE n = l + 1
      BY <2>4, <2>6, <3>1
    <3>2. CASE n # l + 1
      <4>1. n \in 1..l /\ n \in 0..l /\ n - 1 \in 0..l
        BY <3>2
      <4> HIDE DEF g
      <4> QED BY <2>1, <2>4, <4>1
    <3> QED BY <3>1, <3>2
  <2> HIDE DEF g
  <2>8. Good(g, l + 1)
    BY <2>1, <2>4, <2>5, <2>6, <2>7
  <2> HIDE DEF Good
  <2> QED BY <2>8
<1> HIDE DEF N
<1>3. L \in N
  BY <1>1, <1>2, NatInd
<1> QED BY <1>3 DEF N, Iterated

LEMMA SummedType ==
  ASSUME NEW s \in Seq(Int)
  PROVE  Summed(s) \in Int
<1> DEFINE L == Len(s)
           h == [n \in 1..L |-> [x \in Int |-> x + s[n]]]
           G(f, n) == IF n = 0 THEN 0 ELSE f[n - 1] + s[n]
           sum == CHOOSE f : f = [n \in 0..L |-> G(f, n)]
           N == {n \in Nat : n <= L => sum[n] \in Int}
<1>1. L \in Nat /\ \A n \in 1..L : s[n] \in Int
  BY LenProperties, ElementOfSeq
<1> HIDE DEF L
<1>2. h \in [1..L -> [Int -> Int]]
  <2>1. ASSUME NEW n \in 1..L PROVE [x \in Int |-> x + s[n]] \in [Int -> Int]
    BY <1>1
  <2> QED BY <2>1
<1>3. \E f : f = [n \in 0..L |-> G(f, n)]
  <2>1. PICK f \in [0..L -> Int] : f[0] = 0 /\ \A n \in 1..L : f[n] = h[n][f[n - 1]]
    <3> DEFINE zero == 0
    <3>1. zero \in Int
      OBVIOUS
    <3>2. Steps(Int, L, h)
      BY <1>2 DEF Steps
    <3> HIDE DEF h, zero
    <3>3. Iterated(Int, zero, L, h)
      BY <1>1, <3>1, <3>2, Iteration
    <3> QED BY <3>3 DEF zero, Iterated
  <2>2. ASSUME NEW n \in 0..L PROVE f[n] = G(f, n)
    <3>1. CASE n = 0
      BY <2>1, <3>1
    <3>2. CASE n # 0
      <4>1. n \in 1..L /\ n - 1 \in 0..L
        BY <1>1, <3>2
      <4>2. f[n - 1] \in Int
        BY <4>1
      <4> QED BY <2>1, <3>2, <4>1, <4>2
    <3> QED BY <3>1, <3>2
  <2> HIDE DEF G
  <2>3. f = [n \in 0..L |-> G(f, n)]
    BY <2>2
  <2> QED BY <2>3
<1>4. sum = [n \in 0..L |-> G(sum, n)]
  <2> HIDE DEF G
  <2> QED BY <1>3
<1>5. Summed(s) = sum[L]
  BY DEF Summed, L
<1> HIDE DEF sum
<1>6. \A n \in 0..L : sum[n] = G(sum, n)
  <2> HIDE DEF G
  <2> QED BY <1>4
<1>7. 0 \in N
  BY <1>1, <1>6
<1>8. ASSUME NEW n \in Nat, n \in N PROVE n + 1 \in N
  <2> SUFFICES ASSUME n + 1 <= L PROVE sum[n + 1] \in Int
    OBVIOUS
  <2>1. n + 1 \in 0..L /\ n + 1 \in 1..L /\ (n + 1) - 1 = n /\ n + 1 # 0
    BY <1>1
  <2>2. sum[n] \in Int
    BY <1>1, <1>8
  <2>3. sum[n + 1] = sum[n] + s[n + 1]
    BY <1>6, <2>1
  <2> QED BY <1>1, <2>1, <2>2, <2>3
<1> HIDE DEF N
<1>9. L \in N
  BY <1>1, <1>7, <1>8, NatInd
<1> QED BY <1>1, <1>5, <1>9 DEF N

LEMMA MeanType ==
  ASSUME NEW a \in Int, NEW d \in Nat \ {0}
  PROVE  a \div d \in Int
BY Z3

LEMMA SignalsType ==
  ASSUME NEW u \in ScoreRow
  PROVE  Signals(u) \in Seq(Int)
<1> DEFINE keys == u.keys
           terms == [k \in DOMAIN keys |-> 12 * keys[k][2]]
           rates == {k[1] : k \in Range(keys)}
           collected == IF keys = <<>> THEN <<>> ELSE <<12 * Disagreement(u), MeanEntropy(u)>>
           own == IF u.student = <<>> THEN <<>> ELSE <<12 * (100 - u.student[1])>>
<1>1. keys \in Seq((0..100) \X Nat) /\ u.student \in Seq(Nat)
  BY DEF ScoreRow
<1> HIDE DEF keys
<1>2. /\ Len(keys) \in Nat /\ DOMAIN keys = 1..Len(keys)
      /\ \A k \in 1..Len(keys) : keys[k] \in (0..100) \X Nat
      /\ keys # <<>> => Len(keys) # 0
  BY <1>1, LenProperties, ElementOfSeq, EmptySeq
<1>3. ASSUME keys # <<>> PROVE Disagreement(u) \in Int
  <2>1. rates \in SUBSET Nat /\ rates # {}
    <3>1. ASSUME NEW k \in DOMAIN keys PROVE keys[k][1] \in Nat
      <4> DEFINE key == keys[k]
      <4>1. key \in (0..100) \X Nat
        BY <1>2
      <4> HIDE DEF key
      <4>2. key[1] \in 0..100
        BY <4>1
      <4> QED BY <4>2 DEF key
    <3>2. 1 \in DOMAIN keys
      BY <1>2, <1>3
    <3> QED BY <3>1, <3>2 DEF Range
  <2> HIDE DEF rates
  <2>2. Min(rates) \in Nat
    BY <2>1, LeastNumber DEF Min
  <2> QED BY <2>2 DEF Disagreement, rates, keys
<1>4. ASSUME keys # <<>> PROVE MeanEntropy(u) \in Int
  <2>1. terms \in Seq(Int)
    <3>1. ASSUME NEW k \in DOMAIN keys PROVE 12 * keys[k][2] \in Int
      BY <1>2
    <3>2. terms \in [1..Len(keys) -> Int]
      BY <1>2, <3>1
    <3> QED BY <1>2, <3>2, SeqDef
  <2>2. Summed(terms) \in Int
    BY <2>1, SummedType
  <2>3. Len(keys) \in Nat \ {0}
    BY <1>2, <1>4
  <2>4. MeanEntropy(u) = Summed(terms) \div Len(keys)
    BY DEF MeanEntropy, keys
  <2> HIDE DEF terms
  <2> QED BY <2>2, <2>3, <2>4, MeanType
<1>5. collected \in Seq(Int)
  <2>1. CASE keys = <<>>
    BY <2>1, EmptySeq
  <2>2. CASE keys # <<>>
    <3> DEFINE a == 12 * Disagreement(u)
               b == MeanEntropy(u)
    <3>1. a \in Int /\ b \in Int
      BY <1>3, <1>4, <2>2
    <3> HIDE DEF a, b
    <3>2. <<a, b>> \in Seq(Int)
      BY <3>1
    <3> QED BY <2>2, <3>2 DEF a, b
  <2> QED BY <2>1, <2>2
<1>6. own \in Seq(Int)
  <2>1. CASE u.student = <<>>
    BY <2>1, EmptySeq
  <2>2. CASE u.student # <<>>
    <3>1. Len(u.student) \in Nat \ {0}
      BY <1>1, <2>2, EmptySeq
    <3>2. 1 \in 1..Len(u.student)
      BY <3>1
    <3>3. u.student[1] \in Nat
      BY <1>1, <3>2, ElementOfSeq
    <3> QED BY <2>2, <3>3
  <2> QED BY <2>1, <2>2
<1>7. Signals(u) = collected \o own
  BY DEF Signals, keys
<1> HIDE DEF collected, own
<1> QED BY <1>5, <1>6, <1>7, ConcatProperties

LEMMA ScoreType ==
  ASSUME NEW u \in ScoreRow
  PROVE  Informativeness(u) \in Int
<1>1. CASE Signals(u) = <<>>
  BY <1>1 DEF Informativeness, Neutral
<1>2. CASE Signals(u) # <<>>
  <2>1. Summed(Signals(u)) \in Int /\ Len(Signals(u)) \in Nat \ {0}
    BY <1>2, SignalsType, SummedType, EmptySeq
  <2>2. Informativeness(u) = Summed(Signals(u)) \div Len(Signals(u))
    BY <1>2 DEF Informativeness
  <2> QED BY <2>1, <2>2, MeanType
<1> QED BY <1>1, <1>2

-----------------------------------------------------------------------------
(* Batches: the ranking.                                                   *)

LEMMA BeforeOrder ==
  ASSUME NEW units \in Seq(ScoreRow)
  PROVE  /\ \A i \in DOMAIN units : ~Before(units, i, i)
         /\ \A i, j, k \in DOMAIN units : Before(units, i, j) /\ Before(units, j, k) => Before(units, i, k)
         /\ \A i, j \in DOMAIN units : i = j \/ Before(units, i, j) \/ Before(units, j, i)
<1>1. ASSUME NEW i \in DOMAIN units
      PROVE  Informativeness(units[i]) \in Int /\ units[i].priority \in Int /\ i \in Int
  <2>1. i \in 1..Len(units) /\ units[i] \in ScoreRow
    BY LenProperties, ElementOfSeq
  <2>2. units[i].priority \in Int
    BY <2>1 DEF ScoreRow
  <2> QED BY <2>1, <2>2, ScoreType
<1>2. \A i \in DOMAIN units : ~Before(units, i, i)
  BY <1>1 DEF Before
<1>3. ASSUME NEW i \in DOMAIN units, NEW j \in DOMAIN units, NEW k \in DOMAIN units,
             Before(units, i, j), Before(units, j, k)
      PROVE  Before(units, i, k)
  BY <1>1, <1>3 DEF Before
<1>4. ASSUME NEW i \in DOMAIN units, NEW j \in DOMAIN units
      PROVE  i = j \/ Before(units, i, j) \/ Before(units, j, i)
  BY <1>1 DEF Before
<1> QED BY <1>2, <1>3, <1>4

LEMMA PoolFinite ==
  ASSUME NEW units \in Seq(ScoreRow), NEW some \in SUBSET DOMAIN units
  PROVE  IsFiniteSet(some) /\ Cardinality(some) \in Nat
<1>1. Len(units) \in Nat /\ DOMAIN units = 1..Len(units)
  BY LenProperties
<1>2. IsFiniteSet(1..Len(units))
  BY <1>1, FS_Interval
<1> QED BY <1>1, <1>2, FS_Subset, FS_CardinalityType

\* The place of a unit among some follows the order in which they are ranked.
LEMMA PlaceFacts ==
  ASSUME NEW units \in Seq(ScoreRow), NEW some \in SUBSET DOMAIN units, NEW i \in DOMAIN units
  PROVE  /\ Place(units, some, i) \in Nat
         /\ i \in some => Place(units, some, i) < Cardinality(some)
         /\ \A j \in some : Before(units, j, i) <=> Place(units, some, j) < Place(units, some, i)
         /\ i \in some => \A j \in some : Place(units, some, j) = Place(units, some, i) => i = j
<1> DEFINE ahead(k) == {j \in some : Before(units, j, k)}
<1>1. \A k \in DOMAIN units : IsFiniteSet(ahead(k)) /\ Place(units, some, k) = Cardinality(ahead(k)) /\ Cardinality(ahead(k)) \in Nat
  BY PoolFinite DEF Place
<1>2. IsFiniteSet(some) /\ Cardinality(some) \in Nat
  BY PoolFinite
<1>3. ASSUME i \in some PROVE Place(units, some, i) < Cardinality(some)
  <2>1. ahead(i) \in SUBSET some /\ ahead(i) # some
    BY <1>3, BeforeOrder
  <2>2. Cardinality(ahead(i)) <= Cardinality(some) /\ Cardinality(ahead(i)) # Cardinality(some)
    <3> HIDE DEF ahead
    <3> QED BY <1>2, <2>1, FS_Subset
  <2> HIDE DEF ahead
  <2> QED BY <1>1, <1>2, <2>2
<1>4. ASSUME NEW k \in some, NEW l \in DOMAIN units, Before(units, k, l)
      PROVE  Place(units, some, k) < Place(units, some, l)
  <2>1. ahead(k) \in SUBSET ahead(l)
    <3>1. ASSUME NEW j \in ahead(k) PROVE j \in ahead(l)
      BY <1>4, BeforeOrder
    <3> QED BY <3>1
  <2>2. k \in ahead(l) /\ k \notin ahead(k)
    BY <1>4, BeforeOrder
  <2>3. k \in DOMAIN units
    OBVIOUS
  <2> HIDE DEF ahead
  <2>4. Cardinality(ahead(k)) <= Cardinality(ahead(l)) /\ Cardinality(ahead(k)) # Cardinality(ahead(l))
    BY <1>1, <2>1, <2>2, FS_Subset
  <2> QED BY <1>1, <2>3, <2>4
<1>5. ASSUME NEW j \in some, ~Before(units, j, i) PROVE ~(Place(units, some, j) < Place(units, some, i))
  <2> DEFINE p == Place(units, some, j)
             q == Place(units, some, i)
  <2>1. j \in DOMAIN units
    OBVIOUS
  <2>2. p \in Nat /\ q \in Nat
    BY <1>1, <2>1
  <2>3. ahead(i) \in SUBSET ahead(j)
    <3>1. i = j \/ Before(units, i, j)
      BY <1>5, <2>1, BeforeOrder
    <3>2. ASSUME NEW k \in ahead(i) PROVE k \in ahead(j)
      BY <2>1, <3>1, BeforeOrder
    <3> QED BY <3>2
  <2>4. q <= p
    <3> HIDE DEF ahead
    <3> QED BY <1>1, <2>1, <2>3, FS_Subset
  <2> HIDE DEF p, q
  <2> QED BY <2>2, <2>4 DEF p, q
<1>6. ASSUME NEW j \in some, i \in some, Place(units, some, j) = Place(units, some, i) PROVE i = j
  <2>1. i = j \/ Before(units, i, j) \/ Before(units, j, i)
    BY BeforeOrder
  <2>2. i \in DOMAIN units /\ j \in DOMAIN units /\ Place(units, some, i) \in Nat /\ Place(units, some, j) \in Nat
    BY <1>1
  <2> QED BY <1>4, <1>6, <2>1, <2>2
<1> HIDE DEF ahead
<1> QED BY <1>1, <1>3, <1>4, <1>5, <1>6

\* Of finitely many ranked units, exactly L stand before place L.
LEMMA FirstPlaces ==
  ASSUME NEW units \in Seq(ScoreRow), NEW some \in SUBSET DOMAIN units, NEW L \in Nat, L <= Cardinality(some)
  PROVE  Cardinality({i \in some : Place(units, some, i) < L}) = L
<1> DEFINE first(l) == {i \in some : Place(units, some, i) < l}
           N == {l \in Nat : l <= Cardinality(some) => Cardinality(first(l)) = l}
<1>1. IsFiniteSet(some) /\ Cardinality(some) \in Nat
  BY PoolFinite
<1>2. \A i \in some : Place(units, some, i) \in Nat
  BY PlaceFacts
<1>3. 0 \in N
  <2>1. first(0) = {}
    BY <1>2
  <2> QED BY <2>1, FS_EmptySet
<1>4. ASSUME NEW l \in Nat, l \in N PROVE l + 1 \in N
  <2> SUFFICES ASSUME l + 1 <= Cardinality(some) PROVE Cardinality(first(l + 1)) = l + 1
    OBVIOUS
  <2>1. Cardinality(first(l)) = l
    BY <1>1, <1>4
  <2> DEFINE rest == some \ first(l)
             places == {Place(units, some, i) : i \in rest}
  <2>2. first(l) \in SUBSET some
    OBVIOUS
  <2>3. rest # {}
    <3> HIDE DEF first
    <3>1. some # first(l)
      BY <1>1, <2>1
    <3> QED BY <2>2, <3>1
  <2>4. places \in SUBSET Nat /\ places # {}
    BY <1>2, <2>3
  <2>5. PICK m \in rest : \A j \in rest : Place(units, some, m) <= Place(units, some, j)
    <3> HIDE DEF places
    <3>1. PICK p \in places : \A q \in places : p <= q
      BY <2>4, LeastNumber
    <3> QED BY <3>1 DEF places
  <2>6. m \in some /\ m \in DOMAIN units /\ Place(units, some, m) \in Nat
    BY <1>2
  <2>7. {j \in some : Before(units, j, m)} = first(l)
    <3>1. ASSUME NEW j \in some, Before(units, j, m) PROVE j \in first(l)
      <4>1. Place(units, some, j) < Place(units, some, m) /\ Place(units, some, j) \in Nat
        BY <1>2, <2>6, <3>1, PlaceFacts
      <4>2. j \notin rest
        BY <2>5, <2>6, <4>1
      <4> QED BY <4>2
    <3>2. ASSUME NEW j \in first(l) PROVE j \in some /\ Before(units, j, m)
      <4>1. j \in some /\ Place(units, some, j) < l /\ Place(units, some, j) \in Nat
        BY <1>2
      <4>2. ~(Place(units, some, m) < l)
        BY <2>6
      <4>3. Place(units, some, j) < Place(units, some, m)
        BY <2>6, <4>1, <4>2
      <4> QED BY <2>6, <4>1, <4>3, PlaceFacts
    <3> QED BY <3>1, <3>2
  <2>8. Place(units, some, m) = l
    BY <2>1, <2>7 DEF Place
  <2>9. first(l + 1) = first(l) \cup {m}
    <3>1. ASSUME NEW j \in some, Place(units, some, j) < l + 1, j \notin first(l) PROVE j = m
      <4>1. Place(units, some, j) = l
        BY <1>2, <3>1
      <4> QED BY <2>6, <2>8, <4>1, PlaceFacts
    <3>2. \A j \in some : Place(units, some, j) < l => Place(units, some, j) < l + 1
      BY <1>2
    <3>3. Place(units, some, m) < l + 1
      BY <2>8
    <3> QED BY <2>6, <3>1, <3>2, <3>3
  <2>10. m \notin first(l) /\ IsFiniteSet(first(l))
    BY <1>1, <2>2, FS_Subset
  <2> HIDE DEF first, rest
  <2> QED BY <2>1, <2>9, <2>10, FS_AddElement
<1> HIDE DEF N
<1>5. L \in N
  BY <1>3, <1>4, NatInd
<1> QED BY <1>5 DEF N

-----------------------------------------------------------------------------
(* Batches: what is kept.                                                  *)

\* A unit of the pool is kept unless one that is kept and ranks before it is like it.
LEMMA KeptFacts ==
  ASSUME NEW units \in Seq(ScoreRow)
  PROVE  \A i : i \in Kept(units) <=>
                  i \in Pool(units) /\ ~\E j \in Kept(units) : Before(units, j, i) /\ Similar(units[i], units[j])
<1> DEFINE pool == Pool(units)
           L == Cardinality(pool)
           P(i) == Place(units, pool, i)
           at(n, x) == {i \in pool : P(i) = n - 1 /\ ~\E j \in x : Similar(units[i], units[j])}
           h == [n \in 1..L |-> [x \in SUBSET pool |-> x \cup at(n, x)]]
           G(f, n) == IF n = 0 THEN {} ELSE f[n - 1] \cup at(n, f[n - 1])
           kept == CHOOSE f : f = [n \in 0..L |-> G(f, n)]
           Alone(i, x) == i \in pool /\ ~\E j \in x : Similar(units[i], units[j])
           Good(n) == \A i : i \in kept[n] <=> Alone(i, kept[P(i)]) /\ P(i) < n
           N == {n \in Nat : n <= L => Good(n)}
<1>1. Kept(units) = kept[L]
  BY DEF Kept
<1>2. pool \in SUBSET DOMAIN units
  BY DEF Pool
<1>3. L \in Nat /\ \A i \in pool : P(i) \in Nat /\ P(i) < L
  <2> HIDE DEF pool
  <2> QED BY <1>2, PoolFinite, PlaceFacts
<1>4. \A i, j \in pool : Before(units, j, i) <=> P(j) < P(i)
  <2> HIDE DEF pool
  <2> QED BY <1>2, PlaceFacts
<1> HIDE DEF pool, L, P
<1>5. \E f : f = [n \in 0..L |-> G(f, n)]
  <2>1. Steps(SUBSET pool, L, h)
    <3>1. ASSUME NEW n \in 1..L PROVE [x \in SUBSET pool |-> x \cup at(n, x)] \in [SUBSET pool -> SUBSET pool]
      OBVIOUS
    <3> HIDE DEF at
    <3> QED BY <3>1 DEF Steps
  <2>2. Iterated(SUBSET pool, {}, L, h)
    <3>1. {} \in SUBSET pool
      OBVIOUS
    <3> HIDE DEF h
    <3> QED BY <1>3, <2>1, <3>1, Iteration
  <2>3. PICK f \in [0..L -> SUBSET pool] : f[0] = {} /\ \A n \in 1..L : f[n] = h[n][f[n - 1]]
    <3> HIDE DEF h
    <3> QED BY <2>2 DEF Iterated
  <2>4. ASSUME NEW n \in 0..L PROVE f[n] = G(f, n)
    <3>1. CASE n = 0
      BY <2>3, <3>1
    <3>2. CASE n # 0
      <4>1. n \in 1..L /\ n - 1 \in 0..L
        BY <1>3, <3>2
      <4>2. f[n - 1] \in SUBSET pool
        BY <4>1
      <4> HIDE DEF at
      <4> QED BY <2>3, <3>2, <4>1, <4>2
    <3> QED BY <3>1, <3>2
  <2> HIDE DEF G
  <2>5. f = [n \in 0..L |-> G(f, n)]
    BY <2>4
  <2> QED BY <2>5
<1>6. kept = [n \in 0..L |-> G(kept, n)]
  <2> HIDE DEF G
  <2> QED BY <1>5
<1> HIDE DEF kept
<1>7. \A n \in 0..L : kept[n] = G(kept, n)
  <2> HIDE DEF G
  <2> QED BY <1>6
<1>8. 0 \in N
  <2>1. kept[0] = {}
    <3>1. 0 \in 0..L
      BY <1>3
    <3>2. kept[0] = G(kept, 0)
      <4> HIDE DEF G
      <4> QED BY <1>7, <3>1
    <3> HIDE DEF at
    <3> QED BY <3>2
  <2>2. \A i \in pool : ~(P(i) < 0)
    BY <1>3
  <2> QED BY <2>1, <2>2
<1>9. ASSUME NEW n \in Nat, n \in N PROVE n + 1 \in N
  <2> SUFFICES ASSUME n + 1 <= L PROVE Good(n + 1)
    OBVIOUS
  <2>1. Good(n)
    BY <1>3, <1>9
  <2>2. n + 1 \in 0..L /\ n + 1 # 0 /\ (n + 1) - 1 = n
    BY <1>3
  <2>3. kept[n + 1] = kept[n] \cup at(n + 1, kept[n])
    <3> HIDE DEF at
    <3> QED BY <1>7, <2>2
  <2>4. \A i : i \in at(n + 1, kept[n]) <=> Alone(i, kept[n]) /\ P(i) = n
    BY <2>2
  <2>5. \A i \in pool : P(i) < n + 1 <=> P(i) < n \/ P(i) = n
    BY <1>3
  <2>6. \A i, x : Alone(i, x) => i \in pool
    OBVIOUS
  <2> HIDE DEF Alone, at
  <2> QED BY <2>1, <2>3, <2>4, <2>5, <2>6
<1> HIDE DEF N
<1>10. \A n \in 0..L : Good(n)
  <2>1. Nat \subseteq N
    BY <1>8, <1>9, NatInd
  <2>2. \A n \in 0..L : n \in N /\ n <= L
    BY <1>3, <2>1
  <2> HIDE DEF Good
  <2> QED BY <2>2 DEF N
<1>11. ASSUME NEW i \in pool
       PROVE  \A j : j \in kept[P(i)] <=> j \in kept[L] /\ Before(units, j, i)
  <2>1. P(i) \in 0..L /\ L \in 0..L
    BY <1>3
  <2>2. \A j : j \in kept[P(i)] <=> Alone(j, kept[P(j)]) /\ P(j) < P(i)
    BY <1>10, <2>1
  <2>3. \A j : j \in kept[L] <=> Alone(j, kept[P(j)]) /\ P(j) < L
    BY <1>10, <2>1
  <2>4. \A j, x : Alone(j, x) => j \in pool
    OBVIOUS
  <2> HIDE DEF Alone
  <2> QED BY <1>3, <1>4, <2>2, <2>3, <2>4
<1>12. \A i : i \in kept[L] <=> i \in pool /\ Alone(i, kept[P(i)])
  <2>1. L \in 0..L
    BY <1>3
  <2> QED BY <1>3, <1>10, <2>1
<1> QED BY <1>1, <1>11, <1>12 DEF pool

\* Every unit that is left out of a batch is left out for a reason.
LEMMA BatchOfUnits ==
  ASSUME NEW units \in Seq(ScoreRow)
  PROVE  BatchRightOf(units)
<1> DEFINE kept == Kept(units)
           batch == Batch(units)
           ahead(i) == {j \in batch : Before(units, j, i)}
           above(i) == {j \in kept : Before(units, j, i)}
<1>1. kept \in SUBSET DOMAIN units /\ \A i \in kept : ~units[i].finalized
  BY KeptFacts DEF Pool
<1>2. batch = {i \in kept : Place(units, kept, i) < Limit}
  BY DEF Batch
<1>3. \A i : i \in kept <=> i \in Pool(units) /\ ~\E j \in kept : Before(units, j, i) /\ Similar(units[i], units[j])
  BY KeptFacts
<1> HIDE DEF kept, batch
<1>4. \A i \in DOMAIN units : Place(units, kept, i) = Cardinality(above(i)) /\ Place(units, kept, i) \in Nat
  BY <1>1, PlaceFacts DEF Place
<1>5. Limit \in Nat
  BY BatchesAssumption
<1>6. ASSUME NEW i \in batch, NEW j \in batch, i # j PROVE ~Similar(units[i], units[j])
  <2>1. i \in kept /\ j \in kept /\ i \in DOMAIN units /\ j \in DOMAIN units
    BY <1>1, <1>2
  <2>2. Before(units, i, j) \/ Before(units, j, i)
    BY <1>6, <2>1, BeforeOrder
  <2>3. Similar(units[i], units[j]) => Similar(units[j], units[i])
    <3>1. {units[i].cluster, units[j].cluster} = {units[j].cluster, units[i].cluster}
      OBVIOUS
    <3> QED BY <3>1 DEF Similar
  <2> QED BY <1>3, <2>1, <2>2, <2>3
<1>7. ASSUME NEW i \in DOMAIN units, Limit <= Cardinality(above(i))
      PROVE  Cardinality(ahead(i)) = Limit
  <2>1. above(i) \in SUBSET DOMAIN units
    BY <1>1
  <2>2. ASSUME NEW j \in above(i) PROVE {k \in above(i) : Before(units, k, j)} = above(j)
    <3>1. j \in DOMAIN units /\ Before(units, j, i)
      BY <1>1
    <3>2. \A k \in kept : Before(units, k, j) => Before(units, k, i)
      BY <1>1, <3>1, BeforeOrder
    <3> QED BY <3>2
  <2>3. \A j \in above(i) : Place(units, above(i), j) = Place(units, kept, j)
    <3> TAKE j \in above(i)
    <3>1. {k \in above(i) : Before(units, k, j)} = {k \in kept : Before(units, k, j)}
      BY <2>2
    <3> QED BY <3>1 DEF Place
  <2>4. ahead(i) = {j \in above(i) : Place(units, above(i), j) < Limit}
    <3>1. ahead(i) = {j \in above(i) : Place(units, kept, j) < Limit}
      BY <1>2
    <3> HIDE DEF ahead, above
    <3> QED BY <2>3, <3>1
  <2> HIDE DEF above, ahead
  <2> QED BY <1>5, <1>7, <2>1, <2>4, FirstPlaces
<1>8. ASSUME NEW i \in DOMAIN units \ batch, ~units[i].finalized
      PROVE  (\E j \in ahead(i) : Similar(units[i], units[j])) \/ Cardinality(ahead(i)) = Limit
  <2>1. i \in DOMAIN units /\ i \in Pool(units)
    BY <1>8 DEF Pool
  <2>2. CASE i \in kept
    <3>1. ~(Place(units, kept, i) < Limit)
      BY <1>2, <2>2
    <3>2. Limit <= Cardinality(above(i))
      <4> HIDE DEF above
      <4> QED BY <1>4, <1>5, <2>1, <3>1
    <3> QED BY <1>7, <2>1, <3>2
  <2>3. CASE i \notin kept
    <3>1. PICK j \in kept : Before(units, j, i) /\ Similar(units[i], units[j])
      BY <1>3, <2>1, <2>3
    <3>2. CASE j \in batch
      BY <3>1, <3>2
    <3>3. CASE j \notin batch
      <4>1. j \in DOMAIN units /\ ~(Place(units, kept, j) < Limit)
        BY <1>1, <1>2, <3>3
      <4>2. above(j) \in SUBSET above(i)
        <5>1. \A k \in kept : Before(units, k, j) => Before(units, k, i)
          BY <1>1, <2>1, <3>1, <4>1, BeforeOrder
        <5> QED BY <5>1
      <4>3. IsFiniteSet(above(i)) /\ Cardinality(above(i)) \in Nat
        <5>1. above(i) \in SUBSET DOMAIN units
          BY <1>1
        <5> HIDE DEF above
        <5> QED BY <5>1, PoolFinite
      <4>4. Cardinality(above(j)) <= Cardinality(above(i))
        <5> HIDE DEF above
        <5> QED BY <4>2, <4>3, FS_Subset
      <4>5. Limit <= Cardinality(above(i))
        <5> HIDE DEF above
        <5> QED BY <1>4, <1>5, <4>1, <4>3, <4>4
      <4> QED BY <1>7, <2>1, <4>5
    <3> QED BY <3>2, <3>3
  <2> QED BY <2>2, <2>3
<1>9. \A i \in batch : ~units[i].finalized
  BY <1>1, <1>2
<1> HIDE DEF ahead
<1>10. /\ \A i, j \in batch : i # j => ~Similar(units[i], units[j])
       /\ \A i \in DOMAIN units \ batch :
            units[i].finalized \/ (\E j \in ahead(i) : Similar(units[i], units[j])) \/ Cardinality(ahead(i)) = Limit
       /\ \A i \in batch : ~units[i].finalized
  BY <1>6, <1>8, <1>9
<1> QED BY <1>10 DEF BatchRightOf, batch, ahead

-----------------------------------------------------------------------------
(* Conditions: one call of the parser.                                     *)

\* What a method may return from the token i of n on: an error, or a value and a
\* token further on.
Result(r, i, n) == r = [at |-> r.at, x |-> r.x] /\ r.at \in {0} \cup (i + 1..n + 1)

\* Two results that read as far, and that are one when they must be exactly the same.
Same(exact, a, b) == a.at = b.at /\ (exact => a = b)
Agreed(exact, f, g, level, i, n) ==
  Result(f[<<level, i>>], i, n) /\ Result(g[<<level, i>>], i, n) /\ Same(exact, f[<<level, i>>], g[<<level, i>>])
Later(exact, f, g, i, n) == \A level \in Levels, j \in i + 1..n + 1 : Agreed(exact, f, g, level, j, n)
\* What two environments name is the same.
Alongside(exact, a, b) == DOMAIN a = DOMAIN b /\ "end" \notin DOMAIN a /\ (exact => a = b)

LEMMA LaterAt ==
  ASSUME NEW n \in Nat, NEW exact, NEW f, NEW g, NEW i \in 1..n + 1, Later(exact, f, g, i, n),
         NEW level \in Levels, NEW j \in i + 1..n + 1
  PROVE  Result(f[<<level, j>>], j, n) /\ Result(g[<<level, j>>], j, n) /\ Same(exact, f[<<level, j>>], g[<<level, j>>])
BY DEF Later, Agreed

LEMMA ErrorFits ==
  ASSUME NEW n \in Nat, NEW i \in 1..n + 1
  PROVE  Result(Error, i, n) /\ \A exact \in BOOLEAN : Same(exact, Error, Error)
BY DEF Result, Same, Error

LEMMA AtToken ==
  ASSUME NEW s \in Seq(STRING), NEW i \in 1..Len(s) + 1, At(s, i) # "end"
  PROVE  i \in 1..Len(s) /\ s[i] = At(s, i)
BY DEF At

LEMMA PrimarySame ==
  ASSUME NEW s \in Seq(STRING), NEW exact \in BOOLEAN, NEW a, NEW b, Alongside(exact, a, b),
         NEW f, NEW g, NEW i \in 1..Len(s) + 1, Later(exact, f, g, i, Len(s))
  PROVE  Result(Primary(f, s, a, i), i, Len(s)) /\ Same(exact, Primary(f, s, a, i), Primary(g, s, b, i))
<1> DEFINE n == Len(s)
           t == At(s, i)
<1>1. n \in Nat
  OBVIOUS
<1>2. t # "end" => i \in 1..n /\ s[i] = t
  BY AtToken
<1>3. CASE t = "("
  <2> DEFINE u == f[<<"or", i + 1>>]
             v == g[<<"or", i + 1>>]
  <2>1. i \in 1..n /\ i + 1 \in 1..n + 1 /\ i + 1 \in i + 1..n + 1 /\ i + 1 \in i..n + 1 /\ "or" \in Levels
    BY <1>2, <1>3 DEF Levels
  <2>2. Result(u, i + 1, n) /\ Result(v, i + 1, n) /\ Same(exact, u, v)
    BY <1>1, <2>1, LaterAt
  <2>3. /\ Primary(f, s, a, i) = IF u.at # 0 /\ At(s, u.at) = ")" THEN [u EXCEPT !.at = @ + 1] ELSE Error
        /\ Primary(g, s, b, i) = IF v.at # 0 /\ At(s, v.at) = ")" THEN [v EXCEPT !.at = @ + 1] ELSE Error
    BY <1>3 DEF Primary
  <2> HIDE DEF u, v
  <2>4. u.at = v.at
    BY <2>2 DEF Same
  <2>5. CASE u.at # 0 /\ At(s, u.at) = ")"
    <3>1. u.at \in i + 2..n + 1
      BY <1>1, <2>1, <2>2, <2>5 DEF Result
    <3>2. u.at \in 1..n + 1
      BY <1>1, <2>1, <3>1
    <3>3. u.at \in i + 2..n
      BY <2>5, <3>1, <3>2, AtToken
    <3>4. Result([u EXCEPT !.at = @ + 1], i, n)
      BY <1>1, <2>1, <2>2, <3>3 DEF Result
    <3>5. Same(exact, [u EXCEPT !.at = @ + 1], [v EXCEPT !.at = @ + 1])
      BY <2>2 DEF Same, Result
    <3> QED BY <2>3, <2>4, <2>5, <3>4, <3>5
  <2>6. CASE ~(u.at # 0 /\ At(s, u.at) = ")")
    BY <1>1, <2>3, <2>4, <2>6, ErrorFits
  <2> QED BY <2>5, <2>6
<1>4. CASE t \in {"n", "true", "false"} \cup (DOMAIN a \ {"(", "n", "true", "false"})
  <2>1. t # "end" /\ i \in 1..n /\ s[i] = t
    BY <1>2, <1>4 DEF Alongside
  <2>2. /\ Primary(f, s, a, i).at = i + 1 /\ Primary(g, s, b, i).at = i + 1
        /\ Primary(f, s, a, i) = [at |-> Primary(f, s, a, i).at, x |-> Primary(f, s, a, i).x]
    BY <1>4 DEF Primary, Alongside
  <2>3. exact => Primary(f, s, a, i) = Primary(g, s, b, i)
    BY <1>4 DEF Primary, Alongside
  <2> QED BY <1>1, <2>1, <2>2, <2>3 DEF Result, Same
<1>5. CASE t \notin {"(", "n", "true", "false"} \cup DOMAIN a
  <2>1. Primary(f, s, a, i) = Error /\ Primary(g, s, b, i) = Error
    BY <1>5 DEF Primary, Alongside
  <2> QED BY <1>1, <2>1, ErrorFits
<1> QED BY <1>3, <1>4, <1>5

LEMMA UnarySame ==
  ASSUME NEW s \in Seq(STRING), NEW exact \in BOOLEAN, NEW a, NEW b, Alongside(exact, a, b),
         NEW f, NEW g, NEW i \in 1..Len(s) + 1, Later(exact, f, g, i, Len(s))
  PROVE  Result(Unary(f, s, a, i), i, Len(s)) /\ Same(exact, Unary(f, s, a, i), Unary(g, s, b, i))
<1> DEFINE n == Len(s)
<1>1. n \in Nat
  OBVIOUS
<1>2. CASE At(s, i) # "!"
  BY <1>2, PrimarySame DEF Unary
<1>3. CASE At(s, i) = "!"
  <2> DEFINE u == f[<<"unary", i + 1>>]
             v == g[<<"unary", i + 1>>]
             not(r) == IF r.at = 0 THEN Error ELSE [r EXCEPT !.x = Truth(~Truthy(@))]
  <2>1. i \in 1..n /\ i + 1 \in 1..n + 1 /\ i + 1 \in i + 1..n + 1 /\ i + 1 \in i..n + 1 /\ "unary" \in Levels
    BY <1>3, AtToken DEF Levels
  <2>2. Result(u, i + 1, n) /\ Result(v, i + 1, n) /\ Same(exact, u, v)
    BY <1>1, <2>1, LaterAt
  <2>3. Unary(f, s, a, i) = not(u) /\ Unary(g, s, b, i) = not(v)
    BY <1>3 DEF Unary
  <2> HIDE DEF u, v
  <2>4. Result(not(u), i, n)
    BY <1>1, <2>1, <2>2 DEF Result, Error
  <2>5. Same(exact, not(u), not(v))
    BY <2>2 DEF Result, Same
  <2> QED BY <2>3, <2>4, <2>5
<1> QED BY <1>2, <1>3

\* A binary level reads a first operand and, past an operator, a second one.
Second(s, exact, l, m, r, q) == l.at # 0 /\ At(s, l.at) # "end" => Result(r, l.at + 1, Len(s)) /\ Result(q, l.at + 1, Len(s)) /\ Same(exact, r, q)

LEMMA SecondRead ==
  ASSUME NEW s \in Seq(STRING), NEW exact \in BOOLEAN, NEW f, NEW g, NEW i \in 1..Len(s) + 1, Later(exact, f, g, i, Len(s)),
         NEW l, NEW m, Result(l, i, Len(s)), Same(exact, l, m), NEW level \in Levels
  PROVE  Second(s, exact, l, m, f[<<level, l.at + 1>>], g[<<level, m.at + 1>>])
<1> SUFFICES ASSUME l.at # 0, At(s, l.at) # "end"
             PROVE  Second(s, exact, l, m, f[<<level, l.at + 1>>], g[<<level, m.at + 1>>])
  BY DEF Second
<1> DEFINE n == Len(s)
           j == l.at + 1
<1>1. n \in Nat
  OBVIOUS
<1>2. l.at \in i + 1..n + 1 /\ l.at \in 1..n + 1
  BY <1>1 DEF Result
<1>3. l.at \in 1..n
  BY <1>2, AtToken
<1>4. j \in 1..n + 1 /\ j \in i + 1..n + 1
  BY <1>1, <1>2, <1>3
<1>5. m.at = l.at
  BY DEF Same
<1> HIDE DEF j
<1>6. Result(f[<<level, j>>], j, n) /\ Result(g[<<level, j>>], j, n) /\ Same(exact, f[<<level, j>>], g[<<level, j>>])
  BY <1>1, <1>4, LaterAt
<1> QED BY <1>5, <1>6 DEF Second, j

LEMMA CompareSame ==
  ASSUME NEW s \in Seq(STRING), NEW exact \in BOOLEAN, NEW i \in 1..Len(s) + 1,
         NEW l, NEW m, NEW r, NEW q, Result(l, i, Len(s)), Result(m, i, Len(s)), Same(exact, l, m), Second(s, exact, l, m, r, q)
  PROVE  Result(CompareAt(s, l, r), i, Len(s)) /\ Same(exact, CompareAt(s, l, r), CompareAt(s, m, q))
<1> DEFINE n == Len(s)
<1>1. n \in Nat /\ l.at = m.at
  BY DEF Same
<1>2. CASE l.at = 0 \/ At(s, l.at) \notin Comparisons
  BY <1>1, <1>2 DEF CompareAt
<1>3. CASE l.at # 0 /\ At(s, l.at) \in Comparisons
  <2>1. At(s, l.at) # "end"
    BY <1>3 DEF Comparisons
  <2>2. Result(r, l.at + 1, n) /\ Result(q, l.at + 1, n) /\ Same(exact, r, q)
    BY <1>3, <2>1 DEF Second
  <2>3. /\ CompareAt(s, l, r) = IF r.at = 0 THEN Error ELSE [at |-> r.at, x |-> Compare(s[l.at], l.x, r.x)]
        /\ CompareAt(s, m, q) = IF q.at = 0 THEN Error ELSE [at |-> q.at, x |-> Compare(s[m.at], m.x, q.x)]
    BY <1>1, <1>3 DEF CompareAt
  <2>4. l.at \in i + 1..n + 1 /\ (r.at = 0 \/ r.at \in l.at + 2..n + 1)
    BY <1>1, <1>3, <2>2 DEF Result
  <2>5. r.at = 0 \/ r.at \in i + 1..n + 1
    BY <1>1, <2>4
  <2>6. Result(CompareAt(s, l, r), i, n)
    BY <1>1, <2>3, <2>5, ErrorFits DEF Result
  <2>7. Same(exact, CompareAt(s, l, r), CompareAt(s, m, q))
    <3>1. r.at = q.at /\ (exact => l = m /\ r = q)
      BY <2>2 DEF Same
    <3>2. exact => CompareAt(s, l, r) = CompareAt(s, m, q)
      BY <3>1
    <3>3. CompareAt(s, l, r).at = CompareAt(s, m, q).at
      BY <2>3, <3>1
    <3> QED BY <3>2, <3>3 DEF Same
  <2> QED BY <2>6, <2>7
<1> QED BY <1>2, <1>3

\* and_expr and or_expr: the same with another operator.
JoinedAt(s, op, l, r, x) == IF l.at = 0 \/ At(s, l.at) # op THEN l ELSE IF r.at = 0 THEN Error ELSE [at |-> r.at, x |-> x]

LEMMA JoinedSame ==
  ASSUME NEW s \in Seq(STRING), NEW exact \in BOOLEAN, NEW i \in 1..Len(s) + 1, NEW op, op # "end", NEW x, NEW y,
         NEW l, NEW m, NEW r, NEW q, Result(l, i, Len(s)), Result(m, i, Len(s)), Same(exact, l, m), Second(s, exact, l, m, r, q),
         exact /\ l = m /\ r = q => x = y
  PROVE  Result(JoinedAt(s, op, l, r, x), i, Len(s)) /\ Same(exact, JoinedAt(s, op, l, r, x), JoinedAt(s, op, m, q, y))
<1> DEFINE n == Len(s)
<1>1. n \in Nat /\ l.at = m.at
  BY DEF Same
<1>2. CASE l.at = 0 \/ At(s, l.at) # op
  BY <1>1, <1>2 DEF JoinedAt
<1>3. CASE l.at # 0 /\ At(s, l.at) = op
  <2>2. Result(r, l.at + 1, n) /\ Result(q, l.at + 1, n) /\ Same(exact, r, q)
    BY <1>3 DEF Second
  <2>3. /\ JoinedAt(s, op, l, r, x) = IF r.at = 0 THEN Error ELSE [at |-> r.at, x |-> x]
        /\ JoinedAt(s, op, m, q, y) = IF q.at = 0 THEN Error ELSE [at |-> q.at, x |-> y]
    BY <1>1, <1>3 DEF JoinedAt
  <2>4. l.at \in i + 1..n + 1 /\ (r.at = 0 \/ r.at \in l.at + 2..n + 1)
    BY <1>1, <1>3, <2>2 DEF Result
  <2>5. r.at = 0 \/ r.at \in i + 1..n + 1
    BY <1>1, <2>4
  <2>6. Result(JoinedAt(s, op, l, r, x), i, n)
    BY <1>1, <2>3, <2>5, ErrorFits DEF Result
  <2>7. r.at = q.at /\ (exact => l = m /\ r = q)
    BY <2>2 DEF Same
  <2>8. exact => JoinedAt(s, op, l, r, x) = JoinedAt(s, op, m, q, y)
    BY <2>7
  <2>9. JoinedAt(s, op, l, r, x).at = JoinedAt(s, op, m, q, y).at
    BY <2>3, <2>7
  <2> QED BY <2>6, <2>8, <2>9 DEF Same
<1> QED BY <1>2, <1>3

-----------------------------------------------------------------------------
(* Conditions: what the parser reads.                                      *)

\* A call reads what its own level, one down, makes of the same token, and what any
\* level makes of a later one: calls come in this order.
Height(level) == CASE level = "unary" -> 0 [] level = "cmp" -> 1 [] level = "and" -> 2 [] level = "or" -> 3
Order(level, i, n) == 4 * (n + 1 - i) + Height(level)
Agree(exact, f, g, n, k) ==
  \A level \in Levels, i \in 1..n + 1 : Order(level, i, n) < k => Agreed(exact, f, g, level, i, n)
\* One call of the parser everywhere, for what the calls return.
Readings(f, s, env) == [c \in Levels \X (1..Len(s) + 1) |-> Read(f, s, env, c[1], c[2])]

LEMMA ReadingAt ==
  ASSUME NEW s \in Seq(STRING), NEW f, NEW env, NEW level \in Levels, NEW i \in 1..Len(s) + 1
  PROVE  Readings(f, s, env)[<<level, i>>] = Read(f, s, env, level, i)
BY DEF Readings

LEMMA HeightType == \A level \in Levels : Height(level) \in 0..3
BY DEF Height, Levels

LEMMA ReadSame ==
  ASSUME NEW s \in Seq(STRING), NEW exact \in BOOLEAN, NEW a, NEW b, Alongside(exact, a, b),
         NEW f, NEW g, NEW level \in Levels, NEW i \in 1..Len(s) + 1, Agree(exact, f, g, Len(s), Order(level, i, Len(s)))
  PROVE  Result(Read(f, s, a, level, i), i, Len(s)) /\ Same(exact, Read(f, s, a, level, i), Read(g, s, b, level, i))
<1> DEFINE n == Len(s)
<1>1. n \in Nat
  OBVIOUS
<1>2. Later(exact, f, g, i, n)
  <2> SUFFICES ASSUME NEW other \in Levels, NEW j \in i + 1..n + 1
               PROVE  Agreed(exact, f, g, other, j, n)
    BY DEF Later
  <2>1. Height(other) \in 0..3 /\ Height(level) \in 0..3 /\ j \in 1..n + 1
    BY <1>1, HeightType
  <2>2. Order(other, j, n) < Order(level, i, n)
    BY <1>1, <2>1 DEF Order
  <2> QED BY <2>1, <2>2 DEF Agree
<1>3. ASSUME NEW other \in Levels, Height(other) < Height(level)
      PROVE  Result(f[<<other, i>>], i, n) /\ Result(g[<<other, i>>], i, n) /\ Same(exact, f[<<other, i>>], g[<<other, i>>])
  <2>1. Order(other, i, n) < Order(level, i, n)
    BY <1>1, <1>3, HeightType DEF Order
  <2> QED BY <1>1, <2>1 DEF Agree, Agreed
<1>4. CASE level = "unary"
  <2>1. Read(f, s, a, level, i) = Unary(f, s, a, i) /\ Read(g, s, b, level, i) = Unary(g, s, b, i)
    BY <1>4 DEF Read
  <2> QED BY <1>2, <2>1, UnarySame
<1>5. CASE level = "cmp"
  <2> DEFINE l == f[<<"unary", i>>]
             m == g[<<"unary", i>>]
             r == f[<<"unary", l.at + 1>>]
             q == g[<<"unary", m.at + 1>>]
  <2>1. "unary" \in Levels /\ Height("unary") < Height(level)
    BY <1>5 DEF Height, Levels
  <2>2. Read(f, s, a, level, i) = CompareAt(s, l, r) /\ Read(g, s, b, level, i) = CompareAt(s, m, q)
    BY <1>5 DEF Read, CmpExpr
  <2>3. Result(l, i, n) /\ Result(m, i, n) /\ Same(exact, l, m)
    BY <1>3, <2>1
  <2> HIDE DEF l, m
  <2>4. Second(s, exact, l, m, r, q)
    BY <1>2, <2>1, <2>3, SecondRead
  <2> HIDE DEF r, q
  <2> QED BY <2>2, <2>3, <2>4, CompareSame
<1>6. CASE level = "and"
  <2> DEFINE l == f[<<"cmp", i>>]
             m == g[<<"cmp", i>>]
             r == f[<<"and", l.at + 1>>]
             q == g[<<"and", m.at + 1>>]
             x == Truth(Truthy(r.x) /\ Truthy(l.x))
             y == Truth(Truthy(q.x) /\ Truthy(m.x))
  <2>1. {"cmp", "and"} \subseteq Levels /\ Height("cmp") < Height(level)
    BY <1>6 DEF Height, Levels
  <2>2. Read(f, s, a, level, i) = JoinedAt(s, "&&", l, r, x) /\ Read(g, s, b, level, i) = JoinedAt(s, "&&", m, q, y)
    BY <1>6 DEF Read, AndExpr, JoinedAt
  <2>3. Result(l, i, n) /\ Result(m, i, n) /\ Same(exact, l, m)
    BY <1>3, <2>1
  <2> HIDE DEF l, m
  <2>4. Second(s, exact, l, m, r, q)
    BY <1>2, <2>1, <2>3, SecondRead
  <2> HIDE DEF r, q
  <2>5. l = m /\ r = q => x = y
    OBVIOUS
  <2> HIDE DEF x, y
  <2> QED BY <2>2, <2>3, <2>4, <2>5, JoinedSame
<1>7. CASE level = "or"
  <2> DEFINE l == f[<<"and", i>>]
             m == g[<<"and", i>>]
             r == f[<<"or", l.at + 1>>]
             q == g[<<"or", m.at + 1>>]
             x == Truth(Truthy(r.x) \/ Truthy(l.x))
             y == Truth(Truthy(q.x) \/ Truthy(m.x))
  <2>1. {"and", "or"} \subseteq Levels /\ Height("and") < Height(level)
    BY <1>7 DEF Height, Levels
  <2>2. Read(f, s, a, level, i) = JoinedAt(s, "||", l, r, x) /\ Read(g, s, b, level, i) = JoinedAt(s, "||", m, q, y)
    BY <1>7 DEF Read, OrExpr, JoinedAt
  <2>3. Result(l, i, n) /\ Result(m, i, n) /\ Same(exact, l, m)
    BY <1>3, <2>1
  <2> HIDE DEF l, m
  <2>4. Second(s, exact, l, m, r, q)
    BY <1>2, <2>1, <2>3, SecondRead
  <2> HIDE DEF r, q
  <2>5. l = m /\ r = q => x = y
    OBVIOUS
  <2> HIDE DEF x, y
  <2> QED BY <2>2, <2>3, <2>4, <2>5, JoinedSame
<1> QED BY <1>4, <1>5, <1>6, <1>7 DEF Levels

\* Calls that agree on the first answers agree on the next ones.
LEMMA ReadingsAgree ==
  ASSUME NEW s \in Seq(STRING), NEW exact \in BOOLEAN, NEW a, NEW b, Alongside(exact, a, b),
         NEW f, NEW g, NEW k \in Nat, Agree(exact, f, g, Len(s), k)
  PROVE  Agree(exact, Readings(f, s, a), Readings(g, s, b), Len(s), k + 1)
<1> DEFINE n == Len(s)
<1>1. n \in Nat /\ \A other \in Levels, j \in 1..n + 1 : Order(other, j, n) \in Nat
  BY HeightType DEF Order
<1> SUFFICES ASSUME NEW level \in Levels, NEW i \in 1..n + 1, Order(level, i, n) < k + 1
             PROVE  Agreed(exact, Readings(f, s, a), Readings(g, s, b), level, i, n)
  BY DEF Agree
<1>2. \A other \in Levels, j \in 1..n + 1 : Order(other, j, n) < Order(level, i, n) => Order(other, j, n) < k
  BY <1>1
<1>3. Agree(exact, f, g, n, Order(level, i, n))
  BY <1>2 DEF Agree
<1>4. Readings(f, s, a)[<<level, i>>] = Read(f, s, a, level, i) /\ Readings(g, s, b)[<<level, i>>] = Read(g, s, b, level, i)
  BY ReadingAt
<1>5. Alongside(exact, b, a) /\ Agree(exact, g, f, n, Order(level, i, n))
  BY <1>3 DEF Alongside, Agree, Agreed, Same
<1>6. Result(Read(f, s, a, level, i), i, n) /\ Same(exact, Read(f, s, a, level, i), Read(g, s, b, level, i))
  BY <1>3, ReadSame
<1>7. Result(Read(g, s, b, level, i), i, n)
  BY <1>5, ReadSame
<1> QED BY <1>4, <1>6, <1>7 DEF Agreed

LEMMA OrderBelow ==
  ASSUME NEW n \in Nat, NEW level \in Levels, NEW i \in 1..n + 1
  PROVE  Order(level, i, n) \in Nat /\ Order(level, i, n) < 4 * (n + 1)
BY HeightType DEF Order

\* There is a parser: after as many calls as there are, one more changes nothing.
LEMMA ParserExists ==
  ASSUME NEW s \in Seq(STRING), NEW a, "end" \notin DOMAIN a
  PROVE  \E f : f = Readings(f, s, a)
<1> DEFINE n == Len(s)
           Good(f, k) == Agree(TRUE, f, Readings(f, s, a), n, k)
           N == {k \in Nat : \E f : Good(f, k)}
<1>1. n \in Nat /\ Alongside(TRUE, a, a)
  BY DEF Alongside
<1>2. 0 \in N
  <2>1. ASSUME NEW level \in Levels, NEW i \in 1..n + 1 PROVE ~(Order(level, i, n) < 0)
    <3>1. Order(level, i, n) \in Nat
      BY <1>1, OrderBelow
    <3> QED BY <3>1
  <2>2. Good(<<>>, 0)
    BY <2>1 DEF Agree
  <2> HIDE DEF Good
  <2> QED BY <2>2
<1>3. ASSUME NEW k \in Nat, k \in N PROVE k + 1 \in N
  <2>1. PICK f : Good(f, k)
    BY <1>3
  <2> DEFINE g == Readings(f, s, a)
  <2>2. Good(g, k + 1)
    <3>1. Agree(TRUE, f, g, n, k)
      BY <2>1
    <3> HIDE DEF g
    <3>2. Agree(TRUE, Readings(f, s, a), Readings(g, s, a), n, k + 1)
      BY <1>1, <3>1, ReadingsAgree
    <3> QED BY <3>2 DEF g
  <2> HIDE DEF Good, g
  <2> QED BY <2>2
<1> HIDE DEF N
<1>4. Nat \subseteq N
  BY <1>2, <1>3, NatInd
<1> DEFINE top == 4 * (n + 1)
<1>5. top \in N
  <2>1. top \in Nat
    BY <1>1
  <2> QED BY <1>4, <2>1
<1>6. PICK f : Good(f, top)
  BY <1>5 DEF N
<1>7. \A level \in Levels, i \in 1..n + 1 : f[<<level, i>>] = Readings(f, s, a)[<<level, i>>]
  <2> SUFFICES ASSUME NEW level \in Levels, NEW i \in 1..n + 1
               PROVE  f[<<level, i>>] = Readings(f, s, a)[<<level, i>>]
    OBVIOUS
  <2>1. Order(level, i, n) < top
    BY <1>1, OrderBelow
  <2> HIDE DEF top
  <2> QED BY <1>6, <2>1 DEF Agree, Agreed, Same
<1> DEFINE D == Levels \X (1..n + 1)
           g == [c \in D |-> f[c]]
<1>8. Readings(f, s, a) = g
  <2>1. \A c \in D : f[c] = Readings(f, s, a)[c]
    BY <1>7
  <2>2. Readings(f, s, a) = [c \in D |-> Readings(f, s, a)[c]]
    BY DEF Readings
  <2> QED BY <2>1, <2>2
<1>9. Readings(g, s, a) = g
  <2> DEFINE h == Readings(g, s, a)
  <2>1. \A level \in Levels, i \in 1..n + 1 : g[<<level, i>>] = f[<<level, i>>]
    OBVIOUS
  <2>2. Agree(TRUE, f, g, n, top)
    <3> HIDE DEF g, top
    <3> QED BY <1>6, <2>1 DEF Agree, Agreed, Same
  <2>3. Agree(TRUE, g, h, n, top + 1)
    <3>1. top \in Nat
      BY <1>1
    <3> HIDE DEF g, top
    <3>2. Agree(TRUE, Readings(f, s, a), Readings(g, s, a), n, top + 1)
      BY <1>1, <2>2, <3>1, ReadingsAgree
    <3> QED BY <1>8, <3>2
  <2>4. \A level \in Levels, i \in 1..n + 1 : g[<<level, i>>] = h[<<level, i>>]
    <3> SUFFICES ASSUME NEW level \in Levels, NEW i \in 1..n + 1
                 PROVE  g[<<level, i>>] = h[<<level, i>>]
      OBVIOUS
    <3>1. Order(level, i, n) \in Nat /\ Order(level, i, n) < top /\ top \in Nat
      BY <1>1, OrderBelow
    <3>2. Order(level, i, n) < top + 1
      <4> HIDE DEF top
      <4> QED BY <3>1
    <3> HIDE DEF g, h, top
    <3> QED BY <2>3, <3>2 DEF Agree, Agreed, Same
  <2>5. h = [c \in D |-> h[c]]
    BY DEF Readings
  <2> HIDE DEF h
  <2>6. \A c \in D : g[c] = h[c]
    <3> HIDE DEF g
    <3> QED BY <2>4
  <2>7. g = [c \in D |-> g[c]]
    OBVIOUS
  <2> HIDE DEF D, g
  <2>8. h = g
    BY <2>5, <2>6, <2>7
  <2> QED BY <2>8 DEF h
<1> QED BY <1>9

-----------------------------------------------------------------------------
(* Conditions: what can be saved can be evaluated.                         *)

\* What is read as far as where, whatever the metrics are worth.
LEMMA ParsedAlike ==
  ASSUME NEW s \in Seq(STRING), NEW a, NEW b, DOMAIN a = DOMAIN b, "end" \notin DOMAIN a
  PROVE  Parse(s, a).at = Parse(s, b).at
<1> DEFINE n == Len(s)
           f == CHOOSE p : p = Readings(p, s, a)
           g == CHOOSE p : p = Readings(p, s, b)
           N == {k \in Nat : Agree(FALSE, f, g, n, k)}
<1>1. n \in Nat /\ Alongside(FALSE, a, b)
  BY DEF Alongside
<1>2. f = Readings(f, s, a) /\ g = Readings(g, s, b)
  BY ParserExists
<1>3. Parse(s, a) = f[<<"or", 1>>] /\ Parse(s, b) = g[<<"or", 1>>]
  BY DEF Parse, Readings
<1> HIDE DEF f, g
<1>4. 0 \in N
  <2>1. Agree(FALSE, f, g, n, 0)
    <3>1. ASSUME NEW level \in Levels, NEW i \in 1..n + 1 PROVE ~(Order(level, i, n) < 0)
      <4>1. Order(level, i, n) \in Nat
        BY <1>1, OrderBelow
      <4> QED BY <4>1
    <3> QED BY <3>1 DEF Agree
  <2> QED BY <2>1
<1>5. ASSUME NEW k \in Nat, k \in N PROVE k + 1 \in N
  <2>1. Agree(FALSE, Readings(f, s, a), Readings(g, s, b), n, k + 1)
    BY <1>1, <1>5, ReadingsAgree
  <2>2. Agree(FALSE, f, g, n, k + 1)
    BY <1>2, <2>1
  <2> DEFINE l == k + 1
  <2>3. l \in Nat
    OBVIOUS
  <2>4. Agree(FALSE, f, g, n, l)
    BY <2>2, Zenon
  <2> HIDE DEF l
  <2>5. l \in N
    BY <2>3, <2>4, Zenon
  <2> QED BY <2>5 DEF l
<1> DEFINE top == 4 * (n + 1)
<1>6. top \in N
  <2> HIDE DEF N
  <2>1. Nat \subseteq N
    BY <1>4, <1>5, NatInd
  <2>2. top \in Nat
    BY <1>1
  <2> QED BY <2>1, <2>2
<1>7. "or" \in Levels /\ 1 \in 1..n + 1
  BY <1>1 DEF Levels
<1>8. Order("or", 1, n) < top
  BY <1>1, <1>7, OrderBelow
<1> HIDE DEF top
<1>9. f[<<"or", 1>>].at = g[<<"or", 1>>].at
  BY <1>6, <1>7, <1>8 DEF Agree, Agreed, Same
<1> QED BY <1>3, <1>9

LEMMA MetricsNamed ==
  ASSUME NEW proposal, NEW unit
  PROVE  DOMAIN Metrics(proposal, unit) = ConditionVariables
BY DEF Metrics, ConditionVariables

LEMMA SavedOfTokens ==
  ASSUME NEW s \in Seq(STRING)
  PROVE  SavedNeverRaisesIn(s)
<1> DEFINE zeros == [v \in ConditionVariables |-> 0]
<1> SUFFICES ASSUME Saved(<<s>>), NEW proposal \in Proposals, NEW unit \in Routed
             PROVE  Gate(s, proposal, unit) # "error"
  BY DEF SavedNeverRaisesIn
<1>1. Evaluated(s, zeros) # "error"
  <2>1. 1 \in DOMAIN <<s>> /\ <<s>>[1] = s
    OBVIOUS
  <2> QED BY <2>1 DEF Saved, Checked
<1> DEFINE env == Metrics(proposal, unit)
<1>2. DOMAIN env = DOMAIN zeros /\ "end" \notin DOMAIN zeros
  BY MetricsNamed DEF ConditionVariables
<1> HIDE DEF env, zeros
<1>3. Parse(s, zeros).at = Parse(s, env).at
  BY <1>2, ParsedAlike
<1>4. Evaluated(s, env) # "error"
  BY <1>1, <1>3 DEF Evaluated
<1> QED BY <1>4 DEF Gate, env

-----------------------------------------------------------------------------
(* Conditions: the values the grammar gives.                               *)

\* The value of tokens is made of those of fewer tokens, and of the same tokens a
\* level down.
Size(i, j) == IF j >= i THEN j - i + 1 ELSE 0
Depth(level, i, j) == 4 * Size(i, j) + Height(level)
AlikeBelow(v, w, n, k) ==
  \A level \in Levels, i \in 1..n + 1, j \in 0..n : Depth(level, i, j) < k => v[<<level, i, j>>] = w[<<level, i, j>>]
Derivations(v, s, env) ==
  [c \in Levels \X (1..Len(s) + 1) \X (0..Len(s)) |-> Derived(v, s, env, c[1], c[2], c[3])]

LEMMA DerivationAt ==
  ASSUME NEW s \in Seq(STRING), NEW v, NEW env, NEW level \in Levels, NEW i \in 1..Len(s) + 1, NEW j \in 0..Len(s)
  PROVE  Derivations(v, s, env)[<<level, i, j>>] = Derived(v, s, env, level, i, j)
BY DEF Derivations

LEMMA DepthBelow ==
  ASSUME NEW n \in Nat, NEW level \in Levels, NEW i \in 1..n + 1, NEW j \in 0..n
  PROVE  Depth(level, i, j) \in Nat /\ Depth(level, i, j) < 4 * (n + 1)
<1>1. Size(i, j) \in 0..n
  BY DEF Size
<1> QED BY <1>1, HeightType DEF Depth

\* Fewer tokens, at any level.
LEMMA DepthFewer ==
  ASSUME NEW level \in Levels, NEW other \in Levels, NEW i \in Int, NEW j \in Int, NEW k \in Int, NEW l \in Int,
         i <= j, i <= k, l <= j, l - k < j - i
  PROVE  Depth(other, k, l) < Depth(level, i, j)
<1>1. Size(k, l) \in Int /\ Size(i, j) \in Int /\ Size(k, l) + 1 <= Size(i, j)
  BY DEF Size
<1> QED BY <1>1, HeightType DEF Depth

LEMMA InCuts ==
  ASSUME NEW v, NEW s, NEW ops, NEW left, NEW right, NEW i \in Int, NEW j \in Int, NEW c
  PROVE  c \in Cuts(v, s, ops, left, right, i, j) <=>
           \E k \in i + 1..j - 1 : s[k] \in ops /\ c \in CutAt(v, s, left, right, i, j, k)
BY DEF Cuts

LEMMA InCutAt ==
  ASSUME NEW v, NEW s, NEW left, NEW right, NEW i, NEW j, NEW k, NEW c
  PROVE  c \in CutAt(v, s, left, right, i, j, k) <=>
           \E x \in v[<<left, i, k - 1>>], y \in v[<<right, k + 1, j>>] : c = <<x, s[k], y>>
BY DEF CutAt

SidesAlike(v, w, left, right, i, j) ==
  \A k \in i + 1..j - 1 : v[<<left, i, k - 1>>] = w[<<left, i, k - 1>>] /\ v[<<right, k + 1, j>>] = w[<<right, k + 1, j>>]

LEMMA CutsSame ==
  ASSUME NEW v, NEW w, NEW s, NEW ops, NEW left, NEW right, NEW i \in Int, NEW j \in Int,
         SidesAlike(v, w, left, right, i, j)
  PROVE  Cuts(v, s, ops, left, right, i, j) = Cuts(w, s, ops, left, right, i, j)
<1>1. \A k \in i + 1..j - 1 : CutAt(v, s, left, right, i, j, k) = CutAt(w, s, left, right, i, j, k)
  BY DEF CutAt, SidesAlike
<1>2. ASSUME NEW c
      PROVE  c \in Cuts(v, s, ops, left, right, i, j) <=> c \in Cuts(w, s, ops, left, right, i, j)
  <2>1. c \in Cuts(v, s, ops, left, right, i, j) <=>
          \E k \in i + 1..j - 1 : s[k] \in ops /\ c \in CutAt(v, s, left, right, i, j, k)
    BY InCuts
  <2>2. c \in Cuts(w, s, ops, left, right, i, j) <=>
          \E k \in i + 1..j - 1 : s[k] \in ops /\ c \in CutAt(w, s, left, right, i, j, k)
    BY InCuts
  <2> QED BY <1>1, <2>1, <2>2
<1> QED BY <1>2

LEMMA DerivedSame ==
  ASSUME NEW s \in Seq(STRING), NEW env, NEW v, NEW w, NEW level \in Levels, NEW i \in 1..Len(s) + 1, NEW j \in 0..Len(s),
         AlikeBelow(v, w, Len(s), Depth(level, i, j))
  PROVE  Derived(v, s, env, level, i, j) = Derived(w, s, env, level, i, j)
<1> DEFINE n == Len(s)
<1>1. n \in Nat
  OBVIOUS
<1>2. ASSUME NEW other \in Levels, Height(other) < Height(level) PROVE v[<<other, i, j>>] = w[<<other, i, j>>]
  <2>1. Depth(other, i, j) < Depth(level, i, j)
    <3>1. Size(i, j) \in Int
      BY DEF Size
    <3> QED BY <1>2, <3>1, HeightType DEF Depth
  <2> QED BY <2>1 DEF AlikeBelow
<1>3. ASSUME NEW left \in Levels, NEW right \in Levels, NEW ops
      PROVE  Cuts(v, s, ops, left, right, i, j) = Cuts(w, s, ops, left, right, i, j)
  <2>1. ASSUME NEW k \in i + 1..j - 1
        PROVE  v[<<left, i, k - 1>>] = w[<<left, i, k - 1>>] /\ v[<<right, k + 1, j>>] = w[<<right, k + 1, j>>]
    <3>1. k - 1 \in 0..n /\ k + 1 \in 1..n + 1
      BY <1>1
    <3>2. Depth(left, i, k - 1) < Depth(level, i, j)
      BY DepthFewer
    <3>3. Depth(right, k + 1, j) < Depth(level, i, j)
      BY DepthFewer
    <3> QED BY <3>1, <3>2, <3>3 DEF AlikeBelow
  <2>2. i \in Int /\ j \in Int /\ SidesAlike(v, w, left, right, i, j)
    BY <1>1, <2>1 DEF SidesAlike
  <2> QED BY <2>2, CutsSame
<1>4. CASE level = "or"
  <2>1. {"and", "or"} \subseteq Levels /\ Height("and") < Height(level)
    BY <1>4 DEF Levels, Height
  <2>2. v[<<"and", i, j>>] = w[<<"and", i, j>>] /\ Cuts(v, s, {"||"}, "and", "or", i, j) = Cuts(w, s, {"||"}, "and", "or", i, j)
    BY <1>2, <1>3, <2>1
  <2> QED BY <1>4, <2>2 DEF Derived
<1>5. CASE level = "and"
  <2>1. {"cmp", "and"} \subseteq Levels /\ Height("cmp") < Height(level)
    BY <1>5 DEF Levels, Height
  <2>2. v[<<"cmp", i, j>>] = w[<<"cmp", i, j>>] /\ Cuts(v, s, {"&&"}, "cmp", "and", i, j) = Cuts(w, s, {"&&"}, "cmp", "and", i, j)
    BY <1>2, <1>3, <2>1
  <2> QED BY <1>5, <2>2 DEF Derived
<1>6. CASE level = "cmp"
  <2>1. {"unary"} \subseteq Levels /\ Height("unary") < Height(level)
    BY <1>6 DEF Levels, Height
  <2>2. v[<<"unary", i, j>>] = w[<<"unary", i, j>>] /\ Cuts(v, s, Comparisons, "unary", "unary", i, j) = Cuts(w, s, Comparisons, "unary", "unary", i, j)
    BY <1>2, <1>3, <2>1
  <2> QED BY <1>6, <2>2 DEF Derived
<1>7. CASE level = "unary"
  <2>1. CASE j <= i
    BY <1>7, <2>1 DEF Derived
  <2>2. CASE j > i
    <3>1. {"or", "unary"} \subseteq Levels /\ i + 1 \in 1..n + 1 /\ j - 1 \in 0..n
      BY <1>1, <2>2 DEF Levels
    <3>2. Depth("unary", i + 1, j) < Depth(level, i, j) /\ Depth("or", i + 1, j - 1) < Depth(level, i, j)
      BY <2>2, <3>1, DepthFewer
    <3>3. v[<<"unary", i + 1, j>>] = w[<<"unary", i + 1, j>>] /\ v[<<"or", i + 1, j - 1>>] = w[<<"or", i + 1, j - 1>>]
      BY <3>1, <3>2 DEF AlikeBelow
    <3> QED BY <1>7, <2>2, <3>3 DEF Derived
  <2> QED BY <2>1, <2>2
<1> QED BY <1>4, <1>5, <1>6, <1>7 DEF Levels

LEMMA DerivationsAgree ==
  ASSUME NEW s \in Seq(STRING), NEW env, NEW v, NEW w, NEW k \in Nat, AlikeBelow(v, w, Len(s), k)
  PROVE  AlikeBelow(Derivations(v, s, env), Derivations(w, s, env), Len(s), k + 1)
<1> DEFINE n == Len(s)
<1> SUFFICES ASSUME NEW level \in Levels, NEW i \in 1..n + 1, NEW j \in 0..n, Depth(level, i, j) < k + 1
             PROVE  Derivations(v, s, env)[<<level, i, j>>] = Derivations(w, s, env)[<<level, i, j>>]
  BY DEF AlikeBelow
<1>1. n \in Nat
  OBVIOUS
<1>2. AlikeBelow(v, w, n, Depth(level, i, j))
  <2> SUFFICES ASSUME NEW other \in Levels, NEW p \in 1..n + 1, NEW q \in 0..n, Depth(other, p, q) < Depth(level, i, j)
               PROVE  v[<<other, p, q>>] = w[<<other, p, q>>]
    BY DEF AlikeBelow
  <2>1. Depth(other, p, q) \in Nat /\ Depth(level, i, j) \in Nat
    BY <1>1, DepthBelow
  <2>2. Depth(other, p, q) < k
    BY <2>1
  <2> QED BY <2>2 DEF AlikeBelow
<1>3. Derived(v, s, env, level, i, j) = Derived(w, s, env, level, i, j)
  BY <1>2, DerivedSame
<1> QED BY <1>3, DerivationAt

\* There are such values: after as many steps as there are depths, one more changes nothing.
LEMMA ValuesExist ==
  ASSUME NEW s \in Seq(STRING), NEW env
  PROVE  \E v : v = Derivations(v, s, env)
<1> DEFINE n == Len(s)
           Good(v, k) == AlikeBelow(v, Derivations(v, s, env), n, k)
           N == {k \in Nat : \E v : Good(v, k)}
<1>1. n \in Nat
  OBVIOUS
<1>2. 0 \in N
  <2>1. ASSUME NEW level \in Levels, NEW i \in 1..n + 1, NEW j \in 0..n PROVE ~(Depth(level, i, j) < 0)
    <3>1. Depth(level, i, j) \in Nat
      BY <1>1, DepthBelow
    <3> QED BY <3>1
  <2>2. Good(<<>>, 0)
    BY <2>1 DEF AlikeBelow
  <2> HIDE DEF Good
  <2> QED BY <2>2
<1>3. ASSUME NEW k \in Nat, k \in N PROVE k + 1 \in N
  <2>1. PICK v : Good(v, k)
    BY <1>3
  <2> DEFINE w == Derivations(v, s, env)
  <2>2. Good(w, k + 1)
    <3>1. AlikeBelow(v, w, n, k)
      BY <2>1
    <3> HIDE DEF w
    <3>2. AlikeBelow(Derivations(v, s, env), Derivations(w, s, env), n, k + 1)
      BY <3>1, DerivationsAgree
    <3> QED BY <3>2 DEF w
  <2> HIDE DEF Good, w
  <2> QED BY <2>2
<1> HIDE DEF N
<1>4. Nat \subseteq N
  BY <1>2, <1>3, NatInd
<1> DEFINE top == 4 * (n + 1)
<1>5. top \in N
  <2>1. top \in Nat
    BY <1>1
  <2> QED BY <1>4, <2>1
<1>6. PICK v : Good(v, top)
  BY <1>5 DEF N
<1> DEFINE D == Levels \X (1..n + 1) \X (0..n)
           u == Derivations(v, s, env)
           w == Derivations(u, s, env)
<1>7. \A level \in Levels, i \in 1..n + 1, j \in 0..n : v[<<level, i, j>>] = u[<<level, i, j>>]
  <2> SUFFICES ASSUME NEW level \in Levels, NEW i \in 1..n + 1, NEW j \in 0..n
               PROVE  v[<<level, i, j>>] = u[<<level, i, j>>]
    OBVIOUS
  <2>1. Depth(level, i, j) < top
    BY <1>1, DepthBelow
  <2> HIDE DEF top, u
  <2>2. AlikeBelow(v, u, n, top)
    BY <1>6 DEF u
  <2> QED BY <2>1, <2>2 DEF AlikeBelow
<1>8. \A level \in Levels, i \in 1..n + 1, j \in 0..n : u[<<level, i, j>>] = w[<<level, i, j>>]
  <2> SUFFICES ASSUME NEW level \in Levels, NEW i \in 1..n + 1, NEW j \in 0..n
               PROVE  u[<<level, i, j>>] = w[<<level, i, j>>]
    OBVIOUS
  <2> HIDE DEF u
  <2>1. AlikeBelow(v, u, n, Depth(level, i, j))
    BY <1>7 DEF AlikeBelow
  <2>2. Derived(v, s, env, level, i, j) = Derived(u, s, env, level, i, j)
    BY <2>1, DerivedSame
  <2>3. w[<<level, i, j>>] = Derived(u, s, env, level, i, j)
    BY DerivationAt
  <2>4. u[<<level, i, j>>] = Derived(v, s, env, level, i, j)
    BY DerivationAt DEF u
  <2> QED BY <2>2, <2>3, <2>4
<1>9. u = [c \in D |-> u[c]] /\ w = [c \in D |-> w[c]]
  BY DEF Derivations
<1> HIDE DEF u, w
<1>10. \A c \in D : u[c] = w[c]
  BY <1>8
<1>11. u = w
  <2> HIDE DEF D
  <2> QED BY <1>9, <1>10
<1> QED BY <1>11 DEF w

-----------------------------------------------------------------------------
(* Conditions: what is read is what the grammar gives.                     *)

\* The parser and the values at hand.
Parser(f, s, env) == f = Readings(f, s, env) /\ \A level \in Levels, i \in 1..Len(s) + 1 : Result(f[<<level, i>>], i, Len(s))
Grammar(v, s, env) == v = Derivations(v, s, env)
\* No name is an operator.
Unclaimed(env) == DOMAIN env \cap ({"end", "!", "(", ")", "&&", "||"} \cup Comparisons) = {}

LEMMA ParserTyped ==
  ASSUME NEW s \in Seq(STRING), NEW a, "end" \notin DOMAIN a, NEW f, f = Readings(f, s, a)
  PROVE  Parser(f, s, a)
<1> DEFINE n == Len(s)
           N == {k \in Nat : Agree(TRUE, f, f, n, k)}
<1>1. n \in Nat /\ Alongside(TRUE, a, a)
  BY DEF Alongside
<1>2. 0 \in N
  <2>1. ASSUME NEW level \in Levels, NEW i \in 1..n + 1 PROVE ~(Order(level, i, n) < 0)
    <3>1. Order(level, i, n) \in Nat
      BY <1>1, OrderBelow
    <3> QED BY <3>1
  <2> QED BY <2>1 DEF Agree
<1>3. ASSUME NEW k \in Nat, k \in N PROVE k + 1 \in N
  <2> DEFINE l == k + 1
  <2>1. Agree(TRUE, Readings(f, s, a), Readings(f, s, a), n, l)
    BY <1>1, <1>3, ReadingsAgree
  <2>2. l \in Nat
    OBVIOUS
  <2> HIDE DEF l
  <2>3. Agree(TRUE, f, f, n, l)
    BY <2>1
  <2>4. l \in N
    BY <2>2, <2>3
  <2> QED BY <2>4 DEF l
<1> HIDE DEF N
<1>4. Nat \subseteq N
  BY <1>2, <1>3, NatInd
<1>5. ASSUME NEW level \in Levels, NEW i \in 1..n + 1 PROVE Result(f[<<level, i>>], i, n)
  <2> DEFINE k == Order(level, i, n) + 1
  <2>1. Order(level, i, n) \in Nat
    BY <1>1, OrderBelow
  <2>2. k \in Nat /\ Order(level, i, n) < k
    BY <2>1
  <2> HIDE DEF k
  <2>3. Agree(TRUE, f, f, n, k)
    BY <1>4, <2>2 DEF N
  <2> QED BY <2>2, <2>3 DEF Agree, Agreed
<1> QED BY <1>5 DEF Parser

\* What the parser reads at a level, and the grammar gives there.
LEMMA ParserAt ==
  ASSUME NEW s \in Seq(STRING), NEW env, NEW f, Parser(f, s, env), NEW level \in Levels, NEW i \in 1..Len(s) + 1
  PROVE  f[<<level, i>>] = Read(f, s, env, level, i) /\ Result(f[<<level, i>>], i, Len(s))
BY ReadingAt DEF Parser

LEMMA GrammarAt ==
  ASSUME NEW s \in Seq(STRING), NEW env, NEW v, Grammar(v, s, env), NEW level \in Levels, NEW i \in 1..Len(s) + 1, NEW j \in 0..Len(s)
  PROVE  v[<<level, i, j>>] = Derived(v, s, env, level, i, j)
BY DerivationAt DEF Grammar

\* What is read from a token has the value the grammar gives the tokens read.
Derives(f, v, level, i, n) ==
  \A j \in i..n : f[<<level, i>>].at = j + 1 => f[<<level, i>>].x \in v[<<level, i, j>>]

LEMMA UnaryDerives ==
  ASSUME NEW s \in Seq(STRING), NEW env, NEW f, Parser(f, s, env), NEW v, Grammar(v, s, env), NEW i \in 1..Len(s) + 1,
         \A level \in Levels, k \in i + 1..Len(s) + 1 : Derives(f, v, level, k, Len(s))
  PROVE  Derives(f, v, "unary", i, Len(s))
<1> DEFINE n == Len(s)
           r == f[<<"unary", i>>]
           t == At(s, i)
<1> SUFFICES ASSUME NEW j \in i..n, r.at = j + 1 PROVE r.x \in v[<<"unary", i, j>>]
  BY DEF Derives
<1>1. n \in Nat /\ "unary" \in Levels /\ "or" \in Levels
  BY DEF Levels
<1>2. r = Unary(f, s, env, i)
  BY <1>1, ParserAt DEF Read
<1>3. j \in 0..n /\ i \in 1..n /\ i \in Int /\ j \in Int /\ r.at # 0
  BY <1>1
<1>4. t = s[i]
  BY <1>3 DEF At
<1>5. v[<<"unary", i, j>>] = Derived(v, s, env, "unary", i, j)
  BY <1>1, <1>3, GrammarAt
<1>6. i + 1 \in i + 1..n + 1 /\ i + 1 \in 1..n + 1
  BY <1>1, <1>3
<1>7. CASE t = "!"
  <2> DEFINE u == f[<<"unary", i + 1>>]
  <2>1. r = IF u.at = 0 THEN Error ELSE [u EXCEPT !.x = Truth(~Truthy(@))]
    BY <1>2, <1>7 DEF Unary
  <2>2. Result(u, i + 1, n) /\ Derives(f, v, "unary", i + 1, n)
    BY <1>1, <1>6, ParserAt
  <2>3. u.at # 0
    BY <1>3, <2>1 DEF Error
  <2>4. u.at = j + 1 /\ r.x = Truth(~Truthy(u.x))
    BY <2>1, <2>2, <2>3 DEF Result
  <2>5. j \in i + 1..n
    BY <1>1, <1>3, <2>2, <2>3, <2>4 DEF Result
  <2>6. u.x \in v[<<"unary", i + 1, j>>]
    BY <2>2, <2>4, <2>5 DEF Derives
  <2>7. Derived(v, s, env, "unary", i, j) = Negated(v[<<"unary", i + 1, j>>])
    <3>1. s[i] = "!" /\ j > i
      BY <1>4, <1>7, <2>5
    <3> QED BY <1>3, <3>1 DEF Derived
  <2> QED BY <1>5, <2>4, <2>6, <2>7 DEF Negated
<1>8. CASE t = "("
  <2> DEFINE u == f[<<"or", i + 1>>]
  <2>1. r = IF u.at # 0 /\ At(s, u.at) = ")" THEN [u EXCEPT !.at = @ + 1] ELSE Error
    BY <1>2, <1>8 DEF Unary, Primary
  <2>2. Result(u, i + 1, n) /\ Derives(f, v, "or", i + 1, n)
    BY <1>1, <1>6, ParserAt
  <2>3. u.at # 0 /\ At(s, u.at) = ")"
    BY <1>3, <2>1 DEF Error
  <2>4. u.at \in i + 2..n + 1 /\ u.at \in Int
    BY <1>1, <1>6, <2>2, <2>3 DEF Result
  <2>5. u.at + 1 = j + 1 /\ r.x = u.x
    BY <2>1, <2>2, <2>3 DEF Result
  <2>6. u.at = j
    BY <1>3, <2>4, <2>5
  <2>7. s[j] = ")" /\ j > i /\ j - 1 \in i + 1..n /\ u.at = (j - 1) + 1
    BY <1>1, <1>3, <2>3, <2>4, <2>6 DEF At
  <2>8. Derived(v, s, env, "unary", i, j) = v[<<"or", i + 1, j - 1>>]
    <3>1. s[i] = "(" /\ s[j] = ")" /\ j > i
      BY <1>4, <1>8, <2>7
    <3> QED BY <1>3, <3>1 DEF Derived
  <2>9. u.x \in v[<<"or", i + 1, j - 1>>]
    BY <2>2, <2>7 DEF Derives
  <2> QED BY <1>5, <2>5, <2>8, <2>9
<1>9. CASE t \notin {"!", "("}
  <2>1. r = Primary(f, s, env, i)
    BY <1>2, <1>9 DEF Unary
  <2>2. r.at = i + 1 /\ r.x \in OneToken(t, env)
    BY <1>3, <1>4, <1>9, <2>1 DEF Primary, OneToken, Error
  <2>3. j = i
    BY <1>3, <2>2
  <2>4. Derived(v, s, env, "unary", i, i) = OneToken(s[i], env)
    BY <1>3 DEF Derived
  <2> QED BY <1>4, <1>5, <2>2, <2>3, <2>4
<1> QED BY <1>7, <1>8, <1>9

\* Past an operator the second operand is read, and the two make a cut.
LEMMA OperandsCut ==
  ASSUME NEW s \in Seq(STRING), NEW env, NEW f, Parser(f, s, env), NEW v, NEW i \in 1..Len(s) + 1,
         \A level \in Levels, k \in i + 1..Len(s) + 1 : Derives(f, v, level, k, Len(s)),
         NEW left \in Levels, NEW right \in Levels, Derives(f, v, left, i, Len(s)),
         NEW ops, "end" \notin ops, f[<<left, i>>].at # 0, At(s, f[<<left, i>>].at) \in ops,
         NEW j \in i..Len(s), f[<<right, f[<<left, i>>].at + 1>>].at = j + 1
  PROVE  <<f[<<left, i>>].x, s[f[<<left, i>>].at], f[<<right, f[<<left, i>>].at + 1>>].x>> \in Cuts(v, s, ops, left, right, i, j)
<1> DEFINE n == Len(s)
           l == f[<<left, i>>]
           k == l.at
           r == f[<<right, k + 1>>]
<1>1. n \in Nat /\ j \in 0..n /\ i \in Int /\ j \in Int
  OBVIOUS
<1>2. Result(l, i, n)
  BY ParserAt
<1>3. k \in i + 1..n + 1 /\ k \in 1..n + 1
  BY <1>1, <1>2 DEF Result
<1>4. k \in 1..n /\ s[k] \in ops
  BY <1>3, AtToken
<1>5. k + 1 \in 1..n + 1 /\ k + 1 \in i + 1..n + 1
  BY <1>1, <1>3, <1>4
<1>6. Result(r, k + 1, n) /\ Derives(f, v, right, k + 1, n)
  BY <1>5, ParserAt
<1>7. j \in k + 1..n /\ k \in i + 1..j - 1 /\ k - 1 \in i..n /\ k = (k - 1) + 1
  <2>1. r.at = j + 1 /\ n \in Nat /\ j \in Int /\ i \in Int /\ k \in i + 1..n + 1 /\ j \in i..n /\ i >= 1
    BY <1>1, <1>3
  <2> HIDE DEF l, k, r, n
  <2>2. r.at = 0 \/ r.at > k + 1
    BY <1>6, <2>1 DEF Result
  <2> QED BY <2>1, <2>2
<1>8. l.x \in v[<<left, i, k - 1>>]
  BY <1>7 DEF Derives
<1>9. r.x \in v[<<right, k + 1, j>>]
  BY <1>6, <1>7 DEF Derives
<1>10. <<l.x, s[k], r.x>> \in CutAt(v, s, left, right, i, j, k)
  BY <1>8, <1>9 DEF CutAt
<1> HIDE DEF l, r, k
<1>11. <<l.x, s[k], r.x>> \in Cuts(v, s, ops, left, right, i, j)
  BY <1>1, <1>4, <1>7, <1>10, InCuts
<1> QED BY <1>11 DEF l, r, k

LEMMA CmpDerives ==
  ASSUME NEW s \in Seq(STRING), NEW env, NEW f, Parser(f, s, env), NEW v, Grammar(v, s, env), NEW i \in 1..Len(s) + 1,
         \A level \in Levels, k \in i + 1..Len(s) + 1 : Derives(f, v, level, k, Len(s)), Derives(f, v, "unary", i, Len(s))
  PROVE  Derives(f, v, "cmp", i, Len(s))
<1> DEFINE n == Len(s)
           q == f[<<"cmp", i>>]
           l == f[<<"unary", i>>]
           r == f[<<"unary", l.at + 1>>]
<1> SUFFICES ASSUME NEW j \in i..n, q.at = j + 1 PROVE q.x \in v[<<"cmp", i, j>>]
  BY DEF Derives
<1>1. {"cmp", "unary"} \subseteq Levels /\ j \in 0..n
  BY DEF Levels
<1>2. q = CompareAt(s, l, r)
  BY <1>1, ParserAt DEF Read, CmpExpr
<1>3. v[<<"cmp", i, j>>] = Derived(v, s, env, "cmp", i, j)
  BY <1>1, GrammarAt
<1>4. CASE l.at = 0 \/ At(s, l.at) \notin Comparisons
  <2>1. q = l
    BY <1>2, <1>4 DEF CompareAt
  <2>2. l.x \in v[<<"unary", i, j>>]
    BY <2>1 DEF Derives
  <2> QED BY <1>3, <2>1, <2>2 DEF Derived
<1>5. CASE l.at # 0 /\ At(s, l.at) \in Comparisons
  <2>1. r.at # 0 /\ q = [at |-> r.at, x |-> Compare(s[l.at], l.x, r.x)]
    BY <1>2, <1>5 DEF CompareAt, Error
  <2>2. r.at = j + 1 /\ "end" \notin Comparisons
    BY <2>1 DEF Comparisons
  <2> DEFINE c == <<l.x, s[l.at], r.x>>
  <2>3. c \in Cuts(v, s, Comparisons, "unary", "unary", i, j)
    BY <1>1, <1>5, <2>2, OperandsCut
  <2>4. q.x = Compare(c[2], c[1], c[3])
    BY <2>1
  <2> HIDE DEF c
  <2> QED BY <1>3, <2>3, <2>4 DEF Derived
<1> QED BY <1>4, <1>5

LEMMA AndDerives ==
  ASSUME NEW s \in Seq(STRING), NEW env, NEW f, Parser(f, s, env), NEW v, Grammar(v, s, env), NEW i \in 1..Len(s) + 1,
         \A level \in Levels, k \in i + 1..Len(s) + 1 : Derives(f, v, level, k, Len(s)), Derives(f, v, "cmp", i, Len(s))
  PROVE  Derives(f, v, "and", i, Len(s))
<1> DEFINE n == Len(s)
           q == f[<<"and", i>>]
           l == f[<<"cmp", i>>]
           r == f[<<"and", l.at + 1>>]
<1> SUFFICES ASSUME NEW j \in i..n, q.at = j + 1 PROVE q.x \in v[<<"and", i, j>>]
  BY DEF Derives
<1>1. {"cmp", "and"} \subseteq Levels /\ j \in 0..n
  BY DEF Levels
<1>2. q = IF l.at = 0 \/ At(s, l.at) # "&&" THEN l
          ELSE IF r.at = 0 THEN Error ELSE [at |-> r.at, x |-> Truth(Truthy(r.x) /\ Truthy(l.x))]
  BY <1>1, ParserAt DEF Read, AndExpr
<1>3. v[<<"and", i, j>>] = Derived(v, s, env, "and", i, j)
  BY <1>1, GrammarAt
<1>4. CASE l.at = 0 \/ At(s, l.at) # "&&"
  <2>1. q = l
    BY <1>2, <1>4
  <2>2. l.x \in v[<<"cmp", i, j>>]
    BY <2>1 DEF Derives
  <2> QED BY <1>3, <2>1, <2>2 DEF Derived
<1>5. CASE l.at # 0 /\ At(s, l.at) = "&&"
  <2>1. r.at # 0 /\ q = [at |-> r.at, x |-> Truth(Truthy(r.x) /\ Truthy(l.x))]
    BY <1>2, <1>5 DEF Error
  <2>2. r.at = j + 1 /\ "end" \notin {"&&"} /\ At(s, l.at) \in {"&&"}
    BY <1>5, <2>1
  <2> DEFINE c == <<l.x, s[l.at], r.x>>
  <2>3. c \in Cuts(v, s, {"&&"}, "cmp", "and", i, j)
    BY <1>1, <1>5, <2>2, OperandsCut
  <2>4. q.x = Truth(Truthy(c[1]) /\ Truthy(c[3]))
    BY <2>1
  <2> HIDE DEF c
  <2> QED BY <1>3, <2>3, <2>4 DEF Derived
<1> QED BY <1>4, <1>5

LEMMA OrDerives ==
  ASSUME NEW s \in Seq(STRING), NEW env, NEW f, Parser(f, s, env), NEW v, Grammar(v, s, env), NEW i \in 1..Len(s) + 1,
         \A level \in Levels, k \in i + 1..Len(s) + 1 : Derives(f, v, level, k, Len(s)), Derives(f, v, "and", i, Len(s))
  PROVE  Derives(f, v, "or", i, Len(s))
<1> DEFINE n == Len(s)
           q == f[<<"or", i>>]
           l == f[<<"and", i>>]
           r == f[<<"or", l.at + 1>>]
<1> SUFFICES ASSUME NEW j \in i..n, q.at = j + 1 PROVE q.x \in v[<<"or", i, j>>]
  BY DEF Derives
<1>1. {"and", "or"} \subseteq Levels /\ j \in 0..n
  BY DEF Levels
<1>2. q = IF l.at = 0 \/ At(s, l.at) # "||" THEN l
          ELSE IF r.at = 0 THEN Error ELSE [at |-> r.at, x |-> Truth(Truthy(r.x) \/ Truthy(l.x))]
  BY <1>1, ParserAt DEF Read, OrExpr
<1>3. v[<<"or", i, j>>] = Derived(v, s, env, "or", i, j)
  BY <1>1, GrammarAt
<1>4. CASE l.at = 0 \/ At(s, l.at) # "||"
  <2>1. q = l
    BY <1>2, <1>4
  <2>2. l.x \in v[<<"and", i, j>>]
    BY <2>1 DEF Derives
  <2> QED BY <1>3, <2>1, <2>2 DEF Derived
<1>5. CASE l.at # 0 /\ At(s, l.at) = "||"
  <2>1. r.at # 0 /\ q = [at |-> r.at, x |-> Truth(Truthy(r.x) \/ Truthy(l.x))]
    BY <1>2, <1>5 DEF Error
  <2>2. r.at = j + 1 /\ "end" \notin {"||"} /\ At(s, l.at) \in {"||"}
    BY <1>5, <2>1
  <2> DEFINE c == <<l.x, s[l.at], r.x>>
  <2>3. c \in Cuts(v, s, {"||"}, "and", "or", i, j)
    BY <1>1, <1>5, <2>2, OperandsCut
  <2>4. q.x = Truth(Truthy(c[1]) \/ Truthy(c[3]))
    BY <2>1
  <2> HIDE DEF c
  <2> QED BY <1>3, <2>3, <2>4 DEF Derived
<1> QED BY <1>4, <1>5

\* From the last token to the first, the parser reads what the grammar gives.
LEMMA ParserDerives ==
  ASSUME NEW s \in Seq(STRING), NEW env, NEW f, Parser(f, s, env), NEW v, Grammar(v, s, env)
  PROVE  \A level \in Levels, i \in 1..Len(s) + 1 : Derives(f, v, level, i, Len(s))
<1> DEFINE n == Len(s)
           N == {m \in Nat : \A level \in Levels, i \in 1..n + 1 : i > n + 1 - m => Derives(f, v, level, i, n)}
<1>1. n \in Nat
  OBVIOUS
<1>2. 0 \in N
  BY <1>1
<1>3. ASSUME NEW m \in Nat, m \in N PROVE m + 1 \in N
  <2>1. ASSUME NEW i \in 1..n + 1, i > n + 1 - (m + 1), NEW level \in Levels PROVE Derives(f, v, level, i, n)
    <3>1. \A other \in Levels, k \in i + 1..n + 1 : Derives(f, v, other, k, n)
      <4> SUFFICES ASSUME NEW other \in Levels, NEW k \in i + 1..n + 1 PROVE Derives(f, v, other, k, n)
        OBVIOUS
      <4>1. k \in 1..n + 1 /\ k > n + 1 - m
        BY <1>1, <2>1
      <4> QED BY <1>3, <4>1
    <3>2. Derives(f, v, "unary", i, n)
      BY <3>1, UnaryDerives
    <3>3. Derives(f, v, "cmp", i, n)
      BY <3>1, <3>2, CmpDerives
    <3>4. Derives(f, v, "and", i, n)
      BY <3>1, <3>3, AndDerives
    <3>5. Derives(f, v, "or", i, n)
      BY <3>1, <3>4, OrDerives
    <3> QED BY <3>2, <3>3, <3>4, <3>5 DEF Levels
  <2> DEFINE l == m + 1
  <2>2. l \in Nat /\ \A level \in Levels, i \in 1..n + 1 : i > n + 1 - l => Derives(f, v, level, i, n)
    BY <2>1
  <2> HIDE DEF l
  <2>3. l \in N
    BY <2>2
  <2> QED BY <2>3 DEF l
<1> HIDE DEF N
<1>4. Nat \subseteq N
  BY <1>2, <1>3, NatInd
<1>5. n + 1 \in N
  BY <1>1, <1>4
<1> QED BY <1>1, <1>5 DEF N

\* What a level goes on reading at, and that it reads whatever the grammar gives a
\* value when no such token is next.
Goes(level) ==
  CASE level = "unary" -> {} [] level = "cmp" -> Comparisons
    [] level = "and" -> Comparisons \cup {"&&"} [] level = "or" -> Comparisons \cup {"&&", "||"}
Completes(f, v, s, level, i, j) ==
  At(s, j + 1) \notin Goes(level) => \A y \in v[<<level, i, j>>] : f[<<level, i>>] = [at |-> j + 1, x |-> y]
Shorter(f, v, s, i, j) ==
  \A level \in Levels, k \in 1..Len(s) + 1, m \in 0..Len(s) : m - k < j - i => Completes(f, v, s, level, k, m)

LEMMA UnaryCompletes ==
  ASSUME NEW s \in Seq(STRING), NEW env, Unclaimed(env), NEW f, Parser(f, s, env), NEW v, Grammar(v, s, env),
         NEW i \in 1..Len(s) + 1, NEW j \in 0..Len(s), Shorter(f, v, s, i, j)
  PROVE  Completes(f, v, s, "unary", i, j)
<1> DEFINE n == Len(s)
<1> SUFFICES ASSUME NEW y \in v[<<"unary", i, j>>] PROVE f[<<"unary", i>>] = [at |-> j + 1, x |-> y]
  BY DEF Completes
<1>1. n \in Nat /\ "unary" \in Levels /\ "or" \in Levels
  BY DEF Levels
<1>2. y \in Derived(v, s, env, "unary", i, j)
  BY <1>1, GrammarAt
<1>3. f[<<"unary", i>>] = Unary(f, s, env, i)
  BY <1>1, ParserAt DEF Read
<1>4. CASE j < i
  BY <1>2, <1>4 DEF Derived
<1>5. CASE j = i
  <2>1. y \in OneToken(s[i], env) /\ At(s, i) = s[i]
    BY <1>1, <1>2, <1>5 DEF Derived, At
  <2>2. s[i] \in {"n", "true", "false"} \cup DOMAIN env /\ s[i] \notin {"!", "("}
    BY <2>1 DEF OneToken, Unclaimed
  <2>3. Unary(f, s, env, i) = Primary(f, s, env, i)
    BY <2>1, <2>2 DEF Unary
  <2>4. Primary(f, s, env, i) = [at |-> i + 1, x |-> y]
    BY <2>1, <2>2 DEF Primary, OneToken
  <2> QED BY <1>3, <1>5, <2>3, <2>4
<1>6. CASE j > i
  <2>1. i \in 1..n /\ j \in 1..n /\ i + 1 \in 1..n + 1 /\ j - 1 \in 0..n /\ At(s, i) = s[i] /\ At(s, j) = s[j]
    BY <1>1, <1>6 DEF At
  <2>2. CASE s[i] = "!"
    <3>1. PICK x \in v[<<"unary", i + 1, j>>] : y = Truth(~Truthy(x))
      <4>1. y \in Negated(v[<<"unary", i + 1, j>>])
        BY <1>2, <1>6, <2>2 DEF Derived
      <4> QED BY <4>1 DEF Negated
    <3>2. Completes(f, v, s, "unary", i + 1, j)
      BY <1>1, <1>6, <2>1 DEF Shorter
    <3>3. f[<<"unary", i + 1>>] = [at |-> j + 1, x |-> x]
      BY <3>2 DEF Completes, Goes
    <3>4. j + 1 # 0
      BY <2>1
    <3> QED BY <1>3, <2>1, <2>2, <3>1, <3>3, <3>4 DEF Unary
  <2>3. CASE s[i] = "(" /\ s[j] = ")"
    <3>1. y \in v[<<"or", i + 1, j - 1>>]
      BY <1>2, <1>6, <2>3 DEF Derived
    <3>2. Completes(f, v, s, "or", i + 1, j - 1)
      BY <1>1, <1>6, <2>1 DEF Shorter
    <3>3. At(s, (j - 1) + 1) \notin Goes("or")
      <4>1. (j - 1) + 1 = j
        OBVIOUS
      <4>2. At(s, j) \notin Goes("or")
        BY <2>1, <2>3 DEF Goes, Comparisons
      <4> QED BY <4>1, <4>2
    <3>4. f[<<"or", i + 1>>] = [at |-> (j - 1) + 1, x |-> y]
      BY <3>1, <3>2, <3>3 DEF Completes
    <3>5. f[<<"or", i + 1>>].at = j /\ f[<<"or", i + 1>>].x = y /\ j # 0
      BY <2>1, <3>4
    <3>6. Primary(f, s, env, i) = [f[<<"or", i + 1>>] EXCEPT !.at = @ + 1]
      BY <2>1, <2>3, <3>5 DEF Primary
    <3>7. Unary(f, s, env, i) = Primary(f, s, env, i)
      BY <2>1, <2>3 DEF Unary
    <3> QED BY <1>3, <2>1, <3>4, <3>6, <3>7
  <2>4. CASE s[i] # "!" /\ ~(s[i] = "(" /\ s[j] = ")")
    BY <1>2, <1>6, <2>4 DEF Derived
  <2> QED BY <2>2, <2>3, <2>4
<1> QED BY <1>4, <1>5, <1>6

\* Of a cut both sides are read in full, one up to the operator and one after it.
InFull(f, s, ops, left, right, i, j, c) ==
  \E k \in 1..Len(s) :
    /\ At(s, k) = s[k] /\ s[k] \in ops /\ c = <<c[1], s[k], c[3]>>
    /\ f[<<left, i>>] = [at |-> k, x |-> c[1]]
    /\ f[<<right, k + 1>>] = [at |-> j + 1, x |-> c[3]]
Apart(s, ops, left, right, j) == ops \cap Goes(left) = {} /\ At(s, j + 1) \notin Goes(right)

LEMMA CutRead ==
  ASSUME NEW s \in Seq(STRING), NEW f, NEW v, NEW i \in 1..Len(s) + 1, NEW j \in 0..Len(s), Shorter(f, v, s, i, j),
         NEW left \in Levels, NEW right \in Levels, NEW ops, Apart(s, ops, left, right, j),
         NEW c \in Cuts(v, s, ops, left, right, i, j)
  PROVE  InFull(f, s, ops, left, right, i, j, c)
<1> DEFINE n == Len(s)
<1>1. n \in Nat /\ i \in Int /\ j \in Int
  OBVIOUS
<1>2. PICK k \in i + 1..j - 1 : s[k] \in ops /\ c \in CutAt(v, s, left, right, i, j, k)
  BY <1>1, InCuts
<1>3. PICK x \in v[<<left, i, k - 1>>], y \in v[<<right, k + 1, j>>] : c = <<x, s[k], y>>
  <2>1. c \in CutAt(v, s, left, right, i, j, k)
    BY <1>2
  <2> QED BY <2>1, InCutAt
<1>4. k \in 1..n /\ k - 1 \in 0..n /\ k + 1 \in 1..n + 1 /\ (k - 1) + 1 = k /\ (k - 1) - i < j - i /\ j - (k + 1) < j - i
  BY <1>1
<1>5. At(s, k) = s[k]
  BY <1>4 DEF At
<1>6. Completes(f, v, s, left, i, k - 1) /\ Completes(f, v, s, right, k + 1, j)
  BY <1>1, <1>4 DEF Shorter
<1>7. At(s, (k - 1) + 1) \notin Goes(left)
  BY <1>2, <1>4, <1>5 DEF Apart
<1>8. f[<<left, i>>] = [at |-> (k - 1) + 1, x |-> x]
  BY <1>6, <1>7 DEF Completes
<1>9. f[<<right, k + 1>>] = [at |-> j + 1, x |-> y]
  BY <1>6 DEF Completes, Apart
<1>10. f[<<left, i>>] = [at |-> k, x |-> x]
  BY <1>4, <1>8
<1>11. c[1] = x /\ c[3] = y
  BY <1>3
<1> QED BY <1>2, <1>3, <1>4, <1>5, <1>9, <1>10, <1>11 DEF InFull

LEMMA CmpCompletes ==
  ASSUME NEW s \in Seq(STRING), NEW env, NEW f, Parser(f, s, env), NEW v, Grammar(v, s, env),
         NEW i \in 1..Len(s) + 1, NEW j \in 0..Len(s), Shorter(f, v, s, i, j), Completes(f, v, s, "unary", i, j)
  PROVE  Completes(f, v, s, "cmp", i, j)
<1> DEFINE n == Len(s)
           l == f[<<"unary", i>>]
           r == f[<<"unary", l.at + 1>>]
<1> SUFFICES ASSUME At(s, j + 1) \notin Goes("cmp"), NEW y \in v[<<"cmp", i, j>>]
             PROVE  f[<<"cmp", i>>] = [at |-> j + 1, x |-> y]
  BY DEF Completes
<1>1. {"cmp", "unary"} \subseteq Levels /\ Comparisons \cap Goes("unary") = {} /\ At(s, j + 1) \notin Goes("unary") /\ At(s, j + 1) \notin Comparisons /\ j + 1 # 0
  BY DEF Levels, Goes
<1>2. y \in Derived(v, s, env, "cmp", i, j)
  BY <1>1, GrammarAt
<1>3. f[<<"cmp", i>>] = CompareAt(s, l, r)
  BY <1>1, ParserAt DEF Read, CmpExpr
<1>4. CASE y \in v[<<"unary", i, j>>]
  <2>1. l = [at |-> j + 1, x |-> y]
    BY <1>1, <1>4 DEF Completes
  <2> HIDE DEF l, r
  <2> QED BY <1>1, <1>3, <2>1 DEF CompareAt
<1>5. ASSUME NEW c \in Cuts(v, s, Comparisons, "unary", "unary", i, j), y = Compare(c[2], c[1], c[3])
      PROVE  f[<<"cmp", i>>] = [at |-> j + 1, x |-> y]
  <2>1. PICK k \in 1..n :
          /\ At(s, k) = s[k] /\ s[k] \in Comparisons /\ c = <<c[1], s[k], c[3]>>
          /\ f[<<"unary", i>>] = [at |-> k, x |-> c[1]]
          /\ f[<<"unary", k + 1>>] = [at |-> j + 1, x |-> c[3]]
    <3>1. "unary" \in Levels /\ "unary" \in Levels
      BY <1>1
    <3>2. Apart(s, Comparisons, "unary", "unary", j)
      BY <1>1 DEF Apart
    <3>3. c \in Cuts(v, s, Comparisons, "unary", "unary", i, j)
      BY <1>5
    <3>4. InFull(f, s, Comparisons, "unary", "unary", i, j, c)
      BY <3>1, <3>2, <3>3, CutRead
    <3> QED BY <3>4 DEF InFull
  <2>2. l.at = k /\ l.x = c[1] /\ r = [at |-> j + 1, x |-> c[3]] /\ c[2] = s[k] /\ k # 0
    BY <2>1
  <2> HIDE DEF l, r
  <2> QED BY <1>1, <1>3, <1>5, <2>1, <2>2 DEF CompareAt
<1> QED BY <1>2, <1>4, <1>5 DEF Derived

LEMMA AndCompletes ==
  ASSUME NEW s \in Seq(STRING), NEW env, NEW f, Parser(f, s, env), NEW v, Grammar(v, s, env),
         NEW i \in 1..Len(s) + 1, NEW j \in 0..Len(s), Shorter(f, v, s, i, j), Completes(f, v, s, "cmp", i, j)
  PROVE  Completes(f, v, s, "and", i, j)
<1> DEFINE n == Len(s)
           l == f[<<"cmp", i>>]
           r == f[<<"and", l.at + 1>>]
<1> SUFFICES ASSUME At(s, j + 1) \notin Goes("and"), NEW y \in v[<<"and", i, j>>]
             PROVE  f[<<"and", i>>] = [at |-> j + 1, x |-> y]
  BY DEF Completes
<1>1. /\ {"cmp", "and"} \subseteq Levels /\ {"&&"} \cap Goes("cmp") = {}
      /\ At(s, j + 1) \notin Goes("cmp") /\ At(s, j + 1) # "&&" /\ j + 1 # 0
  BY DEF Levels, Goes, Comparisons
<1>2. y \in Derived(v, s, env, "and", i, j)
  BY <1>1, GrammarAt
<1>3. f[<<"and", i>>] = IF l.at = 0 \/ At(s, l.at) # "&&" THEN l
                       ELSE IF r.at = 0 THEN Error ELSE [at |-> r.at, x |-> Truth(Truthy(r.x) /\ Truthy(l.x))]
  BY <1>1, ParserAt DEF Read, AndExpr
<1>4. CASE y \in v[<<"cmp", i, j>>]
  <2>1. l = [at |-> j + 1, x |-> y]
    BY <1>1, <1>4 DEF Completes
  <2> HIDE DEF l, r
  <2> QED BY <1>1, <1>3, <2>1
<1>5. ASSUME NEW c \in Cuts(v, s, {"&&"}, "cmp", "and", i, j), y = Truth(Truthy(c[1]) /\ Truthy(c[3]))
      PROVE  f[<<"and", i>>] = [at |-> j + 1, x |-> y]
  <2>1. PICK k \in 1..n :
          /\ At(s, k) = s[k] /\ s[k] \in {"&&"} /\ c = <<c[1], s[k], c[3]>>
          /\ f[<<"cmp", i>>] = [at |-> k, x |-> c[1]]
          /\ f[<<"and", k + 1>>] = [at |-> j + 1, x |-> c[3]]
    <3>1. "cmp" \in Levels /\ "and" \in Levels
      BY <1>1
    <3>2. Apart(s, {"&&"}, "cmp", "and", j)
      BY <1>1 DEF Apart
    <3>3. c \in Cuts(v, s, {"&&"}, "cmp", "and", i, j)
      BY <1>5
    <3>4. InFull(f, s, {"&&"}, "cmp", "and", i, j, c)
      BY <3>1, <3>2, <3>3, CutRead
    <3> QED BY <3>4 DEF InFull
  <2>2. l.at = k /\ l.x = c[1] /\ r = [at |-> j + 1, x |-> c[3]] /\ k # 0
    BY <2>1
  <2>3. Truth(Truthy(c[3]) /\ Truthy(c[1])) = y
    BY <1>5
  <2> HIDE DEF l, r
  <2> QED BY <1>1, <1>3, <2>1, <2>2, <2>3
<1> QED BY <1>2, <1>4, <1>5 DEF Derived

LEMMA OrCompletes ==
  ASSUME NEW s \in Seq(STRING), NEW env, NEW f, Parser(f, s, env), NEW v, Grammar(v, s, env),
         NEW i \in 1..Len(s) + 1, NEW j \in 0..Len(s), Shorter(f, v, s, i, j), Completes(f, v, s, "and", i, j)
  PROVE  Completes(f, v, s, "or", i, j)
<1> DEFINE n == Len(s)
           l == f[<<"and", i>>]
           r == f[<<"or", l.at + 1>>]
<1> SUFFICES ASSUME At(s, j + 1) \notin Goes("or"), NEW y \in v[<<"or", i, j>>]
             PROVE  f[<<"or", i>>] = [at |-> j + 1, x |-> y]
  BY DEF Completes
<1>1. /\ {"and", "or"} \subseteq Levels /\ {"||"} \cap Goes("and") = {}
      /\ At(s, j + 1) \notin Goes("and") /\ At(s, j + 1) # "||" /\ j + 1 # 0
  BY DEF Levels, Goes, Comparisons
<1>2. y \in Derived(v, s, env, "or", i, j)
  BY <1>1, GrammarAt
<1>3. f[<<"or", i>>] = IF l.at = 0 \/ At(s, l.at) # "||" THEN l
                      ELSE IF r.at = 0 THEN Error ELSE [at |-> r.at, x |-> Truth(Truthy(r.x) \/ Truthy(l.x))]
  BY <1>1, ParserAt DEF Read, OrExpr
<1>4. CASE y \in v[<<"and", i, j>>]
  <2>1. l = [at |-> j + 1, x |-> y]
    BY <1>1, <1>4 DEF Completes
  <2> HIDE DEF l, r
  <2> QED BY <1>1, <1>3, <2>1
<1>5. ASSUME NEW c \in Cuts(v, s, {"||"}, "and", "or", i, j), y = Truth(Truthy(c[1]) \/ Truthy(c[3]))
      PROVE  f[<<"or", i>>] = [at |-> j + 1, x |-> y]
  <2>1. PICK k \in 1..n :
          /\ At(s, k) = s[k] /\ s[k] \in {"||"} /\ c = <<c[1], s[k], c[3]>>
          /\ f[<<"and", i>>] = [at |-> k, x |-> c[1]]
          /\ f[<<"or", k + 1>>] = [at |-> j + 1, x |-> c[3]]
    <3>1. "and" \in Levels /\ "or" \in Levels
      BY <1>1
    <3>2. Apart(s, {"||"}, "and", "or", j)
      BY <1>1 DEF Apart
    <3>3. c \in Cuts(v, s, {"||"}, "and", "or", i, j)
      BY <1>5
    <3>4. InFull(f, s, {"||"}, "and", "or", i, j, c)
      BY <3>1, <3>2, <3>3, CutRead
    <3> QED BY <3>4 DEF InFull
  <2>2. l.at = k /\ l.x = c[1] /\ r = [at |-> j + 1, x |-> c[3]] /\ k # 0
    BY <2>1
  <2>3. Truth(Truthy(c[3]) \/ Truthy(c[1])) = y
    BY <1>5
  <2> HIDE DEF l, r
  <2> QED BY <1>1, <1>3, <2>1, <2>2, <2>3
<1> QED BY <1>2, <1>4, <1>5 DEF Derived

\* From few tokens to many, the parser reads all to which the grammar gives a value.
LEMMA ParserCompletes ==
  ASSUME NEW s \in Seq(STRING), NEW env, Unclaimed(env), NEW f, Parser(f, s, env), NEW v, Grammar(v, s, env)
  PROVE  \A level \in Levels, i \in 1..Len(s) + 1, j \in 0..Len(s) : Completes(f, v, s, level, i, j)
<1> DEFINE n == Len(s)
           To(m) == \A level \in Levels, i \in 1..n + 1, j \in 0..n : j - i < m - n - 2 => Completes(f, v, s, level, i, j)
           N == {m \in Nat : To(m)}
<1>1. n \in Nat
  OBVIOUS
<1>2. 0 \in N
  <2>1. \A i \in 1..n + 1, j \in 0..n : ~(j - i < 0 - n - 2)
    BY <1>1
  <2>2. To(0)
    BY <2>1
  <2> QED BY <2>2
<1>3. ASSUME NEW m \in Nat, m \in N PROVE m + 1 \in N
  <2>1. ASSUME NEW i \in 1..n + 1, NEW j \in 0..n, j - i < (m + 1) - n - 2, NEW level \in Levels
        PROVE  Completes(f, v, s, level, i, j)
    <3>1. Shorter(f, v, s, i, j)
      <4> SUFFICES ASSUME NEW other \in Levels, NEW k \in 1..n + 1, NEW p \in 0..n, p - k < j - i
                   PROVE  Completes(f, v, s, other, k, p)
        BY DEF Shorter
      <4>1. p - k < m - n - 2
        BY <1>1, <2>1
      <4> QED BY <1>3, <4>1
    <3>2. Completes(f, v, s, "unary", i, j)
      BY <3>1, UnaryCompletes
    <3>3. Completes(f, v, s, "cmp", i, j)
      BY <3>1, <3>2, CmpCompletes
    <3>4. Completes(f, v, s, "and", i, j)
      BY <3>1, <3>3, AndCompletes
    <3>5. Completes(f, v, s, "or", i, j)
      BY <3>1, <3>4, OrCompletes
    <3> QED BY <3>2, <3>3, <3>4, <3>5 DEF Levels
  <2> DEFINE l == m + 1
  <2>2. l \in Nat /\ To(l)
    BY <2>1
  <2> HIDE DEF l, To
  <2>3. l \in N
    BY <2>2
  <2> QED BY <2>3 DEF l
<1> HIDE DEF N
<1>4. Nat \subseteq N
  BY <1>2, <1>3, NatInd
<1>5. 2 * n + 3 \in N
  BY <1>1, <1>4
<1>6. \A i \in 1..n + 1, j \in 0..n : j - i < (2 * n + 3) - n - 2
  BY <1>1
<1>7. To(2 * n + 3)
  BY <1>5 DEF N
<1> QED BY <1>6, <1>7

LEMMA ConditionOfTokens ==
  ASSUME NEW s \in Seq(STRING)
  PROVE  ConditionReadIn(s)
<1> SUFFICES ASSUME NEW proposal \in Proposals, NEW unit \in Routed, s # <<>>
             PROVE  {Gate(s, proposal, unit)} =
                      IF Values(s, Metrics(proposal, unit)) = {} THEN {"error"}
                      ELSE {IF Truthy(x) THEN "true" ELSE "false" : x \in Values(s, Metrics(proposal, unit))}
  BY DEF ConditionReadIn
<1> DEFINE n == Len(s)
           env == Metrics(proposal, unit)
           f == CHOOSE p : p = Readings(p, s, env)
           v == CHOOSE p : p = Derivations(p, s, env)
           r == f[<<"or", 1>>]
           values == v[<<"or", 1, n>>]
<1>1. Unclaimed(env) /\ "end" \notin DOMAIN env
  BY MetricsNamed DEF ConditionVariables, Unclaimed, Comparisons
<1>2. n \in Nat \ {0} /\ "or" \in Levels /\ 1 \in 1..n + 1 /\ n \in 0..n /\ n \in 1..n
  <2>1. n \in Nat /\ n # 0
    BY EmptySeq
  <2> QED BY <2>1 DEF Levels
<1>3. Parser(f, s, env)
  <2>1. f = Readings(f, s, env)
    BY <1>1, ParserExists
  <2> HIDE DEF f
  <2> QED BY <1>1, <2>1, ParserTyped
<1>4. Grammar(v, s, env)
  BY ValuesExist DEF Grammar
<1>5. Parse(s, env) = r
  BY DEF Parse, Readings
<1>6. Values(s, env) = values
  BY DEF Values, Derivations
<1>7. Gate(s, proposal, unit) = Evaluated(s, env)
  BY DEF Gate
<1> HIDE DEF env, f, v
<1>8. Evaluated(s, env) = IF r.at # n + 1 THEN "error" ELSE IF Truthy(r.x) THEN "true" ELSE "false"
  BY <1>5 DEF Evaluated
<1>9. r.at = n + 1 => r.x \in values
  <2>1. Derives(f, v, "or", 1, n)
    BY <1>2, <1>3, <1>4, ParserDerives
  <2> QED BY <1>2, <2>1 DEF Derives
<1>10. \A x \in values : r = [at |-> n + 1, x |-> x]
  <2>1. Completes(f, v, s, "or", 1, n)
    BY <1>1, <1>2, <1>3, <1>4, ParserCompletes
  <2>2. At(s, n + 1) = "end"
    BY <1>2 DEF At
  <2>3. At(s, n + 1) \notin Goes("or")
    BY <2>2 DEF Goes, Comparisons
  <2> QED BY <2>1, <2>3 DEF Completes
<1> HIDE DEF r, values
<1>11. CASE values = {}
  BY <1>6, <1>7, <1>8, <1>9, <1>11 DEF env
<1>12. CASE values # {}
  <2>1. r.at = n + 1 /\ \A x \in values : x = r.x
    BY <1>10, <1>12
  <2>2. values = {r.x}
    BY <1>9, <2>1
  <2>3. {IF Truthy(x) THEN "true" ELSE "false" : x \in values} = {IF Truthy(r.x) THEN "true" ELSE "false"}
    BY <2>2
  <2> QED BY <1>6, <1>7, <1>8, <1>12, <2>1, <2>3 DEF env
<1> QED BY <1>11, <1>12

-----------------------------------------------------------------------------
(* Comparisons: the panels on screen and the clicks on them.               *)

LabelRow == [variant : Variants, raw : Clickable]

LEMMA TwoPanels ==
  ASSUME NEW v \in Variants
  PROVE  /\ Len(Items) = 2 /\ DOMAIN Items = 1..2 /\ Range(Items) = {Items[1], Items[2]}
         /\ Len(v) = 2 /\ DOMAIN v = 1..2 /\ v # <<>> /\ v[1] # v[2] /\ {v[1], v[2]} = Range(Items)
<1> DEFINE a == Items[1]
           b == Items[2]
<1>1. Items = <<a, b>> /\ a # b /\ Variants = {<<a, b>>, <<b, a>>}
  BY PanelsAssumption
<1> HIDE DEF a, b
<1>2. Len(Items) = 2 /\ DOMAIN Items = 1..2 /\ Items[1] = a /\ Items[2] = b
  BY <1>1
<1>3. Range(Items) = {a, b}
  BY <1>2 DEF Range
<1>4. CASE v = <<a, b>>
  BY <1>1, <1>2, <1>3, <1>4
<1>5. CASE v = <<b, a>>
  BY <1>1, <1>2, <1>3, <1>5
<1> QED BY <1>1, <1>4, <1>5

LEMMA AppendOne ==
  ASSUME NEW x, NEW y
  PROVE  Append(<<>>, x) = <<x>> /\ Append(<<x>>, y) = <<x, y>>
<1> DEFINE S == {x, y}
           one == Append(<<>>, x)
           two == Append(<<x>>, y)
<1>1. <<>> \in Seq(S) /\ <<x>> \in Seq(S) /\ Len(<<>>) = 0 /\ Len(<<x>>) = 1
  OBVIOUS
<1>2. one \in Seq(S) /\ Len(one) = 1 /\ one[1] = x
  BY <1>1, AppendProperties
<1>3. two \in Seq(S) /\ Len(two) = 2 /\ two[1] = x /\ two[2] = y
  BY <1>1, AppendProperties
<1> HIDE DEF one, two, S
<1>4. one = <<x>>
  BY <1>2
<1>5. two = <<x, y>>
  BY <1>3
<1> QED BY <1>4, <1>5 DEF one, two

\* A presentation order stands as it is.
Naming(p, v) ==
  [n \in 0..Len(v) |->
     IF n = 0 THEN <<>> ELSE IF v[n] \in Range(Items) THEN Append(p[n - 1], v[n]) ELSE p[n - 1]]

LEMMA OrderKept ==
  ASSUME NEW v \in Variants
  PROVE  PanelOrder(v) = v
<1> DEFINE p == CHOOSE q : q = Naming(q, v)
           g == [n \in 0..2 |-> IF n = 0 THEN <<>> ELSE IF n = 1 THEN <<v[1]>> ELSE <<v[1], v[2]>>]
<1>1. Len(v) = 2 /\ v # <<>> /\ v = <<v[1], v[2]>> /\ v[1] \in Range(Items) /\ v[2] \in Range(Items) /\ Len(Items) = 2
  BY TwoPanels, PanelsAssumption
<1>2. g = Naming(g, v)
  <2>1. g[0] = <<>> /\ g[1] = <<v[1]>> /\ g[2] = <<v[1], v[2]>>
    OBVIOUS
  <2>2. Append(g[0], v[1]) = g[1] /\ Append(g[1], v[2]) = g[2]
    BY <2>1, AppendOne
  <2> DEFINE h == Naming(g, v)
  <2>3. h[0] = <<>> /\ h[1] = Append(g[0], v[1]) /\ h[2] = Append(g[1], v[2]) /\ h = [n \in 0..2 |-> h[n]]
    BY <1>1 DEF Naming
  <2>4. g = [n \in 0..2 |-> g[n]]
    OBVIOUS
  <2> HIDE DEF g, h
  <2>5. \A n \in 0..2 : g[n] = h[n]
    BY <2>1, <2>2, <2>3
  <2>6. g = h
    BY <2>3, <2>4, <2>5
  <2> QED BY <2>6 DEF h
<1>3. p = Naming(p, v)
  BY <1>2
<1>4. PanelOrder(v) = IF v # <<>> /\ Len(p[Len(v)]) = Len(Items) THEN p[Len(v)] ELSE Items
  BY DEF PanelOrder, Naming
<1> HIDE DEF p
<1>5. p[0] = <<>> /\ p[1] = Append(p[0], v[1]) /\ p[2] = Append(p[1], v[2])
  BY <1>1, <1>3 DEF Naming
<1>6. p[2] = <<v[1], v[2]>>
  BY <1>5, AppendOne
<1> QED BY <1>1, <1>4, <1>6

LEMMA SideShown ==
  ASSUME NEW v \in Variants, NEW raw
  PROVE  LET l == [variant |-> v, raw |-> raw]
         IN  /\ Shown(l) = IF Side(raw) = "first" THEN v[1] ELSE v[2]
             /\ Positional(raw, v) = IF Side(raw) = "neither" THEN raw ELSE Str(Shown(l))
             /\ Shown(l) \in {Items[1], Items[2]}
<1>1. PanelOrder(v) = v /\ v # <<>> /\ Len(v) = 2 /\ Len(Items) = 2 /\ {v[1], v[2]} = {Items[1], Items[2]}
  BY OrderKept, TwoPanels
<1>2. Side(raw) \in {"first", "second", "neither"}
  BY DEF Side
<1> QED BY <1>1, <1>2 DEF Shown, Positional

LEMMA ClickShown ==
  ASSUME NEW l \in LabelRow
  PROVE  /\ l.variant \in Variants
         /\ Shown(l) = IF Side(l.raw) = "first" THEN l.variant[1] ELSE l.variant[2]
         /\ Shown(l) \in {Items[1], Items[2]}
         /\ SideTaken(l) => Value(l) = Str(Shown(l)) /\ Side(l.raw) \in {"first", "second"}
<1>1. l.variant \in Variants /\ l = [variant |-> l.variant, raw |-> l.raw]
  BY DEF LabelRow
<1>2. l.variant # <<>>
  BY <1>1, TwoPanels
<1>3. Value(l) = Positional(l.raw, l.variant)
  BY <1>2 DEF Value, Canonical
<1>4. Side(l.raw) \in {"first", "second", "neither"}
  BY DEF Side
<1> QED BY <1>1, <1>3, <1>4, SideShown DEF SideTaken

LEMMA OptionsShown ==
  ASSUME NEW v \in Variants, NEW x \in Range(Items)
  PROVE  RightOptions(x, v) =
           {o \in Options : IF SideTaken([raw |-> o]) THEN Shown([raw |-> o, variant |-> v]) = x ELSE o = Str(x)}
<1>1. ASSUME NEW o \in Options
      PROVE  Positional(o, v) = Str(x) <=>
               IF SideTaken([raw |-> o]) THEN Shown([raw |-> o, variant |-> v]) = x ELSE o = Str(x)
  <2>1. [raw |-> o, variant |-> v] = [variant |-> v, raw |-> o]
    OBVIOUS
  <2>2. SideTaken([raw |-> o]) <=> Side(o) # "neither"
    BY DEF SideTaken
  <2> DEFINE l == [variant |-> v, raw |-> o]
  <2>3. Positional(o, v) = IF Side(o) = "neither" THEN o ELSE Str(Shown(l))
    BY SideShown
  <2> HIDE DEF l
  <2> QED BY <2>1, <2>2, <2>3 DEF Str, l
<1> QED BY <1>1 DEF RightOptions

\* One value only: it is the most common.
LEMMA OneValue ==
  ASSUME NEW T \in SUBSET Nat, IsFiniteSet(T), T # {}, NEW f, DOMAIN f = T, NEW x, \A i \in T : f[i] = x
  PROVE  MostCommon(f) = x
<1> DEFINE count(i) == Cardinality({j \in DOMAIN f : f[j] = f[i]})
           best == {i \in DOMAIN f : \A j \in DOMAIN f : count(j) <= count(i)}
<1>1. Cardinality(T) \in Nat
  BY FS_CardinalityType
<1>2. \A i \in T : count(i) = Cardinality(T)
  <2> SUFFICES ASSUME NEW i \in T PROVE {j \in DOMAIN f : f[j] = f[i]} = T
    OBVIOUS
  <2> QED OBVIOUS
<1> HIDE DEF count
<1>3. best = T
  <2>1. \A i, j \in T : count(j) <= count(i)
    BY <1>1, <1>2
  <2> QED BY <2>1
<1>4. Min(T) \in T
  BY LeastNumber DEF Min
<1>5. MostCommon(f) = f[Min(best)]
  BY DEF MostCommon, count
<1> HIDE DEF best
<1> QED BY <1>3, <1>4, <1>5

\* The labels under either order, of labels of which there is one at least.
LEMMA HalfUnder ==
  ASSUME NEW ls \in Seq(LabelRow), ls # <<>>, Balanced(ls)
  PROVE  /\ 1 \in DOMAIN ls /\ IsFiniteSet(DOMAIN ls) /\ DOMAIN ls \subseteq Nat /\ DOMAIN ls # {}
         /\ \A v \in Variants : /\ Of(ls, v) \subseteq DOMAIN ls /\ IsFiniteSet(Of(ls, v)) /\ Of(ls, v) # {}
                                /\ Cardinality(Of(ls, v)) \in Nat \ {0}
                                /\ DOMAIN Under(ls, v) = Of(ls, v)
         /\ \A v, w \in Variants : Cardinality(Of(ls, v)) = Cardinality(Of(ls, w))
<1>1. Len(ls) \in Nat \ {0} /\ DOMAIN ls = 1..Len(ls)
  BY EmptySeq
<1>2. IsFiniteSet(DOMAIN ls) /\ 1 \in DOMAIN ls /\ DOMAIN ls \subseteq Nat
  BY <1>1, FS_Interval
<1>3. \A v \in Variants : Of(ls, v) \subseteq DOMAIN ls /\ IsFiniteSet(Of(ls, v)) /\ DOMAIN Under(ls, v) = Of(ls, v)
  BY <1>2, FS_Subset DEF Of, Under
<1>4. \A v, w \in Variants : Cardinality(Of(ls, v)) = Cardinality(Of(ls, w))
  BY DEF Balanced
<1>5. PICK w \in Variants : 1 \in Of(ls, w)
  <2>1. ls[1] \in LabelRow
    BY <1>1
  <2> QED BY <1>2, <2>1 DEF Of, LabelRow
<1>6. Cardinality(Of(ls, w)) # 0
  BY <1>3, <1>5, FS_EmptySet
<1>7. ASSUME NEW v \in Variants PROVE Of(ls, v) # {} /\ Cardinality(Of(ls, v)) \in Nat \ {0}
  <2>1. Cardinality(Of(ls, v)) \in Nat /\ Cardinality(Of(ls, v)) # 0
    BY <1>3, <1>4, <1>6, FS_CardinalityType
  <2> QED BY <2>1, FS_EmptySet
<1> QED BY <1>2, <1>3, <1>4, <1>7

LEMMA VotesCounted ==
  ASSUME NEW ls \in Seq(LabelRow), NEW item
  PROVE  VotesFor(ls, item) \in Nat
<1>1. IsFiniteSet(DOMAIN ls)
  <2>1. DOMAIN ls = 1..Len(ls) /\ Len(ls) \in Nat
    OBVIOUS
  <2> QED BY <2>1, FS_Interval
<1> QED BY <1>1, FS_Subset, FS_CardinalityType DEF VotesFor

\* The item of more votes comes first, of equal ones the first.
LEMMA PairRanked ==
  ASSUME NEW ls \in Seq(LabelRow), NEW w \in 1..2, NEW o \in 1..2, w # o,
         \/ VotesFor(ls, Items[w]) > VotesFor(ls, Items[o])
         \/ VotesFor(ls, Items[w]) = VotesFor(ls, Items[o]) /\ w < o
  PROVE  PreferencePair(ls) = IF VotesFor(ls, Items[w]) = VotesFor(ls, Items[o]) THEN <<>> ELSE <<Items[w], Items[o]>>
<1> DEFINE votes(i) == VotesFor(ls, Items[i])
           before(i) == {j \in DOMAIN Items : votes(j) > votes(i) \/ (votes(j) = votes(i) /\ j < i)}
           ranked(n) == CHOOSE i \in DOMAIN Items : Cardinality(before(i)) = n - 1
<1>1. DOMAIN Items = {w, o}
  <2>1. Items \in Variants
    BY PanelsAssumption
  <2>2. DOMAIN Items = 1..2
    BY <2>1, TwoPanels
  <2> QED BY <2>2
<1>2. votes(w) \in Nat /\ votes(o) \in Nat
  BY VotesCounted
<1>3. PreferencePair(ls) =
        IF votes(ranked(1)) = votes(ranked(2)) THEN <<>> ELSE <<Items[ranked(1)], Items[ranked(2)]>>
  BY DEF PreferencePair
<1>4. votes(w) > votes(o) \/ (votes(w) = votes(o) /\ w < o)
  OBVIOUS
<1> HIDE DEF votes
<1>5. before(w) = {} /\ before(o) = {w}
  BY <1>1, <1>2, <1>4
<1> HIDE DEF before
<1>6. Cardinality(before(w)) = 0 /\ Cardinality(before(o)) = 1
  BY <1>5, FS_EmptySet, FS_Singleton
<1>7. ranked(1) = w /\ ranked(2) = o
  BY <1>1, <1>6
<1> HIDE DEF ranked
<1> QED BY <1>3, <1>7 DEF votes

\* A rater who always means one item.
LEMMA FaithfulToItem ==
  ASSUME NEW ls \in Seq(LabelRow), ls # <<>>, Balanced(ls), OneItem(ls)
  PROVE  Bias(ls)[1] = 0 /\ ~Flipped(ls) /\ PreferencePair(ls)[1] = Shown(ls[1])
<1> DEFINE x == Shown(ls[1])
           N == DOMAIN ls
<1>1. 1 \in N /\ IsFiniteSet(N) /\ N \subseteq Nat /\ N # {} /\ \A i \in N : ls[i] \in LabelRow
  BY HalfUnder
<1>2. \A i \in N : SideTaken(ls[i]) /\ Shown(ls[i]) = x
  BY <1>1 DEF OneItem
<1>3. \A i \in N : Value(ls[i]) = Str(x) /\ Side(ls[i].raw) \in {"first", "second"} /\ ls[i].variant \in Variants
  BY <1>1, <1>2, ClickShown
<1>4. PICK v \in Variants, w \in Variants : Variants = {v, w} /\ v # w /\ v[1] = x /\ v[2] # x /\ w[1] # x /\ w[2] = x
  <2>1. x \in {Items[1], Items[2]}
    BY <1>1, ClickShown
  <2> DEFINE a == Items[1]
             b == Items[2]
  <2>2. a # b /\ Variants = {<<a, b>>, <<b, a>>}
    BY PanelsAssumption
  <2> HIDE DEF x, a, b
  <2>3. CASE x = a
    <3> WITNESS <<a, b>> \in Variants, <<b, a>> \in Variants
    <3> QED BY <2>2, <2>3
  <2>4. CASE x = b
    <3> WITNESS <<b, a>> \in Variants, <<a, b>> \in Variants
    <3> QED BY <2>2, <2>4
  <2> QED BY <2>1, <2>3, <2>4 DEF a, b
<1> HIDE DEF x
<1>5. Bias(ls)[1] = 0
  <2>1. \A i \in N : /\ ls[i].variant # <<>> /\ (Side(ls[i].raw) = "first" <=> ls[i].variant = v)
                     /\ (Side(ls[i].raw) = "second" <=> ls[i].variant = w)
    <3> SUFFICES ASSUME NEW i \in N
                 PROVE  /\ ls[i].variant # <<>> /\ (Side(ls[i].raw) = "first" <=> ls[i].variant = v)
                        /\ (Side(ls[i].raw) = "second" <=> ls[i].variant = w)
      OBVIOUS
    <3>1. x = IF Side(ls[i].raw) = "first" THEN ls[i].variant[1] ELSE ls[i].variant[2]
      BY <1>1, <1>2, ClickShown
    <3>2. ls[i].variant # <<>>
      BY <1>3, TwoPanels
    <3> QED BY <1>3, <1>4, <3>1, <3>2
  <2>2. Clicks(ls, "first") = Cardinality(Of(ls, v))
    <3>1. {i \in DOMAIN ls : ls[i].variant # <<>> /\ Side(ls[i].raw) = "first"} = Of(ls, v)
      BY <2>1 DEF Of
    <3> QED BY <3>1 DEF Clicks
  <2>3. Clicks(ls, "second") = Cardinality(Of(ls, w))
    <3>1. {i \in DOMAIN ls : ls[i].variant # <<>> /\ Side(ls[i].raw) = "second"} = Of(ls, w)
      BY <2>1 DEF Of
    <3> QED BY <3>1 DEF Clicks
  <2>4. Cardinality(Of(ls, v)) \in Nat \ {0} /\ Cardinality(Of(ls, v)) = Cardinality(Of(ls, w))
    BY HalfUnder
  <2> DEFINE m == Clicks(ls, "first")
  <2>5. m \in Nat \ {0} /\ Clicks(ls, "second") = m
    BY <2>2, <2>3, <2>4
  <2> HIDE DEF m
  <2>6. Bias(ls) = <<m - m, m + m>>
    BY <2>5 DEF Bias, m
  <2>7. m - m = 0
    BY <2>5
  <2> QED BY <2>6, <2>7
<1>6. ~Flipped(ls)
  <2>1. ASSUME NEW u \in Variants PROVE Of(ls, u) # {} /\ MostCommon(Under(ls, u)) = Str(x)
    <3>1. Of(ls, u) \subseteq N /\ IsFiniteSet(Of(ls, u)) /\ Of(ls, u) # {} /\ DOMAIN Under(ls, u) = Of(ls, u)
      BY HalfUnder
    <3>2. \A i \in Of(ls, u) : Under(ls, u)[i] = Str(x)
      BY <1>3, <3>1 DEF Under
    <3>3. Of(ls, u) \in SUBSET Nat
      BY <1>1, <3>1
    <3> HIDE DEF N
    <3> QED BY <3>1, <3>2, <3>3, OneValue
  <2> DEFINE winners == {MostCommon(Under(ls, u)) : u \in {p \in Variants : Of(ls, p) # {}}}
  <2>2. winners = {Str(x)}
    BY <1>4, <2>1
  <2>3. Cardinality(winners) = 1
    BY <2>2, FS_Singleton
  <2> HIDE DEF winners
  <2> QED BY <2>3 DEF Flipped, winners
<1>7. PreferencePair(ls)[1] = x
  <2>1. PICK k \in 1..2, o \in 1..2 : k # o /\ Items[k] = x /\ Items[o] # x
    BY <1>1, ClickShown, PanelsAssumption DEF x
  <2>2. VotesFor(ls, Items[k]) = Cardinality(N)
    <3>1. {i \in DOMAIN ls : Value(ls[i]) = Str(Items[k])} = N
      BY <1>3, <2>1
    <3> QED BY <3>1 DEF VotesFor
  <2>3. VotesFor(ls, Items[o]) = 0
    <3>1. Str(Items[o]) # Str(x)
      BY <2>1 DEF Str
    <3>2. {i \in DOMAIN ls : Value(ls[i]) = Str(Items[o])} = {}
      BY <1>3, <3>1
    <3> QED BY <3>2, FS_EmptySet DEF VotesFor
  <2>4. Cardinality(N) \in Nat /\ Cardinality(N) # 0
    BY <1>1, FS_CardinalityType, FS_EmptySet
  <2>5. VotesFor(ls, Items[k]) > VotesFor(ls, Items[o])
    BY <2>2, <2>3, <2>4
  <2>6. PreferencePair(ls) = IF VotesFor(ls, Items[k]) = VotesFor(ls, Items[o]) THEN <<>> ELSE <<Items[k], Items[o]>>
    BY <2>1, <2>5, PairRanked
  <2>7. PreferencePair(ls) = <<Items[k], Items[o]>>
    BY <2>2, <2>3, <2>4, <2>6
  <2> QED BY <2>1, <2>7
<1> QED BY <1>5, <1>6, <1>7 DEF x

\* A rater who always means one side.
LEMMA FaithfulToSide ==
  ASSUME NEW ls \in Seq(LabelRow), ls # <<>>, Balanced(ls), OneSide(ls)
  PROVE  Bias(ls)[1] = Bias(ls)[2] /\ Flipped(ls) /\ PreferencePair(ls) = <<>>
<1> DEFINE side == Side(ls[1].raw)
           N == DOMAIN ls
           k == IF side = "first" THEN 1 ELSE 2
<1>1. 1 \in N /\ IsFiniteSet(N) /\ N \subseteq Nat /\ N # {} /\ \A i \in N : ls[i] \in LabelRow
  BY HalfUnder
<1>2. \A i \in N : SideTaken(ls[i]) /\ Side(ls[i].raw) = side
  BY <1>1 DEF OneSide
<1>3. side \in {"first", "second"} /\ k \in 1..2
  BY <1>1, <1>2, ClickShown
<1>4. \A i \in N : Value(ls[i]) = Str(ls[i].variant[k]) /\ ls[i].variant \in Variants /\ ls[i].variant # <<>>
  <2> SUFFICES ASSUME NEW i \in N
               PROVE  Value(ls[i]) = Str(ls[i].variant[k]) /\ ls[i].variant \in Variants /\ ls[i].variant # <<>>
    OBVIOUS
  <2>1. ls[i] \in LabelRow /\ SideTaken(ls[i]) /\ Side(ls[i].raw) = side
    BY <1>1, <1>2
  <2>2. ls[i].variant \in Variants /\ Value(ls[i]) = Str(Shown(ls[i]))
        /\ Shown(ls[i]) = IF Side(ls[i].raw) = "first" THEN ls[i].variant[1] ELSE ls[i].variant[2]
    BY <2>1, ClickShown
  <2>3. ls[i].variant # <<>>
    BY <2>2, TwoPanels
  <2> QED BY <2>1, <2>2, <2>3
<1>5. PICK v \in Variants, w \in Variants : Variants = {v, w} /\ v[k] = Items[1] /\ w[k] = Items[2] /\ Items[1] # Items[2]
  <2> DEFINE a == Items[1]
             b == Items[2]
  <2>1. a # b /\ Variants = {<<a, b>>, <<b, a>>}
    BY PanelsAssumption
  <2> HIDE DEF k, a, b
  <2>2. CASE k = 1
    <3> WITNESS <<a, b>> \in Variants, <<b, a>> \in Variants
    <3> QED BY <2>1, <2>2 DEF a, b
  <2>3. CASE k = 2
    <3> WITNESS <<b, a>> \in Variants, <<a, b>> \in Variants
    <3> QED BY <2>1, <2>3 DEF a, b
  <2> QED BY <1>3, <2>2, <2>3
<1> HIDE DEF k
<1>6. Bias(ls)[1] = Bias(ls)[2]
  <2>1. Cardinality(N) \in Nat /\ Cardinality(N) # 0
    BY <1>1, FS_CardinalityType, FS_EmptySet
  <2>2. ASSUME NEW s \in {"first", "second"} PROVE Clicks(ls, s) = IF s = side THEN Cardinality(N) ELSE 0
    <3>1. {i \in DOMAIN ls : ls[i].variant # <<>> /\ Side(ls[i].raw) = s} = IF s = side THEN N ELSE {}
      BY <1>2, <1>4
    <3> QED BY <3>1, FS_EmptySet DEF Clicks
  <2> DEFINE m == Cardinality(N)
  <2>3. \/ Clicks(ls, "first") = m /\ Clicks(ls, "second") = 0
        \/ Clicks(ls, "first") = 0 /\ Clicks(ls, "second") = m
    BY <1>3, <2>2
  <2> HIDE DEF m, side
  <2>4. Bias(ls) = <<m, m>>
    <3>1. m \in Nat \ {0}
      BY <2>1 DEF m
    <3>2. m - 0 = m /\ m + 0 = m /\ 0 + m = m /\ ~(0 >= m) /\ m >= 0 /\ m # 0
      BY <3>1
    <3> QED BY <2>3, <3>2 DEF Bias
  <2> QED BY <2>4
<1>7. Flipped(ls)
  <2>1. ASSUME NEW u \in Variants PROVE Of(ls, u) # {} /\ MostCommon(Under(ls, u)) = Str(u[k])
    <3>1. Of(ls, u) \subseteq N /\ IsFiniteSet(Of(ls, u)) /\ Of(ls, u) # {} /\ DOMAIN Under(ls, u) = Of(ls, u)
      BY HalfUnder
    <3>2. \A i \in Of(ls, u) : Under(ls, u)[i] = Str(u[k])
      BY <1>4, <3>1 DEF Under, Of
    <3>3. Of(ls, u) \in SUBSET Nat
      BY <1>1, <3>1
    <3> HIDE DEF N
    <3> QED BY <3>1, <3>2, <3>3, OneValue
  <2> DEFINE winners == {MostCommon(Under(ls, u)) : u \in {p \in Variants : Of(ls, p) # {}}}
  <2>2. winners = {Str(Items[1]), Str(Items[2])}
    BY <1>5, <2>1
  <2>3. Str(Items[1]) # Str(Items[2])
    BY <1>5 DEF Str
  <2>4. Cardinality(winners) = 2
    <3> DEFINE one == {Str(Items[1])}
               other == Str(Items[2])
    <3>1. IsFiniteSet(one) /\ Cardinality(one) = 1
      BY FS_Singleton
    <3>2. winners = one \cup {other} /\ other \notin one
      BY <2>2, <2>3
    <3> HIDE DEF winners, one, other
    <3>3. Cardinality(one \cup {other}) = Cardinality(one) + 1
      BY <3>1, <3>2, FS_AddElement
    <3> QED BY <3>1, <3>2, <3>3
  <2> HIDE DEF winners
  <2> QED BY <2>4 DEF Flipped, winners
<1>8. PreferencePair(ls) = <<>>
  <2>1. VotesFor(ls, Items[1]) = Cardinality(Of(ls, v))
    <3>1. {i \in DOMAIN ls : Value(ls[i]) = Str(Items[1])} = Of(ls, v)
      BY <1>4, <1>5 DEF Of, Str
    <3> QED BY <3>1 DEF VotesFor
  <2>2. VotesFor(ls, Items[2]) = Cardinality(Of(ls, w))
    <3>1. {i \in DOMAIN ls : Value(ls[i]) = Str(Items[2])} = Of(ls, w)
      BY <1>4, <1>5 DEF Of, Str
    <3> QED BY <3>1 DEF VotesFor
  <2>3. VotesFor(ls, Items[1]) = VotesFor(ls, Items[2])
    BY <2>1, <2>2, HalfUnder
  <2>4. PreferencePair(ls) = IF VotesFor(ls, Items[1]) = VotesFor(ls, Items[2]) THEN <<>> ELSE <<Items[1], Items[2]>>
    BY <2>3, PairRanked
  <2> QED BY <2>3, <2>4
<1> QED BY <1>6, <1>7, <1>8

LEMMA SidesOfLabels ==
  ASSUME NEW ls \in Seq(LabelRow)
  PROVE  SidesToldOf(ls)
<1>1. \A i \in DOMAIN ls : SideTaken(ls[i]) => Value(ls[i]) = Str(Shown(ls[i]))
  <2>1. \A i \in DOMAIN ls : ls[i] \in LabelRow
    OBVIOUS
  <2> QED BY <2>1, ClickShown
<1> QED BY <1>1, OptionsShown, FaithfulToItem, FaithfulToSide DEF SidesToldOf

-----------------------------------------------------------------------------
(* Episodes: the loop over the log.                                        *)

Event == [slot : Leasable, by : DOMAIN KindOf, kind : Terminal \cup {"leased", "resumed"}]
Flows ==
  [open : SUBSET (Leasable \X DOMAIN KindOf), skipped : [DOMAIN KindOf -> Leasable \cup {"none"}],
   closed : [Terminal -> Nat], timed : Nat, reserved : Nat]

LEMMA OpenedParts ==
  ASSUME NEW flow \in Flows, NEW e \in Event
  PROVE  /\ Opened(flow, e) \in Flows
         /\ Opened(flow, e).open = flow.open \cup {<<e.slot, e.by>>}
         /\ Opened(flow, e).skipped = [flow.skipped EXCEPT ![e.by] = "none"]
         /\ Opened(flow, e).closed = flow.closed
         /\ Opened(flow, e).timed = flow.timed
         /\ Opened(flow, e).reserved = IF flow.skipped[e.by] = e.slot THEN flow.reserved + 1 ELSE flow.reserved
<1> DEFINE o == flow.open \cup {<<e.slot, e.by>>}
           r == IF flow.skipped[e.by] = e.slot THEN flow.reserved + 1 ELSE flow.reserved
           k == [flow.skipped EXCEPT ![e.by] = "none"]
<1>1. /\ o \in SUBSET (Leasable \X DOMAIN KindOf)
      /\ r \in Nat
      /\ k \in [DOMAIN KindOf -> Leasable \cup {"none"}]
  BY DEF Flows, Event
<1>2. Opened(flow, e) = [flow EXCEPT !.open = o, !.reserved = r, !.skipped = k]
  <2>1. Opened(flow, e) = [flow EXCEPT !.open = o, !.reserved = r, !.skipped[e.by] = "none"]
    BY DEF Opened
  <2> HIDE DEF o, r
  <2> QED BY <2>1
<1> HIDE DEF o, r, k
<1> DEFINE f == [flow EXCEPT !.open = o, !.reserved = r, !.skipped = k]
<1>3. f \in Flows
  BY <1>1 DEF Flows
<1>4. f.open = o /\ f.skipped = k /\ f.closed = flow.closed /\ f.timed = flow.timed /\ f.reserved = r
  BY DEF Flows
<1> HIDE DEF f
<1>5. Opened(flow, e) = f
  BY <1>2 DEF f
<1> QED BY <1>3, <1>4, <1>5 DEF o, r, k

LEMMA ClosedParts ==
  ASSUME NEW flow \in Flows, NEW e \in Event, e.kind \in Terminal
  PROVE  /\ Closed(flow, e) \in Flows
         /\ Closed(flow, e).open = flow.open \ {<<e.slot, e.by>>}
         /\ Closed(flow, e).skipped = [flow.skipped EXCEPT ![e.by] = IF e.kind = "skipped" THEN e.slot ELSE @]
         /\ Closed(flow, e).closed = [flow.closed EXCEPT ![e.kind] = @ + 1]
         /\ Closed(flow, e).timed = IF <<e.slot, e.by>> \in flow.open THEN flow.timed + 1 ELSE flow.timed
         /\ Closed(flow, e).reserved = flow.reserved
<1> DEFINE o == flow.open \ {<<e.slot, e.by>>}
           d == IF <<e.slot, e.by>> \in flow.open THEN flow.timed + 1 ELSE flow.timed
           c == [flow.closed EXCEPT ![e.kind] = @ + 1]
           x == IF e.kind = "skipped" THEN e.slot ELSE flow.skipped[e.by]
           k == [flow.skipped EXCEPT ![e.by] = x]
<1>1. /\ o \in SUBSET (Leasable \X DOMAIN KindOf)
      /\ d \in Nat
      /\ c \in [Terminal -> Nat]
      /\ k \in [DOMAIN KindOf -> Leasable \cup {"none"}]
  BY DEF Flows, Event
<1>2. Closed(flow, e) = [flow EXCEPT !.open = o, !.timed = d, !.closed = c, !.skipped = k]
  <2>1. Closed(flow, e) = [flow EXCEPT !.open = o, !.timed = d, !.closed[e.kind] = @ + 1, !.skipped[e.by] = x]
    BY DEF Closed
  <2> HIDE DEF o, d, x
  <2> QED BY <2>1
<1> HIDE DEF o, d, c, k
<1> DEFINE f == [flow EXCEPT !.open = o, !.timed = d, !.closed = c, !.skipped = k]
<1>3. f \in Flows
  BY <1>1 DEF Flows
<1>4. f.open = o /\ f.skipped = k /\ f.closed = c /\ f.timed = d /\ f.reserved = flow.reserved
  BY DEF Flows
<1> HIDE DEF f
<1>5. Closed(flow, e) = f
  BY <1>2 DEF f
<1> QED BY <1>3, <1>4, <1>5 DEF o, d, c, k

LEMMA FollowedType ==
  ASSUME NEW flow \in Flows, NEW e \in Event
  PROVE  Followed(flow, e) \in Flows
<1>1. CASE e.kind = "leased"
  BY <1>1, OpenedParts DEF Followed, Terminal
<1>2. CASE e.kind = "resumed"
  BY <1>2 DEF Followed, Flows, Event, Terminal
<1>3. CASE e.kind \in Terminal
  BY <1>3, ClosedParts DEF Followed, Terminal
<1> QED BY <1>1, <1>2, <1>3 DEF Event

\* What the loop does of one event, and the states it goes through.
Turn(flow, e, kind) == IF KindOf[e.by] = kind THEN Followed(flow, e) ELSE flow
Loop(f, log, kind) == f = [n \in 0..Len(log) |-> IF n = 0 THEN NoFlow ELSE Turn(f[n - 1], log[n], kind)]

LEMMA TurnType ==
  ASSUME NEW flow \in Flows, NEW e \in Event, NEW kind
  PROVE  Turn(flow, e, kind) \in Flows
BY FollowedType DEF Turn

LEMMA NoFlowType == NoFlow \in Flows
BY DEF NoFlow, Flows

LEMMA LoopExists ==
  ASSUME NEW log \in Seq(Event), NEW kind
  PROVE  \E f : Loop(f, log, kind)
<1> DEFINE L == Len(log)
           h == [n \in 1..L |-> [x \in Flows |-> Turn(x, log[n], kind)]]
<1>1. L \in Nat /\ \A n \in 1..L : log[n] \in Event
  OBVIOUS
<1>2. Steps(Flows, L, h)
  <2>1. \A n \in 1..L : [x \in Flows |-> Turn(x, log[n], kind)] \in [Flows -> Flows]
    BY <1>1, TurnType
  <2> QED BY <2>1 DEF Steps
<1>3. Iterated(Flows, NoFlow, L, h)
  <2> HIDE DEF h
  <2> QED BY <1>1, <1>2, NoFlowType, Iteration
<1>4. PICK f \in [0..L -> Flows] : f[0] = NoFlow /\ \A n \in 1..L : f[n] = h[n][f[n - 1]]
  BY <1>3 DEF Iterated
<1>5. \A n \in 1..L : f[n] = Turn(f[n - 1], log[n], kind)
  <2> SUFFICES ASSUME NEW n \in 1..L PROVE f[n] = Turn(f[n - 1], log[n], kind)
    OBVIOUS
  <2>1. n - 1 \in 0..L
    BY <1>1
  <2>2. f[n - 1] \in Flows
    BY <2>1
  <2> QED BY <1>4, <2>2
<1>6. \A n \in 0..L : f[n] = IF n = 0 THEN NoFlow ELSE Turn(f[n - 1], log[n], kind)
  BY <1>1, <1>4, <1>5
<1>7. f = [n \in 0..L |-> f[n]]
  OBVIOUS
<1>8. f = [n \in 0..L |-> IF n = 0 THEN NoFlow ELSE Turn(f[n - 1], log[n], kind)]
  BY <1>6, <1>7
<1>9. Loop(f, log, kind)
  BY <1>8 DEF Loop
<1> QED BY <1>9

LEMMA LoopAt ==
  ASSUME NEW log \in Seq(Event), NEW kind, NEW f, Loop(f, log, kind)
  PROVE  f[0] = NoFlow /\ \A n \in 1..Len(log) : f[n] = Turn(f[n - 1], log[n], kind)
<1>1. 0 \in 0..Len(log) /\ \A n \in 1..Len(log) : n \in 0..Len(log) /\ n # 0
  OBVIOUS
<1>2. \A n \in 0..Len(log) : f[n] = IF n = 0 THEN NoFlow ELSE Turn(f[n - 1], log[n], kind)
  BY DEF Loop
<1> QED BY <1>1, <1>2

LEMMA LoopType ==
  ASSUME NEW log \in Seq(Event), NEW kind, NEW f, Loop(f, log, kind), NEW n \in 0..Len(log)
  PROVE  f[n] \in Flows
<1> DEFINE S == {k \in Nat : k <= Len(log) => f[k] \in Flows}
<1>1. f[0] = NoFlow /\ \A k \in 1..Len(log) : f[k] = Turn(f[k - 1], log[k], kind)
  BY LoopAt
<1>2. 0 \in S
  BY <1>1, NoFlowType
<1>3. ASSUME NEW k \in Nat, k \in S PROVE k + 1 \in S
  <2> SUFFICES ASSUME k + 1 <= Len(log) PROVE f[k + 1] \in Flows
    OBVIOUS
  <2>1. k + 1 \in 1..Len(log) /\ (k + 1) - 1 = k /\ log[k + 1] \in Event /\ f[k] \in Flows
    BY <1>3
  <2> QED BY <1>1, <2>1, TurnType
<1> HIDE DEF S
<1>4. Nat \subseteq S
  BY <1>2, <1>3, NatInd
<1> QED BY <1>4 DEF S

LEMMA FlowOfLoop ==
  ASSUME NEW log \in Seq(Event), NEW kind
  PROVE  \E f : Loop(f, log, kind) /\ TaskFlow(log, kind) = f[Len(log)]
<1> DEFINE f == CHOOSE g : Loop(g, log, kind)
<1>1. Loop(f, log, kind)
  BY LoopExists
<1>2. TaskFlow(log, kind) = f[Len(log)]
  BY DEF TaskFlow, Loop, Turn
<1> QED BY <1>1, <1>2

LEMMA FlowType ==
  ASSUME NEW log \in Seq(Event), NEW kind
  PROVE  TaskFlow(log, kind) \in Flows
<1>1. PICK f : Loop(f, log, kind) /\ TaskFlow(log, kind) = f[Len(log)]
  BY FlowOfLoop
<1>2. Len(log) \in 0..Len(log)
  OBVIOUS
<1> QED BY <1>1, <1>2, LoopType

\* The log so far decides the state so far; one more event is one more turn.
LEMMA FlowAppend ==
  ASSUME NEW log \in Seq(Event), NEW e \in Event, NEW kind
  PROVE  TaskFlow(Append(log, e), kind) = Turn(TaskFlow(log, kind), e, kind)
<1> DEFINE more == Append(log, e)
<1>1. more \in Seq(Event) /\ Len(more) = Len(log) + 1 /\ Len(log) \in Nat
  BY AppendProperties
<1>2. more[Len(log) + 1] = e /\ \A n \in 1..Len(log) : more[n] = log[n]
  BY AppendProperties
<1>3. PICK f : Loop(f, log, kind) /\ TaskFlow(log, kind) = f[Len(log)]
  BY FlowOfLoop
<1> HIDE DEF more
<1>4. PICK g : Loop(g, more, kind) /\ TaskFlow(more, kind) = g[Len(more)]
  BY <1>1, FlowOfLoop
<1>5. /\ f[0] = NoFlow /\ \A n \in 1..Len(log) : f[n] = Turn(f[n - 1], log[n], kind)
      /\ g[0] = NoFlow /\ \A n \in 1..Len(more) : g[n] = Turn(g[n - 1], more[n], kind)
  BY <1>1, <1>3, <1>4, LoopAt
<1> DEFINE S == {n \in Nat : n <= Len(log) => f[n] = g[n]}
<1>6. 0 \in S
  BY <1>5
<1>7. ASSUME NEW n \in Nat, n \in S PROVE n + 1 \in S
  <2> SUFFICES ASSUME n + 1 <= Len(log) PROVE f[n + 1] = g[n + 1]
    OBVIOUS
  <2>1. n + 1 \in 1..Len(log) /\ n + 1 \in 1..Len(more) /\ (n + 1) - 1 = n /\ f[n] = g[n]
    BY <1>1, <1>7
  <2> QED BY <1>2, <1>5, <2>1
<1> HIDE DEF S
<1>8. Nat \subseteq S
  BY <1>6, <1>7, NatInd
<1>9. f[Len(log)] = g[Len(log)]
  BY <1>1, <1>8 DEF S
<1>10. Len(more) \in 1..Len(more) /\ Len(more) - 1 = Len(log)
  BY <1>1
<1>11. g[Len(more)] = Turn(g[Len(log)], e, kind)
  BY <1>1, <1>2, <1>5, <1>10
<1> QED BY <1>3, <1>4, <1>9, <1>11 DEF more

LEMMA FlowEmpty ==
  ASSUME NEW kind
  PROVE  TaskFlow(<<>>, kind) = NoFlow
<1>1. <<>> \in Seq(Event) /\ Len(<<>>) = 0
  OBVIOUS
<1>2. PICK f : Loop(f, <<>>, kind) /\ TaskFlow(<<>>, kind) = f[Len(<<>>)]
  BY <1>1, FlowOfLoop
<1> QED BY <1>1, <1>2, LoopAt

-----------------------------------------------------------------------------
(* Episodes: one more event in the log.                                    *)

LEMMA MinOfMore ==
  ASSUME NEW n \in Nat, NEW T \in SUBSET (1..n), T # {}
  PROVE  Min(T \cup {n + 1}) = Min(T) /\ Min(T) \in T
<1>1. PICK k \in T : \A j \in T : k <= j
  BY LeastNumber
<1>2. Min(T) = k
  <2>1. \A x \in T : (\A j \in T : x <= j) => x = k
    BY <1>1
  <2> QED BY <1>1, <2>1 DEF Min
<1>3. Min(T \cup {n + 1}) = k
  <2>1. k \in T \cup {n + 1} /\ \A j \in T \cup {n + 1} : k <= j
    BY <1>1
  <2>2. \A x \in T \cup {n + 1} : (\A j \in T \cup {n + 1} : x <= j) => x = k
    BY <2>1
  <2> QED BY <2>1, <2>2 DEF Min
<1> QED BY <1>2, <1>3

LEMMA EventAppend ==
  ASSUME NEW log \in Seq(Event), NEW e \in Event
  PROVE  /\ Len(log) \in Nat /\ DOMAIN log = 1..Len(log)
         /\ DOMAIN Append(log, e) = 1..Len(log) + 1
         /\ \A i \in 1..Len(log) : Append(log, e)[i] = log[i] /\ log[i] \in Event
         /\ Append(log, e)[Len(log) + 1] = e
BY AppendProperties

LEMMA LoggedFinite ==
  ASSUME NEW log \in Seq(Event), NEW kind, NEW kinds
  PROVE  IsFiniteSet(Logged(log, kind, kinds)) /\ Logged(log, kind, kinds) \subseteq 1..Len(log)
<1>1. Logged(log, kind, kinds) \subseteq 1..Len(log)
  BY DEF Logged
<1>2. IsFiniteSet(1..Len(log))
  BY FS_Interval
<1> QED BY <1>1, <1>2, FS_Subset

LEMMA LoggedAppend ==
  ASSUME NEW log \in Seq(Event), NEW e \in Event, NEW kind, NEW kinds
  PROVE  Cardinality(Logged(Append(log, e), kind, kinds)) =
           IF e.kind \in kinds /\ KindOf[e.by] = kind
           THEN Cardinality(Logged(log, kind, kinds)) + 1 ELSE Cardinality(Logged(log, kind, kinds))
<1> DEFINE n == Len(log)
           more == Append(log, e)
           L == Logged(log, kind, kinds)
<1>1. n \in Nat /\ DOMAIN log = 1..n /\ DOMAIN more = 1..n + 1
  BY EventAppend
<1>2. (\A i \in 1..n : more[i] = log[i]) /\ more[n + 1] = e
  BY EventAppend
<1>3. \A i \in 1..n + 1 : i \in 1..n \/ i = n + 1
  BY <1>1
<1>4. n + 1 \notin 1..n /\ n + 1 \in 1..n + 1 /\ 1..n \subseteq 1..n + 1
  BY <1>1
<1>5. Logged(more, kind, kinds) = IF e.kind \in kinds /\ KindOf[e.by] = kind THEN L \cup {n + 1} ELSE L
  <2> HIDE DEF more, n
  <2> QED BY <1>1, <1>2, <1>3, <1>4 DEF Logged
<1>6. IsFiniteSet(L) /\ n + 1 \notin L
  BY <1>4, LoggedFinite
<1>7. Cardinality(L \cup {n + 1}) = Cardinality(L) + 1
  <2> HIDE DEF L
  <2> QED BY <1>6, FS_AddElement
<1> QED BY <1>5, <1>7

LEMMA LeasesAppend ==
  ASSUME NEW log \in Seq(Event), NEW e \in Event
  PROVE  /\ \A i \in 1..Len(log) :
              NextLeases(Append(log, e), i) =
                IF e.kind = "leased" /\ e.by = log[i].by THEN NextLeases(log, i) \cup {Len(log) + 1} ELSE NextLeases(log, i)
         /\ NextLeases(Append(log, e), Len(log) + 1) = {}
         /\ \A i \in 1..Len(log) : NextLeases(log, i) \subseteq 1..Len(log)
<1> DEFINE n == Len(log)
           more == Append(log, e)
<1>1. n \in Nat /\ DOMAIN log = 1..n /\ DOMAIN more = 1..n + 1
  BY EventAppend
<1>2. (\A i \in 1..n : more[i] = log[i]) /\ more[n + 1] = e
  BY EventAppend
<1> HIDE DEF more, n
<1>3. ASSUME NEW i \in 1..n
      PROVE  NextLeases(more, i) = IF e.kind = "leased" /\ e.by = log[i].by THEN NextLeases(log, i) \cup {n + 1} ELSE NextLeases(log, i)
  <2>1. \A j \in 1..n + 1 : j \in 1..n \/ j = n + 1
    BY <1>1
  <2>2. n + 1 > i /\ 1..n \subseteq 1..n + 1 /\ n + 1 \in 1..n + 1 /\ n + 1 \notin 1..n
    BY <1>1
  <2> QED BY <1>1, <1>2, <2>1, <2>2 DEF NextLeases
<1>4. NextLeases(more, n + 1) = {}
  <2>1. \A j \in 1..n + 1 : ~(j > n + 1)
    BY <1>1
  <2> QED BY <1>1, <2>1 DEF NextLeases
<1>5. \A i \in 1..n : NextLeases(log, i) \subseteq 1..n
  BY <1>1 DEF NextLeases
<1> QED BY <1>3, <1>4, <1>5 DEF more, n

\* A skip after which its rater was given no lease yet.
Unserved(log, r) == {i \in DOMAIN log : log[i].kind = "skipped" /\ log[i].by = r /\ NextLeases(log, i) = {}}

LEMMA UnservedAppend ==
  ASSUME NEW log \in Seq(Event), NEW e \in Event, NEW r
  PROVE  Unserved(Append(log, e), r) =
           IF e.kind = "leased" /\ e.by = r THEN {}
           ELSE IF e.kind = "skipped" /\ e.by = r THEN Unserved(log, r) \cup {Len(log) + 1} ELSE Unserved(log, r)
<1> DEFINE n == Len(log)
           more == Append(log, e)
<1>1. n \in Nat /\ DOMAIN log = 1..n /\ DOMAIN more = 1..n + 1
  BY EventAppend
<1>2. (\A i \in 1..n : more[i] = log[i]) /\ more[n + 1] = e
  BY EventAppend
<1>3. /\ \A i \in 1..n : NextLeases(more, i) = IF e.kind = "leased" /\ e.by = log[i].by THEN NextLeases(log, i) \cup {n + 1} ELSE NextLeases(log, i)
      /\ NextLeases(more, n + 1) = {}
  BY LeasesAppend
<1> HIDE DEF more, n
<1>4. \A j \in 1..n + 1 : j \in 1..n \/ j = n + 1
  BY <1>1
<1>5. 1..n \subseteq 1..n + 1 /\ n + 1 \in 1..n + 1 /\ n + 1 \notin 1..n
  BY <1>1
<1>6. ASSUME NEW i PROVE i \in Unserved(more, r) <=>
        \/ i \in 1..n /\ log[i].kind = "skipped" /\ log[i].by = r /\ NextLeases(log, i) = {} /\ ~(e.kind = "leased" /\ e.by = r)
        \/ i = n + 1 /\ e.kind = "skipped" /\ e.by = r
  BY <1>1, <1>2, <1>3, <1>4, <1>5 DEF Unserved
<1>7. ASSUME NEW i PROVE i \in Unserved(log, r) <=> i \in 1..n /\ log[i].kind = "skipped" /\ log[i].by = r /\ NextLeases(log, i) = {}
  BY <1>1 DEF Unserved
<1>8. ~(e.kind = "leased" /\ e.kind = "skipped")
  OBVIOUS
<1>9. Unserved(more, r) =
           IF e.kind = "leased" /\ e.by = r THEN {}
           ELSE IF e.kind = "skipped" /\ e.by = r THEN Unserved(log, r) \cup {n + 1} ELSE Unserved(log, r)
  BY <1>6, <1>7, <1>8
<1> QED BY <1>9 DEF more, n

LEMMA ServedAppend ==
  ASSUME NEW log \in Seq(Event), NEW e \in Event, NEW kind
  PROVE  ServedAgain(Append(log, e), kind) =
           IF e.kind = "leased" /\ KindOf[e.by] = kind
           THEN ServedAgain(log, kind) \cup {i \in Unserved(log, e.by) : log[i].slot = e.slot} ELSE ServedAgain(log, kind)
<1> DEFINE n == Len(log)
           more == Append(log, e)
           served(l, i) == NextLeases(l, i) # {} /\ l[Min(NextLeases(l, i))].slot = l[i].slot
<1>1. n \in Nat /\ DOMAIN log = 1..n /\ DOMAIN more = 1..n + 1
  BY EventAppend
<1>2. (\A i \in 1..n : more[i] = log[i]) /\ more[n + 1] = e
  BY EventAppend
<1>3. /\ \A i \in 1..n : NextLeases(more, i) = IF e.kind = "leased" /\ e.by = log[i].by THEN NextLeases(log, i) \cup {n + 1} ELSE NextLeases(log, i)
      /\ NextLeases(more, n + 1) = {}
      /\ \A i \in 1..n : NextLeases(log, i) \subseteq 1..n
  BY LeasesAppend
<1> HIDE DEF more, n
<1>4. ASSUME NEW i \in 1..n
      PROVE  served(more, i) <=> served(log, i) \/ (NextLeases(log, i) = {} /\ e.kind = "leased" /\ e.by = log[i].by /\ log[i].slot = e.slot)
  <2> DEFINE T == NextLeases(log, i)
  <2>1. T \subseteq 1..n
    BY <1>3
  <2>2. CASE ~(e.kind = "leased" /\ e.by = log[i].by)
    <3>1. NextLeases(more, i) = T
      BY <1>3, <2>2
    <3>2. T # {} => Min(T) \in 1..n
      <4> HIDE DEF T
      <4> QED BY <1>1, <2>1, MinOfMore
    <3>3. T # {} => more[Min(T)] = log[Min(T)]
      BY <1>2, <3>2
    <3> HIDE DEF T
    <3>4. (T # {} /\ more[Min(T)].slot = more[i].slot) <=> (T # {} /\ log[Min(T)].slot = log[i].slot)
      BY <1>2, <3>3
    <3> QED BY <2>2, <3>1, <3>4 DEF T
  <2>3. CASE e.kind = "leased" /\ e.by = log[i].by /\ T = {}
    <3>1. NextLeases(more, i) = {n + 1}
      BY <1>3, <2>3
    <3>2. Min({n + 1}) = n + 1
      BY <1>1 DEF Min
    <3> QED BY <1>2, <2>3, <3>1, <3>2
  <2>4. CASE e.kind = "leased" /\ e.by = log[i].by /\ T # {}
    <3>1. NextLeases(more, i) = T \cup {n + 1}
      BY <1>3, <2>4
    <3>2. Min(T \cup {n + 1}) = Min(T) /\ Min(T) \in 1..n
      <4> HIDE DEF T
      <4> QED BY <1>1, <2>1, <2>4, MinOfMore
    <3> QED BY <1>2, <2>4, <3>1, <3>2
  <2> QED BY <2>2, <2>3, <2>4
<1>5. \A j \in 1..n + 1 : j \in 1..n \/ j = n + 1
  BY <1>1
<1>6. 1..n \subseteq 1..n + 1 /\ n + 1 \in 1..n + 1 /\ n + 1 \notin 1..n
  BY <1>1
<1>7. ASSUME NEW i PROVE i \in ServedAgain(log, kind) <=> i \in 1..n /\ log[i].kind = "skipped" /\ KindOf[log[i].by] = kind /\ served(log, i)
  BY <1>1 DEF ServedAgain, Logged
<1>8. ASSUME NEW i PROVE i \in ServedAgain(more, kind) <=> i \in 1..n + 1 /\ more[i].kind = "skipped" /\ KindOf[more[i].by] = kind /\ served(more, i)
  BY <1>1 DEF ServedAgain, Logged
<1>9. ~served(more, n + 1)
  BY <1>3
<1>10. ASSUME NEW i PROVE i \in Unserved(log, e.by) <=> i \in 1..n /\ log[i].kind = "skipped" /\ log[i].by = e.by /\ NextLeases(log, i) = {}
  BY <1>1 DEF Unserved
<1> HIDE DEF served
<1>11. ASSUME NEW i PROVE i \in ServedAgain(more, kind) <=>
         \/ i \in ServedAgain(log, kind)
         \/ e.kind = "leased" /\ KindOf[e.by] = kind /\ i \in Unserved(log, e.by) /\ log[i].slot = e.slot
  <2>1. CASE i \in 1..n
    BY <1>2, <1>4, <1>6, <1>7, <1>8, <1>10, <2>1
  <2>2. CASE i \notin 1..n
    BY <1>5, <1>7, <1>8, <1>9, <1>10, <2>2
  <2> QED BY <2>1, <2>2
<1>12. ServedAgain(more, kind) =
         IF e.kind = "leased" /\ KindOf[e.by] = kind
         THEN ServedAgain(log, kind) \cup {i \in Unserved(log, e.by) : log[i].slot = e.slot} ELSE ServedAgain(log, kind)
  BY <1>11
<1> QED BY <1>12 DEF more

LEMMA ServedFinite ==
  ASSUME NEW log \in Seq(Event), NEW kind
  PROVE  /\ IsFiniteSet(ServedAgain(log, kind))
         /\ \A r : ServedAgain(log, kind) \cap Unserved(log, r) = {}
<1>1. ServedAgain(log, kind) \subseteq Logged(log, kind, {"skipped"})
  BY DEF ServedAgain
<1>2. IsFiniteSet(ServedAgain(log, kind))
  BY <1>1, LoggedFinite, FS_Subset
<1>3. \A r : ServedAgain(log, kind) \cap Unserved(log, r) = {}
  BY DEF ServedAgain, Unserved
<1> QED BY <1>2, <1>3

-----------------------------------------------------------------------------
(* Episodes: what the loop knows is what the log and the slots say.        *)

Holders == [Leasable -> DOMAIN KindOf \cup {"open", "filled"}]

LEMMA HoldingIs ==
  ASSUME NEW held \in Holders, NEW kind
  PROVE  Holding(held, kind) = {p \in Leasable \X DOMAIN KindOf : held[p[1]] = p[2] /\ KindOf[p[2]] = kind}
BY DEF Holding, Holders

LEMMA HoldingChanged ==
  ASSUME NEW held \in Holders, NEW kind, NEW s \in Leasable, NEW to \in DOMAIN KindOf \cup {"open", "filled"}
  PROVE  /\ [held EXCEPT ![s] = to] \in Holders
         /\ Holding([held EXCEPT ![s] = to], kind) =
              (Holding(held, kind) \ {<<s, held[s]>>}) \cup
              (IF to \in DOMAIN KindOf /\ KindOf[to] = kind THEN {<<s, to>>} ELSE {})
<1> DEFINE next == [held EXCEPT ![s] = to]
<1>1. next \in Holders
  BY DEF Holders
<1>2. next[s] = to /\ \A t \in Leasable : t # s => next[t] = held[t]
  BY DEF Holders
<1> HIDE DEF next
<1>3. Holding(next, kind) = (Holding(held, kind) \ {<<s, held[s]>>}) \cup
              (IF to \in DOMAIN KindOf /\ KindOf[to] = kind THEN {<<s, to>>} ELSE {})
  <2>1. ASSUME NEW t \in Leasable, NEW r \in DOMAIN KindOf
        PROVE  <<t, r>> \in Holding(next, kind) <=>
                 \/ <<t, r>> \in Holding(held, kind) /\ <<t, r>> # <<s, held[s]>>
                 \/ to \in DOMAIN KindOf /\ KindOf[to] = kind /\ <<t, r>> = <<s, to>>
    BY <1>1, <1>2, HoldingIs
  <2>2. Holding(next, kind) \subseteq Leasable \X DOMAIN KindOf /\ Holding(held, kind) \subseteq Leasable \X DOMAIN KindOf
    BY <1>1, HoldingIs
  <2> QED BY <2>1, <2>2
<1> QED BY <1>1, <1>3 DEF next

LEMMA HoldingLess ==
  ASSUME NEW held \in Holders, NEW kind, NEW s \in Leasable, NEW to \in DOMAIN KindOf \cup {"open", "filled"},
         to \notin DOMAIN KindOf \/ KindOf[to] # kind
  PROVE  Holding([held EXCEPT ![s] = to], kind) = Holding(held, kind) \ {<<s, held[s]>>}
<1> DEFINE gain == IF to \in DOMAIN KindOf /\ KindOf[to] = kind THEN {<<s, to>>} ELSE {}
<1>1. gain = {}
  OBVIOUS
<1>2. Holding([held EXCEPT ![s] = to], kind) = (Holding(held, kind) \ {<<s, held[s]>>}) \cup gain
  BY HoldingChanged
<1> HIDE DEF gain
<1> QED BY <1>1, <1>2

\* What the loop has counted and remembers of one kind of rater.
Counted(flow, log, kind) ==
  /\ \A t \in Terminal : flow.closed[t] = Cardinality(Logged(log, kind, {t}))
  /\ flow.timed = Cardinality(Logged(log, kind, Terminal))
  /\ flow.reserved = Cardinality(ServedAgain(log, kind))
Remembered(flow, log, held, kind) ==
  \A r \in DOMAIN KindOf : KindOf[r] = kind =>
    \/ Unserved(log, r) = {} /\ flow.skipped[r] = "none"
    \/ \E i \in 1..Len(log) : Unserved(log, r) = {i} /\ flow.skipped[r] = log[i].slot /\ \A s \in Leasable : held[s] # r
OpenAre(flow, held, voided, kind) ==
  Holding(held, kind) \subseteq flow.open /\ flow.open \subseteq Holding(held, kind) \cup voided
Tells(flow, log, held, voided, kind) ==
  Counted(flow, log, kind) /\ Remembered(flow, log, held, kind) /\ OpenAre(flow, held, voided, kind)

OneEach(held) == \A s, t \in Leasable : held[s] = held[t] /\ held[s] \in DOMAIN KindOf => s = t

\* An event of the other kind.
LEMMA TellsElsewhere ==
  ASSUME NEW log \in Seq(Event), NEW held \in Holders, NEW voided, NEW kind, NEW flow \in Flows, Tells(flow, log, held, voided, kind),
         NEW e \in Event, KindOf[e.by] # kind, held[e.slot] \in {"open", e.by}, NEW to \in {"open", "filled", e.by}
  PROVE  Tells(flow, Append(log, e), [held EXCEPT ![e.slot] = to], voided, kind)
<1> DEFINE more == Append(log, e)
           next == [held EXCEPT ![e.slot] = to]
<1>1. Counted(flow, more, kind)
  BY LoggedAppend, ServedAppend DEF Counted, Tells
<1>2. e.slot \in Leasable /\ e.by \in DOMAIN KindOf /\ to \in DOMAIN KindOf \cup {"open", "filled"}
  BY DEF Event
<1>3. OpenAre(flow, next, voided, kind)
  <2>1. <<e.slot, held[e.slot]>> \notin Holding(held, kind)
    BY <1>2, HoldingIs, LogAssumption
  <2>2. to \notin DOMAIN KindOf \/ KindOf[to] # kind
    BY LogAssumption
  <2>3. Holding(next, kind) = Holding(held, kind) \ {<<e.slot, held[e.slot]>>}
    BY <1>2, <2>2, HoldingLess
  <2> HIDE DEF next
  <2> QED BY <2>1, <2>3 DEF OpenAre, Tells
<1>4. Remembered(flow, more, next, kind)
  <2> SUFFICES ASSUME NEW r \in DOMAIN KindOf, KindOf[r] = kind
               PROVE  \/ Unserved(more, r) = {} /\ flow.skipped[r] = "none"
                      \/ \E i \in 1..Len(more) : Unserved(more, r) = {i} /\ flow.skipped[r] = more[i].slot /\ \A s \in Leasable : next[s] # r
    BY DEF Remembered
  <2>1. r # e.by /\ r # to
    BY LogAssumption
  <2>2. Unserved(more, r) = Unserved(log, r)
    BY <2>1, UnservedAppend
  <2>3. \A s \in Leasable : held[s] # r => next[s] # r
    BY <2>1 DEF Holders
  <2>4. 1..Len(log) \subseteq 1..Len(more) /\ \A i \in 1..Len(log) : more[i] = log[i]
    BY EventAppend, AppendProperties
  <2> HIDE DEF more, next
  <2> QED BY <2>2, <2>3, <2>4 DEF Remembered, Tells
<1> QED BY <1>1, <1>3, <1>4 DEF Tells

\* A resumed lease.
LEMMA TellsResumed ==
  ASSUME NEW log \in Seq(Event), NEW held \in Holders, NEW voided, NEW kind, NEW flow \in Flows, Tells(flow, log, held, voided, kind),
         NEW e \in Event, e.kind = "resumed", KindOf[e.by] = kind, held[e.slot] = e.by
  PROVE  Tells(Followed(flow, e), Append(log, e), [held EXCEPT ![e.slot] = e.by], voided, kind)
<1> DEFINE more == Append(log, e)
           next == [held EXCEPT ![e.slot] = e.by]
<1>1. e.slot \in Leasable /\ e.by \in DOMAIN KindOf
  BY DEF Event
<1>2. next = held
  BY <1>1 DEF Holders
<1>3. <<e.slot, e.by>> \in Holding(held, kind)
  BY <1>1, HoldingIs
<1>4. Followed(flow, e) = flow
  <2>1. flow.open \cup {<<e.slot, e.by>>} = flow.open
    BY <1>3 DEF OpenAre, Tells
  <2>2. Followed(flow, e) = [flow EXCEPT !.open = flow.open \cup {<<e.slot, e.by>>}]
    BY DEF Followed, Terminal
  <2> QED BY <2>1, <2>2 DEF Flows
<1>5. Counted(flow, more, kind)
  BY LoggedAppend, ServedAppend DEF Counted, Tells, Terminal
<1>6. Remembered(flow, more, held, kind)
  <2> SUFFICES ASSUME NEW r \in DOMAIN KindOf, KindOf[r] = kind
               PROVE  \/ Unserved(more, r) = {} /\ flow.skipped[r] = "none"
                      \/ \E i \in 1..Len(more) : Unserved(more, r) = {i} /\ flow.skipped[r] = more[i].slot /\ \A s \in Leasable : held[s] # r
    BY DEF Remembered
  <2>1. Unserved(more, r) = Unserved(log, r)
    BY UnservedAppend
  <2>2. 1..Len(log) \subseteq 1..Len(more) /\ \A i \in 1..Len(log) : more[i] = log[i]
    BY EventAppend, AppendProperties
  <2> HIDE DEF more, next
  <2> QED BY <2>1, <2>2 DEF Remembered, Tells
<1> QED BY <1>2, <1>4, <1>5, <1>6 DEF Tells

\* A slot leased to a rater who has none.
LEMMA TellsLeased ==
  ASSUME NEW log \in Seq(Event), NEW held \in Holders, NEW voided, NEW kind, NEW flow \in Flows, Tells(flow, log, held, voided, kind),
         NEW e \in Event, e.kind = "leased", KindOf[e.by] = kind, held[e.slot] = "open"
  PROVE  Tells(Followed(flow, e), Append(log, e), [held EXCEPT ![e.slot] = e.by], voided, kind)
<1> DEFINE more == Append(log, e)
           next == [held EXCEPT ![e.slot] = e.by]
           after == Opened(flow, e)
           again == {i \in Unserved(log, e.by) : log[i].slot = e.slot}
<1>1. e.slot \in Leasable /\ e.by \in DOMAIN KindOf
  BY DEF Event
<1>2. Followed(flow, e) = after
  BY DEF Followed, Terminal
<1>3. /\ after.open = flow.open \cup {<<e.slot, e.by>>}
      /\ after.skipped = [flow.skipped EXCEPT ![e.by] = "none"]
      /\ after.closed = flow.closed
      /\ after.timed = flow.timed
      /\ after.reserved = IF flow.skipped[e.by] = e.slot THEN flow.reserved + 1 ELSE flow.reserved
  BY OpenedParts
<1> HIDE DEF after
<1>4. OpenAre(after, next, voided, kind)
  <2>1. <<e.slot, held[e.slot]>> \notin Holding(held, kind)
    BY <1>1, HoldingIs, LogAssumption
  <2>2. Holding(next, kind) = Holding(held, kind) \cup {<<e.slot, e.by>>}
    BY <1>1, <2>1, HoldingChanged
  <2> HIDE DEF next
  <2> QED BY <1>3, <2>2 DEF OpenAre, Tells
<1>5. after.reserved = Cardinality(ServedAgain(more, kind))
  <2>1. ServedAgain(more, kind) = ServedAgain(log, kind) \cup again
    BY ServedAppend
  <2>2. flow.reserved = Cardinality(ServedAgain(log, kind)) /\ IsFiniteSet(ServedAgain(log, kind))
    BY ServedFinite DEF Tells, Counted
  <2>3. CASE Unserved(log, e.by) = {} /\ flow.skipped[e.by] = "none"
    <3>1. again = {} /\ flow.skipped[e.by] # e.slot
      BY <1>1, <2>3, LogAssumption
    <3> QED BY <1>3, <2>1, <2>2, <3>1
  <2>4. ASSUME NEW i \in 1..Len(log), Unserved(log, e.by) = {i}, flow.skipped[e.by] = log[i].slot
        PROVE  after.reserved = Cardinality(ServedAgain(more, kind))
    <3>1. i \notin ServedAgain(log, kind)
      BY <2>4, ServedFinite
    <3>2. CASE log[i].slot = e.slot
      <4>1. again = {i}
        BY <2>4, <3>2
      <4>2. Cardinality(ServedAgain(log, kind) \cup {i}) = Cardinality(ServedAgain(log, kind)) + 1
        BY <2>2, <3>1, FS_AddElement
      <4> QED BY <1>3, <2>1, <2>2, <2>4, <3>2, <4>1, <4>2
    <3>3. CASE log[i].slot # e.slot
      <4>1. again = {}
        BY <2>4, <3>3
      <4> QED BY <1>3, <2>1, <2>2, <2>4, <3>3, <4>1
    <3> QED BY <3>2, <3>3
  <2> QED BY <1>1, <2>3, <2>4 DEF Tells, Remembered
<1>6. Counted(after, more, kind)
  <2>1. \A t \in Terminal : Cardinality(Logged(more, kind, {t})) = Cardinality(Logged(log, kind, {t}))
    BY LoggedAppend DEF Terminal
  <2>2. Cardinality(Logged(more, kind, Terminal)) = Cardinality(Logged(log, kind, Terminal))
    BY LoggedAppend DEF Terminal
  <2> HIDE DEF more
  <2> QED BY <1>3, <1>5, <2>1, <2>2 DEF Counted, Tells
<1>7. Remembered(after, more, next, kind)
  <2> SUFFICES ASSUME NEW r \in DOMAIN KindOf, KindOf[r] = kind
               PROVE  \/ Unserved(more, r) = {} /\ after.skipped[r] = "none"
                      \/ \E i \in 1..Len(more) : Unserved(more, r) = {i} /\ after.skipped[r] = more[i].slot /\ \A s \in Leasable : next[s] # r
    BY DEF Remembered
  <2>1. CASE r = e.by
    <3>1. Unserved(more, r) = {}
      BY <2>1, UnservedAppend
    <3>2. after.skipped[r] = "none"
      BY <1>3, <2>1 DEF Flows
    <3> QED BY <3>1, <3>2
  <2>2. CASE r # e.by
    <3>1. Unserved(more, r) = Unserved(log, r) /\ after.skipped[r] = flow.skipped[r]
      BY <1>3, <2>2, UnservedAppend DEF Flows
    <3>2. \A s \in Leasable : held[s] # r => next[s] # r
      BY <2>2 DEF Holders
    <3>3. 1..Len(log) \subseteq 1..Len(more) /\ \A i \in 1..Len(log) : more[i] = log[i]
      BY EventAppend, AppendProperties
    <3> HIDE DEF more, next
    <3> QED BY <3>1, <3>2, <3>3 DEF Remembered, Tells
  <2> QED BY <2>1, <2>2
<1> QED BY <1>2, <1>4, <1>6, <1>7 DEF Tells

\* The end of a lease.
LEMMA TellsEnded ==
  ASSUME NEW log \in Seq(Event), NEW held \in Holders, NEW voided, NEW kind, NEW flow \in Flows, Tells(flow, log, held, voided, kind),
         NEW e \in Event, e.kind \in Terminal, KindOf[e.by] = kind, held[e.slot] = e.by, OneEach(held), NEW to \in {"open", "filled"}
  PROVE  Tells(Followed(flow, e), Append(log, e), [held EXCEPT ![e.slot] = to], voided, kind)
<1> DEFINE more == Append(log, e)
           next == [held EXCEPT ![e.slot] = to]
           after == Closed(flow, e)
<1>1. e.slot \in Leasable /\ e.by \in DOMAIN KindOf /\ e.kind \notin {"leased", "resumed"}
  BY DEF Event, Terminal
<1>2. Followed(flow, e) = after
  BY <1>1 DEF Followed
<1>3. /\ after.open = flow.open \ {<<e.slot, e.by>>}
      /\ after.skipped = [flow.skipped EXCEPT ![e.by] = IF e.kind = "skipped" THEN e.slot ELSE @]
      /\ after.closed = [flow.closed EXCEPT ![e.kind] = @ + 1]
      /\ after.timed = IF <<e.slot, e.by>> \in flow.open THEN flow.timed + 1 ELSE flow.timed
      /\ after.reserved = flow.reserved
  BY ClosedParts
<1> HIDE DEF after
<1>4. <<e.slot, e.by>> \in flow.open
  BY <1>1, HoldingIs DEF Tells, OpenAre
<1>5. OpenAre(after, next, voided, kind)
  <2>1. to \notin DOMAIN KindOf
    BY LogAssumption
  <2>2. Holding(next, kind) = Holding(held, kind) \ {<<e.slot, held[e.slot]>>}
    BY <1>1, <2>1, HoldingLess
  <2> HIDE DEF next
  <2> QED BY <1>3, <2>2 DEF OpenAre, Tells
<1>6. Counted(after, more, kind)
  <2>1. ASSUME NEW t \in Terminal PROVE after.closed[t] = Cardinality(Logged(more, kind, {t}))
    <3>1. flow.closed[t] = Cardinality(Logged(log, kind, {t}))
      BY DEF Tells, Counted
    <3>2. Cardinality(Logged(more, kind, {t})) = IF e.kind = t THEN Cardinality(Logged(log, kind, {t})) + 1 ELSE Cardinality(Logged(log, kind, {t}))
      BY LoggedAppend
    <3>3. after.closed[t] = IF e.kind = t THEN flow.closed[t] + 1 ELSE flow.closed[t]
      BY <1>3 DEF Flows
    <3> QED BY <3>1, <3>2, <3>3
  <2>2. after.timed = Cardinality(Logged(more, kind, Terminal))
    <3>1. Cardinality(Logged(more, kind, Terminal)) = Cardinality(Logged(log, kind, Terminal)) + 1
      BY LoggedAppend
    <3> QED BY <1>3, <1>4, <3>1 DEF Tells, Counted
  <2>3. after.reserved = Cardinality(ServedAgain(more, kind))
    BY <1>1, <1>3, ServedAppend DEF Tells, Counted
  <2> QED BY <2>1, <2>2, <2>3 DEF Counted
<1>7. Remembered(after, more, next, kind)
  <2> SUFFICES ASSUME NEW r \in DOMAIN KindOf, KindOf[r] = kind
               PROVE  \/ Unserved(more, r) = {} /\ after.skipped[r] = "none"
                      \/ \E i \in 1..Len(more) : Unserved(more, r) = {i} /\ after.skipped[r] = more[i].slot /\ \A s \in Leasable : next[s] # r
    BY DEF Remembered
  <2>1. Len(more) = Len(log) + 1 /\ Len(log) \in Nat /\ more[Len(log) + 1] = e /\ \A i \in 1..Len(log) : more[i] = log[i]
    BY EventAppend, AppendProperties
  <2>2. 1..Len(log) \subseteq 1..Len(more) /\ Len(log) + 1 \in 1..Len(more)
    BY <2>1
  <2>3. to # r /\ \A s \in Leasable : next[s] = r => held[s] = r /\ s # e.slot
    BY <1>1, LogAssumption DEF Holders
  <2>4. CASE r = e.by
    <3>1. Unserved(log, r) = {} /\ flow.skipped[r] = "none"
      BY <1>1, <2>4 DEF Tells, Remembered
    <3>2. \A s \in Leasable : next[s] # r
      BY <1>1, <2>3, <2>4 DEF OneEach
    <3>3. Unserved(more, r) = IF e.kind = "skipped" THEN {Len(log) + 1} ELSE {}
      BY <1>1, <2>4, <3>1, UnservedAppend
    <3>4. after.skipped[r] = IF e.kind = "skipped" THEN e.slot ELSE "none"
      BY <1>3, <2>4, <3>1 DEF Flows
    <3> HIDE DEF more, next
    <3> QED BY <2>1, <2>2, <3>2, <3>3, <3>4
  <2>5. CASE r # e.by
    <3>1. Unserved(more, r) = Unserved(log, r) /\ after.skipped[r] = flow.skipped[r]
      BY <1>1, <1>3, <2>5, UnservedAppend DEF Flows
    <3> HIDE DEF more, next
    <3> QED BY <2>1, <2>2, <2>3, <3>1 DEF Remembered, Tells
  <2> QED BY <2>4, <2>5
<1> QED BY <1>2, <1>5, <1>6, <1>7 DEF Tells

\* A lease or a label taken away, which logs nothing.
LEMMA TellsVoided ==
  ASSUME NEW log \in Seq(Event), NEW held \in Holders, NEW voided, NEW kind, NEW flow \in Flows, Tells(flow, log, held, voided, kind),
         NEW s \in Leasable
  PROVE  Tells(flow, log, [held EXCEPT ![s] = "open"], voided \cup ({<<s, held[s]>>} \cap (Leasable \X DOMAIN KindOf)), kind)
<1> DEFINE next == [held EXCEPT ![s] = "open"]
           gone == voided \cup ({<<s, held[s]>>} \cap (Leasable \X DOMAIN KindOf))
<1>1. "open" \notin DOMAIN KindOf
  BY LogAssumption
<1>2. OpenAre(flow, next, gone, kind)
  <2>1. Holding(next, kind) = Holding(held, kind) \ {<<s, held[s]>>}
    BY <1>1, HoldingLess
  <2>2. Holding(held, kind) \subseteq Leasable \X DOMAIN KindOf
    BY HoldingIs
  <2> HIDE DEF next
  <2> QED BY <2>1, <2>2 DEF OpenAre, Tells
<1>3. Remembered(flow, log, next, kind)
  <2>1. \A r \in DOMAIN KindOf, t \in Leasable : next[t] = r => held[t] = r
    BY <1>1 DEF Holders
  <2> HIDE DEF next
  <2> QED BY <2>1 DEF Remembered, Tells
<1> QED BY <1>2, <1>3 DEF Tells

\* The log on the bench, and who holds what.
LogInv(log, held, voided) ==
  /\ log \in Seq(Event)
  /\ held \in Holders
  /\ OneEach(held)
  /\ \A kind \in {"human", "model"} : Tells(TaskFlow(log, kind), log, held, voided, kind)

LEMMA LogInit == LogInv(<<>>, [s \in Leasable |-> "open"], {})
<1> DEFINE held == [s \in Leasable |-> "open"]
<1>1. held \in Holders /\ OneEach(held) /\ "open" \notin DOMAIN KindOf
  BY LogAssumption DEF Holders, OneEach
<1>2. <<>> \in Seq(Event) /\ DOMAIN <<>> = {} /\ Len(<<>>) = 0
  OBVIOUS
<1>3. ASSUME NEW kind PROVE Tells(NoFlow, <<>>, held, {}, kind)
  <2>1. Holding(held, kind) = {}
    <3>1. \A p \in Leasable \X DOMAIN KindOf : held[p[1]] # p[2]
      BY <1>1
    <3> HIDE DEF held
    <3> QED BY <1>1, <3>1, HoldingIs
  <2>2. \A kinds : Logged(<<>>, kind, kinds) = {}
    BY <1>2 DEF Logged
  <2>3. ServedAgain(<<>>, kind) = {} /\ \A r : Unserved(<<>>, r) = {}
    BY <1>2, <2>2 DEF ServedAgain, Unserved
  <2>4. Cardinality({}) = 0
    BY FS_EmptySet
  <2> HIDE DEF held
  <2>5. Counted(NoFlow, <<>>, kind)
    BY <2>2, <2>3, <2>4 DEF Counted, NoFlow
  <2>6. Remembered(NoFlow, <<>>, held, kind)
    BY <2>3 DEF Remembered, NoFlow
  <2>7. OpenAre(NoFlow, held, {}, kind)
    BY <2>1 DEF OpenAre, NoFlow
  <2> QED BY <2>5, <2>6, <2>7 DEF Tells
<1> HIDE DEF held
<1>4. LogInv(<<>>, held, {})
  BY <1>1, <1>2, <1>3, FlowEmpty DEF LogInv
<1> QED BY <1>4 DEF held

LEMMA LogResumed ==
  ASSUME NEW log, NEW held, NEW voided, LogInv(log, held, voided), NEW s \in Leasable, NEW by \in DOMAIN KindOf, held[s] = by
  PROVE  LogInv(Append(log, [slot |-> s, by |-> by, kind |-> "resumed"]), [held EXCEPT ![s] = by], voided)
<1> DEFINE e == [slot |-> s, by |-> by, kind |-> "resumed"]
<1>1. e \in Event /\ e.slot = s /\ e.by = by /\ e.kind = "resumed"
  BY DEF Event
<1> HIDE DEF e
<1>2. log \in Seq(Event) /\ held \in Holders /\ OneEach(held)
  BY DEF LogInv
<1>3. [held EXCEPT ![s] = by] = held
  BY <1>2 DEF Holders
<1>4. ASSUME NEW kind \in {"human", "model"}
      PROVE  Tells(TaskFlow(Append(log, e), kind), Append(log, e), [held EXCEPT ![s] = by], voided, kind)
  <2>1. TaskFlow(log, kind) \in Flows /\ Tells(TaskFlow(log, kind), log, held, voided, kind)
    BY <1>2, FlowType DEF LogInv
  <2>2. TaskFlow(Append(log, e), kind) = Turn(TaskFlow(log, kind), e, kind)
    BY <1>1, <1>2, FlowAppend
  <2>3. CASE KindOf[e.by] = kind
    <3>1. Tells(Followed(TaskFlow(log, kind), e), Append(log, e), [held EXCEPT ![e.slot] = e.by], voided, kind)
      BY <1>1, <1>2, <2>1, <2>3, TellsResumed
    <3> QED BY <1>1, <2>2, <2>3, <3>1 DEF Turn
  <2>4. CASE KindOf[e.by] # kind
    <3>1. Tells(TaskFlow(log, kind), Append(log, e), [held EXCEPT ![e.slot] = by], voided, kind)
      BY <1>1, <1>2, <2>1, <2>4, TellsElsewhere
    <3> QED BY <1>1, <2>2, <2>4, <3>1 DEF Turn
  <2> QED BY <2>3, <2>4
<1>5. Append(log, e) \in Seq(Event)
  BY <1>1, <1>2, AppendProperties
<1>6. LogInv(Append(log, e), [held EXCEPT ![s] = by], voided)
  BY <1>2, <1>3, <1>4, <1>5 DEF LogInv
<1> QED BY <1>6 DEF e

LEMMA LogLeased ==
  ASSUME NEW log, NEW held, NEW voided, LogInv(log, held, voided), NEW s \in Leasable, NEW by \in DOMAIN KindOf,
         held[s] = "open", \A t \in Leasable : held[t] # by
  PROVE  LogInv(Append(log, [slot |-> s, by |-> by, kind |-> "leased"]), [held EXCEPT ![s] = by], voided)
<1> DEFINE e == [slot |-> s, by |-> by, kind |-> "leased"]
           next == [held EXCEPT ![s] = by]
<1>1. e \in Event /\ e.slot = s /\ e.by = by /\ e.kind = "leased"
  BY DEF Event
<1> HIDE DEF e
<1>2. log \in Seq(Event) /\ held \in Holders /\ OneEach(held)
  BY DEF LogInv
<1>3. next \in Holders /\ OneEach(next)
  <2>1. next \in Holders
    BY <1>2 DEF Holders
  <2>2. next[s] = by /\ \A t \in Leasable : t # s => next[t] = held[t]
    BY <1>2 DEF Holders
  <2> HIDE DEF next
  <2>3. OneEach(next)
    BY <1>2, <2>2 DEF OneEach
  <2> QED BY <2>1, <2>3
<1>4. ASSUME NEW kind \in {"human", "model"}
      PROVE  Tells(TaskFlow(Append(log, e), kind), Append(log, e), next, voided, kind)
  <2>1. TaskFlow(log, kind) \in Flows /\ Tells(TaskFlow(log, kind), log, held, voided, kind)
    BY <1>2, FlowType DEF LogInv
  <2>2. TaskFlow(Append(log, e), kind) = Turn(TaskFlow(log, kind), e, kind)
    BY <1>1, <1>2, FlowAppend
  <2>3. CASE KindOf[e.by] = kind
    <3>1. Tells(Followed(TaskFlow(log, kind), e), Append(log, e), [held EXCEPT ![e.slot] = e.by], voided, kind)
      BY <1>1, <1>2, <2>1, <2>3, TellsLeased
    <3> QED BY <1>1, <2>2, <2>3, <3>1 DEF Turn
  <2>4. CASE KindOf[e.by] # kind
    <3>1. Tells(TaskFlow(log, kind), Append(log, e), [held EXCEPT ![e.slot] = by], voided, kind)
      BY <1>1, <1>2, <2>1, <2>4, TellsElsewhere
    <3> QED BY <1>1, <2>2, <2>4, <3>1 DEF Turn
  <2> QED BY <2>3, <2>4
<1>5. Append(log, e) \in Seq(Event)
  BY <1>1, <1>2, AppendProperties
<1> HIDE DEF next
<1>6. LogInv(Append(log, e), next, voided)
  BY <1>3, <1>4, <1>5 DEF LogInv
<1> QED BY <1>6 DEF e, next

LEMMA LogEnded ==
  ASSUME NEW log, NEW held, NEW voided, LogInv(log, held, voided), NEW s \in Leasable, held[s] \in DOMAIN KindOf,
         NEW end \in Terminal, NEW to \in {"open", "filled"}
  PROVE  LogInv(Append(log, [slot |-> s, by |-> held[s], kind |-> end]), [held EXCEPT ![s] = to], voided)
<1> DEFINE e == [slot |-> s, by |-> held[s], kind |-> end]
           next == [held EXCEPT ![s] = to]
<1>1. e \in Event /\ e.slot = s /\ e.by = held[s] /\ e.kind = end
  BY DEF Event
<1> HIDE DEF e
<1>2. log \in Seq(Event) /\ held \in Holders /\ OneEach(held)
  BY DEF LogInv
<1>3. next \in Holders /\ OneEach(next)
  <2>1. next \in Holders
    BY <1>2 DEF Holders
  <2>2. next[s] \notin DOMAIN KindOf /\ \A t \in Leasable : t # s => next[t] = held[t]
    BY <1>2, LogAssumption DEF Holders
  <2> HIDE DEF next
  <2>3. OneEach(next)
    BY <1>2, <2>2 DEF OneEach
  <2> QED BY <2>1, <2>3
<1>4. ASSUME NEW kind \in {"human", "model"}
      PROVE  Tells(TaskFlow(Append(log, e), kind), Append(log, e), next, voided, kind)
  <2>1. TaskFlow(log, kind) \in Flows /\ Tells(TaskFlow(log, kind), log, held, voided, kind)
    BY <1>2, FlowType DEF LogInv
  <2>2. TaskFlow(Append(log, e), kind) = Turn(TaskFlow(log, kind), e, kind)
    BY <1>1, <1>2, FlowAppend
  <2>3. CASE KindOf[e.by] = kind
    <3>1. Tells(Followed(TaskFlow(log, kind), e), Append(log, e), [held EXCEPT ![e.slot] = to], voided, kind)
      BY <1>1, <1>2, <2>1, <2>3, TellsEnded
    <3> QED BY <1>1, <2>2, <2>3, <3>1 DEF Turn
  <2>4. CASE KindOf[e.by] # kind
    <3>1. Tells(TaskFlow(log, kind), Append(log, e), [held EXCEPT ![e.slot] = to], voided, kind)
      BY <1>1, <1>2, <2>1, <2>4, TellsElsewhere
    <3> QED BY <1>1, <2>2, <2>4, <3>1 DEF Turn
  <2> QED BY <2>3, <2>4
<1>5. Append(log, e) \in Seq(Event)
  BY <1>1, <1>2, AppendProperties
<1> HIDE DEF next
<1>6. LogInv(Append(log, e), next, voided)
  BY <1>3, <1>4, <1>5 DEF LogInv
<1> QED BY <1>6 DEF e, next

LEMMA LogVoided ==
  ASSUME NEW log, NEW held, NEW voided, LogInv(log, held, voided), NEW s \in Leasable
  PROVE  LogInv(log, [held EXCEPT ![s] = "open"], voided \cup ({<<s, held[s]>>} \cap (Leasable \X DOMAIN KindOf)))
<1> DEFINE next == [held EXCEPT ![s] = "open"]
           gone == voided \cup ({<<s, held[s]>>} \cap (Leasable \X DOMAIN KindOf))
<1>1. log \in Seq(Event) /\ held \in Holders /\ OneEach(held)
  BY DEF LogInv
<1>2. next \in Holders /\ OneEach(next)
  <2>1. next \in Holders
    BY <1>1 DEF Holders
  <2>2. next[s] \notin DOMAIN KindOf /\ \A t \in Leasable : t # s => next[t] = held[t]
    BY <1>1, LogAssumption DEF Holders
  <2> HIDE DEF next
  <2>3. OneEach(next)
    BY <1>1, <2>2 DEF OneEach
  <2> QED BY <2>1, <2>3
<1>3. ASSUME NEW kind \in {"human", "model"} PROVE Tells(TaskFlow(log, kind), log, next, gone, kind)
  BY <1>1, FlowType, TellsVoided DEF LogInv
<1> HIDE DEF next, gone
<1>4. LogInv(log, next, gone)
  BY <1>1, <1>2, <1>3 DEF LogInv
<1> QED BY <1>4 DEF next, gone

LEMMA EpisodesOfLog ==
  ASSUME NEW log, NEW held, NEW voided, LogInv(log, held, voided)
  PROVE  EpisodesTrueFor(log, held, voided)
BY DEF LogInv, Tells, Counted, OpenAre, EpisodesTrueFor

-----------------------------------------------------------------------------
(* The workbench.                                                          *)

\* What lies on the bench: its case, and the inputs of five of the algorithms.
LogBench == [case : {"log"}, log : Seq(Event), held : Holders, voided : SUBSET (Leasable \X DOMAIN KindOf)]
BenchInv ==
  /\ "case" \in DOMAIN bench
  /\ bench.case = "standing" => bench \in [case : {"standing"}, record : Records] /\ bench.record.agreed <= bench.record.compared
  /\ bench.case = "template" => bench \in [case : {"template"}, inputs : Seq(InputRow)]
  /\ bench.case = "pool" => bench \in [case : {"pool"}, units : Seq(ScoreRow)]
  /\ bench.case = "comparison" => bench \in [case : {"comparison"}, labels : Seq(LabelRow)]
  /\ bench.case = "condition" => bench \in [case : {"condition"}, tokens : Seq(STRING)]
  /\ bench.case = "log" => bench \in LogBench /\ LogInv(bench.log, bench.held, bench.voided)

LEMMA BenchInit == Init => BenchInv
<1> SUFFICES ASSUME Init PROVE BenchInv
  OBVIOUS
<1>1. CASE bench = [case |-> "template", inputs |-> <<>>]
  BY <1>1, EmptySeq DEF BenchInv
<1>2. ASSUME NEW kind \in {"human", "model"}, bench = [case |-> "standing", record |-> Newcomer(kind)]
      PROVE  BenchInv
  <2>1. Newcomer(kind) \in Records /\ Newcomer(kind).agreed <= Newcomer(kind).compared
    BY EmptySeq DEF Newcomer, Records
  <2> QED BY <1>2, <2>1 DEF BenchInv
<1>3. CASE "case" \in DOMAIN bench /\ bench.case \notin {"standing", "template", "pool", "comparison", "condition", "log"}
  BY <1>3 DEF BenchInv
<1>4. CASE bench = [case |-> "pool", units |-> <<>>]
  BY <1>4, EmptySeq DEF BenchInv
<1>5. CASE bench = [case |-> "condition", tokens |-> <<>>]
  BY <1>5, EmptySeq DEF BenchInv
<1>6. CASE bench = [case |-> "log", log |-> <<>>, held |-> [s \in Leasable |-> "open"], voided |-> {}]
  <2>1. LogInv(bench.log, bench.held, bench.voided) /\ bench.log = <<>> /\ bench.voided = {} /\ bench.held = [s \in Leasable |-> "open"]
    BY <1>6, LogInit
  <2>2. bench.log \in Seq(Event) /\ bench.held \in Holders
    BY <2>1 DEF LogInv
  <2>3. bench \in LogBench
    BY <1>6, <2>1, <2>2 DEF LogBench
  <2> QED BY <1>6, <2>1, <2>3 DEF BenchInv
<1>7. CASE bench = [case |-> "comparison", labels |-> <<>>]
  BY <1>7, EmptySeq DEF BenchInv
<1> QED BY <1>1, <1>2, <1>3, <1>4, <1>5, <1>6, <1>7 DEF Init

\* A step on any other bench leaves its case alone.
Aside == "case" \in DOMAIN bench' /\ bench'.case = bench.case /\ bench.case \notin {"standing", "template", "pool", "comparison", "condition", "log"}

LEMMA StepsAside ==
  ASSUME BenchInv,
         ReadRating \/ Vote
  PROVE  Aside
<1>1. CASE ReadRating
  BY <1>1 DEF BenchInv, Aside, ReadRating
<1>2. CASE Vote
  BY <1>2 DEF BenchInv, Aside, Vote
<1> QED BY <1>1, <1>2

\* A step on the record of an annotator: a gold, a comparison, a click or a flag.
LEMMA StandingStep ==
  ASSUME BenchInv, GradeGold \/ ComparePeers \/ ClickSide \/ FlagSpeed
  PROVE  BenchInv'
<1>1. bench \in [case : {"standing"}, record : Records] /\ bench.record.agreed <= bench.record.compared
  BY DEF BenchInv, GradeGold, ComparePeers, ClickSide, FlagSpeed
<1> DEFINE r == bench.record
<1>2. SUFFICES \E q \in Records : q.agreed <= q.compared /\ bench' = [bench EXCEPT !.record = q]
  BY <1>1 DEF BenchInv
<1>3. r \in Records /\ r.agreed \in Nat /\ r.compared \in Nat
  BY <1>1 DEF Records
<1>4. CASE GradeGold
  <2>1. PICK passed \in BOOLEAN : bench' = [bench EXCEPT !.record = Graded(r, passed)]
    BY <1>4 DEF GradeGold
  <2> QED BY <1>1, <2>1, GradedRecord
<1>5. CASE ComparePeers
  <2>1. PICK agree \in {0, 1} : bench' = [bench EXCEPT !.record.compared = @ + 1, !.record.agreed = @ + agree]
    BY <1>5 DEF ComparePeers
  <2> DEFINE q == [r EXCEPT !.compared = @ + 1, !.agreed = @ + agree]
  <2>2. q \in Records /\ q.agreed = r.agreed + agree /\ q.compared = r.compared + 1
    <3> DEFINE m == r.compared + 1
               n == r.agreed + agree
    <3>1. m \in Nat /\ n \in Nat
      BY <1>3
    <3> HIDE DEF r, m, n
    <3>2. [r EXCEPT !.compared = m, !.agreed = n] \in Records
      BY <1>3, <3>1 DEF Records
    <3>3. [r EXCEPT !.compared = m, !.agreed = n].agreed = n /\ [r EXCEPT !.compared = m, !.agreed = n].compared = m
      BY <1>3 DEF Records
    <3> QED BY <3>2, <3>3 DEF m, n
  <2>3. bench' = [bench EXCEPT !.record = q]
    BY <1>1, <2>1
  <2>4. r.agreed + agree <= r.compared + 1
    <3> DEFINE m == r.compared
               n == r.agreed
    <3>1. m \in Nat /\ n \in Nat /\ n <= m
      BY <1>1, <1>3
    <3> HIDE DEF m, n
    <3>2. n + agree <= m + 1
      BY <3>1
    <3> QED BY <3>2 DEF m, n
  <2> HIDE DEF q
  <2> QED BY <2>2, <2>3, <2>4
<1>6. CASE ClickSide
  <2> DEFINE f == [r EXCEPT !.first = @ + 1]
             s == [r EXCEPT !.second = @ + 1]
  <2>1. f \in Records /\ f.agreed = r.agreed /\ f.compared = r.compared
    <3> HIDE DEF r
    <3> QED BY <1>3 DEF Records
  <2>2. s \in Records /\ s.agreed = r.agreed /\ s.compared = r.compared
    <3> HIDE DEF r
    <3> QED BY <1>3 DEF Records
  <2>3. bench' = [bench EXCEPT !.record = f] \/ bench' = [bench EXCEPT !.record = s]
    BY <1>1, <1>6 DEF ClickSide
  <2> HIDE DEF f, s
  <2> QED BY <1>1, <2>1, <2>2, <2>3
<1>7. CASE FlagSpeed
  <2> DEFINE q == [r EXCEPT !.flags = @ + 1]
  <2>1. q \in Records /\ q.agreed = r.agreed /\ q.compared = r.compared
    <3> HIDE DEF r
    <3> QED BY <1>3 DEF Records
  <2>2. bench' = [bench EXCEPT !.record = q]
    BY <1>1, <1>7 DEF FlagSpeed
  <2> HIDE DEF q
  <2> QED BY <1>1, <2>1, <2>2
<1> QED BY <1>4, <1>5, <1>6, <1>7

LEMMA TemplateStep ==
  ASSUME BenchInv, AddInput
  PROVE  BenchInv'
<1>1. bench \in [case : {"template"}, inputs : Seq(InputRow)]
  BY DEF BenchInv, AddInput
<1>2. PICK in \in Inputs : bench' = [bench EXCEPT !.inputs = Append(@, in)]
  BY DEF AddInput
<1>3. Append(bench.inputs, in) \in Seq(InputRow)
  BY <1>1, WorkbenchAssumption, AppendProperties
<1> QED BY <1>1, <1>2, <1>3 DEF BenchInv

LEMMA PoolStep ==
  ASSUME BenchInv, AddUnit
  PROVE  BenchInv'
<1>1. bench \in [case : {"pool"}, units : Seq(ScoreRow)]
  BY DEF BenchInv, AddUnit
<1>2. PICK u \in Scorable : bench' = [bench EXCEPT !.units = Append(@, u)]
  BY DEF AddUnit
<1>3. Append(bench.units, u) \in Seq(ScoreRow)
  BY <1>1, WorkbenchAssumption, AppendProperties
<1> QED BY <1>1, <1>2, <1>3 DEF BenchInv

LEMMA ComparisonStep ==
  ASSUME BenchInv, LabelPair
  PROVE  BenchInv'
<1>1. bench \in [case : {"comparison"}, labels : Seq(LabelRow)]
  BY DEF BenchInv, LabelPair
<1>2. PICK variant \in Variants, raw \in Clickable :
        bench' = [bench EXCEPT !.labels = Append(@, [variant |-> variant, raw |-> raw])]
  BY DEF LabelPair
<1> DEFINE l == [variant |-> variant, raw |-> raw]
<1>3. l \in LabelRow /\ bench' = [bench EXCEPT !.labels = Append(@, l)]
  BY <1>2 DEF LabelRow
<1> HIDE DEF l
<1>4. Append(bench.labels, l) \in Seq(LabelRow)
  BY <1>1, <1>3, AppendProperties
<1> QED BY <1>1, <1>3, <1>4 DEF BenchInv

LEMMA ConditionStep ==
  ASSUME BenchInv, WriteToken
  PROVE  BenchInv'
<1>1. bench \in [case : {"condition"}, tokens : Seq(STRING)]
  BY DEF BenchInv, WriteToken
<1>2. PICK t \in Tokens : bench' = [bench EXCEPT !.tokens = Append(@, t)]
  BY DEF WriteToken
<1>3. Append(bench.tokens, t) \in Seq(STRING)
  BY <1>1, WorkbenchAssumption, AppendProperties
<1> QED BY <1>1, <1>2, <1>3 DEF BenchInv

\* A step that leaves this log and these slots.
LEMMA LogWritten ==
  ASSUME bench \in LogBench, NEW l, NEW h, NEW v \in SUBSET (Leasable \X DOMAIN KindOf), LogInv(l, h, v),
         bench' = [bench EXCEPT !.log = l, !.held = h, !.voided = v]
  PROVE  BenchInv'
<1>1. l \in Seq(Event) /\ h \in Holders
  BY DEF LogInv
<1>2. bench' \in LogBench /\ bench'.log = l /\ bench'.held = h /\ bench'.voided = v
  BY <1>1 DEF LogBench
<1>3. "case" \in DOMAIN bench' /\ bench'.case = "log"
  BY <1>2 DEF LogBench
<1> QED BY <1>2, <1>3 DEF BenchInv

LEMMA EventWritten ==
  ASSUME bench \in LogBench, NEW s \in Leasable, NEW by, NEW kind, NEW to, LogEvent(s, by, kind, to),
         LogInv(Append(bench.log, [slot |-> s, by |-> by, kind |-> kind]), [bench.held EXCEPT ![s] = to], bench.voided)
  PROVE  BenchInv'
<1> DEFINE e == [slot |-> s, by |-> by, kind |-> kind]
           l == Append(bench.log, e)
           h == [bench.held EXCEPT ![s] = to]
           v == bench.voided
<1>1. bench' = [bench EXCEPT !.log = Append(@, e), !.held[s] = to]
  BY DEF LogEvent
<1>2. LogInv(l, h, v)
  OBVIOUS
<1> HIDE DEF e
<1>3. bench' = [bench EXCEPT !.log = l, !.held = h]
  BY <1>1 DEF LogBench
<1> HIDE DEF l, h
<1>4. bench' = [bench EXCEPT !.log = l, !.held = h, !.voided = v]
  BY <1>3 DEF LogBench
<1>5. v \in SUBSET (Leasable \X DOMAIN KindOf)
  BY DEF LogBench
<1> HIDE DEF v
<1> QED BY <1>2, <1>4, <1>5, LogWritten

LEMMA LogStep ==
  ASSUME BenchInv, PullTask \/ EndLease \/ VoidUnlogged
  PROVE  BenchInv'
<1> DEFINE log == bench.log
           held == bench.held
           voided == bench.voided
<1>1. bench \in LogBench /\ LogInv(log, held, voided)
  BY DEF BenchInv, PullTask, EndLease, VoidUnlogged
<1>2. held \in Holders
  BY <1>1 DEF LogInv
<1>3. CASE PullTask
  <2>1. PICK by \in DOMAIN KindOf, s \in Leasable :
             \/ held[s] = by /\ LogEvent(s, by, "resumed", by)
             \/ held[s] = "open" /\ by \notin Range(held) /\ LogEvent(s, by, "leased", by)
    BY <1>3 DEF PullTask
  <2>2. CASE held[s] = by /\ LogEvent(s, by, "resumed", by)
    <3>1. LogInv(Append(log, [slot |-> s, by |-> by, kind |-> "resumed"]), [held EXCEPT ![s] = by], voided)
      BY <1>1, <2>2, LogResumed
    <3> QED BY <1>1, <2>2, <3>1, EventWritten
  <2>3. CASE held[s] = "open" /\ by \notin Range(held) /\ LogEvent(s, by, "leased", by)
    <3>1. \A t \in Leasable : held[t] # by
      BY <1>2, <2>3 DEF Range, Holders
    <3>2. LogInv(Append(log, [slot |-> s, by |-> by, kind |-> "leased"]), [held EXCEPT ![s] = by], voided)
      BY <1>1, <2>3, <3>1, LogLeased
    <3> QED BY <1>1, <2>3, <3>2, EventWritten
  <2> QED BY <2>1, <2>2, <2>3
<1>4. CASE EndLease
  <2>1. PICK s \in Leasable, kind \in Ends :
             held[s] \in DOMAIN KindOf /\ LogEvent(s, held[s], kind, IF kind = "submitted" THEN "filled" ELSE "open")
    BY <1>4 DEF EndLease
  <2> DEFINE to == IF kind = "submitted" THEN "filled" ELSE "open"
  <2>2. to \in {"open", "filled"} /\ kind \in Terminal /\ LogEvent(s, held[s], kind, to)
    BY <2>1, LogAssumption
  <2> HIDE DEF to
  <2>3. LogInv(Append(log, [slot |-> s, by |-> held[s], kind |-> kind]), [held EXCEPT ![s] = to], voided)
    BY <1>1, <2>1, <2>2, LogEnded
  <2> QED BY <1>1, <2>2, <2>3, EventWritten
<1>5. CASE VoidUnlogged
  <2>1. PICK s \in Leasable :
             bench' = [bench EXCEPT !.held[s] = "open", !.voided = @ \cup ({<<s, held[s]>>} \cap (Leasable \X DOMAIN KindOf))]
    BY <1>5 DEF VoidUnlogged
  <2> DEFINE gone == voided \cup ({<<s, held[s]>>} \cap (Leasable \X DOMAIN KindOf))
             h == [held EXCEPT ![s] = "open"]
  <2>2. bench' = [bench EXCEPT !.held[s] = "open", !.voided = gone]
    BY <2>1
  <2>3. LogInv(log, h, gone)
    BY <1>1, LogVoided
  <2>4. gone \in SUBSET (Leasable \X DOMAIN KindOf)
    BY <1>1 DEF LogBench
  <2> HIDE DEF gone
  <2>5. bench' = [bench EXCEPT !.held = h, !.voided = gone]
    BY <1>1, <2>2 DEF LogBench
  <2> HIDE DEF h
  <2>6. bench' = [bench EXCEPT !.log = log, !.held = h, !.voided = gone]
    BY <1>1, <2>5 DEF LogBench
  <2> HIDE DEF log
  <2> QED BY <1>1, <2>3, <2>4, <2>6, LogWritten
<1> QED BY <1>3, <1>4, <1>5

LEMMA BenchNext == BenchInv /\ [Next]_bench => BenchInv'
<1> SUFFICES ASSUME BenchInv, [Next]_bench PROVE BenchInv'
  OBVIOUS
<1>1. CASE ReadRating \/ Vote
  BY <1>1, StepsAside DEF Aside, BenchInv
<1>2. CASE UNCHANGED bench
  BY <1>2 DEF BenchInv
<1> QED BY <1>1, <1>2, StandingStep, TemplateStep, PoolStep, ComparisonStep, ConditionStep, LogStep DEF Next

\* With a window and a minimum of five golds or more (the defaults are 20 and 5)
\* a reputation rises with what speaks for a rater, falls with what speaks
\* against, and golds outweigh the rest, however many golds were graded, labels
\* compared, sides clicked and flags raised (quality/reputation.py:5-15).
THEOREM ReputationTheorem ==
  ASSUME Window >= 5, MinSamples >= 5
  PROVE  Spec => []ReputationHonest
<1>1. BenchInv => ReputationHonest
  <2> SUFFICES ASSUME BenchInv, bench.case = "standing" PROVE ReputationHonestFor(bench.record)
    BY DEF ReputationHonest
  <2>1. bench.record \in Records /\ bench.record.agreed <= bench.record.compared
    BY DEF BenchInv
  <2> QED BY <2>1, ReputationOfRecord
<1> QED BY <1>1, BenchInit, BenchNext, PTL DEF Spec

\* In a template that can be saved no key means two things, whatever its inputs,
\* however many, and whatever keys there are to give (templates/hotkeys.py:116-119).
THEOREM HotkeysTheorem == Spec => []HotkeysUnambiguous
<1>1. BenchInv => HotkeysUnambiguous
  <2> SUFFICES ASSUME BenchInv, bench.case = "template" PROVE HotkeysUnambiguousIn(bench.inputs)
    BY DEF HotkeysUnambiguous
  <2>1. bench.inputs \in Seq(InputRow)
    BY DEF BenchInv
  <2> QED BY <2>1, HotkeysOfInputs
<1> QED BY <1>1, BenchInit, BenchNext, PTL DEF Spec

\* Whatever the pool, its scores, its near duplicates and the size asked for:
\* a unit is left out of a batch only if it is decided, if one of the batch that
\* ranks before it is like it, or if the batch is full of such as rank before it,
\* and no two of a batch are alike (active_learning/selection.py:162-167).
THEOREM BatchTheorem == Spec => []BatchRight
<1>1. BenchInv => BatchRight
  <2> SUFFICES ASSUME BenchInv, bench.case = "pool" PROVE BatchRightOf(bench.units)
    BY DEF BatchRight
  <2>1. bench.units \in Seq(ScoreRow)
    BY DEF BenchInv
  <2> QED BY <2>1, BatchOfUnits
<1> QED BY <1>1, BenchInit, BenchNext, PTL DEF Spec

\* Whatever labels two panels get, in either order, from whatever may be clicked and
\* however many: a click counts for the item on that side, a rater faithful to an
\* item is called neither biased nor order sensitive and prefers it, and one faithful
\* to a side is called both and prefers nothing (quality/canonical.py:49-53,
\* quality/reputation.py:188).
THEOREM SidesTheorem == Spec => []SidesTold
<1>1. BenchInv => SidesTold
  <2> SUFFICES ASSUME BenchInv, bench.case = "comparison" PROVE SidesToldOf(bench.labels)
    BY DEF SidesTold
  <2>1. bench.labels \in Seq(LabelRow)
    BY DEF BenchInv
  <2> QED BY <2>1, SidesOfLabels
<1> QED BY <1>1, BenchInit, BenchNext, PTL DEF Spec

\* Whatever the tokens of a condition, the metrics of a unit and its flags: the
\* evaluator accepts exactly what the grammar gives a value, gives that value, and
\* a condition that passes the check made when its pipeline is saved does not raise
\* while a unit is routed (merge/condition.py:10-27, merge/pipeline.py:74-75).
THEOREM ConditionTheorem == Spec => []ConditionRead
<1>1. BenchInv => ConditionRead
  <2> SUFFICES ASSUME BenchInv, bench.case = "condition"
               PROVE  ConditionReadIn(bench.tokens) /\ SavedNeverRaisesIn(bench.tokens)
    BY DEF ConditionRead
  <2>1. bench.tokens \in Seq(STRING)
    BY DEF BenchInv
  <2> QED BY <2>1, ConditionOfTokens, SavedOfTokens
<1> QED BY <1>1, BenchInit, BenchNext, PTL DEF Spec

\* Whatever slots are leased, resumed, ended and voided, by however many raters: the
\* episodes task_flow reconstructs from the log are the leases given, and a skip is
\* counted as served again exactly when the rater's next lease is the slot just
\* skipped (measure/metrics.py:355-358).
THEOREM EpisodesTheorem == Spec => []EpisodesTrue
<1>1. BenchInv => EpisodesTrue
  BY EpisodesOfLog DEF BenchInv, EpisodesTrue
<1> QED BY <1>1, BenchInit, BenchNext, PTL DEF Spec

=============================================================================
