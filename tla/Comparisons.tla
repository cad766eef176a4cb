---------------------------- MODULE Comparisons ----------------------------
(***************************************************************************)
(* Comparisons of two panels: what a judge reads (judges/prompt.py), what  *)
(* a rater clicks who means an item (measure/simulate.py), how lopsided    *)
(* the clicks are (quality/reputation.py, analytics/bias.py) and the       *)
(* preference pair exported (export/jsonl.py).                             *)
(*                                                                         *)
(* A label is [variant, raw].  A sequence of labels is read both ways: as  *)
(* one rater's labels on many units, and as one unit's by many raters.     *)
(***************************************************************************)
EXTENDS Answers

CONSTANTS
  Items,    \* the items of the panel group, in template order
  Variants, \* the orders in which they are presented
  Options   \* the options of the choice_buttons input
ASSUME PanelsAssumption ==
  /\ Items = <<Items[1], Items[2]>> /\ Items[1] # Items[2]
  /\ Variants = {Items, <<Items[2], Items[1]>>}

\* A variant that does not name every panel once over leaves them in template order.
PanelOrder(variant) ==
  LET named[n \in 0..Len(variant)] ==
        IF n = 0 THEN <<>> ELSE IF variant[n] \in Range(Items) THEN Append(named[n - 1], variant[n]) ELSE named[n - 1]
      order == named[Len(variant)]
  IN IF variant # <<>> /\ Len(order) = Len(Items) THEN order ELSE Items

\* The options a rater may click who takes an item to be right.
RightOptions(truth, variant) == {o \in Options : Positional(o, variant) = Str(truth)}

Value(l) == Canonical([type |-> "choice_buttons", other |-> FALSE], l.raw, l.variant)

-----------------------------------------------------------------------------
(* Bias: how far clicks depart from an even split, as a fraction.          *)

Clicks(ls, side) == Cardinality({i \in DOMAIN ls : ls[i].variant # <<>> /\ Side(ls[i].raw) = side})
Bias(ls) ==
  LET first == Clicks(ls, "first")
      second == Clicks(ls, "second")
  IN IF first + second = 0 THEN "none"
     ELSE <<IF first >= second THEN first - second ELSE second - first, first + second>>

-----------------------------------------------------------------------------
(* Order sensitivity: does the winner change with the order of the panels? *)

\* Counter(...).most_common(1): of the values seen most often, the one seen first.
MostCommon(values) ==
  LET count(i) == Cardinality({j \in DOMAIN values : values[j] = values[i]})
      best == {i \in DOMAIN values : \A j \in DOMAIN values : count(j) <= count(i)}
  IN values[Min(best)]
Of(ls, v) == {i \in DOMAIN ls : ls[i].variant = v}
Under(ls, v) == [i \in Of(ls, v) |-> Value(ls[i])]
Flipped(ls) == Cardinality({MostCommon(Under(ls, v)) : v \in {w \in Variants : Of(ls, w) # {}}}) > 1

\* The pair a preference export gives, <<>> when the vote is a tie.  The items are
\* sorted by votes, those of equal votes left in their order.
VotesFor(ls, item) == Cardinality({i \in DOMAIN ls : Value(ls[i]) = Str(item)})
PreferencePair(ls) ==
  LET votes(i) == VotesFor(ls, Items[i])
      before(i) == {j \in DOMAIN Items : votes(j) > votes(i) \/ (votes(j) = votes(i) /\ j < i)}
      ranked(n) == CHOOSE i \in DOMAIN Items : Cardinality(before(i)) = n - 1
  IN IF votes(ranked(1)) = votes(ranked(2)) THEN <<>> ELSE <<Items[ranked(1)], Items[ranked(2)]>>

-----------------------------------------------------------------------------
(* What a side says about an item, and a split of sides about a rater.     *)

Shown(l) == PanelOrder(l.variant)[IF Side(l.raw) = "first" THEN 1 ELSE Len(Items)]
SideTaken(l) == Side(l.raw) # "neither"
Balanced(ls) == \A v, w \in Variants : Cardinality(Of(ls, v)) = Cardinality(Of(ls, w))
OneItem(ls) == \A i, j \in DOMAIN ls : SideTaken(ls[i]) /\ Shown(ls[i]) = Shown(ls[j])
OneSide(ls) == \A i, j \in DOMAIN ls : SideTaken(ls[i]) /\ Side(ls[i].raw) = Side(ls[j].raw)

\* A click counts for the item the judge's prompt shows on that side, and the
\* options that count for an item are the ones showing it, or that name it and no
\* side.  A rater faithful to an item is never called biased nor order sensitive
\* over balanced slots, and gives the pair that prefers it; a rater faithful to a
\* side is called wholly biased, flips with the order, and prefers nothing
\* (canonical.py:49, reputation.py:188).
SidesToldOf(ls) ==
  /\ \A i \in DOMAIN ls : SideTaken(ls[i]) => Value(ls[i]) = Str(Shown(ls[i]))
  /\ \A v \in Variants, x \in Range(Items) : RightOptions(x, v) =
       {o \in Options : IF SideTaken([raw |-> o]) THEN Shown([raw |-> o, variant |-> v]) = x ELSE o = Str(x)}
  /\ ls # <<>> /\ Balanced(ls) /\ OneItem(ls) =>
       Bias(ls)[1] = 0 /\ ~Flipped(ls) /\ PreferencePair(ls)[1] = Shown(ls[1])
  /\ ls # <<>> /\ Balanced(ls) /\ OneSide(ls) =>
       Bias(ls)[1] = Bias(ls)[2] /\ Flipped(ls) /\ PreferencePair(ls) = <<>>
=============================================================================
