------------------------------ MODULE Standing ------------------------------
(***************************************************************************)
(* The reputation of an annotator (services/quality/reputation.py): gold   *)
(* accuracy over a window, smoothed by a prior, peer agreement, a penalty  *)
(* for lopsided clicks and one for answers given too fast.                 *)
(*                                                                         *)
(* A record is [kind, golds, agreed, compared, first, second, flags]: the  *)
(* graded golds oldest first, and counts.  A score is an integer out of    *)
(* Whole, which every denominator the runs reach divides: there nothing is *)
(* rounded, beyond them a division rounds down.                            *)
(***************************************************************************)
EXTENDS Integers, Sequences, FiniteSets, FiniteSetsExt

CONSTANTS Window, MinSamples  \* quality.gold_window, quality.gold_min_samples

ASSUME StandingAssumption == Window \in Nat /\ MinSamples \in Nat

Whole == 1008000
Newcomer(kind) ==
  [kind |-> kind, golds |-> <<>>, agreed |-> 0, compared |-> 0, first |-> 0, second |-> 0, flags |-> 0]

Recently(golds) == {i \in DOMAIN golds : i > Len(golds) - Window}
Passes(golds) == Cardinality({i \in Recently(golds) : golds[i]})
PriorSuccesses == 2
PriorTrials == 2
GoldRate(r) == (Whole * (Passes(r.golds) + PriorSuccesses)) \div (Cardinality(Recently(r.golds)) + PriorTrials)

\* Weights 3 and 1, over the components there is data for.
\* Mutant of Composite: no comparisons count as no agreement.
CompositeUnsplit(r) ==
  (3 * GoldRate(r) + IF r.compared = 0 THEN 0 ELSE (Whole * r.agreed) \div r.compared) \div 4
Composite(r) ==
  IF r.compared = 0 THEN GoldRate(r)
  ELSE (3 * GoldRate(r) + (Whole * r.agreed) \div r.compared) \div 4

BiasPenalty(r) ==
  LET clicks == r.first + r.second
      lead == IF r.first >= r.second THEN r.first - r.second ELSE r.second - r.first
  IN IF clicks = 0 THEN 0 ELSE (15 * (Whole \div 100) * lead) \div clicks
SpeedPenalty(r) == IF r.kind = "human" THEN (10 * (Whole \div 100) * Min({r.flags, 5})) \div 5 ELSE 0
Score(r) == Max({0, Min({Whole, Composite(r) - BiasPenalty(r) - SpeedPenalty(r)})})

-----------------------------------------------------------------------------

\* The rater with these golds against whom everything else speaks, or for whom.
Worst(r) == [r EXCEPT !.agreed = 0, !.compared = 1, !.first = 1, !.second = 0, !.flags = 5]
Graded(r, passed) == [r EXCEPT !.golds = Append(@, passed)]
\* A newcomer starts at the top and stays within bounds; a gold passed never
\* costs, a gold failed never pays, whatever drops out of the window; one more
\* agreement never costs; and, past the samples a pause needs, who passed every
\* gold stands above who failed every one, whatever the rest says
\* (reputation.py:7-15: gold accuracy is dominant).
ReputationHonestFor(r) ==
  /\ Score(r) \in 0..Whole
  /\ r = Newcomer(r.kind) => Score(r) = Whole
  /\ Score(Graded(r, FALSE)) <= Score(r) /\ Score(r) <= Score(Graded(r, TRUE))
  /\ r.agreed < r.compared => Score(r) <= Score([r EXCEPT !.agreed = @ + 1])
  /\ Len(r.golds) >= MinSamples /\ Passes(r.golds) = 0 =>
       Score(r) < Score(Worst([r EXCEPT !.golds = [i \in DOMAIN @ |-> TRUE]]))
=============================================================================
