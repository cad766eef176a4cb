------------------------------ MODULE Quality ------------------------------
(***************************************************************************)
(* The quality pipeline that runs inside every submit: gold grading, the   *)
(* gold-accuracy threshold that pauses an annotator and voids recent work, *)
(* consensus and dynamic overlap growth                                    *)
(* (backend/app/services/quality/{pipeline,gold,reputation,consensus}.py). *)
(*                                                                         *)
(* A label carries the answer to one question, compared by the "exact"     *)
(* match rule; percentages stand for the floats of the project config.     *)
(***************************************************************************)
EXTENDS Store

CONSTANTS
  MinConsensus,     \* agreement policy min_consensus, in percent
  OnDisagreement,   \* "grow_then_escalate" or "escalate"
  GoldThreshold,    \* quality.gold_threshold, in percent
  GoldMinSamples,   \* quality.gold_min_samples
  GoldWindow,       \* quality.gold_window
  VoidLookback      \* quality.void_lookback

ASSUME QualityAssumption ==
  /\ MinConsensus \in 0..100 /\ GoldThreshold \in 0..100
  /\ OnDisagreement \in {"grow_then_escalate", "escalate"}
  /\ {GoldMinSamples, GoldWindow, VoidLookback} \subseteq Nat

-----------------------------------------------------------------------------
(* Gold grading and the pause.                                             *)

IsGold(u) == GoldAnswer[u] # None

Grade(u, value) ==
  IF ~IsGold(u) THEN "ungraded" ELSE IF value = GoldAnswer[u] THEN "pass" ELSE "fail"

LabelsBy(d, a, p) ==
  {l \in DOMAIN d.label : d.label[l].by = a /\ ProjectOf[d.label[l].unit] = p}

ValidLabelsBy(d, a, p) == {l \in LabelsBy(d, a, p) : d.label[l].valid}

\* ORDER BY submitted_at DESC LIMIT n
Newest(ls, n) == {l \in ls : Cardinality({m \in ls : m > l}) < n}

GoldsInWindow(d, a, p) ==
  Newest({l \in ValidLabelsBy(d, a, p) : d.label[l].gold # "ungraded"}, GoldWindow)

BelowGoldThreshold(d, a, p) ==
  LET golds  == GoldsInWindow(d, a, p)
      passes == {l \in golds : d.label[l].gold = "pass"}
  IN  /\ Cardinality(golds) >= GoldMinSamples
      /\ 100 * Cardinality(passes) < GoldThreshold * Cardinality(golds)

PauseAnnotator(d, a, p) ==
  VoidLabels([d EXCEPT !.ann[a] = "paused"], Newest(ValidLabelsBy(d, a, p), VoidLookback))

\* Steps 2 and 4 of on_label_submitted, for a label just stored on unit u.
EnforceGoldThreshold(d, a, u, grade) ==
  IF grade = "fail" /\ BelowGoldThreshold(d, a, ProjectOf[u])
  THEN PauseAnnotator(d, a, ProjectOf[u])
  ELSE d

-----------------------------------------------------------------------------
(* Consensus and dynamic overlap growth.                                   *)

Complete(d, u) ==
  /\ Cardinality(ValidLabels(d, u)) >= d.k[ProjectOf[u]]
  /\ InStatus(d, u, "open") \cup InStatus(d, u, "leased") = {}

Support(d, u, value) == Cardinality({l \in ValidLabels(d, u) : d.label[l].value = value})

\* rate + CONSENSUS_EPSILON >= min_consensus, multiplied out; epsilon is 0.005.
Agreed(d, u) ==
  LET votes == Cardinality(ValidLabels(d, u))
  IN  \E v \in Answers : /\ Support(d, u, v) > 0
                         /\ 1000 * Support(d, u, v) + 5 * votes >= 10 * MinConsensus * votes

CanGrow(d, u) ==
  /\ OnDisagreement = "grow_then_escalate"
  /\ Cardinality(Live(d, u)) + NumVariants <= d.cap[ProjectOf[u]]

\* Mutant of GrowOverlap: one slot, not one per variant.
GrowOverlapByOne(d, u, plan) ==
  [d EXCEPT !.slot[u] = Append(@, OpenSlot(plan[1])), !.unit[u].status = "in_progress"]

GrowOverlap(d, u, plan) ==
  [d EXCEPT !.slot[u] = @ \o NewSlots(plan), !.unit[u].status = "in_progress"]

Escalate(d, u) == [d EXCEPT !.unit[u].escalated = TRUE]

ApplyConsensusPolicy(d, u, plan) ==
  IF ~Complete(d, u) \/ Agreed(d, u) THEN d
  ELSE IF CanGrow(d, u) THEN GrowOverlap(d, u, plan)
  ELSE Escalate(d, u)

\* The unit goes on to routing only when it has stopped collecting.
StopsCollecting(d, u) == Complete(d, u) /\ (Agreed(d, u) \/ ~CanGrow(d, u))

=============================================================================
