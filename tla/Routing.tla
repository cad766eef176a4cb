------------------------------ MODULE Routing ------------------------------
(***************************************************************************)
(* The default routing pipeline over a collected unit, ensemble ->         *)
(* auto_finalize -> human_review, and the reviewer's decision              *)
(* (backend/app/services/merge/{pipeline,merge,finalize,review}.py).       *)
(*                                                                         *)
(* Merge weights are live reputations, which move between any two merges.  *)
(* A merge is therefore any winner among the votes, and whether it clears  *)
(* the auto_finalize gate is open unless the votes are unanimous.          *)
(***************************************************************************)
EXTENDS Quality

CONSTANT SplitMayPass   \* can the project's auto_finalize condition hold of a
                        \* split vote?  The default (entropy <= 0.3) needs
                        \* near-unanimity; "consensus >= 0.6" does not.
ASSUME SplitAssumption == SplitMayPass \in BOOLEAN

Votes(d, u) == {d.label[l].value : l \in ValidLabels(d, u)}

\* merge_unit followed by the gate of stage_auto_finalize.
Merges(d, u) ==
  IF Votes(d, u) = {} THEN {[value |-> None, passes |-> FALSE]}
  ELSE {m \in [value : Votes(d, u), passes : BOOLEAN] :
          IF Cardinality(Votes(d, u)) = 1 THEN m.passes ELSE m.passes => SplitMayPass}

FinalizeUnit(d, u, method, value) ==
  [d EXCEPT !.final[u] = [method |-> method, value |-> value],
            !.unit[u].status = "finalized",
            !.unit[u].escalated = FALSE]

\* Mutant of RouteUnit: a pipeline without its last stage.
RouteUnitNoReview(d, u, merge) ==
  IF ~HumanDecided(d, u) /\ merge.passes
  THEN FinalizeUnit(d, u, "auto_consensus", merge.value) ELSE d

RouteUnit(d, u, merge) ==
  IF HumanDecided(d, u) THEN d
  ELSE IF merge.passes THEN FinalizeUnit(d, u, "auto_consensus", merge.value)
  ELSE [d EXCEPT !.unit[u].escalated = TRUE]

\* The units POST /projects/{id}/route considers.
Routable(d, p, includeFinalized) ==
  {u \in Units : /\ ProjectOf[u] = p
                 /\ \/ d.unit[u].status = "labeled"
                    \/ includeFinalized /\ d.unit[u].status = "finalized"}

\* Routing a unit reads and writes that unit's rows only, so the loop over the
\* units is one pointwise update.
RouteUnits(d, us, merges) ==
  [d EXCEPT
     !.unit  = [u \in Units |-> IF u \in us THEN RouteUnit(d, u, merges[u]).unit[u]
                                            ELSE d.unit[u]],
     !.final = [u \in Units |-> IF u \in us THEN RouteUnit(d, u, merges[u]).final[u]
                                            ELSE d.final[u]]]

\* review.decide: the method and value a reviewer's decision may write.
Decisions(d, u) ==
  {[method |-> "human_approved", value |-> v] : v \in Votes(d, u)}
    \cup {[method |-> "human_override", value |-> v] : v \in Answers}

=============================================================================
