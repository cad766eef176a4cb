------------------------------- MODULE Store -------------------------------
(***************************************************************************)
(* The rows of the MiniLP database that request handlers share, and the    *)
(* primitives every subsystem uses to change them                          *)
(* (backend/app/services/slots/*.py, backend/app/models/*.py).             *)
(*                                                                         *)
(* The database is one record d: a field per table, keyed by primary key.  *)
(* An operator that takes d and returns a new d stands for the statements  *)
(* a service function runs inside its caller's transaction; the modules    *)
(* that EXTEND this one chain such operators in the order of the code.     *)
(***************************************************************************)
EXTENDS Integers, Sequences, FiniteSets

CONSTANTS
  Projects,         \* ids of labeling projects
  Units,            \* ids of units, in order of creation (units.created_at)
  ProjectOf,        \* units.project_id, a function on Units
  GoldAnswer,       \* units.gold_expected: an answer, or None for a plain unit
  Annotators,       \* ids of annotators, humans and model judges alike
  Answers,          \* canonical label values (labels.value)
  Variants,         \* the template's variant values; one element: no variants
  LabelsPerUnit,    \* projects.labels_per_unit (K) when a unit is ingested
  MaxLabelsPerUnit, \* projects.max_labels_per_unit at that time
  None              \* SQL NULL

NumVariants == Cardinality(Variants)

\* What create_project enforces before a project can hold units.
ASSUME IdsAssumption ==
  /\ Units \subseteq Nat
  /\ ProjectOf \in [Units -> Projects]
  /\ GoldAnswer \in [Units -> Answers \cup {None}]
  /\ None \notin Answers \cup Annotators

ASSUME OverlapAssumption ==
  /\ IsFiniteSet(Variants) /\ Variants # {}
  /\ LabelsPerUnit \in Nat \ {0} /\ MaxLabelsPerUnit \in Nat
  /\ MaxLabelsPerUnit >= LabelsPerUnit
  /\ LabelsPerUnit % NumVariants = 0 /\ MaxLabelsPerUnit % NumVariants = 0

-----------------------------------------------------------------------------
(* Row types.                                                              *)

SlotRow == [variant : Variants,
            status  : {"open", "leased", "filled", "deleted"},
            by      : Annotators \cup {None},
            expired : BOOLEAN]      \* lease_expires_at lies in the past

UnitRow == [status    : {"pending", "in_progress", "labeled", "finalized"},
            escalated : BOOLEAN,    \* escalated_at IS NOT NULL
            priority  : Int]

LabelRow == [unit  : Units,
             slot  : Nat,
             by    : Annotators,
             value : Answers,
             valid : BOOLEAN,
             gold  : {"pass", "fail", "ungraded"}]

HumanMethods == {"human_approved", "human_override", "expert"}
FinalRow == [method : {"none", "auto_consensus"} \cup HumanMethods,
             value  : Answers \cup {None}]

NoDecision == [method |-> "none", value |-> None]

\* labels is append-only, so a label's position is its id and its age.
Databases == [slot  : [Units -> Seq(SlotRow)],
              unit  : [Units -> UnitRow],
              label : Seq(LabelRow),
              final : [Units -> FinalRow],
              ann   : [Annotators -> {"active", "paused"}],
              k     : [Projects -> Nat],
              cap   : [Projects -> Nat]]

-----------------------------------------------------------------------------
(* Reading.                                                                *)

\* A slot row is named <<unit, position>>; a deleted row is no row at all.
Live(d, u) == {i \in DOMAIN d.slot[u] : d.slot[u][i].status # "deleted"}

InStatus(d, u, status) == {i \in DOMAIN d.slot[u] : d.slot[u][i].status = status}

ValidLabels(d, u) == {l \in DOMAIN d.label : d.label[l].valid /\ d.label[l].unit = u}

HasValidLabel(d, a, u) == \E l \in ValidLabels(d, u) : d.label[l].by = a

HumanDecided(d, u) == d.final[u].method \in HumanMethods

DerivedStatus(d, u) ==
  IF Live(d, u) # {} /\ Live(d, u) = InStatus(d, u, "filled") THEN "labeled"
  ELSE IF InStatus(d, u, "leased") \cup InStatus(d, u, "filled") # {}
       THEN "in_progress"
       ELSE "pending"

-----------------------------------------------------------------------------
(* slots/generation.py                                                     *)

\* The orders in which k balanced variants may be laid out (the plan is shuffled).
SlotPlans(k) ==
  {plan \in [1..k -> Variants] :
     \A v, w \in Variants : Cardinality({i \in 1..k : plan[i] = v})
                          = Cardinality({i \in 1..k : plan[i] = w})}

OpenSlot(v) == [variant |-> v, status |-> "open", by |-> None, expired |-> FALSE]

NewSlots(plan) == [i \in DOMAIN plan |-> OpenSlot(plan[i])]

-----------------------------------------------------------------------------
(* slots/lifecycle.py                                                      *)

\* Mutant of Recompute: "finalized" is never left.
RecomputeUnforced(d, us, forced) ==
  [d EXCEPT !.unit = [u \in Units |->
     IF u \in us /\ d.unit[u].status # "finalized"
     THEN [d.unit[u] EXCEPT !.status = DerivedStatus(d, u)] ELSE d.unit[u]]]

\* recompute_unit_status on each unit of us; forced ones may leave "finalized".
Recompute(d, us, forced) ==
  [d EXCEPT !.unit = [u \in Units |->
     IF u \in us /\ (d.unit[u].status # "finalized" \/ u \in forced)
     THEN [d.unit[u] EXCEPT !.status = DerivedStatus(d, u)]
     ELSE d.unit[u]]]

\* reopen_slot on each of the slots in ss.  The variant is retained.
Reopen(d, ss) ==
  [d EXCEPT !.slot = [u \in Units |-> [i \in DOMAIN d.slot[u] |->
     IF <<u, i>> \in ss THEN OpenSlot(d.slot[u][i].variant) ELSE d.slot[u][i]]]]

\* The slots among ss that are occupied, hence reopened when their label goes.
Occupied(d, ss) ==
  {s \in ss : d.slot[s[1]][s[2]].status \in {"filled", "leased"}}

\* Mutant of Invalidate: the flag is rewritten on every row.
InvalidateExactly(d, ls) ==
  [d EXCEPT !.label = [l \in DOMAIN d.label |->
     [d.label[l] EXCEPT !.valid = l \notin ls]]]

Invalidate(d, ls) ==
  [d EXCEPT !.label = [l \in DOMAIN d.label |->
     [d.label[l] EXCEPT !.valid = @ /\ l \notin ls]]]

\* Mutant of AutoFinalized: a reviewer's verdict is withdrawn as well.
Finalized(d, us) == {u \in us : d.final[u].method # "none"}

AutoFinalized(d, us) ==
  {u \in us : d.final[u].method # "none" /\ ~HumanDecided(d, u)}

\* Mutant of Unwind: the final label outlives its evidence.
UnwindNothing(d, us) == d

\* _unwind_auto_finalization: drop the decisions whose evidence is gone.
Unwind(d, us) ==
  [d EXCEPT !.final = [u \in Units |-> IF u \in us THEN NoDecision ELSE d.final[u]]]

VoidLabels(d, ls) ==
  LET slots  == {<<d.label[l].unit, d.label[l].slot>> : l \in ls}
      units  == {d.label[l].unit : l \in ls}
      forced == AutoFinalized(d, units)
      opened == Reopen(Invalidate(d, ls), Occupied(d, slots))
  IN  Recompute(Unwind(opened, forced), units, forced)

=============================================================================
