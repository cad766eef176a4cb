--------------------------- MODULE PlatformProofs ---------------------------
(***************************************************************************)
(* Theorems about Platform, proved for every value of the constants: type  *)
(* correctness, the lease discipline of the assignment engine, and what no *)
(* request may undo.                                                       *)
(*                                                                         *)
(* Type correctness gives each operator on the database one lemma (it maps *)
(* Databases to Databases); the theorem chains them in the order in which  *)
(* the actions of Platform chain the operators.                            *)
(*                                                                         *)
(* An annotator holds at most one task of a project, and never one on a    *)
(* unit they have a valid label for.  Only two operators give anything to  *)
(* an annotator: Lease gives a slot, Fill turns it into a label.  All the  *)
(* others at most take away, which is what Shrinks says; the proof follows *)
(* that split.  It also gives the pause its meaning: who is paused holds   *)
(* nothing (PausedHoldsNothing).                                           *)
(*                                                                         *)
(* Then what no request may undo: a reviewer's verdict, a stored label,    *)
(* the variant of a slot, and the balance of a unit's variants.  Each is a *)
(* relation between the database before and after an operator; the four    *)
(* together are Keeps, which is transitive, so a request keeps what each   *)
(* of the operators it chains keeps.                                       *)
(***************************************************************************)
EXTENDS Platform, FunctionTheorems, SequenceTheorems, FiniteSetTheorems, TLAPS

-----------------------------------------------------------------------------
(* Sequences and rows.                                                     *)

\* A function on 1..n is a sequence of length n.
LEMMA FunctionIsSeq ==
  ASSUME NEW S, NEW n \in Nat, NEW t \in [1..n -> S]
  PROVE  t \in Seq(S) /\ Len(t) = n
<1>1. t \in Seq(S)
  BY SeqDef
<1>2. Len(t) = n
  BY <1>1, LenProperties
<1> QED BY <1>1, <1>2

\* The domain of a sequence is 1..Len, and its elements are in the element set.
LEMMA SeqFacts ==
  ASSUME NEW S, NEW s \in Seq(S)
  PROVE  /\ Len(s) \in Nat /\ DOMAIN s = 1..Len(s)
         /\ \A i \in DOMAIN s : s[i] \in S
BY LenProperties, ElementOfSeq

\* A function over the domain of a sequence is again a sequence.
LEMMA SameDomainIsSeq ==
  ASSUME NEW S, NEW s \in Seq(S), NEW T, NEW t \in [DOMAIN s -> T]
  PROVE  t \in Seq(T) /\ Len(t) = Len(s)
BY SeqFacts, FunctionIsSeq

LEMMA DatabaseFields ==
  ASSUME NEW d \in Databases
  PROVE  /\ d.slot \in [Units -> Seq(SlotRow)]
         /\ d.unit \in [Units -> UnitRow]
         /\ d.label \in Seq(LabelRow)
         /\ d.final \in [Units -> FinalRow]
         /\ d.ann \in [Annotators -> {"active", "paused"}]
         /\ d.k \in [Projects -> Nat] /\ d.cap \in [Projects -> Nat]
BY DEF Databases

\* Replacing a column by one of its type leaves a database.
LEMMA WithSlot ==
  ASSUME NEW d \in Databases, NEW x \in [Units -> Seq(SlotRow)]
  PROVE  [d EXCEPT !.slot = x] \in Databases
BY DEF Databases

LEMMA WithUnit ==
  ASSUME NEW d \in Databases, NEW x \in [Units -> UnitRow]
  PROVE  [d EXCEPT !.unit = x] \in Databases
BY DEF Databases

LEMMA WithLabel ==
  ASSUME NEW d \in Databases, NEW x \in Seq(LabelRow)
  PROVE  [d EXCEPT !.label = x] \in Databases
BY DEF Databases

LEMMA WithFinal ==
  ASSUME NEW d \in Databases, NEW x \in [Units -> FinalRow]
  PROVE  [d EXCEPT !.final = x] \in Databases
BY DEF Databases

LEMMA NoDecisionType == NoDecision \in FinalRow
BY DEF NoDecision, FinalRow

LEMMA OpenSlotType ==
  ASSUME NEW v \in Variants
  PROVE  OpenSlot(v) \in SlotRow
BY DEF OpenSlot, SlotRow

LEMMA DerivedStatusType ==
  ASSUME NEW d, NEW u
  PROVE  DerivedStatus(d, u) \in {"pending", "in_progress", "labeled", "finalized"}
BY DEF DerivedStatus

LEMMA NumVariantsType == NumVariants \in Nat
BY OverlapAssumption, FS_CardinalityType DEF NumVariants

LEMMA NewSlotsType ==
  ASSUME NEW n \in Nat, NEW plan \in [1..n -> Variants]
  PROVE  NewSlots(plan) \in Seq(SlotRow) /\ Len(NewSlots(plan)) = n
<1>1. NewSlots(plan) \in [1..n -> SlotRow]
  BY OpenSlotType DEF NewSlots
<1> QED BY <1>1, FunctionIsSeq

-----------------------------------------------------------------------------
(* The primitives of Store.                                                *)

LEMMA RecomputeType ==
  ASSUME NEW d \in Databases, NEW us, NEW forced
  PROVE  Recompute(d, us, forced) \in Databases
<1> DEFINE x == [u \in Units |->
              IF u \in us /\ (d.unit[u].status # "finalized" \/ u \in forced)
              THEN [d.unit[u] EXCEPT !.status = DerivedStatus(d, u)]
              ELSE d.unit[u]]
<1>1. ASSUME NEW u \in Units
      PROVE  x[u] \in UnitRow
  <2>1. d.unit[u] \in UnitRow
    BY DatabaseFields
  <2>2. [d.unit[u] EXCEPT !.status = DerivedStatus(d, u)] \in UnitRow
    BY <2>1, DerivedStatusType DEF UnitRow
  <2> QED BY <2>1, <2>2
<1>2. x \in [Units -> UnitRow]
  BY <1>1
<1>3. Recompute(d, us, forced) = [d EXCEPT !.unit = x]
  BY DEF Recompute
<1> HIDE DEF x
<1> QED BY <1>2, <1>3, WithUnit

LEMMA ReopenType ==
  ASSUME NEW d \in Databases, NEW ss
  PROVE  Reopen(d, ss) \in Databases
<1> DEFINE x == [u \in Units |-> [i \in DOMAIN d.slot[u] |->
              IF <<u, i>> \in ss THEN OpenSlot(d.slot[u][i].variant) ELSE d.slot[u][i]]]
<1>1. ASSUME NEW u \in Units
      PROVE  x[u] \in Seq(SlotRow)
  <2>1. d.slot[u] \in Seq(SlotRow)
    BY DatabaseFields
  <2>2. \A i \in DOMAIN d.slot[u] : d.slot[u][i] \in SlotRow
    BY <2>1, SeqFacts
  <2>3. \A i \in DOMAIN d.slot[u] : d.slot[u][i].variant \in Variants
    BY <2>2 DEF SlotRow
  <2>4. x[u] \in [DOMAIN d.slot[u] -> SlotRow]
    BY <2>2, <2>3, OpenSlotType
  <2> QED BY <2>1, <2>4, SameDomainIsSeq
<1>2. x \in [Units -> Seq(SlotRow)]
  BY <1>1
<1>3. Reopen(d, ss) = [d EXCEPT !.slot = x]
  BY DEF Reopen
<1> HIDE DEF x
<1> QED BY <1>2, <1>3, WithSlot

LEMMA InvalidateType ==
  ASSUME NEW d \in Databases, NEW ls
  PROVE  Invalidate(d, ls) \in Databases
<1> DEFINE x == [l \in DOMAIN d.label |-> [d.label[l] EXCEPT !.valid = @ /\ l \notin ls]]
<1>1. d.label \in Seq(LabelRow)
  BY DatabaseFields
<1>2. ASSUME NEW l \in DOMAIN d.label
      PROVE  x[l] \in LabelRow
  <2>1. d.label[l] \in LabelRow
    BY <1>1, SeqFacts
  <2>2. (d.label[l].valid /\ l \notin ls) \in BOOLEAN
    OBVIOUS
  <2> QED BY <2>1, <2>2 DEF LabelRow
<1>3. x \in Seq(LabelRow)
  BY <1>1, <1>2, SameDomainIsSeq
<1>4. Invalidate(d, ls) = [d EXCEPT !.label = x]
  BY DEF Invalidate
<1> HIDE DEF x
<1> QED BY <1>3, <1>4, WithLabel

LEMMA UnwindType ==
  ASSUME NEW d \in Databases, NEW us
  PROVE  Unwind(d, us) \in Databases
<1> DEFINE x == [u \in Units |-> IF u \in us THEN NoDecision ELSE d.final[u]]
<1>1. x \in [Units -> FinalRow]
  BY DatabaseFields, NoDecisionType
<1>2. Unwind(d, us) = [d EXCEPT !.final = x]
  BY DEF Unwind
<1> HIDE DEF x
<1> QED BY <1>1, <1>2, WithFinal

LEMMA VoidLabelsType ==
  ASSUME NEW d \in Databases, NEW ls
  PROVE  VoidLabels(d, ls) \in Databases
BY InvalidateType, ReopenType, UnwindType, RecomputeType DEF VoidLabels

-----------------------------------------------------------------------------
(* Single rows.                                                            *)

\* Replacing one unit's row, or one element of one unit's slots.
LEMMA OneUnitRow ==
  ASSUME NEW d \in Databases, NEW u \in Units, NEW row \in UnitRow
  PROVE  [d EXCEPT !.unit[u] = row] \in Databases
<1>1. [d.unit EXCEPT ![u] = row] \in [Units -> UnitRow]
  BY DatabaseFields
<1>2. [d EXCEPT !.unit[u] = row] = [d EXCEPT !.unit = [d.unit EXCEPT ![u] = row]]
  BY DEF Databases
<1> QED BY <1>1, <1>2, WithUnit

LEMMA OneSlotRow ==
  ASSUME NEW d \in Databases, NEW u \in Units, NEW i \in DOMAIN d.slot[u], NEW row \in SlotRow
  PROVE  [d EXCEPT !.slot[u][i] = row] \in Databases
<1> DEFINE t == [d.slot[u] EXCEPT ![i] = row]
<1>1. d.slot[u] \in Seq(SlotRow)
  BY DatabaseFields
<1>2. t \in Seq(SlotRow)
  BY <1>1, SeqFacts, ExceptSeq
<1>3. [d.slot EXCEPT ![u] = t] \in [Units -> Seq(SlotRow)]
  BY <1>2, DatabaseFields
<1>4. [d EXCEPT !.slot[u][i] = row] = [d EXCEPT !.slot = [d.slot EXCEPT ![u] = t]]
  BY DEF Databases
<1> HIDE DEF t
<1> QED BY <1>3, <1>4, WithSlot

LEMMA RowTypes ==
  ASSUME NEW d \in Databases
  PROVE  /\ \A u \in Units : d.unit[u] \in UnitRow
         /\ \A u \in Units : \A i \in DOMAIN d.slot[u] : d.slot[u][i] \in SlotRow
         /\ \A l \in DOMAIN d.label : d.label[l] \in LabelRow
<1>1. \A u \in Units : d.slot[u] \in Seq(SlotRow)
  BY DatabaseFields
<1>2. d.label \in Seq(LabelRow)
  BY DatabaseFields
<1> QED BY <1>1, <1>2, SeqFacts, DatabaseFields

-----------------------------------------------------------------------------
(* The quality pipeline.                                                   *)

LEMMA EnforceGoldThresholdType ==
  ASSUME NEW d \in Databases, NEW a \in Annotators, NEW u, NEW grade
  PROVE  EnforceGoldThreshold(d, a, u, grade) \in Databases
<1>1. [d EXCEPT !.ann[a] = "paused"] \in Databases
  BY DEF Databases
<1> QED BY <1>1, VoidLabelsType DEF EnforceGoldThreshold, PauseAnnotator

LEMMA GrowOverlapType ==
  ASSUME NEW d \in Databases, NEW u \in Units, NEW plan \in SlotPlans(NumVariants)
  PROVE  GrowOverlap(d, u, plan) \in Databases
<1> DEFINE e == [d EXCEPT !.slot[u] = @ \o NewSlots(plan)]
<1>1. NewSlots(plan) \in Seq(SlotRow)
  BY NewSlotsType, NumVariantsType DEF SlotPlans
<1>2. d.slot[u] \in Seq(SlotRow)
  BY DatabaseFields
<1>3. d.slot[u] \o NewSlots(plan) \in Seq(SlotRow)
  BY <1>1, <1>2, ConcatProperties
<1>4. e \in Databases
  <2>1. [d.slot EXCEPT ![u] = @ \o NewSlots(plan)] \in [Units -> Seq(SlotRow)]
    BY <1>3, DatabaseFields
  <2>2. e = [d EXCEPT !.slot = [d.slot EXCEPT ![u] = @ \o NewSlots(plan)]]
    BY DEF Databases
  <2> HIDE DEF e
  <2> QED BY <2>1, <2>2, WithSlot
<1>5. [d.unit[u] EXCEPT !.status = "in_progress"] \in UnitRow
  BY RowTypes DEF UnitRow
<1>6. GrowOverlap(d, u, plan)
        = [e EXCEPT !.unit[u] = [d.unit[u] EXCEPT !.status = "in_progress"]]
  BY DEF GrowOverlap, Databases
<1> HIDE DEF e
<1> QED BY <1>4, <1>5, <1>6, OneUnitRow

LEMMA EscalateType ==
  ASSUME NEW d \in Databases, NEW u \in Units
  PROVE  Escalate(d, u) \in Databases
<1>1. [d.unit[u] EXCEPT !.escalated = TRUE] \in UnitRow
  BY RowTypes DEF UnitRow
<1>2. Escalate(d, u) = [d EXCEPT !.unit[u] = [d.unit[u] EXCEPT !.escalated = TRUE]]
  BY DEF Escalate, Databases
<1> QED BY <1>1, <1>2, OneUnitRow

LEMMA ApplyConsensusPolicyType ==
  ASSUME NEW d \in Databases, NEW u \in Units, NEW plan \in SlotPlans(NumVariants)
  PROVE  ApplyConsensusPolicy(d, u, plan) \in Databases
BY GrowOverlapType, EscalateType DEF ApplyConsensusPolicy

-----------------------------------------------------------------------------
(* Routing and review.                                                     *)

LEMMA VotesType ==
  ASSUME NEW d \in Databases, NEW u
  PROVE  Votes(d, u) \subseteq Answers
BY RowTypes DEF Votes, ValidLabels, LabelRow

LEMMA FinalizeUnitType ==
  ASSUME NEW d \in Databases, NEW u \in Units,
         NEW method \in {"auto_consensus"} \cup HumanMethods, NEW value \in Answers
  PROVE  FinalizeUnit(d, u, method, value) \in Databases
<1> DEFINE e == [d EXCEPT !.final[u] = [method |-> method, value |-> value]]
           row == [d.unit[u] EXCEPT !.status = "finalized", !.escalated = FALSE]
<1>1. e \in Databases
  <2>1. [method |-> method, value |-> value] \in FinalRow
    BY DEF FinalRow
  <2> QED BY <2>1 DEF Databases
<1>2. row \in UnitRow
  BY RowTypes DEF UnitRow
<1>3. FinalizeUnit(d, u, method, value) = [e EXCEPT !.unit[u] = row]
  BY DEF FinalizeUnit, Databases
<1> HIDE DEF e, row
<1> QED BY <1>1, <1>2, <1>3, OneUnitRow

LEMMA MergesType ==
  ASSUME NEW d \in Databases, NEW u, NEW merge \in Merges(d, u), merge.passes
  PROVE  merge.value \in Votes(d, u)
BY DEF Merges

LEMMA RouteUnitType ==
  ASSUME NEW d \in Databases, NEW u \in Units, NEW merge \in Merges(d, u)
  PROVE  RouteUnit(d, u, merge) \in Databases
<1>1. CASE HumanDecided(d, u)
  BY <1>1 DEF RouteUnit
<1>2. CASE ~HumanDecided(d, u) /\ merge.passes
  <2>1. merge.value \in Answers
    BY <1>2, MergesType, VotesType
  <2> QED BY <1>2, <2>1, FinalizeUnitType DEF RouteUnit
<1>3. CASE ~HumanDecided(d, u) /\ ~merge.passes
  BY <1>3, EscalateType DEF RouteUnit, Escalate
<1> QED BY <1>1, <1>2, <1>3

LEMMA RouteUnitsType ==
  ASSUME NEW d \in Databases, NEW us \in SUBSET Units, NEW merges,
         \A u \in us : merges[u] \in Merges(d, u)
  PROVE  RouteUnits(d, us, merges) \in Databases
<1> DEFINE x == [u \in Units |-> IF u \in us THEN RouteUnit(d, u, merges[u]).unit[u]
                                           ELSE d.unit[u]]
           y == [u \in Units |-> IF u \in us THEN RouteUnit(d, u, merges[u]).final[u]
                                           ELSE d.final[u]]
<1>1. \A u \in us : RouteUnit(d, u, merges[u]) \in Databases
  BY RouteUnitType
<1>2. x \in [Units -> UnitRow] /\ y \in [Units -> FinalRow]
  BY <1>1, DatabaseFields
<1>3. RouteUnits(d, us, merges) = [[d EXCEPT !.unit = x] EXCEPT !.final = y]
  BY DEF RouteUnits, Databases
<1> HIDE DEF x, y
<1>4. [d EXCEPT !.unit = x] \in Databases
  BY <1>2, WithUnit
<1> QED BY <1>2, <1>3, <1>4, WithFinal

-----------------------------------------------------------------------------
(* The lease primitives.                                                   *)

LEMMA SweepType ==
  ASSUME NEW d \in Databases
  PROVE  Sweep(d) \in Databases
BY ReopenType, RecomputeType DEF Sweep

LEMMA LeaseType ==
  ASSUME NEW d \in Databases, NEW a \in Annotators, NEW u \in Units, NEW i \in DOMAIN d.slot[u]
  PROVE  Lease(d, a, u, i) \in Databases
<1> DEFINE row == [d.slot[u][i] EXCEPT !.status = "leased", !.by = a, !.expired = FALSE]
           e == [d EXCEPT !.slot[u][i] = row]
           r == [d.unit[u] EXCEPT !.status = IF @ = "pending" THEN "in_progress" ELSE @]
<1>1. row \in SlotRow
  <2>1. d.slot[u][i] \in SlotRow
    BY RowTypes
  <2> QED BY <2>1 DEF SlotRow
<1>2. e \in Databases
  <2> HIDE DEF row
  <2> QED BY <1>1, OneSlotRow
<1>3. r \in UnitRow
  BY RowTypes DEF UnitRow
<1>4. Lease(d, a, u, i) = [e EXCEPT !.unit[u] = r]
  BY DEF Lease, Databases
<1> HIDE DEF e, r
<1> QED BY <1>2, <1>3, <1>4, OneUnitRow

LEMMA FillType ==
  ASSUME NEW d \in Databases, NEW a \in Annotators, NEW u \in Units, NEW i \in DOMAIN d.slot[u],
         NEW value \in Answers
  PROVE  Fill(d, a, u, i, value) \in Databases
<1> DEFINE row == [unit |-> u, slot |-> i, by |-> a, value |-> value,
                   valid |-> TRUE, gold |-> Grade(u, value)]
           srow == [d.slot[u][i] EXCEPT !.status = "filled", !.expired = FALSE]
           e == [d EXCEPT !.slot[u][i] = srow]
           f == [e EXCEPT !.label = Append(d.label, row)]
<1>1. srow \in SlotRow
  <2>1. d.slot[u][i] \in SlotRow
    BY RowTypes
  <2> QED BY <2>1 DEF SlotRow
<1>2. e \in Databases
  <2> HIDE DEF srow
  <2> QED BY <1>1, OneSlotRow
<1>3. i \in Nat
  BY DatabaseFields, SeqFacts
<1>4. row \in LabelRow
  BY <1>3 DEF LabelRow, Grade
<1>5. Append(d.label, row) \in Seq(LabelRow)
  <2> HIDE DEF row
  <2> QED BY <1>4, DatabaseFields, AppendProperties
<1>6. f \in Databases
  <2> HIDE DEF e, row
  <2> QED BY <1>2, <1>5, WithLabel
<1>7. Fill(d, a, u, i, value) = Recompute(f, {u}, {})
  BY DEF Fill, Databases
<1> HIDE DEF f
<1> QED BY <1>6, <1>7, RecomputeType

-----------------------------------------------------------------------------
(* The requests.                                                           *)

LEMMA InStatusRange ==
  ASSUME NEW d, NEW u, NEW status, NEW i \in InStatus(d, u, status)
  PROVE  i \in DOMAIN d.slot[u]
BY DEF InStatus

LEMMA NextTaskType ==
  ASSUME TypeOK, NEW a \in Annotators, NEW p \in Projects, NextTask(a, p)
  PROVE  TypeOK'
<1> DEFINE d == Sweep(db)
<1>1. d \in Databases
  BY SweepType DEF TypeOK
<1>2. CASE \E s \in HeldSlots(d, a, p) : db' = [d EXCEPT !.slot[s[1]][s[2]].expired = FALSE]
  <2>1. PICK s \in HeldSlots(d, a, p) : db' = [d EXCEPT !.slot[s[1]][s[2]].expired = FALSE]
    BY <1>2
  <2> HIDE DEF d
  <2>2. PICK u \in Units : \E i \in InStatus(d, u, "leased") : s = <<u, i>>
    BY <2>1 DEF HeldSlots
  <2> PICK i \in InStatus(d, u, "leased") : s = <<u, i>>
    BY <2>2
  <2>3. i \in DOMAIN d.slot[u]
    BY <2>2, InStatusRange
  <2>4. [d.slot[u][i] EXCEPT !.expired = FALSE] \in SlotRow
    <3>1. d.slot[u][i] \in SlotRow
      BY <1>1, <2>3, RowTypes
    <3> QED BY <3>1 DEF SlotRow
  <2>5. db' = [d EXCEPT !.slot[u][i] = [d.slot[u][i] EXCEPT !.expired = FALSE]]
    BY <1>1, <2>1 DEF Databases
  <2> QED BY <1>1, <2>3, <2>4, <2>5, OneSlotRow DEF TypeOK
<1>3. CASE \E s \in NextSlots(d, a, p) : db' = Lease(d, a, s[1], s[2])
  <2>1. PICK s \in NextSlots(d, a, p) : db' = Lease(d, a, s[1], s[2])
    BY <1>3
  <2> HIDE DEF d
  <2>2. PICK u \in Units : \E i \in InStatus(d, u, "open") : s = <<u, i>>
    BY <2>1 DEF NextSlots, First, OpenSlots
  <2> PICK i \in InStatus(d, u, "open") : s = <<u, i>>
    BY <2>2
  <2> QED BY <1>1, <2>1, InStatusRange, LeaseType DEF TypeOK
<1>4. CASE db' = d
  BY <1>1, <1>4 DEF TypeOK
<1> QED BY <1>2, <1>3, <1>4 DEF NextTask

LEMMA SubmitType ==
  ASSUME TypeOK, NEW a \in Annotators, NEW u \in Units, NEW i, NEW value \in Answers,
         Submit(a, u, i, value)
  PROVE  TypeOK'
<1>1. PICK plan \in SlotPlans(NumVariants) :
        LET judged  == EnforceGoldThreshold(Fill(db, a, u, i, value), a, u, Grade(u, value))
            settled == ApplyConsensusPolicy(judged, u, plan)
        IN  IF StopsCollecting(judged, u)
            THEN \E merge \in Merges(settled, u) : db' = RouteUnit(settled, u, merge)
            ELSE db' = settled
  BY DEF Submit
<1> DEFINE filled  == Fill(db, a, u, i, value)
           judged  == EnforceGoldThreshold(filled, a, u, Grade(u, value))
           settled == ApplyConsensusPolicy(judged, u, plan)
<1>2. filled \in Databases
  BY FillType DEF TypeOK, Submit, Holds
<1> HIDE DEF filled
<1>3. judged \in Databases
  BY <1>2, EnforceGoldThresholdType
<1> HIDE DEF judged
<1>4. settled \in Databases
  BY <1>3, ApplyConsensusPolicyType
<1>5. db' = settled \/ \E merge \in Merges(settled, u) : db' = RouteUnit(settled, u, merge)
  BY <1>1 DEF filled, judged
<1> HIDE DEF settled
<1> QED BY <1>4, <1>5, RouteUnitType DEF TypeOK

LEMMA PatchUnitType ==
  ASSUME TypeOK, NEW u \in Units, NEW n \in Int, NEW void \in BOOLEAN, PatchUnit(u, n, void)
  PROVE  TypeOK'
<1> DEFINE d == [db EXCEPT !.unit[u].priority = n]
<1>1. d \in Databases
  <2>1. [db.unit[u] EXCEPT !.priority = n] \in UnitRow
    BY RowTypes DEF TypeOK, UnitRow
  <2>2. d = [db EXCEPT !.unit[u] = [db.unit[u] EXCEPT !.priority = n]]
    BY DEF TypeOK, Databases
  <2> HIDE DEF d
  <2> QED BY <2>1, <2>2, OneUnitRow DEF TypeOK
<1>2. CASE void
  <2> HIDE DEF d
  <2> DEFINE voided   == VoidLabels(d, ValidLabels(d, u))
             stranded == {u} \X (InStatus(voided, u, "leased") \cup InStatus(voided, u, "filled"))
  <2>1. db' = Recompute(Reopen(voided, stranded), {u}, {})
    BY <1>2 DEF PatchUnit, d
  <2>2. voided \in Databases
    BY <1>1, VoidLabelsType
  <2> HIDE DEF voided, stranded
  <2> QED BY <2>1, <2>2, ReopenType, RecomputeType DEF TypeOK
<1>3. CASE ~void
  BY <1>1, <1>3 DEF PatchUnit, TypeOK
<1> QED BY <1>2, <1>3

LEMMA DecideType ==
  ASSUME TypeOK, NEW u \in Units, Decide(u)
  PROVE  TypeOK'
<1>1. PICK x \in Decisions(db, u) : db' = FinalizeUnit(db, u, x.method, x.value)
  BY DEF Decide
<1>2. x.method \in HumanMethods /\ x.value \in Answers
  BY VotesType DEF Decisions, HumanMethods, TypeOK
<1> QED BY <1>1, <1>2, FinalizeUnitType DEF TypeOK

LEMMA RouteProjectType ==
  ASSUME TypeOK, NEW p \in Projects, NEW all \in BOOLEAN, RouteProject(p, all)
  PROVE  TypeOK'
<1> DEFINE us == Routable(db, p, all)
<1>1. us \in SUBSET Units
  BY DEF Routable
<1>2. PICK merges : /\ \A u \in us : merges[u] \in Merges(db, u)
                    /\ db' = RouteUnits(db, us, merges)
  BY DEF RouteProject
<1> HIDE DEF us
<1> QED BY <1>1, <1>2, RouteUnitsType DEF TypeOK

LEMMA LeaseRunsOutType ==
  ASSUME TypeOK, NEW u \in Units, NEW i, LeaseRunsOut(u, i)
  PROVE  TypeOK'
<1>1. i \in DOMAIN db.slot[u]
  BY InStatusRange DEF LeaseRunsOut
<1>2. [db.slot[u][i] EXCEPT !.expired = TRUE] \in SlotRow
  <2>1. db.slot[u][i] \in SlotRow
    BY <1>1, RowTypes DEF TypeOK
  <2> QED BY <2>1 DEF SlotRow
<1>3. db' = [db EXCEPT !.slot[u][i] = [db.slot[u][i] EXCEPT !.expired = TRUE]]
  BY DEF LeaseRunsOut, TypeOK, Databases
<1> QED BY <1>1, <1>2, <1>3, OneSlotRow DEF TypeOK

\* A freshly ingested project is a database.
LEMMA InitType ==
  ASSUME Init
  PROVE  TypeOK
<1>1. PICK layout \in [Units -> SlotPlans(LabelsPerUnit)] :
        db = [slot  |-> [u \in Units |-> NewSlots(layout[u])],
              unit  |-> [u \in Units |-> [status |-> "pending", escalated |-> FALSE,
                                          priority |-> 0]],
              label |-> <<>>,
              final |-> [u \in Units |-> NoDecision],
              ann   |-> [a \in Annotators |-> "active"],
              k     |-> [p \in Projects |-> LabelsPerUnit],
              cap   |-> [p \in Projects |-> MaxLabelsPerUnit]]
  BY DEF Init
<1>2. \A u \in Units : NewSlots(layout[u]) \in Seq(SlotRow)
  BY OverlapAssumption, NewSlotsType DEF SlotPlans
<1>3. [status |-> "pending", escalated |-> FALSE, priority |-> 0] \in UnitRow
  BY DEF UnitRow
<1>4. <<>> \in Seq(LabelRow)
  BY EmptySeq
<1> QED BY <1>1, <1>2, <1>3, <1>4, NoDecisionType, OverlapAssumption DEF TypeOK, Databases

\* Every request maps a database to a database.
LEMMA NextType ==
  ASSUME TypeOK, Next
  PROVE  TypeOK'
<1>1. CASE AnnotatorStep
  <2>1. ASSUME NEW a \in Annotators, NEW u \in Units, NEW i, Skip(a, u, i)
        PROVE  TypeOK'
    BY <2>1, ReopenType, RecomputeType DEF Skip, TypeOK
  <2> QED BY <1>1, <2>1, NextTaskType, SubmitType DEF AnnotatorStep
<1>2. CASE StaffStep
  <2>1. ASSUME NEW a \in Annotators, ResumeAnnotator(a)
        PROVE  TypeOK'
    BY <2>1 DEF ResumeAnnotator, TypeOK, Databases
  <2>2. ASSUME NEW u \in Units, NEW n \in Priorities \cup {db.unit[u].priority},
               NEW void \in BOOLEAN, PatchUnit(u, n, void)
        PROVE  TypeOK'
    <3>1. n \in Int
      BY PlatformAssumption, RowTypes DEF TypeOK, UnitRow
    <3> QED BY <2>2, <3>1, PatchUnitType
  <2> QED BY <1>2, <2>1, <2>2, DecideType, RouteProjectType DEF StaffStep
<1>3. CASE ClockStep
  <2>1. CASE AvailableWork
    BY <2>1, SweepType DEF AvailableWork, TypeOK
  <2> QED BY <1>3, <2>1, LeaseRunsOutType DEF ClockStep
<1> QED BY <1>1, <1>2, <1>3 DEF Next

\* Every column holds a value of its type in every reachable state, for any
\* number of projects, units, annotators, variants and answers.
THEOREM TypeCorrect == Spec => []TypeOK
<1>1. Init => TypeOK
  BY InitType
<1>2. TypeOK /\ [Next]_db => TypeOK'
  <2>1. CASE UNCHANGED db
    BY <2>1 DEF TypeOK
  <2> QED BY <2>1, NextType
<1> QED BY <1>1, <1>2, PTL DEF Spec

-----------------------------------------------------------------------------
(* The lease discipline.                                                   *)

\* OneTaskAtATime and HolderMaySubmit, of any database.
OneTask(d) ==
  \A a \in Annotators : \A u, w \in Units : \A i \in DOMAIN d.slot[u], j \in DOMAIN d.slot[w] :
     Holds(d, a, u, i) /\ Holds(d, a, w, j) /\ ProjectOf[u] = ProjectOf[w]
       => u = w /\ i = j

MaySubmit(d) ==
  \A a \in Annotators, u \in Units : \A i \in DOMAIN d.slot[u] :
     Holds(d, a, u, i) => ~HasValidLabel(d, a, u)

LeaseInv(d) == OneTask(d) /\ MaySubmit(d)

\* From d to e no annotator gained a lease or a valid label.
Shrinks(d, e) ==
  \A a \in Annotators, u \in Units :
     /\ \A i : Holds(e, a, u, i) => Holds(d, a, u, i)
     /\ HasValidLabel(e, a, u) => HasValidLabel(d, a, u)

-----------------------------------------------------------------------------

LEMMA ShrinksTrans ==
  ASSUME NEW d, NEW e, NEW f, Shrinks(d, e), Shrinks(e, f)
  PROVE  Shrinks(d, f)
BY DEF Shrinks

\* The two columns that matter are untouched.
LEMMA SameTablesShrink ==
  ASSUME NEW d, NEW e, e.slot = d.slot, e.label = d.label
  PROVE  Shrinks(d, e)
BY DEF Shrinks, Holds, HasValidLabel, ValidLabels

\* What only takes away keeps the discipline.
LEMMA ShrinksKeeps ==
  ASSUME NEW d, NEW e, LeaseInv(d), Shrinks(d, e)
  PROVE  LeaseInv(e)
<1>1. ASSUME NEW a \in Annotators, NEW u \in Units, NEW w \in Units, NEW i, NEW j,
             Holds(e, a, u, i), Holds(e, a, w, j), ProjectOf[u] = ProjectOf[w]
      PROVE  u = w /\ i = j
  <2>1. Holds(d, a, u, i) /\ Holds(d, a, w, j)
    BY <1>1 DEF Shrinks
  <2>2. i \in DOMAIN d.slot[u] /\ j \in DOMAIN d.slot[w]
    BY <2>1 DEF Holds
  <2> QED BY <1>1, <2>1, <2>2 DEF LeaseInv, OneTask
<1>2. ASSUME NEW a \in Annotators, NEW u \in Units, NEW i, Holds(e, a, u, i)
      PROVE  ~HasValidLabel(e, a, u)
  <2>1. Holds(d, a, u, i)
    BY <1>2 DEF Shrinks
  <2>2. i \in DOMAIN d.slot[u]
    BY <2>1 DEF Holds
  <2> QED BY <2>1, <2>2 DEF LeaseInv, MaySubmit, Shrinks
<1>3. OneTask(e)
  BY <1>1 DEF OneTask
<1>4. MaySubmit(e)
  BY <1>2 DEF MaySubmit
<1> QED BY <1>3, <1>4 DEF LeaseInv

-----------------------------------------------------------------------------
(* The operators that take away.                                           *)

LEMMA RecomputeShrinks ==
  ASSUME NEW d \in Databases, NEW us, NEW forced
  PROVE  Shrinks(d, Recompute(d, us, forced))
<1>1. Recompute(d, us, forced).slot = d.slot /\ Recompute(d, us, forced).label = d.label
  BY DEF Recompute, Databases
<1> QED BY <1>1, SameTablesShrink

LEMMA UnwindShrinks ==
  ASSUME NEW d \in Databases, NEW us
  PROVE  Shrinks(d, Unwind(d, us))
<1>1. Unwind(d, us).slot = d.slot /\ Unwind(d, us).label = d.label
  BY DEF Unwind, Databases
<1> QED BY <1>1, SameTablesShrink

LEMMA ReopenShrinks ==
  ASSUME NEW d \in Databases, NEW ss
  PROVE  Shrinks(d, Reopen(d, ss))
<1> DEFINE e == Reopen(d, ss)
<1>1. e.label = d.label
  BY DEF Reopen, Databases
<1>2. ASSUME NEW u \in Units
      PROVE  e.slot[u] = [i \in DOMAIN d.slot[u] |->
               IF <<u, i>> \in ss THEN OpenSlot(d.slot[u][i].variant) ELSE d.slot[u][i]]
  BY DEF Reopen, Databases
<1> HIDE DEF e
<1>3. ASSUME NEW a \in Annotators, NEW u \in Units, NEW i, Holds(e, a, u, i)
      PROVE  Holds(d, a, u, i)
  <2>1. DOMAIN e.slot[u] = DOMAIN d.slot[u]
    BY <1>2
  <2>2. i \in DOMAIN d.slot[u]
    BY <1>3, <2>1 DEF Holds
  <2>3. e.slot[u][i] = IF <<u, i>> \in ss THEN OpenSlot(d.slot[u][i].variant) ELSE d.slot[u][i]
    BY <1>2, <2>2
  <2>4. OpenSlot(d.slot[u][i].variant).status = "open"
    BY DEF OpenSlot
  <2>5. e.slot[u][i].status = "leased" /\ e.slot[u][i].by = a
    BY <1>3 DEF Holds
  <2>6. e.slot[u][i] = d.slot[u][i]
    BY <2>3, <2>4, <2>5
  <2> QED BY <2>2, <2>5, <2>6 DEF Holds
<1>4. ASSUME NEW a \in Annotators, NEW u \in Units, HasValidLabel(e, a, u)
      PROVE  HasValidLabel(d, a, u)
  BY <1>1, <1>4 DEF HasValidLabel, ValidLabels
<1> QED BY <1>3, <1>4 DEF Shrinks, e

LEMMA InvalidateShrinks ==
  ASSUME NEW d \in Databases, NEW ls
  PROVE  Shrinks(d, Invalidate(d, ls))
<1> DEFINE e == Invalidate(d, ls)
<1>1. e.slot = d.slot
  BY DEF Invalidate, Databases
<1>2. e.label = [l \in DOMAIN d.label |-> [d.label[l] EXCEPT !.valid = @ /\ l \notin ls]]
  BY DEF Invalidate, Databases
<1>3. \A l \in DOMAIN d.label : d.label[l] \in LabelRow
  BY RowTypes
<1>4. \A l \in DOMAIN d.label : /\ e.label[l].by = d.label[l].by
                                /\ e.label[l].unit = d.label[l].unit
                                /\ e.label[l].valid => d.label[l].valid
  BY <1>2, <1>3 DEF LabelRow
<1>5. DOMAIN e.label = DOMAIN d.label
  BY <1>2
<1> HIDE DEF e
<1>6. ASSUME NEW a \in Annotators, NEW u \in Units, HasValidLabel(e, a, u)
      PROVE  HasValidLabel(d, a, u)
  BY <1>4, <1>5, <1>6 DEF HasValidLabel, ValidLabels
<1>7. ASSUME NEW a \in Annotators, NEW u \in Units, NEW i, Holds(e, a, u, i)
      PROVE  Holds(d, a, u, i)
  BY <1>1, <1>7 DEF Holds
<1> QED BY <1>6, <1>7 DEF Shrinks, e

LEMMA VoidLabelsShrinks ==
  ASSUME NEW d \in Databases, NEW ls
  PROVE  Shrinks(d, VoidLabels(d, ls))
<1> DEFINE slots  == {<<d.label[l].unit, d.label[l].slot>> : l \in ls}
           units  == {d.label[l].unit : l \in ls}
           forced == AutoFinalized(d, units)
           d1 == Invalidate(d, ls)
           d2 == Reopen(d1, Occupied(d, slots))
           d3 == Unwind(d2, forced)
           d4 == Recompute(d3, units, forced)
<1>1. VoidLabels(d, ls) = d4
  BY DEF VoidLabels
<1> HIDE DEF slots, units, forced
<1>2. d1 \in Databases /\ Shrinks(d, d1)
  BY InvalidateType, InvalidateShrinks
<1> HIDE DEF d1
<1>3. d2 \in Databases /\ Shrinks(d1, d2)
  BY <1>2, ReopenType, ReopenShrinks
<1> HIDE DEF d2
<1>4. d3 \in Databases /\ Shrinks(d2, d3)
  BY <1>3, UnwindType, UnwindShrinks
<1> HIDE DEF d3
<1>5. Shrinks(d3, d4)
  BY <1>4, RecomputeShrinks
<1> HIDE DEF d4
<1>6. Shrinks(d, d2)
  BY <1>2, <1>3, ShrinksTrans
<1>7. Shrinks(d, d3)
  BY <1>6, <1>4, ShrinksTrans
<1> QED BY <1>1, <1>5, <1>7, ShrinksTrans

LEMMA EnforceGoldThresholdShrinks ==
  ASSUME NEW d \in Databases, NEW a \in Annotators, NEW u, NEW grade
  PROVE  Shrinks(d, EnforceGoldThreshold(d, a, u, grade))
<1> DEFINE paused == [d EXCEPT !.ann[a] = "paused"]
           ls     == Newest(ValidLabelsBy(d, a, ProjectOf[u]), VoidLookback)
<1>1. paused \in Databases /\ Shrinks(d, paused)
  <2>1. paused.slot = d.slot /\ paused.label = d.label
    BY DEF Databases
  <2>2. paused \in Databases
    BY DEF Databases
  <2> QED BY <2>1, <2>2, SameTablesShrink
<1>2. EnforceGoldThreshold(d, a, u, grade) \in {d, VoidLabels(paused, ls)}
  BY DEF EnforceGoldThreshold, PauseAnnotator
<1> HIDE DEF paused, ls
<1>3. Shrinks(d, VoidLabels(paused, ls))
  BY <1>1, VoidLabelsShrinks, ShrinksTrans
<1>4. Shrinks(d, d)
  BY DEF Shrinks
<1> QED BY <1>2, <1>3, <1>4

LEMMA GrowOverlapShrinks ==
  ASSUME NEW d \in Databases, NEW u \in Units, NEW plan \in SlotPlans(NumVariants)
  PROVE  Shrinks(d, GrowOverlap(d, u, plan))
<1> DEFINE e == GrowOverlap(d, u, plan)
           s == d.slot[u]
           t == NewSlots(plan)
<1>1. s \in Seq(SlotRow) /\ t \in Seq(SlotRow)
  BY DatabaseFields, NewSlotsType, NumVariantsType DEF SlotPlans
<1>2. \A i \in DOMAIN t : t[i].status = "open"
  BY DEF NewSlots, OpenSlot
<1>3. e.label = d.label /\ \A w \in Units \ {u} : e.slot[w] = d.slot[w]
  BY DEF GrowOverlap, Databases
<1>4. e.slot[u] = s \o t
  BY DEF GrowOverlap, Databases
<1> HIDE DEF e, s, t
<1>5. ASSUME NEW a \in Annotators, NEW i, Holds(e, a, u, i)
      PROVE  Holds(d, a, u, i)
  <2>1. /\ i \in DOMAIN (s \o t)
        /\ (s \o t)[i].status = "leased" /\ (s \o t)[i].by = a
    BY <1>4, <1>5 DEF Holds
  <2>2. i \in 1..(Len(s) + Len(t))
    BY <1>1, <2>1, ConcatProperties, SeqFacts
  <2>3. Len(s) \in Nat /\ Len(t) \in Nat /\ DOMAIN s = 1..Len(s) /\ DOMAIN t = 1..Len(t)
    BY <1>1, SeqFacts
  <2>4. i <= Len(s)
    <3> SUFFICES ASSUME ~(i <= Len(s)) PROVE FALSE
      OBVIOUS
    <3>1. (s \o t)[i] = t[i - Len(s)]
      BY <1>1, <2>2, ConcatProperties
    <3>2. i - Len(s) \in DOMAIN t
      BY <2>2, <2>3
    <3> QED BY <3>1, <3>2, <1>2, <2>1
  <2>5. i \in DOMAIN s /\ (s \o t)[i] = s[i]
    BY <1>1, <2>2, <2>3, <2>4, ConcatProperties
  <2> QED BY <2>1, <2>5 DEF Holds, s
<1>6. ASSUME NEW a \in Annotators, NEW w \in Units, NEW i, Holds(e, a, w, i)
      PROVE  Holds(d, a, w, i)
  BY <1>3, <1>5, <1>6 DEF Holds
<1>7. ASSUME NEW a \in Annotators, NEW w \in Units, HasValidLabel(e, a, w)
      PROVE  HasValidLabel(d, a, w)
  BY <1>3, <1>7 DEF HasValidLabel, ValidLabels
<1> QED BY <1>6, <1>7 DEF Shrinks, e

LEMMA ApplyConsensusPolicyShrinks ==
  ASSUME NEW d \in Databases, NEW u \in Units, NEW plan \in SlotPlans(NumVariants)
  PROVE  Shrinks(d, ApplyConsensusPolicy(d, u, plan))
<1>1. Shrinks(d, d)
  BY DEF Shrinks
<1>2. Shrinks(d, Escalate(d, u))
  <2>1. Escalate(d, u).slot = d.slot /\ Escalate(d, u).label = d.label
    BY DEF Escalate, Databases
  <2> QED BY <2>1, SameTablesShrink
<1> QED BY <1>1, <1>2, GrowOverlapShrinks DEF ApplyConsensusPolicy

LEMMA RouteUnitShrinks ==
  ASSUME NEW d \in Databases, NEW u, NEW merge
  PROVE  Shrinks(d, RouteUnit(d, u, merge))
<1>1. /\ RouteUnit(d, u, merge).slot = d.slot
      /\ RouteUnit(d, u, merge).label = d.label
  BY DEF RouteUnit, FinalizeUnit, Databases
<1> QED BY <1>1, SameTablesShrink

LEMMA SweepShrinks ==
  ASSUME NEW d \in Databases
  PROVE  Shrinks(d, Sweep(d))
<1> DEFINE e == Reopen(d, Expired(d))
<1>1. e \in Databases /\ Shrinks(d, e)
  BY ReopenType, ReopenShrinks
<1>2. Sweep(d) = Recompute(e, {s[1] : s \in Expired(d)}, {})
  BY DEF Sweep
<1> HIDE DEF e
<1>3. Shrinks(e, Sweep(d))
  BY <1>1, <1>2, RecomputeShrinks
<1> QED BY <1>1, <1>3, ShrinksTrans

\* Voiding and sweeping pause nobody and resume nobody.
LEMMA VoidLabelsAnn ==
  ASSUME NEW d \in Databases, NEW ls
  PROVE  VoidLabels(d, ls).ann = d.ann
<1>1. \A e \in Databases : \A us, forced, ss :
         /\ Recompute(e, us, forced).ann = e.ann
         /\ Unwind(e, us).ann = e.ann
         /\ Reopen(e, ss).ann = e.ann
         /\ Invalidate(e, us).ann = e.ann
  BY DEF Recompute, Unwind, Reopen, Invalidate, Databases
<1> QED BY <1>1, InvalidateType, ReopenType, UnwindType DEF VoidLabels

LEMMA SweepAnn ==
  ASSUME NEW d \in Databases
  PROVE  Sweep(d).ann = d.ann
<1> DEFINE e == Reopen(d, Expired(d))
<1>1. e \in Databases
  BY ReopenType
<1>2. e.ann = d.ann
  BY DEF Reopen, Databases
<1>3. Sweep(d) = Recompute(e, {s[1] : s \in Expired(d)}, {})
  BY DEF Sweep
<1> HIDE DEF e
<1> QED BY <1>1, <1>2, <1>3 DEF Recompute, Databases

LEMMA ResumeShrinks ==
  ASSUME NEW d \in Databases, NEW s
  PROVE  Shrinks(d, [d EXCEPT !.slot[s[1]][s[2]].expired = FALSE])
<1> DEFINE e == [d EXCEPT !.slot[s[1]][s[2]].expired = FALSE]
<1>1. e.label = d.label
  BY DEF Databases
<1>2. \A u \in Units : DOMAIN e.slot[u] = DOMAIN d.slot[u]
  BY DEF Databases
<1>3. \A u \in Units : \A i \in DOMAIN d.slot[u] :
         e.slot[u][i] \in {d.slot[u][i], [d.slot[u][i] EXCEPT !.expired = FALSE]}
  BY DEF Databases
<1> HIDE DEF e
<1>4. \A u \in Units : \A i \in DOMAIN d.slot[u] : d.slot[u][i] \in SlotRow
  BY RowTypes
<1>5. \A u \in Units : \A i \in DOMAIN d.slot[u] :
         /\ e.slot[u][i].status = d.slot[u][i].status
         /\ e.slot[u][i].by = d.slot[u][i].by
  BY <1>3, <1>4 DEF SlotRow
<1>6. ASSUME NEW b \in Annotators, NEW u \in Units, NEW i, Holds(e, b, u, i)
      PROVE  Holds(d, b, u, i)
  BY <1>2, <1>5, <1>6 DEF Holds
<1>7. ASSUME NEW b \in Annotators, NEW u \in Units, HasValidLabel(e, b, u)
      PROVE  HasValidLabel(d, b, u)
  BY <1>1, <1>7 DEF HasValidLabel, ValidLabels
<1> QED BY <1>6, <1>7 DEF Shrinks, e

-----------------------------------------------------------------------------
(* The two operators that give.                                            *)

\* Every lease of the new database is an old one, or the one just given.
LEMMA LeaseGivesOne ==
  ASSUME NEW d \in Databases, NEW a \in Annotators, NEW u \in Units, NEW i \in DOMAIN d.slot[u],
         NEW b \in Annotators, NEW w \in Units, NEW j, Holds(Lease(d, a, u, i), b, w, j)
  PROVE  Holds(d, b, w, j) \/ (b = a /\ w = u /\ j = i)
<1> DEFINE e == Lease(d, a, u, i)
<1>1. \A v \in Units \ {u} : e.slot[v] = d.slot[v]
  BY DEF Lease, Databases
<1>2. e.slot[u] = [d.slot[u] EXCEPT ![i] =
                     [d.slot[u][i] EXCEPT !.status = "leased", !.by = a, !.expired = FALSE]]
  BY DEF Lease, Databases
<1>3. Holds(e, b, w, j)
  OBVIOUS
<1> HIDE DEF e
<1>4. d.slot[u][i] \in SlotRow
  BY RowTypes
<1>5. e.slot[u][i].status = "leased" /\ e.slot[u][i].by = a
  BY <1>2, <1>4 DEF SlotRow
<1>6. CASE w = u /\ j = i
  BY <1>3, <1>5, <1>6 DEF Holds
<1>7. CASE w = u /\ j # i
  <2>1. j \in DOMAIN d.slot[u] /\ e.slot[u][j] = d.slot[u][j]
    BY <1>2, <1>3, <1>7 DEF Holds
  <2> QED BY <1>3, <1>7, <2>1 DEF Holds
<1>8. CASE w # u
  BY <1>1, <1>3, <1>8 DEF Holds
<1> QED BY <1>6, <1>7, <1>8

LEMMA LeaseKeeps ==
  ASSUME NEW d \in Databases, LeaseInv(d), NEW a \in Annotators, NEW p,
         HeldSlots(d, a, p) = {},
         NEW u \in Units, NEW i \in DOMAIN d.slot[u],
         ProjectOf[u] = p, MayTake(d, a, u)
  PROVE  LeaseInv(Lease(d, a, u, i))
<1> DEFINE e == Lease(d, a, u, i)
<1>1. e.label = d.label
  BY DEF Lease, Databases
<1>2. \A b \in Annotators, w \in Units : \A j :
        Holds(e, b, w, j) => Holds(d, b, w, j) \/ (b = a /\ w = u /\ j = i)
  BY LeaseGivesOne
<1> HIDE DEF e
<1>3. \* a held nothing in the project of u.
      ASSUME NEW w \in Units, NEW j, Holds(d, a, w, j), ProjectOf[w] = p
      PROVE  FALSE
  <2>1. j \in InStatus(d, w, "leased") /\ d.slot[w][j].by = a
    BY <1>3 DEF Holds, InStatus
  <2>2. <<w, j>> \in HeldSlots(d, a, p)
    BY <1>3, <2>1 DEF HeldSlots
  <2> QED BY <2>2
<1>4. OneTask(e)
  <2> SUFFICES ASSUME NEW b \in Annotators, NEW v \in Units, NEW w \in Units, NEW j, NEW k,
                      Holds(e, b, v, j), Holds(e, b, w, k), ProjectOf[v] = ProjectOf[w]
               PROVE  v = w /\ j = k
    BY DEF OneTask
  <2>1. CASE Holds(d, b, v, j) /\ Holds(d, b, w, k)
    <3>1. j \in DOMAIN d.slot[v] /\ k \in DOMAIN d.slot[w]
      BY <2>1 DEF Holds
    <3> QED BY <2>1, <3>1 DEF LeaseInv, OneTask
  <2>2. CASE b = a
    BY <1>2, <1>3, <2>1, <2>2
  <2> QED BY <1>2, <2>1, <2>2
<1>5. MaySubmit(e)
  <2> SUFFICES ASSUME NEW b \in Annotators, NEW w \in Units, NEW j, Holds(e, b, w, j)
               PROVE  ~HasValidLabel(e, b, w)
    BY DEF MaySubmit
  <2>1. HasValidLabel(e, b, w) <=> HasValidLabel(d, b, w)
    BY <1>1 DEF HasValidLabel, ValidLabels
  <2>2. CASE Holds(d, b, w, j)
    <3>1. j \in DOMAIN d.slot[w]
      BY <2>2 DEF Holds
    <3> QED BY <2>1, <2>2, <3>1 DEF LeaseInv, MaySubmit
  <2>3. CASE b = a /\ w = u
    BY <2>1, <2>3 DEF MayTake
  <2> QED BY <1>2, <2>2, <2>3
<1> QED BY <1>4, <1>5 DEF LeaseInv, e

\* The submitted lease is gone; the others are untouched.
LEMMA FillTakesLease ==
  ASSUME NEW d \in Databases, NEW a \in Annotators, NEW u \in Units, NEW i, NEW value \in Answers,
         Holds(d, a, u, i), NEW b \in Annotators, NEW w \in Units, NEW j,
         Holds(Fill(d, a, u, i, value), b, w, j)
  PROVE  Holds(d, b, w, j) /\ ~(w = u /\ j = i)
<1> DEFINE e == Fill(d, a, u, i, value)
<1>1. i \in DOMAIN d.slot[u]
  BY DEF Holds
<1>2. \A v \in Units \ {u} : e.slot[v] = d.slot[v]
  BY DEF Fill, Recompute, Databases
<1>3. e.slot[u] = [d.slot[u] EXCEPT ![i] =
                     [d.slot[u][i] EXCEPT !.status = "filled", !.expired = FALSE]]
  BY DEF Fill, Recompute, Databases
<1>4. Holds(e, b, w, j)
  OBVIOUS
<1> HIDE DEF e
<1>5. d.slot[u][i] \in SlotRow
  BY <1>1, RowTypes
<1>6. e.slot[u][i].status = "filled"
  BY <1>1, <1>3, <1>5 DEF SlotRow
<1>7. CASE w = u /\ j = i
  BY <1>4, <1>6, <1>7 DEF Holds
<1>8. CASE w = u /\ j # i
  <2>1. j \in DOMAIN d.slot[u] /\ e.slot[u][j] = d.slot[u][j]
    BY <1>3, <1>4, <1>8 DEF Holds
  <2> QED BY <1>4, <1>8, <2>1 DEF Holds
<1>9. CASE w # u
  BY <1>2, <1>4, <1>9 DEF Holds
<1> QED BY <1>7, <1>8, <1>9

LEMMA FillKeeps ==
  ASSUME NEW d \in Databases, LeaseInv(d), NEW a \in Annotators, NEW u \in Units, NEW i,
         NEW value \in Answers, Holds(d, a, u, i)
  PROVE  LeaseInv(Fill(d, a, u, i, value))
<1> DEFINE row == [unit |-> u, slot |-> i, by |-> a, value |-> value,
                   valid |-> TRUE, gold |-> Grade(u, value)]
           e == Fill(d, a, u, i, value)
<1>1. i \in DOMAIN d.slot[u]
  BY DEF Holds
<1>2. e.label = Append(d.label, row)
  BY DEF Fill, Recompute, Databases
<1>3. \A b \in Annotators, w \in Units : \A j :
        Holds(e, b, w, j) => Holds(d, b, w, j) /\ ~(w = u /\ j = i)
  BY FillTakesLease
<1>4. row.by = a /\ row.unit = u
  OBVIOUS
<1> HIDE DEF e, row
<1>5. \* The only new label is a's on u.
      ASSUME NEW b \in Annotators, NEW w \in Units, HasValidLabel(e, b, w)
      PROVE  HasValidLabel(d, b, w) \/ (b = a /\ w = u)
  <2>1. PICK l \in DOMAIN e.label :
           e.label[l].valid /\ e.label[l].unit = w /\ e.label[l].by = b
    BY <1>5 DEF HasValidLabel, ValidLabels
  <2>2. d.label \in Seq(LabelRow) /\ DOMAIN d.label = 1..Len(d.label) /\ Len(d.label) \in Nat
    BY DatabaseFields, SeqFacts
  <2>3. DOMAIN e.label = 1..(Len(d.label) + 1)
    BY <1>2, <2>2
  <2>4. CASE l = Len(d.label) + 1
    <3>1. e.label[l] = row
      BY <1>2, <2>2, <2>4
    <3> QED BY <1>4, <2>1, <3>1
  <2>5. CASE l # Len(d.label) + 1
    <3>1. l \in DOMAIN d.label /\ e.label[l] = d.label[l]
      BY <1>2, <2>2, <2>3, <2>5
    <3> QED BY <2>1, <3>1 DEF HasValidLabel, ValidLabels
  <2> QED BY <2>4, <2>5
<1>6. OneTask(e)
  <2> SUFFICES ASSUME NEW b \in Annotators, NEW v \in Units, NEW w \in Units, NEW j, NEW k,
                      Holds(e, b, v, j), Holds(e, b, w, k), ProjectOf[v] = ProjectOf[w]
               PROVE  v = w /\ j = k
    BY DEF OneTask
  <2>1. Holds(d, b, v, j) /\ Holds(d, b, w, k)
    BY <1>3
  <2>2. j \in DOMAIN d.slot[v] /\ k \in DOMAIN d.slot[w]
    BY <2>1 DEF Holds
  <2> QED BY <2>1, <2>2 DEF LeaseInv, OneTask
<1>7. MaySubmit(e)
  <2> SUFFICES ASSUME NEW b \in Annotators, NEW w \in Units, NEW j, Holds(e, b, w, j),
                      HasValidLabel(e, b, w)
               PROVE  FALSE
    BY DEF MaySubmit
  <2>1. Holds(d, b, w, j) /\ ~(w = u /\ j = i)
    BY <1>3
  <2>2. j \in DOMAIN d.slot[w]
    BY <2>1 DEF Holds
  <2>3. ~HasValidLabel(d, b, w)
    BY <2>1, <2>2 DEF LeaseInv, MaySubmit
  <2>4. b = a /\ w = u
    BY <1>5, <2>3
  <2> QED BY <1>1, <2>1, <2>2, <2>4 DEF LeaseInv, OneTask
<1> QED BY <1>6, <1>7 DEF LeaseInv, e

-----------------------------------------------------------------------------
(* The requests.                                                           *)

LEMMA NextTaskKeeps ==
  ASSUME TypeOK, LeaseInv(db), NEW a \in Annotators, NEW p \in Projects, NextTask(a, p)
  PROVE  LeaseInv(db')
<1> DEFINE d == Sweep(db)
<1>1. d \in Databases /\ LeaseInv(d)
  BY SweepType, SweepShrinks, ShrinksKeeps DEF TypeOK
<1>2. CASE \E s \in HeldSlots(d, a, p) : db' = [d EXCEPT !.slot[s[1]][s[2]].expired = FALSE]
  <2> HIDE DEF d
  <2>1. PICK s \in HeldSlots(d, a, p) : db' = [d EXCEPT !.slot[s[1]][s[2]].expired = FALSE]
    BY <1>2
  <2>2. Shrinks(d, db')
    BY <1>1, <2>1, ResumeShrinks
  <2> QED BY <1>1, <2>2, ShrinksKeeps
<1>3. CASE /\ HeldSlots(d, a, p) = {}
           /\ \E s \in NextSlots(d, a, p) : db' = Lease(d, a, s[1], s[2])
  <2>1. PICK s \in NextSlots(d, a, p) : db' = Lease(d, a, s[1], s[2])
    BY <1>3
  <2> HIDE DEF d
  <2>2. PICK gold \in BOOLEAN : s \in OpenSlots(d, a, p, gold)
    <3>1. WantsGold(d, a, p) \in BOOLEAN
      BY DEF WantsGold, ShouldServeGold
    <3> QED BY <2>1, <3>1 DEF NextSlots, First
  <2>3. PICK u \in Units : \E i \in InStatus(d, u, "open") : s = <<u, i>>
    BY <2>2 DEF OpenSlots
  <2>4. PICK i \in InStatus(d, u, "open") : s = <<u, i>>
    BY <2>3
  <2>5. ProjectOf[u] = p /\ MayTake(d, a, u)
    BY <2>2, <2>4 DEF OpenSlots
  <2> QED BY <1>1, <1>3, <2>1, <2>4, <2>5, InStatusRange, LeaseKeeps
<1>4. CASE db' = d
  BY <1>1, <1>4
<1> QED BY <1>2, <1>3, <1>4 DEF NextTask

LEMMA SubmitKeeps ==
  ASSUME TypeOK, LeaseInv(db), NEW a \in Annotators, NEW u \in Units, NEW i,
         NEW value \in Answers, Submit(a, u, i, value)
  PROVE  LeaseInv(db')
<1>1. PICK plan \in SlotPlans(NumVariants) :
        LET judged  == EnforceGoldThreshold(Fill(db, a, u, i, value), a, u, Grade(u, value))
            settled == ApplyConsensusPolicy(judged, u, plan)
        IN  IF StopsCollecting(judged, u)
            THEN \E merge \in Merges(settled, u) : db' = RouteUnit(settled, u, merge)
            ELSE db' = settled
  BY DEF Submit
<1> DEFINE filled  == Fill(db, a, u, i, value)
           judged  == EnforceGoldThreshold(filled, a, u, Grade(u, value))
           settled == ApplyConsensusPolicy(judged, u, plan)
<1>2. Holds(db, a, u, i) /\ i \in DOMAIN db.slot[u]
  BY DEF Submit, Holds
<1>3. filled \in Databases /\ LeaseInv(filled)
  BY <1>2, FillType, FillKeeps DEF TypeOK
<1> HIDE DEF filled
<1>4. judged \in Databases /\ LeaseInv(judged)
  BY <1>3, EnforceGoldThresholdType, EnforceGoldThresholdShrinks, ShrinksKeeps
<1> HIDE DEF judged
<1>5. settled \in Databases /\ LeaseInv(settled)
  BY <1>4, ApplyConsensusPolicyType, ApplyConsensusPolicyShrinks, ShrinksKeeps
<1>6. db' = settled \/ \E merge \in Merges(settled, u) : db' = RouteUnit(settled, u, merge)
  BY <1>1 DEF filled, judged
<1> HIDE DEF settled
<1> QED BY <1>5, <1>6, RouteUnitShrinks, ShrinksKeeps

\* The other requests give nothing and pause nobody.
LEMMA SkipShrinks ==
  ASSUME TypeOK, NEW a \in Annotators, NEW u \in Units, NEW i, Skip(a, u, i)
  PROVE  Shrinks(db, db') /\ db'.ann = db.ann
<1> DEFINE d == Reopen(db, {<<u, i>>})
<1>1. d \in Databases /\ Shrinks(db, d)
  BY ReopenType, ReopenShrinks DEF TypeOK
<1>2. d.ann = db.ann
  BY DEF Reopen, TypeOK, Databases
<1>3. db' = Recompute(d, {u}, {})
  BY DEF Skip
<1> HIDE DEF d
<1>4. db'.ann = d.ann
  BY <1>1, <1>3 DEF Recompute, Databases
<1> QED BY <1>1, <1>2, <1>3, <1>4, RecomputeShrinks, ShrinksTrans

LEMMA PatchUnitShrinks ==
  ASSUME TypeOK, NEW u \in Units, NEW n \in Int, NEW void \in BOOLEAN, PatchUnit(u, n, void)
  PROVE  Shrinks(db, db') /\ db'.ann = db.ann
<1> DEFINE d == [db EXCEPT !.unit[u].priority = n]
           voided   == VoidLabels(d, ValidLabels(d, u))
           stranded == {u} \X (InStatus(voided, u, "leased") \cup InStatus(voided, u, "filled"))
           cleared  == Reopen(voided, stranded)
           last     == Recompute(cleared, {u}, {})
<1>1. d \in Databases
  <2>1. [db.unit[u] EXCEPT !.priority = n] \in UnitRow
    BY RowTypes DEF TypeOK, UnitRow
  <2>2. d = [db EXCEPT !.unit[u] = [db.unit[u] EXCEPT !.priority = n]]
    BY DEF TypeOK, Databases
  <2> HIDE DEF d
  <2> QED BY <2>1, <2>2, OneUnitRow DEF TypeOK
<1>2. d.slot = db.slot /\ d.label = db.label /\ d.ann = db.ann
  BY DEF TypeOK, Databases
<1>3. db' = IF void THEN last ELSE d
  BY DEF PatchUnit
<1> HIDE DEF d
<1>4. Shrinks(db, d)
  BY <1>2, SameTablesShrink
<1>5. voided \in Databases /\ Shrinks(d, voided) /\ voided.ann = d.ann
  BY <1>1, VoidLabelsType, VoidLabelsShrinks, VoidLabelsAnn
<1> HIDE DEF voided, stranded
<1>6. cleared \in Databases /\ Shrinks(voided, cleared)
  BY <1>5, ReopenType, ReopenShrinks
<1>7. cleared.ann = voided.ann
  BY <1>5 DEF Reopen, Databases
<1> HIDE DEF cleared
<1>8. Shrinks(cleared, last)
  BY <1>6, RecomputeShrinks
<1>9. last.ann = cleared.ann
  BY <1>6 DEF Recompute, Databases
<1> HIDE DEF last
<1>10. Shrinks(db, cleared)
  BY <1>4, <1>5, <1>6, ShrinksTrans
<1>11. Shrinks(db, last)
  BY <1>8, <1>10, ShrinksTrans
<1> QED BY <1>2, <1>3, <1>4, <1>5, <1>7, <1>9, <1>11

\* Deciding and routing touch neither slots nor labels.
LEMMA DecisionsShrink ==
  ASSUME TypeOK,
         (\E u \in Units : Decide(u)) \/ (\E p \in Projects, all \in BOOLEAN : RouteProject(p, all))
  PROVE  Shrinks(db, db') /\ db'.ann = db.ann
<1>1. db'.slot = db.slot /\ db'.label = db.label /\ db'.ann = db.ann
  BY ZenonT(40) DEF Decide, RouteProject, FinalizeUnit, RouteUnits, TypeOK, Databases
<1> QED BY <1>1, SameTablesShrink

LEMMA LeaseRunsOutShrinks ==
  ASSUME TypeOK, NEW u \in Units, NEW i, LeaseRunsOut(u, i)
  PROVE  Shrinks(db, db') /\ db'.ann = db.ann
<1>1. i \in DOMAIN db.slot[u]
  BY DEF LeaseRunsOut, InStatus
<1>2. db'.label = db.label /\ db'.ann = db.ann
  BY DEF LeaseRunsOut, TypeOK, Databases
<1>3. db'.slot = [db.slot EXCEPT ![u][i].expired = TRUE]
  BY DEF LeaseRunsOut, TypeOK, Databases
<1>4. db.slot \in [Units -> Seq(SlotRow)] /\ db.slot[u][i] \in SlotRow
  BY <1>1, DatabaseFields, RowTypes DEF TypeOK
<1>5. \A w \in Units : /\ DOMAIN db'.slot[w] = DOMAIN db.slot[w]
                       /\ w # u => db'.slot[w] = db.slot[w]
  BY <1>3, <1>4
<1>6. /\ db'.slot[u][i].status = db.slot[u][i].status
      /\ db'.slot[u][i].by = db.slot[u][i].by
  BY <1>1, <1>3, <1>4 DEF SlotRow
<1>7. \A j \in DOMAIN db.slot[u] : j # i => db'.slot[u][j] = db.slot[u][j]
  BY <1>3, <1>4
<1>8. ASSUME NEW b \in Annotators, NEW w \in Units, NEW j, Holds(db', b, w, j)
      PROVE  Holds(db, b, w, j)
  BY <1>5, <1>6, <1>7, <1>8 DEF Holds
<1>9. ASSUME NEW b \in Annotators, NEW w \in Units, HasValidLabel(db', b, w)
      PROVE  HasValidLabel(db, b, w)
  BY <1>2, <1>9 DEF HasValidLabel, ValidLabels
<1> QED BY <1>2, <1>8, <1>9 DEF Shrinks

LEMMA SweepStepShrinks ==
  ASSUME TypeOK, AvailableWork
  PROVE  Shrinks(db, db') /\ db'.ann = db.ann
BY SweepShrinks, SweepAnn DEF AvailableWork, TypeOK

LEMMA ResumeAnnotatorShrinks ==
  ASSUME TypeOK, NEW a \in Annotators, ResumeAnnotator(a)
  PROVE  /\ Shrinks(db, db')
         /\ \A b \in Annotators : db'.ann[b] = "paused" => db.ann[b] = "paused"
<1>1. db'.slot = db.slot /\ db'.label = db.label /\ db'.ann = [db.ann EXCEPT ![a] = "active"]
  BY DEF ResumeAnnotator, TypeOK, Databases
<1> QED BY <1>1, SameTablesShrink DEF TypeOK, Databases

\* Every step is a next_task, a submit, or one that only takes away.
LEMMA NextCases ==
  ASSUME TypeOK, Next
  PROVE  \/ \E a \in Annotators, p \in Projects : NextTask(a, p)
         \/ \E a \in Annotators, u \in Units, value \in Answers : \E i : Submit(a, u, i, value)
         \/ /\ Shrinks(db, db')
            /\ \A b \in Annotators : db'.ann[b] = "paused" => db.ann[b] = "paused"
<1>1. CASE AnnotatorStep
  BY <1>1, SkipShrinks DEF AnnotatorStep
<1>2. CASE StaffStep
  <2>1. ASSUME NEW u \in Units, NEW n \in Priorities \cup {db.unit[u].priority},
               NEW void \in BOOLEAN, PatchUnit(u, n, void)
        PROVE  Shrinks(db, db') /\ db'.ann = db.ann
    <3>1. n \in Int
      BY PlatformAssumption, RowTypes DEF TypeOK, UnitRow
    <3> QED BY <2>1, <3>1, PatchUnitShrinks
  <2> QED BY <1>2, <2>1, ResumeAnnotatorShrinks, DecisionsShrink DEF StaffStep
<1>3. CASE ClockStep
  BY <1>3, SweepStepShrinks, LeaseRunsOutShrinks DEF ClockStep
<1> QED BY <1>1, <1>2, <1>3 DEF Next

LEMMA LeaseInvInit ==
  ASSUME Init
  PROVE  LeaseInv(db)
<1>1. \A u \in Units : \A i \in DOMAIN db.slot[u] : db.slot[u][i].status = "open"
  BY DEF Init, NewSlots, OpenSlot
<1> QED BY <1>1 DEF LeaseInv, OneTask, MaySubmit, Holds

LEMMA LeaseInvNext ==
  ASSUME TypeOK, LeaseInv(db), Next
  PROVE  LeaseInv(db')
BY NextCases, NextTaskKeeps, SubmitKeeps, ShrinksKeeps

LEMMA LeaseInvariant == Spec => []LeaseInv(db)
<1>1. Init => LeaseInv(db)
  BY LeaseInvInit
<1>2. TypeOK /\ LeaseInv(db) /\ [Next]_db => LeaseInv(db)'
  <2> SUFFICES ASSUME TypeOK, LeaseInv(db), [Next]_db PROVE LeaseInv(db')
    OBVIOUS
  <2>1. CASE UNCHANGED db
    BY <2>1
  <2> QED BY <2>1, LeaseInvNext
<1> QED BY <1>1, <1>2, TypeCorrect, PTL DEF Spec

\* next_task keeps one annotator to one task of a project, whatever voids, pauses
\* and reviews happen in between.
THEOREM OneTaskTheorem == Spec => []OneTaskAtATime
<1>1. LeaseInv(db) => OneTaskAtATime
  BY DEF LeaseInv, OneTask, OneTaskAtATime
<1> QED BY <1>1, LeaseInvariant, PTL

\* The partial unique index on labels never refuses the holder of a lease.
THEOREM HolderMaySubmitTheorem == Spec => []HolderMaySubmit
<1>1. LeaseInv(db) => HolderMaySubmit
  BY DEF LeaseInv, MaySubmit, HolderMaySubmit
<1> QED BY <1>1, LeaseInvariant, PTL

-----------------------------------------------------------------------------
(* The pause.  The annotator whose submit trips the gold threshold gave    *)
(* their one lease of the project with that submit; nothing is leased to   *)
(* them until they are resumed.  A lease in another project would survive  *)
(* the pause, hence the hypothesis.                                        *)

SingleProject == \A u, w \in Units : ProjectOf[u] = ProjectOf[w]

\* PausedHoldsNothing, of any database.
Idle(d) ==
  \A a \in Annotators : d.ann[a] = "paused" =>
     \A u \in Units : \A i \in DOMAIN d.slot[u] : ~Holds(d, a, u, i)

LEMMA NextTaskGivesCaller ==
  ASSUME TypeOK, NEW a \in Annotators, NEW p \in Projects, NextTask(a, p)
  PROVE  /\ db.ann[a] = "active" /\ db'.ann = db.ann
         /\ \A b \in Annotators, w \in Units : \A j :
              Holds(db', b, w, j) => Holds(db, b, w, j) \/ b = a
<1> DEFINE d == Sweep(db)
<1>1. d \in Databases /\ Shrinks(db, d) /\ d.ann = db.ann
  BY SweepType, SweepShrinks, SweepAnn DEF TypeOK
<1>2. db.ann[a] = "active"
  BY DEF NextTask
<1>3. CASE \E s \in HeldSlots(d, a, p) : db' = [d EXCEPT !.slot[s[1]][s[2]].expired = FALSE]
  <2> HIDE DEF d
  <2>1. PICK s \in HeldSlots(d, a, p) : db' = [d EXCEPT !.slot[s[1]][s[2]].expired = FALSE]
    BY <1>3
  <2>2. Shrinks(db, db')
    BY <1>1, <2>1, ResumeShrinks, ShrinksTrans
  <2>3. db'.ann = d.ann
    BY <1>1, <2>1 DEF Databases
  <2> QED BY <1>1, <1>2, <2>2, <2>3 DEF Shrinks
<1>4. CASE \E s \in NextSlots(d, a, p) : db' = Lease(d, a, s[1], s[2])
  <2>1. PICK s \in NextSlots(d, a, p) : db' = Lease(d, a, s[1], s[2])
    BY <1>4
  <2> HIDE DEF d
  <2>2. PICK u \in Units : \E i \in InStatus(d, u, "open") : s = <<u, i>>
    BY <2>1 DEF NextSlots, First, OpenSlots
  <2>3. PICK i \in InStatus(d, u, "open") : s = <<u, i>>
    BY <2>2
  <2>4. db' = Lease(d, a, u, i) /\ i \in DOMAIN d.slot[u]
    BY <2>1, <2>3, InStatusRange
  <2>5. db'.ann = d.ann
    BY <1>1, <2>4 DEF Lease, Databases
  <2>6. ASSUME NEW b \in Annotators, NEW w \in Units, NEW j, Holds(db', b, w, j), b # a
        PROVE  Holds(db, b, w, j)
    <3>1. Holds(d, b, w, j)
      BY <1>1, <2>4, <2>6, LeaseGivesOne
    <3> QED BY <1>1, <3>1 DEF Shrinks
  <2> QED BY <1>1, <1>2, <2>5, <2>6
<1>5. CASE db' = d
  BY <1>1, <1>2, <1>5 DEF Shrinks
<1> QED BY <1>3, <1>4, <1>5 DEF NextTask

\* Whatever the submit does, its author has nothing in hand afterwards, and
\* only its author can be paused by it.
LEMMA SubmitEmptiesHands ==
  ASSUME SingleProject, TypeOK, LeaseInv(db), NEW a \in Annotators, NEW u \in Units, NEW i,
         NEW value \in Answers, Submit(a, u, i, value)
  PROVE  /\ \A b \in Annotators \ {a} : db'.ann[b] = db.ann[b]
         /\ \A b \in Annotators, w \in Units : \A j :
              Holds(db', b, w, j) => Holds(db, b, w, j) /\ b # a
<1>1. PICK plan \in SlotPlans(NumVariants) :
        LET judged  == EnforceGoldThreshold(Fill(db, a, u, i, value), a, u, Grade(u, value))
            settled == ApplyConsensusPolicy(judged, u, plan)
        IN  IF StopsCollecting(judged, u)
            THEN \E merge \in Merges(settled, u) : db' = RouteUnit(settled, u, merge)
            ELSE db' = settled
  BY DEF Submit
<1> DEFINE filled  == Fill(db, a, u, i, value)
           judged  == EnforceGoldThreshold(filled, a, u, Grade(u, value))
           settled == ApplyConsensusPolicy(judged, u, plan)
<1>2. Holds(db, a, u, i) /\ i \in DOMAIN db.slot[u]
  BY DEF Submit, Holds
<1>3. filled \in Databases
  BY <1>2, FillType DEF TypeOK
<1>4. filled.ann = db.ann
  BY DEF Fill, Recompute, TypeOK, Databases
<1>5. ASSUME NEW b \in Annotators, NEW w \in Units, NEW j, Holds(filled, b, w, j)
      PROVE  Holds(db, b, w, j) /\ b # a
  <2>1. Holds(db, b, w, j) /\ ~(w = u /\ j = i)
    BY <1>2, <1>5, FillTakesLease DEF TypeOK
  <2>2. j \in DOMAIN db.slot[w] /\ ProjectOf[w] = ProjectOf[u]
    BY <2>1 DEF Holds, SingleProject
  <2> QED BY <1>2, <2>1, <2>2 DEF LeaseInv, OneTask
<1> HIDE DEF filled
<1>6. judged \in Databases /\ Shrinks(filled, judged)
  BY <1>3, EnforceGoldThresholdType, EnforceGoldThresholdShrinks
<1>7. \A b \in Annotators \ {a} : judged.ann[b] = filled.ann[b]
  <2> DEFINE paused == [filled EXCEPT !.ann[a] = "paused"]
             ls     == Newest(ValidLabelsBy(filled, a, ProjectOf[u]), VoidLookback)
  <2>1. paused \in Databases /\ \A b \in Annotators \ {a} : paused.ann[b] = filled.ann[b]
    BY <1>3 DEF Databases
  <2>2. judged \in {filled, VoidLabels(paused, ls)}
    BY DEF EnforceGoldThreshold, PauseAnnotator
  <2> HIDE DEF paused, ls, judged
  <2> QED BY <2>1, <2>2, VoidLabelsAnn
<1> HIDE DEF judged
<1>8. settled \in Databases /\ Shrinks(judged, settled)
  BY <1>6, ApplyConsensusPolicyType, ApplyConsensusPolicyShrinks
<1>9. settled.ann = judged.ann
  BY <1>6 DEF ApplyConsensusPolicy, GrowOverlap, Escalate, Databases
<1>10. db' = settled \/ \E merge \in Merges(settled, u) : db' = RouteUnit(settled, u, merge)
  BY <1>1 DEF filled, judged
<1> HIDE DEF settled
<1>11. Shrinks(settled, db') /\ db'.ann = settled.ann
  <2>1. CASE db' = settled
    BY <2>1 DEF Shrinks
  <2>2. ASSUME NEW merge \in Merges(settled, u), db' = RouteUnit(settled, u, merge)
        PROVE  Shrinks(settled, db') /\ db'.ann = settled.ann
    <3>1. db'.ann = settled.ann
      BY <1>8, <2>2 DEF RouteUnit, FinalizeUnit, Databases
    <3> QED BY <1>8, <2>2, <3>1, RouteUnitShrinks
  <2> QED BY <1>10, <2>1, <2>2
<1>12. Shrinks(filled, db')
  BY <1>6, <1>8, <1>11, ShrinksTrans
<1> QED BY <1>4, <1>5, <1>7, <1>9, <1>11, <1>12 DEF Shrinks

LEMMA IdleNext ==
  ASSUME SingleProject, TypeOK, LeaseInv(db), Idle(db), Next
  PROVE  Idle(db')
<1> SUFFICES ASSUME NEW a \in Annotators, db'.ann[a] = "paused", NEW u \in Units, NEW i,
                    Holds(db', a, u, i)
             PROVE  FALSE
  BY DEF Idle
<1>1. db.ann[a] # "paused" \/ ~Holds(db, a, u, i)
  BY DEF Idle, Holds
<1>2. ASSUME NEW b \in Annotators, NEW p \in Projects, NextTask(b, p)
      PROVE  FALSE
  BY <1>1, <1>2, NextTaskGivesCaller
<1>3. ASSUME NEW b \in Annotators, NEW w \in Units, NEW value \in Answers, NEW j,
             Submit(b, w, j, value)
      PROVE  FALSE
  BY <1>1, <1>3, SubmitEmptiesHands
<1>4. CASE /\ Shrinks(db, db')
           /\ \A b \in Annotators : db'.ann[b] = "paused" => db.ann[b] = "paused"
  BY <1>1, <1>4 DEF Shrinks
<1> QED BY <1>2, <1>3, <1>4, NextCases

\* In a single project, whoever the gold threshold paused holds no task, so the
\* 403 of next_task is enough to keep them from labeling until they are resumed.
THEOREM PausedTheorem ==
  ASSUME SingleProject
  PROVE  Spec => []PausedHoldsNothing
<1>1. Init => Idle(db)
  BY DEF Init, Idle
<1>2. TypeOK /\ LeaseInv(db) /\ Idle(db) /\ [Next]_db => Idle(db)'
  <2> SUFFICES ASSUME TypeOK, LeaseInv(db), Idle(db), [Next]_db PROVE Idle(db')
    OBVIOUS
  <2>1. CASE UNCHANGED db
    BY <2>1
  <2> QED BY <2>1, IdleNext
<1>3. Idle(db) => PausedHoldsNothing
  BY DEF Idle, PausedHoldsNothing
<1> QED BY <1>1, <1>2, <1>3, TypeCorrect, LeaseInvariant, PTL DEF Spec

-----------------------------------------------------------------------------
(* What no request may undo.                                               *)

Verdicts(d, e) == \A u \in Units : HumanDecided(d, u) => HumanDecided(e, u)

SlotVariants(d, e) ==
  \A u \in Units : \A i \in DOMAIN d.slot[u] :
     i \in DOMAIN e.slot[u] /\ e.slot[u][i].variant = d.slot[u][i].variant

\* The slots of variant v in a unit's slots s.
Of(s, v) == {i \in DOMAIN s : s[i].variant = v}

\* VariantsBalanced of one unit, whose slots are all live.
Even(d, u) ==
  /\ \A i \in DOMAIN d.slot[u] : d.slot[u][i].status # "deleted"
  /\ Cardinality(DOMAIN d.slot[u]) <= d.cap[ProjectOf[u]]
  /\ \A v, w \in Variants : Cardinality(Of(d.slot[u], v)) = Cardinality(Of(d.slot[u], w))

Balance(d, e) == \A u \in Units : Even(d, u) => Even(e, u)

Keeps(d, e) == Verdicts(d, e) /\ SlotVariants(d, e) /\ Balance(d, e)

-----------------------------------------------------------------------------

\* Equal columns are kept columns.
LEMMA SameFinal ==
  ASSUME NEW d, NEW e, e.final = d.final
  PROVE  Verdicts(d, e)
BY DEF Verdicts, HumanDecided

LEMMA SameSlotVariants ==
  ASSUME NEW d, NEW e, e.slot = d.slot, e.cap = d.cap
  PROVE  SlotVariants(d, e) /\ Balance(d, e)
BY DEF SlotVariants, Balance, Even

\* The same slots in the same places, none of them deleted by the way.
LEMMA SameLayout ==
  ASSUME NEW d, NEW e, e.cap = d.cap,
         \A u \in Units : /\ DOMAIN e.slot[u] = DOMAIN d.slot[u]
                          /\ \A i \in DOMAIN d.slot[u] :
                               /\ e.slot[u][i].variant = d.slot[u][i].variant
                               /\ e.slot[u][i].status \in {d.slot[u][i].status, "open", "leased", "filled"}
  PROVE  SlotVariants(d, e) /\ Balance(d, e)
<1>1. SlotVariants(d, e)
  BY DEF SlotVariants
<1>2. ASSUME NEW u \in Units, Even(d, u)
      PROVE  Even(e, u)
  <2>1. \A v : Of(e.slot[u], v) = Of(d.slot[u], v)
    BY DEF Of
  <2>2. \A i \in DOMAIN e.slot[u] : e.slot[u][i].status # "deleted"
    BY <1>2 DEF Even
  <2> QED BY <1>2, <2>1, <2>2 DEF Even
<1> QED BY <1>1, <1>2 DEF Balance

LEMMA KeepsSelf ==
  ASSUME NEW d \in Databases
  PROVE  Keeps(d, d)
BY SameFinal, SameSlotVariants DEF Keeps

LEMMA KeepsTrans ==
  ASSUME NEW d \in Databases, NEW e \in Databases, NEW f \in Databases, Keeps(d, e), Keeps(e, f)
  PROVE  Keeps(d, f)
<1>1. Verdicts(d, f)
  BY DEF Keeps, Verdicts
<1>2. SlotVariants(d, f)
  BY DEF Keeps, SlotVariants
<1>3. Balance(d, f)
  BY DEF Keeps, Balance
<1> QED BY <1>1, <1>2, <1>3 DEF Keeps

-----------------------------------------------------------------------------
(* The operators.                                                          *)

LEMMA RecomputeHistory ==
  ASSUME NEW d \in Databases, NEW us, NEW forced
  PROVE  Keeps(d, Recompute(d, us, forced))
<1> DEFINE e == Recompute(d, us, forced)
<1>1. e.slot = d.slot /\ e.label = d.label /\ e.final = d.final /\ e.cap = d.cap
  BY DEF Recompute, Databases
<1> HIDE DEF e
<1> QED BY <1>1, SameFinal, SameSlotVariants DEF Keeps, e

LEMMA ReopenHistory ==
  ASSUME NEW d \in Databases, NEW ss
  PROVE  Keeps(d, Reopen(d, ss))
<1> DEFINE e == Reopen(d, ss)
<1>1. e.label = d.label /\ e.final = d.final /\ e.cap = d.cap
  BY DEF Reopen, Databases
<1>2. ASSUME NEW u \in Units
      PROVE  e.slot[u] = [i \in DOMAIN d.slot[u] |->
               IF <<u, i>> \in ss THEN OpenSlot(d.slot[u][i].variant) ELSE d.slot[u][i]]
  BY DEF Reopen, Databases
<1> HIDE DEF e
<1>3. \A v : OpenSlot(v).variant = v /\ OpenSlot(v).status = "open"
  BY DEF OpenSlot
<1>4. SlotVariants(d, e) /\ Balance(d, e)
  <2>1. ASSUME NEW u \in Units
        PROVE  /\ DOMAIN e.slot[u] = DOMAIN d.slot[u]
               /\ \A i \in DOMAIN d.slot[u] :
                    /\ e.slot[u][i].variant = d.slot[u][i].variant
                    /\ e.slot[u][i].status \in {d.slot[u][i].status, "open", "leased", "filled"}
    <3>1. DOMAIN e.slot[u] = DOMAIN d.slot[u]
      BY <1>2
    <3>2. ASSUME NEW i \in DOMAIN d.slot[u]
          PROVE  /\ e.slot[u][i].variant = d.slot[u][i].variant
                 /\ e.slot[u][i].status \in {d.slot[u][i].status, "open"}
      <4>1. e.slot[u][i] = IF <<u, i>> \in ss THEN OpenSlot(d.slot[u][i].variant) ELSE d.slot[u][i]
        BY <1>2
      <4>2. CASE <<u, i>> \in ss
        BY <1>3, <4>1, <4>2
      <4>3. CASE <<u, i>> \notin ss
        BY <4>1, <4>3
      <4> QED BY <4>2, <4>3
    <3> QED BY <3>1, <3>2
  <2> QED BY <1>1, <2>1, SameLayout
<1> QED BY <1>1, <1>4, SameFinal DEF Keeps, e

LEMMA InvalidateHistory ==
  ASSUME NEW d \in Databases, NEW ls
  PROVE  Keeps(d, Invalidate(d, ls))
<1> DEFINE e == Invalidate(d, ls)
<1>1. e.slot = d.slot /\ e.final = d.final /\ e.cap = d.cap
  BY DEF Invalidate, Databases
<1> HIDE DEF e
<1> QED BY <1>1, SameFinal, SameSlotVariants DEF Keeps, e

\* Only decisions no human made are unwound.
LEMMA UnwindHistory ==
  ASSUME NEW d \in Databases, NEW us, \A u \in us : ~HumanDecided(d, u)
  PROVE  Keeps(d, Unwind(d, us))
<1> DEFINE e == Unwind(d, us)
<1>1. e.slot = d.slot /\ e.label = d.label /\ e.cap = d.cap
  BY DEF Unwind, Databases
<1>2. \A u \in Units : u \notin us => e.final[u] = d.final[u]
  BY DEF Unwind, Databases
<1> HIDE DEF e
<1>3. Verdicts(d, e)
  BY <1>2 DEF Verdicts, HumanDecided
<1> QED BY <1>1, <1>3, SameSlotVariants DEF Keeps, e

LEMMA VoidLabelsHistory ==
  ASSUME NEW d \in Databases, NEW ls
  PROVE  Keeps(d, VoidLabels(d, ls))
<1> DEFINE slots  == {<<d.label[l].unit, d.label[l].slot>> : l \in ls}
           units  == {d.label[l].unit : l \in ls}
           forced == AutoFinalized(d, units)
           d1 == Invalidate(d, ls)
           d2 == Reopen(d1, Occupied(d, slots))
           d3 == Unwind(d2, forced)
           d4 == Recompute(d3, units, forced)
<1>1. VoidLabels(d, ls) = d4
  BY DEF VoidLabels
<1> HIDE DEF slots, units
<1>2. d1 \in Databases /\ Keeps(d, d1)
  BY InvalidateType, InvalidateHistory
<1>3. d1.final = d.final
  BY DEF Invalidate, Databases
<1> HIDE DEF d1
<1>4. d2 \in Databases /\ Keeps(d1, d2)
  BY <1>2, ReopenType, ReopenHistory
<1>5. d2.final = d.final
  BY <1>2, <1>3 DEF Reopen, Databases
<1> HIDE DEF d2
<1>6. \A u \in forced : ~HumanDecided(d2, u)
  BY <1>5 DEF AutoFinalized, HumanDecided
<1> HIDE DEF forced
<1>7. d3 \in Databases /\ Keeps(d2, d3)
  BY <1>4, <1>6, UnwindType, UnwindHistory
<1> HIDE DEF d3
<1>8. d4 \in Databases /\ Keeps(d3, d4)
  BY <1>7, RecomputeType, RecomputeHistory
<1> HIDE DEF d4
<1>9. Keeps(d, d2)
  BY <1>2, <1>4, KeepsTrans
<1>10. Keeps(d, d3)
  BY <1>4, <1>7, <1>9, KeepsTrans
<1> QED BY <1>1, <1>7, <1>8, <1>10, KeepsTrans

LEMMA EnforceGoldThresholdHistory ==
  ASSUME NEW d \in Databases, NEW a \in Annotators, NEW u, NEW grade
  PROVE  Keeps(d, EnforceGoldThreshold(d, a, u, grade))
<1> DEFINE paused == [d EXCEPT !.ann[a] = "paused"]
           ls     == Newest(ValidLabelsBy(d, a, ProjectOf[u]), VoidLookback)
<1>1. paused \in Databases
  BY DEF Databases
<1>2. /\ paused.slot = d.slot /\ paused.label = d.label
      /\ paused.final = d.final /\ paused.cap = d.cap
  BY DEF Databases
<1>3. EnforceGoldThreshold(d, a, u, grade) \in {d, VoidLabels(paused, ls)}
  BY DEF EnforceGoldThreshold, PauseAnnotator
<1> HIDE DEF paused, ls
<1>4. Keeps(d, paused)
  BY <1>2, SameFinal, SameSlotVariants DEF Keeps
<1>5. Keeps(d, VoidLabels(paused, ls))
  BY <1>1, <1>4, VoidLabelsHistory, VoidLabelsType, KeepsTrans
<1> QED BY <1>3, <1>5, KeepsSelf

LEMMA IntervalCount ==
  ASSUME NEW n \in Nat
  PROVE  Cardinality(1..n) = n
BY FS_Interval

LEMMA ConcatFacts ==
  ASSUME NEW S, NEW s \in Seq(S), NEW t \in Seq(S)
  PROVE  /\ Len(s) \in Nat /\ Len(t) \in Nat /\ DOMAIN s = 1..Len(s) /\ DOMAIN t = 1..Len(t)
         /\ DOMAIN (s \o t) = 1..(Len(s) + Len(t))
         /\ \A i \in 1..(Len(s) + Len(t)) :
              (s \o t)[i] = IF i <= Len(s) THEN s[i] ELSE t[i - Len(s)]
BY ConcatProperties, SeqFacts

\* The slots of a variant in s, and then in t.
LEMMA ConcatCount ==
  ASSUME NEW S, NEW s \in Seq(S), NEW t \in Seq(S), NEW v
  PROVE  Cardinality(Of(s \o t, v)) = Cardinality(Of(s, v)) + Cardinality(Of(t, v))
<1> DEFINE n == Len(s)
           m == Len(t)
           A == Of(s, v)
           B == Of(t, v)
           C == {j \in (n + 1)..(n + m) : t[j - n].variant = v}
<1>1. /\ n \in Nat /\ m \in Nat /\ DOMAIN s = 1..n /\ DOMAIN t = 1..m
      /\ DOMAIN (s \o t) = 1..(n + m)
      /\ \A i \in 1..(n + m) : (s \o t)[i] = IF i <= n THEN s[i] ELSE t[i - n]
  BY ConcatFacts
<1> HIDE DEF n, m
<1>2. A = {i \in 1..n : s[i].variant = v} /\ B = {i \in 1..m : t[i].variant = v}
  BY <1>1 DEF Of
<1> HIDE DEF A, B
<1>3. Of(s \o t, v) = A \cup C
  <2> DEFINE r == s \o t
  <2>1. DOMAIN r = 1..(n + m) /\ \A i \in 1..(n + m) : r[i] = IF i <= n THEN s[i] ELSE t[i - n]
    BY <1>1
  <2> HIDE DEF r
  <2>2. Of(r, v) = {i \in 1..(n + m) : r[i].variant = v}
    BY <2>1 DEF Of
  <2>3. ASSUME NEW i \in 1..(n + m)
        PROVE  r[i].variant = v <=> i \in A \cup C
    <3>1. CASE i <= n
      BY <1>1, <1>2, <2>1, <3>1
    <3>2. CASE ~(i <= n)
      BY <1>1, <1>2, <2>1, <3>2
    <3> QED BY <1>1, <3>1, <3>2
  <2>4. A \cup C \subseteq 1..(n + m)
    BY <1>1, <1>2
  <2>5. Of(r, v) = A \cup C
    BY <2>2, <2>3, <2>4
  <2> QED BY <2>5 DEF r
<1>4. A \cap C = {}
  BY <1>1, <1>2
<1>5. IsFiniteSet(A) /\ IsFiniteSet(B) /\ IsFiniteSet(C)
  <2>1. IsFiniteSet(1..n) /\ IsFiniteSet(1..m) /\ IsFiniteSet((n + 1)..(n + m))
    BY <1>1, FS_Interval
  <2> QED BY <1>2, <2>1, FS_Subset
<1>6. Cardinality(C) = Cardinality(B)
  <2> DEFINE f == [i \in B |-> i + n]
  <2>1. f \in [B -> C]
    BY <1>1, <1>2
  <2>2. \A i, j \in B : f[i] = f[j] => i = j
    BY <1>1, <1>2
  <2>3. \A j \in C : \E i \in B : f[i] = j
    <3> SUFFICES ASSUME NEW j \in C PROVE \E i \in B : f[i] = j
      OBVIOUS
    <3>1. j - n \in B /\ (j - n) + n = j
      BY <1>1, <1>2
    <3> QED BY <3>1
  <2> HIDE DEF f, C
  <2>4. f \in Bijection(B, C)
    BY <2>1, <2>2, <2>3, Fun_IsBij
  <2>5. ExistsBijection(B, C)
    BY <2>4 DEF ExistsBijection
  <2> QED BY <1>5, <2>5, FS_Bijection
<1> HIDE DEF C
<1>7. Cardinality(A \cup C) = Cardinality(A) + Cardinality(C) - 0
  BY <1>4, <1>5, FS_Union, FS_EmptySet
<1>8. Cardinality(A) \in Nat /\ Cardinality(C) \in Nat
  BY <1>5, FS_CardinalityType
<1>9. Cardinality(A \cup C) = Cardinality(A) + Cardinality(B)
  BY <1>6, <1>7, <1>8
<1> QED BY <1>3, <1>9 DEF A, B

\* A plan lays out as many slots of every variant.
LEMMA PlanEven ==
  ASSUME NEW n \in Nat, NEW plan \in SlotPlans(n)
  PROVE  /\ NewSlots(plan) \in Seq(SlotRow) /\ Len(NewSlots(plan)) = n
         /\ \A i \in DOMAIN NewSlots(plan) : NewSlots(plan)[i].status = "open"
         /\ \A v, w \in Variants :
              Cardinality(Of(NewSlots(plan), v)) = Cardinality(Of(NewSlots(plan), w))
<1>1. plan \in [1..n -> Variants]
  BY DEF SlotPlans
<1>2. /\ DOMAIN NewSlots(plan) = 1..n
      /\ \A i \in 1..n : /\ NewSlots(plan)[i].variant = plan[i]
                         /\ NewSlots(plan)[i].status = "open"
  BY <1>1 DEF NewSlots, OpenSlot
<1>3. \A v : Of(NewSlots(plan), v) = {i \in 1..n : plan[i] = v}
  BY <1>2 DEF Of
<1> QED BY <1>1, <1>2, <1>3, NewSlotsType DEF SlotPlans

\* Growth adds a slot of every variant, and only below the cap.
LEMMA GrowOverlapHistory ==
  ASSUME NEW d \in Databases, NEW u \in Units, NEW plan \in SlotPlans(NumVariants), CanGrow(d, u)
  PROVE  Keeps(d, GrowOverlap(d, u, plan))
<1> DEFINE e == GrowOverlap(d, u, plan)
           s == d.slot[u]
           t == NewSlots(plan)
<1>1. s \in Seq(SlotRow) /\ t \in Seq(SlotRow) /\ Len(t) = NumVariants
  BY DatabaseFields, PlanEven, NumVariantsType
<1>2. /\ e.label = d.label /\ e.final = d.final /\ e.cap = d.cap
      /\ \A w \in Units \ {u} : e.slot[w] = d.slot[w]
  BY DEF GrowOverlap, Databases
<1>3. e.slot[u] = s \o t
  BY DEF GrowOverlap, Databases
<1>4. /\ \A i \in DOMAIN t : t[i].status = "open"
      /\ \A v, w \in Variants : Cardinality(Of(t, v)) = Cardinality(Of(t, w))
  BY PlanEven, NumVariantsType
<1> HIDE DEF e, s, t
<1>5. /\ Len(s) \in Nat /\ Len(t) \in Nat /\ DOMAIN s = 1..Len(s) /\ DOMAIN t = 1..Len(t)
      /\ DOMAIN (s \o t) = 1..(Len(s) + Len(t))
      /\ \A i \in 1..(Len(s) + Len(t)) :
           (s \o t)[i] = IF i <= Len(s) THEN s[i] ELSE t[i - Len(s)]
  BY <1>1, ConcatFacts
<1>6. \A i \in DOMAIN s : i \in DOMAIN (s \o t) /\ (s \o t)[i] = s[i]
  BY <1>5
<1>7. SlotVariants(d, e)
  BY <1>2, <1>3, <1>6 DEF SlotVariants, s
<1>8. ASSUME Even(d, u)
      PROVE  Even(e, u)
  <2>1. \A i \in DOMAIN (s \o t) : (s \o t)[i].status # "deleted"
    <3> SUFFICES ASSUME NEW i \in 1..(Len(s) + Len(t)) PROVE (s \o t)[i].status # "deleted"
      BY <1>5
    <3>1. CASE i <= Len(s)
      BY <1>5, <1>8, <3>1 DEF Even, s
    <3>2. CASE ~(i <= Len(s))
      <4>1. i - Len(s) \in DOMAIN t /\ (s \o t)[i] = t[i - Len(s)]
        BY <1>5, <3>2
      <4> QED BY <1>4, <4>1
    <3> QED BY <3>1, <3>2
  <2>2. Cardinality(DOMAIN (s \o t)) <= e.cap[ProjectOf[u]]
    <3>1. Live(d, u) = DOMAIN s
      BY <1>8 DEF Even, Live, s
    <3>2. Cardinality(DOMAIN s) = Len(s) /\ Cardinality(DOMAIN (s \o t)) = Len(s) + Len(t)
      <4>1. Cardinality(1..Len(s)) = Len(s)
        BY <1>5, IntervalCount
      <4>2. Len(s) + Len(t) \in Nat
        BY <1>5
      <4>3. Cardinality(1..(Len(s) + Len(t))) = Len(s) + Len(t)
        BY <4>2, IntervalCount
      <4> QED BY <1>5, <4>1, <4>3
    <3> QED BY <1>1, <1>2, <3>1, <3>2 DEF CanGrow
  <2>3. ASSUME NEW v \in Variants, NEW w \in Variants
        PROVE  Cardinality(Of(s \o t, v)) = Cardinality(Of(s \o t, w))
    <3>1. \A x : Cardinality(Of(s \o t, x)) = Cardinality(Of(s, x)) + Cardinality(Of(t, x))
      BY <1>1, ConcatCount
    <3>2. Cardinality(Of(s, v)) = Cardinality(Of(s, w))
      BY <1>8 DEF Even, s
    <3> QED BY <1>4, <3>1, <3>2
  <2> QED BY <1>3, <2>1, <2>2, <2>3 DEF Even
<1>9. Balance(d, e)
  <2>1. ASSUME NEW w \in Units \ {u}, Even(d, w)
        PROVE  Even(e, w)
    BY <1>2, <2>1 DEF Even
  <2> QED BY <1>8, <2>1 DEF Balance
<1> QED BY <1>2, <1>7, <1>9, SameFinal DEF Keeps, e

LEMMA ApplyConsensusPolicyHistory ==
  ASSUME NEW d \in Databases, NEW u \in Units, NEW plan \in SlotPlans(NumVariants)
  PROVE  Keeps(d, ApplyConsensusPolicy(d, u, plan))
<1>1. Keeps(d, Escalate(d, u))
  <2>1. /\ Escalate(d, u).slot = d.slot /\ Escalate(d, u).label = d.label
        /\ Escalate(d, u).final = d.final /\ Escalate(d, u).cap = d.cap
    BY DEF Escalate, Databases
  <2> QED BY <2>1, SameFinal, SameSlotVariants DEF Keeps
<1> QED BY <1>1, KeepsSelf, GrowOverlapHistory DEF ApplyConsensusPolicy

\* Routing decides no unit a human has decided.
LEMMA RouteUnitHistory ==
  ASSUME NEW d \in Databases, NEW u \in Units, NEW merge
  PROVE  Keeps(d, RouteUnit(d, u, merge))
<1> DEFINE e == RouteUnit(d, u, merge)
<1>1. e.slot = d.slot /\ e.label = d.label /\ e.cap = d.cap
  BY DEF RouteUnit, FinalizeUnit, Databases
<1>2. \A w \in Units : e.final[w] = d.final[w] \/ (w = u /\ ~HumanDecided(d, u))
  BY DEF RouteUnit, FinalizeUnit, Databases
<1> HIDE DEF e
<1>3. Verdicts(d, e)
  BY <1>2 DEF Verdicts, HumanDecided
<1> QED BY <1>1, <1>3, SameSlotVariants DEF Keeps, e

LEMMA RouteUnitsHistory ==
  ASSUME NEW d \in Databases, NEW us, NEW merges
  PROVE  Keeps(d, RouteUnits(d, us, merges))
<1> DEFINE e == RouteUnits(d, us, merges)
<1>1. e.slot = d.slot /\ e.label = d.label /\ e.cap = d.cap
  BY DEF RouteUnits, Databases
<1>2. ASSUME NEW u \in Units, HumanDecided(d, u)
      PROVE  e.final[u] = d.final[u]
  <2>1. RouteUnit(d, u, merges[u]) = d
    BY <1>2 DEF RouteUnit
  <2>2. e.final[u] = IF u \in us THEN RouteUnit(d, u, merges[u]).final[u] ELSE d.final[u]
    BY DEF RouteUnits, Databases
  <2> QED BY <2>1, <2>2
<1> HIDE DEF e
<1>3. Verdicts(d, e)
  BY <1>2 DEF Verdicts, HumanDecided
<1> QED BY <1>1, <1>3, SameSlotVariants DEF Keeps, e

LEMMA HumanFinalizeHistory ==
  ASSUME NEW d \in Databases, NEW u \in Units, NEW method \in HumanMethods, NEW value
  PROVE  Keeps(d, FinalizeUnit(d, u, method, value))
<1> DEFINE e == FinalizeUnit(d, u, method, value)
<1>1. e.slot = d.slot /\ e.label = d.label /\ e.cap = d.cap
  BY DEF FinalizeUnit, Databases
<1>2. \A w \in Units : w # u => e.final[w] = d.final[w]
  BY DEF FinalizeUnit, Databases
<1>3. e.final[u].method = method
  BY DEF FinalizeUnit, Databases
<1> HIDE DEF e
<1>4. Verdicts(d, e)
  BY <1>2, <1>3 DEF Verdicts, HumanDecided
<1> QED BY <1>1, <1>4, SameSlotVariants DEF Keeps, e

LEMMA SweepHistory ==
  ASSUME NEW d \in Databases
  PROVE  Keeps(d, Sweep(d))
<1> DEFINE e == Reopen(d, Expired(d))
<1>1. e \in Databases /\ Keeps(d, e)
  BY ReopenType, ReopenHistory
<1>2. Sweep(d) = Recompute(e, {s[1] : s \in Expired(d)}, {})
  BY DEF Sweep
<1> HIDE DEF e
<1>3. Sweep(d) \in Databases /\ Keeps(e, Sweep(d))
  BY <1>1, <1>2, RecomputeType, RecomputeHistory
<1> QED BY <1>1, <1>3, KeepsTrans

\* Rewriting the lease columns of one slot.
LEMMA OneSlotHistory ==
  ASSUME NEW d \in Databases, NEW e, NEW u \in Units, NEW i \in DOMAIN d.slot[u], NEW row,
         e.final = d.final, e.cap = d.cap,
         row.variant = d.slot[u][i].variant, row.status \in {"leased", "filled"},
         e.slot = [d.slot EXCEPT ![u] = [d.slot[u] EXCEPT ![i] = row]]
  PROVE  Keeps(d, e)
<1>1. d.slot \in [Units -> Seq(SlotRow)]
  BY DatabaseFields
<1>2. ASSUME NEW w \in Units
      PROVE  /\ DOMAIN e.slot[w] = DOMAIN d.slot[w]
             /\ \A j \in DOMAIN d.slot[w] :
                  /\ e.slot[w][j].variant = d.slot[w][j].variant
                  /\ e.slot[w][j].status \in {d.slot[w][j].status, "open", "leased", "filled"}
  BY <1>1
<1>3. SlotVariants(d, e) /\ Balance(d, e)
  BY <1>2, SameLayout
<1> QED BY <1>3, SameFinal DEF Keeps

LEMMA LeaseHistory ==
  ASSUME NEW d \in Databases, NEW a, NEW u \in Units, NEW i \in DOMAIN d.slot[u]
  PROVE  Keeps(d, Lease(d, a, u, i))
<1> DEFINE row == [d.slot[u][i] EXCEPT !.status = "leased", !.by = a, !.expired = FALSE]
           e == Lease(d, a, u, i)
<1>1. row.variant = d.slot[u][i].variant /\ row.status = "leased"
  BY RowTypes DEF SlotRow
<1>2. e.label = d.label /\ e.final = d.final /\ e.cap = d.cap
  BY DEF Lease, Databases
<1>3. e.slot = [d.slot EXCEPT ![u] = [d.slot[u] EXCEPT ![i] = row]]
  BY DEF Lease, Databases
<1> HIDE DEF e, row
<1> QED BY <1>1, <1>2, <1>3, OneSlotHistory DEF e

LEMMA FillHistory ==
  ASSUME NEW d \in Databases, NEW a \in Annotators, NEW u \in Units, NEW i \in DOMAIN d.slot[u],
         NEW value \in Answers
  PROVE  Keeps(d, Fill(d, a, u, i, value))
<1> DEFINE row == [d.slot[u][i] EXCEPT !.status = "filled", !.expired = FALSE]
           e == Fill(d, a, u, i, value)
<1>1. row.variant = d.slot[u][i].variant /\ row.status = "filled"
  BY RowTypes DEF SlotRow
<1>2. e.final = d.final /\ e.cap = d.cap
  BY DEF Fill, Recompute, Databases
<1>3. e.slot = [d.slot EXCEPT ![u] = [d.slot[u] EXCEPT ![i] = row]]
  BY DEF Fill, Recompute, Databases
<1> HIDE DEF e, row
<1> QED BY <1>1, <1>2, <1>3, OneSlotHistory DEF e

-----------------------------------------------------------------------------
(* The requests.                                                           *)

LEMMA NextTaskHistory ==
  ASSUME TypeOK, NEW a \in Annotators, NEW p \in Projects, NextTask(a, p)
  PROVE  Keeps(db, db')
<1> DEFINE d == Sweep(db)
<1>1. d \in Databases /\ Keeps(db, d)
  BY SweepType, SweepHistory DEF TypeOK
<1>2. TypeOK'
  BY NextTaskType
<1>3. CASE \E s \in HeldSlots(d, a, p) : db' = [d EXCEPT !.slot[s[1]][s[2]].expired = FALSE]
  <2> HIDE DEF d
  <2>1. PICK s \in HeldSlots(d, a, p) : db' = [d EXCEPT !.slot[s[1]][s[2]].expired = FALSE]
    BY <1>3
  <2>2. PICK u \in Units : \E i \in InStatus(d, u, "leased") : s = <<u, i>>
    BY <2>1 DEF HeldSlots
  <2>3. PICK i \in InStatus(d, u, "leased") : s = <<u, i>>
    BY <2>2
  <2> DEFINE row == [d.slot[u][i] EXCEPT !.expired = FALSE]
  <2>4. i \in DOMAIN d.slot[u]
    BY InStatusRange
  <2>5. row.variant = d.slot[u][i].variant /\ row.status = "leased"
    BY <1>1, <2>3, <2>4, RowTypes DEF SlotRow, InStatus
  <2>6. /\ db'.label = d.label /\ db'.final = d.final /\ db'.cap = d.cap
        /\ db'.slot = [d.slot EXCEPT ![u] = [d.slot[u] EXCEPT ![i] = row]]
    BY <1>1, <2>1, <2>3 DEF Databases
  <2> HIDE DEF row
  <2>7. Keeps(d, db')
    BY <1>1, <2>4, <2>5, <2>6, OneSlotHistory
  <2> QED BY <1>1, <1>2, <2>7, KeepsTrans DEF TypeOK
<1>4. CASE \E s \in NextSlots(d, a, p) : db' = Lease(d, a, s[1], s[2])
  <2>1. PICK s \in NextSlots(d, a, p) : db' = Lease(d, a, s[1], s[2])
    BY <1>4
  <2> HIDE DEF d
  <2>2. PICK u \in Units : \E i \in InStatus(d, u, "open") : s = <<u, i>>
    BY <2>1 DEF NextSlots, First, OpenSlots
  <2>3. PICK i \in InStatus(d, u, "open") : s = <<u, i>>
    BY <2>2
  <2>4. Keeps(d, db')
    BY <1>1, <2>1, <2>3, InStatusRange, LeaseHistory
  <2> QED BY <1>1, <1>2, <2>4, KeepsTrans DEF TypeOK
<1>5. CASE db' = d
  BY <1>1, <1>5
<1> QED BY <1>3, <1>4, <1>5 DEF NextTask

LEMMA SubmitHistory ==
  ASSUME TypeOK, NEW a \in Annotators, NEW u \in Units, NEW i, NEW value \in Answers,
         Submit(a, u, i, value)
  PROVE  Keeps(db, db')
<1>1. PICK plan \in SlotPlans(NumVariants) :
        LET judged  == EnforceGoldThreshold(Fill(db, a, u, i, value), a, u, Grade(u, value))
            settled == ApplyConsensusPolicy(judged, u, plan)
        IN  IF StopsCollecting(judged, u)
            THEN \E merge \in Merges(settled, u) : db' = RouteUnit(settled, u, merge)
            ELSE db' = settled
  BY DEF Submit
<1> DEFINE filled  == Fill(db, a, u, i, value)
           judged  == EnforceGoldThreshold(filled, a, u, Grade(u, value))
           settled == ApplyConsensusPolicy(judged, u, plan)
<1>2. filled \in Databases /\ Keeps(db, filled)
  BY FillType, FillHistory DEF TypeOK, Submit, Holds
<1> HIDE DEF filled
<1>3. judged \in Databases /\ Keeps(filled, judged)
  BY <1>2, EnforceGoldThresholdType, EnforceGoldThresholdHistory
<1> HIDE DEF judged
<1>4. settled \in Databases /\ Keeps(judged, settled)
  BY <1>3, ApplyConsensusPolicyType, ApplyConsensusPolicyHistory
<1>5. db' = settled \/ \E merge \in Merges(settled, u) : db' = RouteUnit(settled, u, merge)
  BY <1>1 DEF filled, judged
<1> HIDE DEF settled
<1>6. Keeps(db, judged)
  BY <1>2, <1>3, KeepsTrans DEF TypeOK
<1>7. Keeps(db, settled)
  BY <1>3, <1>4, <1>6, KeepsTrans DEF TypeOK
<1>8. ASSUME NEW merge \in Merges(settled, u)
      PROVE  Keeps(db, RouteUnit(settled, u, merge))
  BY <1>4, <1>7, RouteUnitType, RouteUnitHistory, KeepsTrans DEF TypeOK
<1> QED BY <1>5, <1>7, <1>8

LEMMA SkipHistory ==
  ASSUME TypeOK, NEW a \in Annotators, NEW u \in Units, NEW i, Skip(a, u, i)
  PROVE  Keeps(db, db')
<1> DEFINE d == Reopen(db, {<<u, i>>})
<1>1. d \in Databases /\ Keeps(db, d)
  BY ReopenType, ReopenHistory DEF TypeOK
<1>2. db' = Recompute(d, {u}, {})
  BY DEF Skip
<1> HIDE DEF d
<1>3. db' \in Databases /\ Keeps(d, db')
  BY <1>1, <1>2, RecomputeType, RecomputeHistory
<1> QED BY <1>1, <1>3, KeepsTrans DEF TypeOK

LEMMA PatchUnitHistory ==
  ASSUME TypeOK, NEW u \in Units, NEW n \in Int, NEW void \in BOOLEAN, PatchUnit(u, n, void)
  PROVE  Keeps(db, db')
<1> DEFINE d == [db EXCEPT !.unit[u].priority = n]
           voided   == VoidLabels(d, ValidLabels(d, u))
           stranded == {u} \X (InStatus(voided, u, "leased") \cup InStatus(voided, u, "filled"))
           cleared  == Reopen(voided, stranded)
           last     == Recompute(cleared, {u}, {})
<1>1. d \in Databases
  <2>1. [db.unit[u] EXCEPT !.priority = n] \in UnitRow
    BY RowTypes DEF TypeOK, UnitRow
  <2>2. d = [db EXCEPT !.unit[u] = [db.unit[u] EXCEPT !.priority = n]]
    BY DEF TypeOK, Databases
  <2> HIDE DEF d
  <2> QED BY <2>1, <2>2, OneUnitRow DEF TypeOK
<1>2. d.slot = db.slot /\ d.label = db.label /\ d.final = db.final /\ d.cap = db.cap
  BY DEF TypeOK, Databases
<1>3. db' = IF void THEN last ELSE d
  BY DEF PatchUnit
<1> HIDE DEF d
<1>4. Keeps(db, d)
  BY <1>2, SameFinal, SameSlotVariants DEF Keeps, TypeOK
<1>5. voided \in Databases /\ Keeps(d, voided)
  BY <1>1, VoidLabelsType, VoidLabelsHistory
<1> HIDE DEF voided, stranded
<1>6. cleared \in Databases /\ Keeps(voided, cleared)
  BY <1>5, ReopenType, ReopenHistory
<1> HIDE DEF cleared
<1>7. last \in Databases /\ Keeps(cleared, last)
  BY <1>6, RecomputeType, RecomputeHistory
<1> HIDE DEF last
<1>8. Keeps(db, voided)
  BY <1>1, <1>4, <1>5, KeepsTrans DEF TypeOK
<1>9. Keeps(db, cleared)
  BY <1>5, <1>6, <1>8, KeepsTrans DEF TypeOK
<1>10. Keeps(db, last)
  BY <1>6, <1>7, <1>9, KeepsTrans DEF TypeOK
<1> QED BY <1>3, <1>4, <1>10

LEMMA DecideHistory ==
  ASSUME TypeOK, NEW u \in Units, Decide(u)
  PROVE  Keeps(db, db')
<1>1. PICK x \in Decisions(db, u) : db' = FinalizeUnit(db, u, x.method, x.value)
  BY DEF Decide
<1>2. x.method \in HumanMethods
  BY DEF Decisions, HumanMethods
<1> QED BY <1>1, <1>2, HumanFinalizeHistory DEF TypeOK

LEMMA LeaseRunsOutHistory ==
  ASSUME TypeOK, NEW u \in Units, NEW i, LeaseRunsOut(u, i)
  PROVE  Keeps(db, db')
<1> DEFINE row == [db.slot[u][i] EXCEPT !.expired = TRUE]
<1>1. i \in DOMAIN db.slot[u]
  BY InStatusRange DEF LeaseRunsOut
<1>2. row.variant = db.slot[u][i].variant /\ row.status = "leased"
  BY <1>1, RowTypes DEF SlotRow, TypeOK, LeaseRunsOut, InStatus
<1>3. /\ db'.label = db.label /\ db'.final = db.final /\ db'.cap = db.cap
      /\ db'.slot = [db.slot EXCEPT ![u] = [db.slot[u] EXCEPT ![i] = row]]
  BY DEF LeaseRunsOut, TypeOK, Databases
<1> HIDE DEF row
<1> QED BY <1>1, <1>2, <1>3, OneSlotHistory DEF TypeOK

LEMMA NextHistory ==
  ASSUME TypeOK, Next
  PROVE  Keeps(db, db')
<1>1. CASE AnnotatorStep
  BY <1>1, NextTaskHistory, SubmitHistory, SkipHistory DEF AnnotatorStep
<1>2. CASE StaffStep
  <2>1. ASSUME NEW a \in Annotators, ResumeAnnotator(a)
        PROVE  Keeps(db, db')
    <3>1. /\ db'.slot = db.slot /\ db'.label = db.label
          /\ db'.final = db.final /\ db'.cap = db.cap
      BY <2>1 DEF ResumeAnnotator, TypeOK, Databases
    <3> QED BY <3>1, SameFinal, SameSlotVariants DEF Keeps, TypeOK
  <2>2. ASSUME NEW u \in Units, NEW n \in Priorities \cup {db.unit[u].priority},
               NEW void \in BOOLEAN, PatchUnit(u, n, void)
        PROVE  Keeps(db, db')
    <3>1. n \in Int
      BY PlatformAssumption, RowTypes DEF TypeOK, UnitRow
    <3> QED BY <2>2, <3>1, PatchUnitHistory
  <2>3. ASSUME NEW p \in Projects, NEW all \in BOOLEAN, RouteProject(p, all)
        PROVE  Keeps(db, db')
    BY <2>3, RouteUnitsHistory DEF RouteProject, TypeOK
  <2> QED BY <1>2, <2>1, <2>2, <2>3, DecideHistory DEF StaffStep
<1>3. CASE ClockStep
  <2>1. CASE AvailableWork
    BY <2>1, SweepHistory DEF AvailableWork, TypeOK
  <2> QED BY <1>3, <2>1, LeaseRunsOutHistory DEF ClockStep
<1> QED BY <1>1, <1>2, <1>3 DEF Next

-----------------------------------------------------------------------------
(* The theorems.                                                           *)

LEMMA KeepsAlways == Spec => [][Keeps(db, db')]_db
<1>1. TypeOK /\ [Next]_db => [Keeps(db, db')]_db
  BY NextHistory
<1> QED BY <1>1, TypeCorrect, PTL DEF Spec

\* A unit a human has decided stays decided by a human: voids, pauses, re-routing
\* and late labels never drop or replace the verdict.
THEOREM HumanDecisionTheorem == Spec => HumanDecisionKept
<1>1. [Keeps(db, db')]_db => [\A u \in Units : HumanDecided(db, u) => HumanDecided(db', u)]_db
  BY DEF Keeps, Verdicts
<1> QED BY <1>1, KeepsAlways, PTL DEF HumanDecisionKept

\* A slot keeps its variant through every skip, expiry, void and growth round.
THEOREM VariantTheorem == Spec => VariantRetained
<1>1. [Keeps(db, db')]_db =>
        [\A u \in Units : \A i \in DOMAIN db.slot[u] :
            i \in DOMAIN db'.slot[u] /\ db'.slot[u][i].variant = db.slot[u][i].variant]_db
  BY DEF Keeps, SlotVariants
<1> QED BY <1>1, KeepsAlways, PTL DEF VariantRetained

LEMMA BalanceInit ==
  ASSUME Init
  PROVE  \A u \in Units : Even(db, u)
<1>1. PICK layout \in [Units -> SlotPlans(LabelsPerUnit)] :
        /\ db.slot = [u \in Units |-> NewSlots(layout[u])]
        /\ db.cap = [p \in Projects |-> MaxLabelsPerUnit]
  BY DEF Init
<1> SUFFICES ASSUME NEW u \in Units PROVE Even(db, u)
  OBVIOUS
<1>2. LabelsPerUnit \in Nat /\ db.cap[ProjectOf[u]] >= LabelsPerUnit
  BY <1>1, OverlapAssumption, IdsAssumption
<1>3. layout[u] \in SlotPlans(LabelsPerUnit) /\ db.slot[u] = NewSlots(layout[u])
  BY <1>1
<1>4. Cardinality(DOMAIN NewSlots(layout[u])) = LabelsPerUnit
  <2>1. DOMAIN NewSlots(layout[u]) = 1..LabelsPerUnit
    BY <1>2, <1>3, PlanEven, SeqFacts
  <2> QED BY <1>2, <2>1, IntervalCount
<1>5. db.cap[ProjectOf[u]] \in Nat
  BY <1>1, OverlapAssumption, IdsAssumption
<1>6. \A i \in DOMAIN NewSlots(layout[u]) : NewSlots(layout[u])[i].status # "deleted"
  BY <1>2, <1>3, PlanEven
<1> QED BY <1>2, <1>3, <1>4, <1>5, <1>6, PlanEven DEF Even

\* A unit always has equally many slots of every variant and never more than
\* max_labels_per_unit, through every skip, expiry, void and growth round.
THEOREM BalanceTheorem == Spec => []VariantsBalanced
<1> DEFINE Inv == \A u \in Units : Even(db, u)
<1>1. Init => Inv
  BY BalanceInit
<1>2. Inv /\ [Keeps(db, db')]_db => Inv'
  <2> SUFFICES ASSUME Inv, [Keeps(db, db')]_db PROVE \A u \in Units : Even(db', u)
    OBVIOUS
  <2>1. CASE Keeps(db, db')
    BY <2>1 DEF Keeps, Balance
  <2>2. CASE UNCHANGED db
    BY <2>2
  <2> QED BY <2>1, <2>2
<1>3. Inv => VariantsBalanced
  <2> SUFFICES ASSUME Inv, NEW u \in Units
               PROVE  /\ Cardinality(Live(db, u)) <= db.cap[ProjectOf[u]]
                      /\ \A v, w \in Variants :
                           Cardinality({i \in Live(db, u) : db.slot[u][i].variant = v})
                         = Cardinality({i \in Live(db, u) : db.slot[u][i].variant = w})
    BY DEF VariantsBalanced
  <2>1. Live(db, u) = DOMAIN db.slot[u]
    BY DEF Even, Live
  <2> QED BY <2>1 DEF Even, Of
<1> HIDE DEF Inv
<1>4. Spec => Init /\ [][Keeps(db, db')]_db
  BY KeepsAlways DEF Spec
<1> QED BY <1>1, <1>2, <1>3, <1>4, PTL

=============================================================================
