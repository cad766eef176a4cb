----------------------------- MODULE LabelProofs -----------------------------
(***************************************************************************)
(* The slots and labels tables agree: Spec => []FilledByOneLabel, proved   *)
(* for every value of the constants.                                       *)
(*                                                                         *)
(* The invariant is proved from its three halves (Match): a valid label    *)
(* lies on a slot its author filled, no two valid labels share a slot, and *)
(* a filled slot has a valid label.  Slots that are not filled may change  *)
(* freely; only Fill and the void of labels touch the others.              *)
(***************************************************************************)
EXTENDS PlatformProofs

Valid(d) == {l \in DOMAIN d.label : d.label[l].valid}

\* A valid label lies on a slot that its author filled.
OnFilledSlot(d, l) ==
  LET s == d.slot[d.label[l].unit]
  IN  /\ d.label[l].slot \in DOMAIN s
      /\ s[d.label[l].slot].status = "filled"
      /\ s[d.label[l].slot].by = d.label[l].by

SameSlot(d, l, m) == d.label[l].unit = d.label[m].unit /\ d.label[l].slot = d.label[m].slot

HasLabel(d, u, i) == \E l \in Valid(d) : d.label[l].unit = u /\ d.label[l].slot = i

Match(d) ==
  /\ \A l \in Valid(d) : OnFilledSlot(d, l)
  /\ \A l, m \in Valid(d) : SameSlot(d, l, m) => l = m
  /\ \A u \in Units : \A i \in DOMAIN d.slot[u] :
        d.slot[u][i].status = "filled" => HasLabel(d, u, i)

-----------------------------------------------------------------------------
(* Operators that change no filled slot.                                   *)

\* From d to e the labels are the same, and so are the slots that are filled.
SameFilled(d, e) ==
  /\ e.label = d.label
  /\ \A u \in Units : \A i :
       /\ (i \in DOMAIN d.slot[u] /\ d.slot[u][i].status = "filled")
            <=> (i \in DOMAIN e.slot[u] /\ e.slot[u][i].status = "filled")
       /\ i \in DOMAIN d.slot[u] /\ d.slot[u][i].status = "filled"
            => e.slot[u][i].by = d.slot[u][i].by

LEMMA LabelUnits ==
  ASSUME NEW d \in Databases, NEW l \in DOMAIN d.label
  PROVE  d.label[l].unit \in Units /\ d.label[l].valid \in BOOLEAN /\ d.label[l].by \in Annotators
BY RowTypes DEF LabelRow

LEMMA SameFilledKeeps ==
  ASSUME NEW d \in Databases, NEW e, Match(d), SameFilled(d, e)
  PROVE  Match(e)
<1>1. Valid(e) = Valid(d)
  BY DEF SameFilled, Valid
<1>2. \A l \in Valid(e) : OnFilledSlot(e, l)
  <2> SUFFICES ASSUME NEW l \in Valid(d) PROVE OnFilledSlot(e, l)
    BY <1>1
  <2>1. d.label[l].unit \in Units
    BY LabelUnits DEF Valid
  <2>2. OnFilledSlot(d, l)
    BY DEF Match
  <2> DEFINE u == d.label[l].unit
             i == d.label[l].slot
  <2>3. i \in DOMAIN d.slot[u] /\ d.slot[u][i].status = "filled" /\ d.slot[u][i].by = d.label[l].by
    BY <2>2 DEF OnFilledSlot
  <2>4. e.label = d.label
    BY DEF SameFilled
  <2>5. i \in DOMAIN e.slot[u] /\ e.slot[u][i].status = "filled" /\ e.slot[u][i].by = d.label[l].by
    <3> HIDE DEF u, i
    <3> QED BY <2>1, <2>3 DEF SameFilled, u
  <2> QED BY <2>4, <2>5 DEF OnFilledSlot
<1>3. \A l, m \in Valid(e) : SameSlot(e, l, m) => l = m
  BY <1>1 DEF Match, SameFilled, SameSlot
<1>4. \A u \in Units : \A i \in DOMAIN e.slot[u] :
        e.slot[u][i].status = "filled" => HasLabel(e, u, i)
  BY <1>1 DEF Match, SameFilled, HasLabel
<1> QED BY <1>2, <1>3, <1>4 DEF Match

LEMMA SameSlots ==
  ASSUME NEW d, NEW e, e.slot = d.slot, e.label = d.label
  PROVE  SameFilled(d, e)
BY DEF SameFilled

\* Reopening slots that are not filled.
LEMMA ReopenUnfilled ==
  ASSUME NEW d \in Databases, NEW ss,
         \A u \in Units : \A i \in DOMAIN d.slot[u] :
            <<u, i>> \in ss => d.slot[u][i].status # "filled"
  PROVE  SameFilled(d, Reopen(d, ss))
<1> DEFINE e == Reopen(d, ss)
<1>1. e.label = d.label
  BY DEF Reopen, Databases
<1>2. ASSUME NEW u \in Units
      PROVE  e.slot[u] = [i \in DOMAIN d.slot[u] |->
               IF <<u, i>> \in ss THEN OpenSlot(d.slot[u][i].variant) ELSE d.slot[u][i]]
  BY DEF Reopen, Databases
<1> HIDE DEF e
<1>3. \A v : OpenSlot(v).status = "open"
  BY DEF OpenSlot
<1>4. \A u \in Units : DOMAIN e.slot[u] = DOMAIN d.slot[u]
  BY <1>2
<1>5. ASSUME NEW u \in Units, NEW i \in DOMAIN d.slot[u]
      PROVE  \/ e.slot[u][i] = d.slot[u][i]
             \/ e.slot[u][i].status = "open" /\ d.slot[u][i].status # "filled"
  <2>1. e.slot[u][i] = IF <<u, i>> \in ss THEN OpenSlot(d.slot[u][i].variant) ELSE d.slot[u][i]
    BY <1>2
  <2>2. CASE <<u, i>> \in ss
    BY <1>3, <2>1, <2>2
  <2>3. CASE <<u, i>> \notin ss
    BY <2>1, <2>3
  <2> QED BY <2>2, <2>3
<1> QED BY <1>1, <1>4, <1>5 DEF SameFilled, e

\* Rewriting one slot that is not filled before or after.
LEMMA OneUnfilled ==
  ASSUME NEW d \in Databases, NEW e, NEW u \in Units, NEW i \in DOMAIN d.slot[u], NEW row,
         d.slot[u][i].status # "filled", row.status # "filled", e.label = d.label,
         e.slot = [d.slot EXCEPT ![u] = [d.slot[u] EXCEPT ![i] = row]]
  PROVE  SameFilled(d, e)
<1>1. d.slot \in [Units -> Seq(SlotRow)]
  BY DatabaseFields
<1>2. \A w \in Units : DOMAIN e.slot[w] = DOMAIN d.slot[w]
  BY <1>1
<1>3. \A w \in Units : \A j \in DOMAIN d.slot[w] :
        \/ e.slot[w][j] = d.slot[w][j]
        \/ e.slot[w][j].status # "filled" /\ d.slot[w][j].status # "filled"
  BY <1>1
<1> QED BY <1>2, <1>3 DEF SameFilled

LEMMA GrowSameFilled ==
  ASSUME NEW d \in Databases, NEW u \in Units, NEW plan \in SlotPlans(NumVariants)
  PROVE  SameFilled(d, GrowOverlap(d, u, plan))
<1> DEFINE e == GrowOverlap(d, u, plan)
           s == d.slot[u]
           t == NewSlots(plan)
<1>1. s \in Seq(SlotRow) /\ t \in Seq(SlotRow)
  BY DatabaseFields, NewSlotsType, NumVariantsType DEF SlotPlans
<1>2. \A i \in DOMAIN t : t[i].status = "open"
  BY DEF NewSlots, OpenSlot
<1>3. e.label = d.label /\ \A w \in Units \ {u} : e.slot[w] = d.slot[w]
  BY DEF GrowOverlap, Databases
<1>4. e.slot[u] = s \o t
  BY DEF GrowOverlap, Databases
<1> HIDE DEF e, s, t
<1>5. Len(s) \in Nat /\ Len(t) \in Nat /\ DOMAIN s = 1..Len(s) /\ DOMAIN t = 1..Len(t)
  BY <1>1, SeqFacts
<1>6. DOMAIN (s \o t) = 1..(Len(s) + Len(t))
  BY <1>1, ConcatProperties, SeqFacts
<1>7. \A i \in 1..(Len(s) + Len(t)) :
        (s \o t)[i] = IF i <= Len(s) THEN s[i] ELSE t[i - Len(s)]
  BY <1>1, ConcatProperties
<1>8. \A i \in DOMAIN s : i \in DOMAIN (s \o t) /\ (s \o t)[i] = s[i]
  BY <1>5, <1>6, <1>7
<1>9. \A i \in DOMAIN (s \o t) : i \in DOMAIN s \/ (s \o t)[i].status = "open"
  <2> SUFFICES ASSUME NEW i \in 1..(Len(s) + Len(t)), ~(i <= Len(s))
               PROVE  (s \o t)[i].status = "open"
    BY <1>5, <1>6
  <2>1. i - Len(s) \in DOMAIN t
    BY <1>5
  <2> QED BY <1>2, <1>7, <2>1
<1> QED BY <1>3, <1>4, <1>8, <1>9, ZenonT(40) DEF SameFilled, s, e

-----------------------------------------------------------------------------
(* Voiding labels.                                                         *)

\* Invalidating valid labels and reopening their slots.
LEMMA VoidMatch ==
  ASSUME NEW d \in Databases, Match(d), NEW ls \in SUBSET Valid(d), NEW e,
         e.slot = Reopen(d, Occupied(d, {<<d.label[l].unit, d.label[l].slot>> : l \in ls})).slot,
         e.label = Invalidate(d, ls).label
  PROVE  Match(e)
<1> DEFINE slots == {<<d.label[l].unit, d.label[l].slot>> : l \in ls}
<1>1. \A u \in Units : e.slot[u] = [i \in DOMAIN d.slot[u] |->
               IF <<u, i>> \in Occupied(d, slots)
               THEN OpenSlot(d.slot[u][i].variant) ELSE d.slot[u][i]]
  BY DEF Reopen, Databases
<1>2. e.label = [l \in DOMAIN d.label |-> [d.label[l] EXCEPT !.valid = @ /\ l \notin ls]]
  BY DEF Invalidate, Databases
<1>3. \A l \in DOMAIN d.label : d.label[l] \in LabelRow
  BY RowTypes
<1>4. \A l \in DOMAIN d.label : /\ e.label[l].unit = d.label[l].unit
                                /\ e.label[l].slot = d.label[l].slot
                                /\ e.label[l].by = d.label[l].by
  BY <1>2, <1>3 DEF LabelRow
<1>5. ASSUME NEW l \in DOMAIN d.label
      PROVE  e.label[l].valid <=> d.label[l].valid /\ l \notin ls
  <2>1. e.label[l] = [d.label[l] EXCEPT !.valid = d.label[l].valid /\ l \notin ls]
    BY <1>2
  <2>2. d.label[l] \in LabelRow
    BY <1>3
  <2> QED BY <2>1, <2>2, Zenon DEF LabelRow
<1>6. Valid(e) = Valid(d) \ ls
  BY <1>2, <1>5 DEF Valid
<1>7. \* A filled slot is reopened exactly when its label is voided.
      ASSUME NEW u \in Units, NEW i \in DOMAIN d.slot[u], d.slot[u][i].status = "filled"
      PROVE  <<u, i>> \in Occupied(d, slots)
               <=> \E l \in ls : d.label[l].unit = u /\ d.label[l].slot = i
  BY <1>7 DEF Occupied
<1> HIDE DEF slots
<1>8. \A v : OpenSlot(v).status = "open"
  BY DEF OpenSlot
<1>9. ASSUME NEW l \in Valid(e)
      PROVE  OnFilledSlot(e, l)
  <2>1. l \in Valid(d) /\ l \notin ls
    BY <1>6
  <2> DEFINE u == d.label[l].unit
             i == d.label[l].slot
  <2>2. u \in Units /\ i \in DOMAIN d.slot[u] /\ d.slot[u][i].status = "filled"
        /\ d.slot[u][i].by = d.label[l].by
    BY <2>1, LabelUnits DEF Match, OnFilledSlot, Valid
  <2>3. \A m \in ls : ~(d.label[m].unit = u /\ d.label[m].slot = i)
    BY <2>1 DEF Match, SameSlot
  <2>4. e.slot[u][i] = d.slot[u][i] /\ i \in DOMAIN e.slot[u]
    <3> HIDE DEF u, i
    <3>1. <<u, i>> \notin Occupied(d, slots)
      BY <1>7, <2>2, <2>3
    <3> QED BY <1>1, <2>2, <3>1
  <2>5. e.label[l].unit = u /\ e.label[l].slot = i /\ e.label[l].by = d.label[l].by
    BY <1>4, <2>1 DEF Valid
  <2> QED BY <2>2, <2>4, <2>5 DEF OnFilledSlot
<1>10. ASSUME NEW l \in Valid(e), NEW m \in Valid(e), SameSlot(e, l, m)
       PROVE  l = m
  <2>1. l \in Valid(d) /\ m \in Valid(d) /\ SameSlot(d, l, m)
    BY <1>4, <1>6, <1>10 DEF SameSlot, Valid
  <2> QED BY <2>1 DEF Match
<1>11. ASSUME NEW u \in Units, NEW i \in DOMAIN e.slot[u], e.slot[u][i].status = "filled"
       PROVE  HasLabel(e, u, i)
  <2>1. i \in DOMAIN d.slot[u]
    BY <1>1
  <2>2. <<u, i>> \notin Occupied(d, slots) /\ d.slot[u][i].status = "filled"
    BY <1>1, <1>8, <1>11, <2>1, ZenonT(40)
  <2>3. PICK l \in Valid(d) : d.label[l].unit = u /\ d.label[l].slot = i
    BY <2>1, <2>2 DEF Match, HasLabel
  <2>4. l \in Valid(e)
    BY <1>6, <1>7, <2>1, <2>2, <2>3
  <2> QED BY <1>4, <2>3, <2>4 DEF HasLabel, Valid
<1> QED BY <1>9, <1>10, <1>11 DEF Match

LEMMA VoidLabelsMatch ==
  ASSUME NEW d \in Databases, Match(d), NEW ls \in SUBSET Valid(d)
  PROVE  Match(VoidLabels(d, ls)) /\ VoidLabels(d, ls).label = Invalidate(d, ls).label
<1> DEFINE slots == {<<d.label[l].unit, d.label[l].slot>> : l \in ls}
           e == VoidLabels(d, ls)
<1>1. e.slot = Reopen(d, Occupied(d, slots)).slot
  BY DEF VoidLabels, Recompute, Unwind, Reopen, Invalidate, Databases
<1>2. e.label = Invalidate(d, ls).label
  BY DEF VoidLabels, Recompute, Unwind, Reopen, Invalidate, Databases
<1> HIDE DEF e
<1>3. Match(e)
  BY <1>1, <1>2, VoidMatch
<1> QED BY <1>2, <1>3 DEF e

-----------------------------------------------------------------------------
(* Submitting a label.                                                     *)

LEMMA FillMatch ==
  ASSUME NEW d \in Databases, Match(d), NEW a \in Annotators, NEW u \in Units, NEW i,
         NEW value \in Answers, Holds(d, a, u, i)
  PROVE  Match(Fill(d, a, u, i, value))
<1> DEFINE lrow == [unit |-> u, slot |-> i, by |-> a, value |-> value,
                    valid |-> TRUE, gold |-> Grade(u, value)]
           row == [d.slot[u][i] EXCEPT !.status = "filled", !.expired = FALSE]
           e == Fill(d, a, u, i, value)
           n == Len(d.label) + 1
<1>1. i \in DOMAIN d.slot[u] /\ d.slot[u][i].status = "leased" /\ d.slot[u][i].by = a
  BY DEF Holds
<1>2. row.status = "filled" /\ row.by = a
  BY <1>1, RowTypes DEF SlotRow
<1>3. lrow.unit = u /\ lrow.slot = i /\ lrow.by = a /\ lrow.valid
  OBVIOUS
<1>4. e.label = Append(d.label, lrow)
  BY DEF Fill, Recompute, Databases
<1>5. e.slot = [d.slot EXCEPT ![u] = [d.slot[u] EXCEPT ![i] = row]]
  BY DEF Fill, Recompute, Databases
<1> HIDE DEF e, row, lrow
<1>6. d.label \in Seq(LabelRow) /\ DOMAIN d.label = 1..Len(d.label) /\ Len(d.label) \in Nat
  BY DatabaseFields, SeqFacts
<1>7. /\ DOMAIN e.label = 1..n /\ e.label[n] = lrow
      /\ \A l \in DOMAIN d.label : l \in DOMAIN e.label /\ l # n /\ e.label[l] = d.label[l]
  BY <1>4, <1>6
<1>8. Valid(e) = Valid(d) \cup {n}
  BY <1>3, <1>6, <1>7 DEF Valid
<1>9. d.slot \in [Units -> Seq(SlotRow)]
  BY DatabaseFields
<1>10. /\ \A w \in Units : DOMAIN e.slot[w] = DOMAIN d.slot[w]
       /\ e.slot[u][i] = row
       /\ \A w \in Units : \A j \in DOMAIN d.slot[w] :
             (w # u \/ j # i) => e.slot[w][j] = d.slot[w][j]
  BY <1>1, <1>5, <1>9
<1>11. \* No valid label of d lay on the slot: it was leased.
       ASSUME NEW l \in Valid(d)
       PROVE  ~(d.label[l].unit = u /\ d.label[l].slot = i)
  BY <1>1 DEF Match, OnFilledSlot
<1>12. ASSUME NEW l \in Valid(e)
       PROVE  OnFilledSlot(e, l)
  <2>1. CASE l = n
    BY <1>1, <1>2, <1>3, <1>7, <1>10, <2>1 DEF OnFilledSlot
  <2>2. CASE l # n
    <3> DEFINE w == d.label[l].unit
               j == d.label[l].slot
    <3>1. l \in Valid(d) /\ l \in DOMAIN d.label
      BY <1>8, <2>2 DEF Valid
    <3>2. w \in Units /\ OnFilledSlot(d, l)
      BY <3>1, LabelUnits DEF Match
    <3>3. e.label[l] = d.label[l]
      BY <1>7, <3>1
    <3>4. j \in DOMAIN d.slot[w] /\ d.slot[w][j].status = "filled"
          /\ d.slot[w][j].by = d.label[l].by
      BY <3>2 DEF OnFilledSlot
    <3>5. w # u \/ j # i
      BY <1>11, <3>1
    <3> HIDE DEF w, j
    <3>6. e.slot[w][j] = d.slot[w][j] /\ j \in DOMAIN e.slot[w]
      BY <1>10, <3>2, <3>4, <3>5
    <3> QED BY <3>3, <3>4, <3>6 DEF OnFilledSlot, w, j
  <2> QED BY <2>1, <2>2
<1>13. ASSUME NEW l \in Valid(e), NEW m \in Valid(e), SameSlot(e, l, m)
       PROVE  l = m
  <2>1. CASE l = n /\ m # n
    BY <1>3, <1>7, <1>8, <1>11, <1>13, <2>1 DEF SameSlot, Valid
  <2>2. CASE m = n /\ l # n
    BY <1>3, <1>7, <1>8, <1>11, <1>13, <2>2 DEF SameSlot, Valid
  <2>3. CASE l # n /\ m # n
    <3>1. l \in Valid(d) /\ m \in Valid(d) /\ SameSlot(d, l, m)
      BY <1>7, <1>8, <1>13, <2>3 DEF SameSlot, Valid
    <3> QED BY <3>1 DEF Match
  <2> QED BY <2>1, <2>2, <2>3
<1>14. ASSUME NEW w \in Units, NEW j \in DOMAIN e.slot[w], e.slot[w][j].status = "filled"
       PROVE  HasLabel(e, w, j)
  <2>1. CASE w = u /\ j = i
    BY <1>3, <1>7, <1>8, <2>1 DEF HasLabel
  <2>2. CASE w # u \/ j # i
    <3>1. j \in DOMAIN d.slot[w] /\ d.slot[w][j].status = "filled"
      BY <1>10, <1>14, <2>2
    <3>2. PICK l \in Valid(d) : d.label[l].unit = w /\ d.label[l].slot = j
      BY <3>1 DEF Match, HasLabel
    <3> QED BY <1>7, <1>8, <3>2 DEF HasLabel, Valid
  <2> QED BY <2>1, <2>2
<1>15. Match(e)
  BY <1>12, <1>13, <1>14 DEF Match
<1> QED BY <1>15 DEF e

\* A pause voids recent valid labels only.
LEMMA EnforceMatch ==
  ASSUME NEW d \in Databases, Match(d), NEW a \in Annotators, NEW u, NEW grade
  PROVE  Match(EnforceGoldThreshold(d, a, u, grade))
<1> DEFINE paused == [d EXCEPT !.ann[a] = "paused"]
           ls     == Newest(ValidLabelsBy(d, a, ProjectOf[u]), VoidLookback)
<1>1. paused \in Databases
  BY DEF Databases
<1>2. paused.slot = d.slot /\ paused.label = d.label
  BY DEF Databases
<1>3. ls \subseteq Valid(d)
  BY DEF Newest, ValidLabelsBy, LabelsBy, Valid
<1>4. EnforceGoldThreshold(d, a, u, grade) \in {d, VoidLabels(paused, ls)}
  BY DEF EnforceGoldThreshold, PauseAnnotator
<1> HIDE DEF paused, ls
<1>5. Match(paused) /\ Valid(paused) = Valid(d)
  BY <1>2, SameSlots, SameFilledKeeps DEF Valid
<1>6. Match(VoidLabels(paused, ls))
  BY <1>1, <1>3, <1>5, VoidLabelsMatch
<1> QED BY <1>4, <1>6

LEMMA ApplyConsensusPolicyMatch ==
  ASSUME NEW d \in Databases, Match(d), NEW u \in Units, NEW plan \in SlotPlans(NumVariants)
  PROVE  Match(ApplyConsensusPolicy(d, u, plan))
<1>1. Match(Escalate(d, u))
  <2>1. Escalate(d, u).slot = d.slot /\ Escalate(d, u).label = d.label
    BY DEF Escalate, Databases
  <2> QED BY <2>1, SameSlots, SameFilledKeeps
<1>2. Match(GrowOverlap(d, u, plan))
  BY GrowSameFilled, SameFilledKeeps
<1> QED BY <1>1, <1>2 DEF ApplyConsensusPolicy

-----------------------------------------------------------------------------
(* The requests.                                                           *)

LEMMA RecomputeMatch ==
  ASSUME NEW d \in Databases, Match(d), NEW us, NEW forced
  PROVE  Match(Recompute(d, us, forced))
<1>1. Recompute(d, us, forced).slot = d.slot /\ Recompute(d, us, forced).label = d.label
  BY DEF Recompute, Databases
<1> QED BY <1>1, SameSlots, SameFilledKeeps

LEMMA SweepMatch ==
  ASSUME NEW d \in Databases, Match(d)
  PROVE  Match(Sweep(d))
<1> DEFINE e == Reopen(d, Expired(d))
<1>1. ASSUME NEW u \in Units, NEW i \in DOMAIN d.slot[u], <<u, i>> \in Expired(d)
      PROVE  d.slot[u][i].status # "filled"
  BY <1>1 DEF Expired, InStatus
<1>2. e \in Databases /\ Match(e)
  BY <1>1, ReopenType, ReopenUnfilled, SameFilledKeeps
<1>3. Sweep(d) = Recompute(e, {s[1] : s \in Expired(d)}, {})
  BY DEF Sweep
<1> HIDE DEF e
<1> QED BY <1>2, <1>3, RecomputeMatch

LEMMA NextTaskMatch ==
  ASSUME TypeOK, Match(db), NEW a \in Annotators, NEW p \in Projects, NextTask(a, p)
  PROVE  Match(db')
<1> DEFINE d == Sweep(db)
<1>1. d \in Databases /\ Match(d)
  BY SweepType, SweepMatch DEF TypeOK
<1>2. CASE \E s \in HeldSlots(d, a, p) : db' = [d EXCEPT !.slot[s[1]][s[2]].expired = FALSE]
  <2> HIDE DEF d
  <2>1. PICK s \in HeldSlots(d, a, p) : db' = [d EXCEPT !.slot[s[1]][s[2]].expired = FALSE]
    BY <1>2
  <2>2. PICK u \in Units : \E i \in InStatus(d, u, "leased") : s = <<u, i>>
    BY <2>1 DEF HeldSlots
  <2>3. PICK i \in InStatus(d, u, "leased") : s = <<u, i>>
    BY <2>2
  <2> DEFINE row == [d.slot[u][i] EXCEPT !.expired = FALSE]
  <2>4. i \in DOMAIN d.slot[u] /\ d.slot[u][i].status = "leased"
    BY DEF InStatus
  <2>5. row.status = "leased"
    BY <1>1, <2>4, RowTypes DEF SlotRow
  <2>6. /\ db'.label = d.label
        /\ db'.slot = [d.slot EXCEPT ![u] = [d.slot[u] EXCEPT ![i] = row]]
    BY <1>1, <2>1, <2>3 DEF Databases
  <2> HIDE DEF row
  <2>7. SameFilled(d, db')
    BY <1>1, <2>4, <2>5, <2>6, OneUnfilled
  <2> QED BY <1>1, <2>7, SameFilledKeeps
<1>3. CASE \E s \in NextSlots(d, a, p) : db' = Lease(d, a, s[1], s[2])
  <2> HIDE DEF d
  <2>1. PICK s \in NextSlots(d, a, p) : db' = Lease(d, a, s[1], s[2])
    BY <1>3
  <2>2. PICK u \in Units : \E i \in InStatus(d, u, "open") : s = <<u, i>>
    BY <2>1 DEF NextSlots, First, OpenSlots
  <2>3. PICK i \in InStatus(d, u, "open") : s = <<u, i>>
    BY <2>2
  <2> DEFINE row == [d.slot[u][i] EXCEPT !.status = "leased", !.by = a, !.expired = FALSE]
  <2>4. i \in DOMAIN d.slot[u] /\ d.slot[u][i].status = "open"
    BY DEF InStatus
  <2>5. row.status = "leased"
    BY <1>1, <2>4, RowTypes DEF SlotRow
  <2>6. /\ db'.label = d.label
        /\ db'.slot = [d.slot EXCEPT ![u] = [d.slot[u] EXCEPT ![i] = row]]
    BY <1>1, <2>1, <2>3 DEF Lease, Databases
  <2> HIDE DEF row
  <2>7. SameFilled(d, db')
    BY <1>1, <2>4, <2>5, <2>6, OneUnfilled
  <2> QED BY <1>1, <2>7, SameFilledKeeps
<1>4. CASE db' = d
  BY <1>1, <1>4
<1> QED BY <1>2, <1>3, <1>4 DEF NextTask

LEMMA SubmitMatch ==
  ASSUME TypeOK, Match(db), NEW a \in Annotators, NEW u \in Units, NEW i,
         NEW value \in Answers, Submit(a, u, i, value)
  PROVE  Match(db')
<1>1. PICK plan \in SlotPlans(NumVariants) :
        LET judged  == EnforceGoldThreshold(Fill(db, a, u, i, value), a, u, Grade(u, value))
            settled == ApplyConsensusPolicy(judged, u, plan)
        IN  IF StopsCollecting(judged, u)
            THEN \E merge \in Merges(settled, u) : db' = RouteUnit(settled, u, merge)
            ELSE db' = settled
  BY DEF Submit
<1> DEFINE filled  == Fill(db, a, u, i, value)
           judged  == EnforceGoldThreshold(filled, a, u, Grade(u, value))
           settled == ApplyConsensusPolicy(judged, u, plan)
<1>2. Holds(db, a, u, i) /\ i \in DOMAIN db.slot[u]
  BY DEF Submit, Holds
<1>3. filled \in Databases /\ Match(filled)
  BY <1>2, FillType, FillMatch DEF TypeOK
<1> HIDE DEF filled
<1>4. judged \in Databases /\ Match(judged)
  BY <1>3, EnforceGoldThresholdType, EnforceMatch
<1> HIDE DEF judged
<1>5. settled \in Databases /\ Match(settled)
  BY <1>4, ApplyConsensusPolicyType, ApplyConsensusPolicyMatch
<1>6. db' = settled \/ \E merge \in Merges(settled, u) : db' = RouteUnit(settled, u, merge)
  BY <1>1 DEF filled, judged
<1> HIDE DEF settled
<1>7. ASSUME NEW merge
      PROVE  Match(RouteUnit(settled, u, merge))
  <2>1. /\ RouteUnit(settled, u, merge).slot = settled.slot
        /\ RouteUnit(settled, u, merge).label = settled.label
    BY <1>5 DEF RouteUnit, FinalizeUnit, Databases
  <2> QED BY <1>5, <2>1, SameSlots, SameFilledKeeps
<1> QED BY <1>5, <1>6, <1>7

LEMMA SkipMatch ==
  ASSUME TypeOK, Match(db), NEW a \in Annotators, NEW u \in Units, NEW i, Skip(a, u, i)
  PROVE  Match(db')
<1> DEFINE d == Reopen(db, {<<u, i>>})
<1>1. db.slot[u][i].status = "leased"
  BY DEF Skip, Holds
<1>2. d \in Databases /\ Match(d)
  BY <1>1, ReopenType, ReopenUnfilled, SameFilledKeeps DEF TypeOK
<1>3. db' = Recompute(d, {u}, {})
  BY DEF Skip
<1> HIDE DEF d
<1> QED BY <1>2, <1>3, RecomputeMatch

\* After the labels of the unit are voided no slot of it is filled, so what an
\* admin's void reopens besides are leases.
LEMMA PatchUnitMatch ==
  ASSUME TypeOK, Match(db), NEW u \in Units, NEW n \in Int, NEW void \in BOOLEAN,
         PatchUnit(u, n, void)
  PROVE  Match(db')
<1> DEFINE d == [db EXCEPT !.unit[u].priority = n]
           ls       == ValidLabels(d, u)
           voided   == VoidLabels(d, ls)
           stranded == {u} \X (InStatus(voided, u, "leased") \cup InStatus(voided, u, "filled"))
           cleared  == Reopen(voided, stranded)
<1>1. d \in Databases
  <2>1. [db.unit[u] EXCEPT !.priority = n] \in UnitRow
    BY RowTypes DEF TypeOK, UnitRow
  <2>2. d = [db EXCEPT !.unit[u] = [db.unit[u] EXCEPT !.priority = n]]
    BY DEF TypeOK, Databases
  <2> HIDE DEF d
  <2> QED BY <2>1, <2>2, OneUnitRow DEF TypeOK
<1>2. d.slot = db.slot /\ d.label = db.label
  BY DEF TypeOK, Databases
<1>3. db' = IF void THEN Recompute(cleared, {u}, {}) ELSE d
  BY DEF PatchUnit
<1> HIDE DEF d
<1>4. Match(d)
  BY <1>2, SameSlots, SameFilledKeeps DEF TypeOK
<1>5. ls \in SUBSET Valid(d)
  BY DEF ValidLabels, Valid
<1>6. voided \in Databases /\ Match(voided) /\ voided.label = Invalidate(d, ls).label
  BY <1>1, <1>4, <1>5, VoidLabelsType, VoidLabelsMatch
<1>7. ASSUME NEW l \in Valid(voided)
      PROVE  voided.label[l].unit # u
  <2>1. voided.label =
          [k \in DOMAIN d.label |-> [d.label[k] EXCEPT !.valid = @ /\ k \notin ls]]
    BY <1>1, <1>6 DEF Invalidate, Databases
  <2>2. l \in DOMAIN d.label
    BY <2>1 DEF Valid
  <2>3. d.label[l] \in LabelRow
    BY <1>1, <2>2, RowTypes
  <2>4. voided.label[l] = [d.label[l] EXCEPT !.valid = d.label[l].valid /\ l \notin ls]
    BY <2>1, <2>2
  <2>5. voided.label[l].valid
    BY DEF Valid
  <2> HIDE DEF voided
  <2>6. d.label[l].valid /\ l \notin ls
    BY <2>3, <2>4, <2>5, Zenon DEF LabelRow
  <2>7. d.label[l].unit # u
    BY <2>2, <2>6 DEF ValidLabels
  <2>8. voided.label[l].unit = d.label[l].unit
    BY <2>3, <2>4 DEF LabelRow
  <2> QED BY <2>7, <2>8
<1> HIDE DEF voided, ls
<1>8. ASSUME NEW w \in Units, NEW i \in DOMAIN voided.slot[w], <<w, i>> \in stranded
      PROVE  voided.slot[w][i].status # "filled"
  BY <1>6, <1>7, <1>8 DEF Match, HasLabel
<1>9. cleared \in Databases
  BY <1>6, ReopenType
<1> HIDE DEF stranded
<1>10. Match(cleared)
  BY <1>6, <1>8, ReopenUnfilled, SameFilledKeeps
<1> HIDE DEF cleared
<1>11. Match(Recompute(cleared, {u}, {}))
  BY <1>9, <1>10, RecomputeMatch
<1> QED BY <1>3, <1>4, <1>11

LEMMA DecisionsMatch ==
  ASSUME TypeOK, Match(db),
         (\E u \in Units : Decide(u)) \/ (\E p \in Projects, all \in BOOLEAN : RouteProject(p, all))
  PROVE  Match(db')
<1>1. db'.slot = db.slot /\ db'.label = db.label
  BY ZenonT(40) DEF Decide, RouteProject, FinalizeUnit, RouteUnits, TypeOK, Databases
<1> QED BY <1>1, SameSlots, SameFilledKeeps DEF TypeOK

LEMMA LeaseRunsOutMatch ==
  ASSUME TypeOK, Match(db), NEW u \in Units, NEW i, LeaseRunsOut(u, i)
  PROVE  Match(db')
<1> DEFINE row == [db.slot[u][i] EXCEPT !.expired = TRUE]
<1>1. i \in DOMAIN db.slot[u] /\ db.slot[u][i].status = "leased"
  BY DEF LeaseRunsOut, InStatus
<1>2. row.status = "leased"
  BY <1>1, RowTypes DEF SlotRow, TypeOK
<1>3. /\ db'.label = db.label
      /\ db'.slot = [db.slot EXCEPT ![u] = [db.slot[u] EXCEPT ![i] = row]]
  BY DEF LeaseRunsOut, TypeOK, Databases
<1> HIDE DEF row
<1>4. SameFilled(db, db')
  BY <1>1, <1>2, <1>3, OneUnfilled DEF TypeOK
<1> QED BY <1>4, SameFilledKeeps DEF TypeOK

LEMMA MatchInit ==
  ASSUME Init
  PROVE  Match(db)
<1>1. \A u \in Units : \A i \in DOMAIN db.slot[u] : db.slot[u][i].status = "open"
  BY DEF Init, NewSlots, OpenSlot
<1>2. Valid(db) = {}
  BY DEF Init, Valid
<1> QED BY <1>1, <1>2 DEF Match

LEMMA MatchNext ==
  ASSUME TypeOK, Match(db), Next
  PROVE  Match(db')
<1>1. CASE AnnotatorStep
  BY <1>1, NextTaskMatch, SubmitMatch, SkipMatch DEF AnnotatorStep
<1>2. CASE StaffStep
  <2>1. ASSUME NEW a \in Annotators, ResumeAnnotator(a)
        PROVE  Match(db')
    <3>1. db'.slot = db.slot /\ db'.label = db.label
      BY <2>1 DEF ResumeAnnotator, TypeOK, Databases
    <3> QED BY <3>1, SameSlots, SameFilledKeeps DEF TypeOK
  <2>2. ASSUME NEW u \in Units, NEW n \in Priorities \cup {db.unit[u].priority},
               NEW void \in BOOLEAN, PatchUnit(u, n, void)
        PROVE  Match(db')
    <3>1. n \in Int
      BY PlatformAssumption, RowTypes DEF TypeOK, UnitRow
    <3> QED BY <2>2, <3>1, PatchUnitMatch
  <2> QED BY <1>2, <2>1, <2>2, DecisionsMatch DEF StaffStep
<1>3. CASE ClockStep
  <2>1. CASE AvailableWork
    BY <2>1, SweepMatch DEF AvailableWork, TypeOK
  <2> QED BY <1>3, <2>1, LeaseRunsOutMatch DEF ClockStep
<1> QED BY <1>1, <1>2, <1>3 DEF Next

-----------------------------------------------------------------------------

\* The three halves of Match are the property.
LEMMA MatchIsFilledByOneLabel ==
  ASSUME TypeOK, Match(db)
  PROVE  FilledByOneLabel
<1> SUFFICES ASSUME NEW u \in Units, NEW i \in DOMAIN db.slot[u]
             PROVE  LET occupants == {l \in ValidLabels(db, u) : db.label[l].slot = i}
                    IN  IF db.slot[u][i].status = "filled"
                        THEN \E l \in occupants :
                                occupants = {l} /\ db.label[l].by = db.slot[u][i].by
                        ELSE occupants = {}
  BY DEF FilledByOneLabel
<1> DEFINE occupants == {l \in ValidLabels(db, u) : db.label[l].slot = i}
<1>1. \A l : l \in occupants <=> l \in Valid(db) /\ db.label[l].unit = u /\ db.label[l].slot = i
  BY DEF ValidLabels, Valid
<1> HIDE DEF occupants
<1>2. \A l, m \in occupants : l = m
  BY <1>1 DEF Match, SameSlot
<1>3. CASE db.slot[u][i].status = "filled"
  <2>1. PICK l \in Valid(db) : db.label[l].unit = u /\ db.label[l].slot = i
    BY <1>3 DEF Match, HasLabel
  <2>2. l \in occupants /\ occupants = {l}
    BY <1>1, <1>2, <2>1
  <2>3. db.label[l].by = db.slot[u][i].by
    BY <2>1 DEF Match, OnFilledSlot
  <2> QED BY <1>3, <2>2, <2>3 DEF occupants
<1>4. CASE db.slot[u][i].status # "filled"
  <2>1. \A l \in occupants : FALSE
    BY <1>1, <1>4 DEF Match, OnFilledSlot
  <2>2. occupants = {}
    BY <2>1
  <2> QED BY <1>4, <2>2 DEF occupants
<1> QED BY <1>3, <1>4

\* A slot is filled exactly while one valid label, its holder's, occupies it,
\* whatever submits, skips, sweeps, pauses and voids happen.
THEOREM FilledByOneLabelTheorem == Spec => []FilledByOneLabel
<1>1. Init => Match(db)
  BY MatchInit
<1>2. TypeOK /\ Match(db) /\ [Next]_db => Match(db)'
  <2> SUFFICES ASSUME TypeOK, Match(db), [Next]_db PROVE Match(db')
    OBVIOUS
  <2>1. CASE UNCHANGED db
    BY <2>1
  <2> QED BY <2>1, MatchNext
<1>3. TypeOK /\ Match(db) => FilledByOneLabel
  BY MatchIsFilledByOneLabel
<1> QED BY <1>1, <1>2, <1>3, TypeCorrect, PTL DEF Spec

-----------------------------------------------------------------------------

(***************************************************************************)
(* A unit's stored status, its decision and its rows agree: the invariants *)
(* StatusFollowsRows, AutoDecisionHasEvidence and CollectedIsRouted of     *)
(* Platform, proved for every value of the constants.                      *)
(*                                                                         *)
(* The inductive invariant speaks of one unit at a time (Sound).  Between  *)
(* the fill of a submit and the end of that request the unit submitted to  *)
(* may be collected and not yet routed; it is then Pending.  What each     *)
(* operator does to a unit is one of two things: it leaves everything      *)
(* Sound reads alone (SameView), or it leaves an open slot and no          *)
(* automatic decision (ReopenedIsSound); only routing decides.             *)
(***************************************************************************)

Automatic(d, u) == d.final[u].method = "auto_consensus"

\* A unit never loses a slot row, so it always has at least K.
Shaped(d, u) ==
  /\ d.k[ProjectOf[u]] >= 1
  /\ Len(d.slot[u]) >= d.k[ProjectOf[u]]
  /\ \A i \in DOMAIN d.slot[u] : d.slot[u][i].status # "deleted"

StatusKept(d, u) ==
  IF d.unit[u].status = "finalized" THEN d.final[u].method # "none"
  ELSE d.unit[u].status = DerivedStatus(d, u)

Evidence(d, u) ==
  Automatic(d, u) =>
    /\ d.unit[u].status = "finalized"
    /\ Complete(d, u)
    /\ d.final[u].value \in Votes(d, u)
    /\ ~SplitMayPass => Votes(d, u) = {d.final[u].value}

Routed(d, u) == d.unit[u].status = "labeled" => d.unit[u].escalated \/ HumanDecided(d, u)

Sound(d, u) == Shaped(d, u) /\ StatusKept(d, u) /\ Evidence(d, u) /\ Routed(d, u)

\* The unit a request just submitted to, not yet routed.
Pending(d, u) == Shaped(d, u) /\ StatusKept(d, u) /\ ~Automatic(d, u)

AllSound(d) == \A u \in Units : Sound(d, u)

-----------------------------------------------------------------------------
(* What Sound reads of a unit.                                             *)

\* To Sound the unit looks the same in e as in d, but that e may have queued it.
SameView(d, e, u) ==
  /\ e.k = d.k
  /\ DOMAIN e.slot[u] = DOMAIN d.slot[u] /\ Len(e.slot[u]) = Len(d.slot[u])
  /\ \A i \in DOMAIN d.slot[u] : e.slot[u][i].status = d.slot[u][i].status
  /\ e.unit[u].status = d.unit[u].status
  /\ d.unit[u].escalated => e.unit[u].escalated
  /\ e.final[u] = d.final[u]
  /\ ValidLabels(e, u) = ValidLabels(d, u)
  /\ \A l \in ValidLabels(d, u) : e.label[l].value = d.label[l].value

LEMMA SameViewDerives ==
  ASSUME NEW d, NEW e, NEW u, SameView(d, e, u)
  PROVE  /\ \A status : InStatus(e, u, status) = InStatus(d, u, status)
         /\ DerivedStatus(e, u) = DerivedStatus(d, u)
         /\ Complete(e, u) = Complete(d, u)
         /\ Votes(e, u) = Votes(d, u)
         /\ Automatic(e, u) = Automatic(d, u) /\ HumanDecided(e, u) = HumanDecided(d, u)
<1>1. \A status : InStatus(e, u, status) = InStatus(d, u, status)
  BY DEF SameView, InStatus
<1>2. Live(e, u) = Live(d, u)
  BY DEF SameView, Live
<1>3. DerivedStatus(e, u) = DerivedStatus(d, u)
  BY <1>1, <1>2 DEF DerivedStatus
<1>4. Complete(e, u) = Complete(d, u)
  BY <1>1 DEF Complete, SameView
<1>5. Votes(e, u) = Votes(d, u)
  BY DEF Votes, SameView
<1> QED BY <1>1, <1>3, <1>4, <1>5 DEF SameView, Automatic, HumanDecided

LEMMA SameViewKeeps ==
  ASSUME NEW d, NEW e, NEW u, SameView(d, e, u)
  PROVE  /\ Sound(d, u) => Sound(e, u)
         /\ Pending(d, u) => Pending(e, u)
<1>1. Shaped(d, u) => Shaped(e, u)
  BY DEF Shaped, SameView
<1>2. StatusKept(d, u) => StatusKept(e, u)
  BY SameViewDerives DEF StatusKept, SameView
<1>3. Evidence(d, u) => Evidence(e, u)
  BY SameViewDerives DEF Evidence, SameView
<1>4. Routed(d, u) => Routed(e, u)
  BY SameViewDerives DEF Routed, SameView
<1> QED BY <1>1, <1>2, <1>3, <1>4, SameViewDerives DEF Sound, Pending

\* Rows that are equal look the same.
LEMMA SameRowsSameView ==
  ASSUME NEW d, NEW e, NEW u, e.k = d.k, e.slot[u] = d.slot[u], e.unit[u] = d.unit[u],
         e.final[u] = d.final[u], e.label = d.label
  PROVE  SameView(d, e, u)
BY DEF SameView, ValidLabels

\* A unit with an open slot and no automatic decision has nothing left to be wrong
\* about but its status.
LEMMA ReopenedIsSound ==
  ASSUME NEW e, NEW u, Shaped(e, u), ~Automatic(e, u), InStatus(e, u, "open") # {},
         StatusKept(e, u)
  PROVE  Sound(e, u) /\ Pending(e, u)
<1>1. DerivedStatus(e, u) # "labeled"
  BY DEF DerivedStatus, Live, InStatus
<1> QED BY <1>1 DEF Sound, Pending, StatusKept, Evidence, Routed

\* A unit with a slot that is not filled has no automatic decision.
LEMMA UnfinishedIsUndecided ==
  ASSUME NEW d, NEW u, Sound(d, u), NEW i \in DOMAIN d.slot[u], d.slot[u][i].status \in {"open", "leased"}
  PROVE  Pending(d, u)
BY DEF Sound, Pending, Evidence, Complete, InStatus

LEMMA FiniteVotes ==
  ASSUME NEW d \in Databases, NEW u
  PROVE  IsFiniteSet(ValidLabels(d, u)) /\ IsFiniteSet(Votes(d, u))
<1>1. IsFiniteSet(DOMAIN d.label)
  BY DatabaseFields, SeqFacts, FS_Interval
<1>2. IsFiniteSet(ValidLabels(d, u))
  BY <1>1, FS_Subset DEF ValidLabels
<1> DEFINE f == [l \in ValidLabels(d, u) |-> d.label[l].value]
<1>3. f \in Surjection(ValidLabels(d, u), Votes(d, u))
  BY DEF Surjection, Votes
<1> QED BY <1>2, <1>3, FS_Surjection

\* The slots of a unit that are all filled carry as many valid labels, at least K.
LEMMA FilledIsComplete ==
  ASSUME NEW d \in Databases, Match(d), NEW u \in Units, Shaped(d, u),
         \A i \in DOMAIN d.slot[u] : d.slot[u][i].status = "filled"
  PROVE  Complete(d, u)
<1> DEFINE n == Len(d.slot[u])
           f == [i \in 1..n |-> CHOOSE l \in ValidLabels(d, u) : d.label[l].slot = i]
<1>1. n \in Nat /\ DOMAIN d.slot[u] = 1..n
  BY DatabaseFields, SeqFacts
<1>2. \A i \in 1..n : \E l \in ValidLabels(d, u) : d.label[l].slot = i
  BY <1>1 DEF Match, HasLabel, Valid, ValidLabels
<1>3. \A i \in 1..n : f[i] \in ValidLabels(d, u) /\ d.label[f[i]].slot = i
  BY <1>2
<1> HIDE DEF f
<1>4. f \in Injection(1..n, ValidLabels(d, u))
  <2>1. f \in [1..n -> ValidLabels(d, u)]
    BY <1>3 DEF f
  <2> QED BY <1>3, <2>1 DEF Injection, IsInjective
<1>5. Cardinality(1..n) <= Cardinality(ValidLabels(d, u))
  BY <1>4, FiniteVotes, FS_Injection
<1>6. Cardinality(1..n) = n
  BY <1>1, FS_Interval
<1>7. d.k[ProjectOf[u]] \in Nat /\ Cardinality(ValidLabels(d, u)) \in Nat
  BY DatabaseFields, IdsAssumption, FiniteVotes, FS_CardinalityType
<1> HIDE DEF n
<1>8. Cardinality(ValidLabels(d, u)) >= d.k[ProjectOf[u]]
  BY <1>1, <1>5, <1>6, <1>7 DEF Shaped, n
<1>9. InStatus(d, u, "open") \cup InStatus(d, u, "leased") = {}
  BY DEF InStatus
<1> QED BY <1>8, <1>9 DEF Complete

\* A unit whose stored status is "labeled" has collected all it asked for.
LEMMA LabeledIsComplete ==
  ASSUME NEW d \in Databases, Match(d), NEW u \in Units, Shaped(d, u), StatusKept(d, u),
         d.unit[u].status = "labeled"
  PROVE  Complete(d, u)
<1>1. DerivedStatus(d, u) = "labeled"
  BY DEF StatusKept
<1>2. Live(d, u) = InStatus(d, u, "filled")
  BY <1>1 DEF DerivedStatus
<1>3. \A i \in DOMAIN d.slot[u] : d.slot[u][i].status = "filled"
  BY <1>2 DEF Live, InStatus, Shaped
<1> QED BY <1>3, FilledIsComplete

-----------------------------------------------------------------------------
(* The primitives of Store.                                                *)

\* Sequences with one domain have one length.
LEMMA SameDomainSameLen ==
  ASSUME NEW S, NEW s \in Seq(S), NEW t \in Seq(S), DOMAIN s = DOMAIN t
  PROVE  Len(s) = Len(t)
<1> DEFINE m == Len(s)
           n == Len(t)
<1>1. m \in Nat /\ n \in Nat /\ DOMAIN s = 1..m /\ DOMAIN t = 1..n
  BY SeqFacts
<1> HIDE DEF m, n
<1>2. m # 0 => m \in 1..m
  BY <1>1
<1>3. n # 0 => n \in 1..n
  BY <1>1
<1>4. 1..m = 1..n
  BY <1>1
<1>5. m = n
  BY <1>1, <1>2, <1>3, <1>4
<1> QED BY <1>5 DEF m, n

LEMMA DerivedNotFinalized ==
  ASSUME NEW d, NEW u
  PROVE  DerivedStatus(d, u) # "finalized"
BY DEF DerivedStatus

LEMMA RecomputeFields ==
  ASSUME NEW d \in Databases, NEW us, NEW forced
  PROVE  LET e == Recompute(d, us, forced)
         IN  /\ e.slot = d.slot /\ e.label = d.label /\ e.final = d.final /\ e.k = d.k
             /\ \A u \in Units : /\ e.unit[u].escalated = d.unit[u].escalated
                                 /\ DerivedStatus(e, u) = DerivedStatus(d, u)
                                 /\ e.unit[u].status =
                                      IF u \in us /\ (d.unit[u].status # "finalized" \/ u \in forced)
                                      THEN DerivedStatus(d, u) ELSE d.unit[u].status
                                 /\ u \notin us => e.unit[u] = d.unit[u]
<1> DEFINE e == Recompute(d, us, forced)
<1>1. e.slot = d.slot /\ e.label = d.label /\ e.final = d.final /\ e.k = d.k
  BY DEF Recompute, Databases
<1>2. ASSUME NEW u \in Units
      PROVE  DerivedStatus(e, u) = DerivedStatus(d, u)
  BY <1>1 DEF DerivedStatus, Live, InStatus
<1>3. ASSUME NEW u \in Units
      PROVE  e.unit[u] = IF u \in us /\ (d.unit[u].status # "finalized" \/ u \in forced)
                         THEN [d.unit[u] EXCEPT !.status = DerivedStatus(d, u)] ELSE d.unit[u]
  BY DEF Recompute, Databases
<1>4. \A u \in Units : d.unit[u] \in UnitRow
  BY RowTypes
<1> HIDE DEF e
<1>5. ASSUME NEW u \in Units
      PROVE  /\ e.unit[u].escalated = d.unit[u].escalated
             /\ e.unit[u].status =
                  IF u \in us /\ (d.unit[u].status # "finalized" \/ u \in forced)
                  THEN DerivedStatus(d, u) ELSE d.unit[u].status
             /\ u \notin us => e.unit[u] = d.unit[u]
  BY <1>3, <1>4 DEF UnitRow
<1> QED BY <1>1, <1>2, <1>5 DEF e

LEMMA ReopenFields ==
  ASSUME NEW d \in Databases, NEW ss
  PROVE  LET e == Reopen(d, ss)
         IN  /\ e.unit = d.unit /\ e.label = d.label /\ e.final = d.final /\ e.k = d.k
             /\ \A u \in Units :
                  /\ DOMAIN e.slot[u] = DOMAIN d.slot[u] /\ Len(e.slot[u]) = Len(d.slot[u])
                  /\ \A i \in DOMAIN d.slot[u] :
                       e.slot[u][i].status = IF <<u, i>> \in ss THEN "open" ELSE d.slot[u][i].status
<1> DEFINE e == Reopen(d, ss)
<1>1. e.unit = d.unit /\ e.label = d.label /\ e.final = d.final /\ e.k = d.k
  BY DEF Reopen, Databases
<1>2. ASSUME NEW u \in Units
      PROVE  e.slot[u] = [i \in DOMAIN d.slot[u] |->
               IF <<u, i>> \in ss THEN OpenSlot(d.slot[u][i].variant) ELSE d.slot[u][i]]
  BY DEF Reopen, Databases
<1>3. e \in Databases
  BY ReopenType
<1> HIDE DEF e
<1>4. ASSUME NEW u \in Units
      PROVE  DOMAIN e.slot[u] = DOMAIN d.slot[u] /\ Len(e.slot[u]) = Len(d.slot[u])
  <2>1. DOMAIN e.slot[u] = DOMAIN d.slot[u]
    BY <1>2
  <2>2. e.slot[u] \in Seq(SlotRow) /\ d.slot[u] \in Seq(SlotRow)
    BY <1>3, DatabaseFields
  <2> QED BY <2>1, <2>2, SameDomainSameLen
<1>5. ASSUME NEW u \in Units, NEW i \in DOMAIN d.slot[u]
      PROVE  e.slot[u][i].status = IF <<u, i>> \in ss THEN "open" ELSE d.slot[u][i].status
  <2>1. OpenSlot(d.slot[u][i].variant).status = "open"
    BY DEF OpenSlot
  <2>2. e.slot[u][i] = IF <<u, i>> \in ss THEN OpenSlot(d.slot[u][i].variant) ELSE d.slot[u][i]
    BY <1>2
  <2>3. CASE <<u, i>> \in ss
    BY <2>1, <2>2, <2>3
  <2>4. CASE <<u, i>> \notin ss
    BY <2>2, <2>4
  <2> QED BY <2>3, <2>4
<1> QED BY <1>1, <1>4, <1>5 DEF e

\* Leases given up or run out: a sweep and a skip.
LEMMA ReleaseSound ==
  ASSUME NEW d \in Databases, AllSound(d), NEW ss, NEW us,
         \A s \in ss : \E u \in Units : \E i \in InStatus(d, u, "leased") : s = <<u, i>>,
         us = {s[1] : s \in ss}
  PROVE  AllSound(Recompute(Reopen(d, ss), us, {}))
<1> DEFINE o == Reopen(d, ss)
           e == Recompute(o, us, {})
<1> SUFFICES ASSUME NEW u \in Units
             PROVE  Sound(e, u)
  BY DEF AllSound
<1>1. o \in Databases
  BY ReopenType
<1>2. /\ o.unit = d.unit /\ o.label = d.label /\ o.final = d.final /\ o.k = d.k
      /\ DOMAIN o.slot[u] = DOMAIN d.slot[u] /\ Len(o.slot[u]) = Len(d.slot[u])
      /\ \A i \in DOMAIN d.slot[u] :
            o.slot[u][i].status = IF <<u, i>> \in ss THEN "open" ELSE d.slot[u][i].status
  BY ReopenFields
<1> HIDE DEF o
<1>3. /\ e.slot = o.slot /\ e.label = o.label /\ e.final = o.final /\ e.k = o.k
      /\ e.unit[u].escalated = o.unit[u].escalated /\ DerivedStatus(e, u) = DerivedStatus(o, u)
      /\ e.unit[u].status = IF u \in us /\ o.unit[u].status # "finalized"
                            THEN DerivedStatus(o, u) ELSE o.unit[u].status
      /\ u \notin us => e.unit[u] = o.unit[u]
  BY <1>1, RecomputeFields
<1> HIDE DEF e
<1>4. Sound(d, u)
  BY DEF AllSound
<1>5. CASE u \notin us
  <2>1. \A i \in DOMAIN d.slot[u] : <<u, i>> \notin ss
    BY <1>5
  <2>2. SameView(d, e, u)
    BY <1>2, <1>3, <1>5, <2>1 DEF SameView, ValidLabels
  <2> QED BY <1>4, <2>2, SameViewKeeps
<1>6. CASE u \in us
  <2>1. PICK i \in DOMAIN d.slot[u] : d.slot[u][i].status = "leased" /\ <<u, i>> \in ss
    BY <1>6 DEF InStatus
  <2>2. Pending(d, u)
    BY <1>4, <2>1, UnfinishedIsUndecided
  <2>3. Shaped(e, u) /\ ~Automatic(e, u)
    BY <1>2, <1>3, <2>2 DEF Pending, Shaped, Automatic
  <2>4. InStatus(e, u, "open") # {}
    BY <1>2, <1>3, <2>1 DEF InStatus
  <2>5. StatusKept(e, u)
    BY <1>2, <1>3, <1>6, <2>2, DerivedNotFinalized DEF Pending, StatusKept
  <2> QED BY <2>3, <2>4, <2>5, ReopenedIsSound
<1> QED BY <1>5, <1>6

LEMMA SweepSound ==
  ASSUME NEW d \in Databases, AllSound(d)
  PROVE  AllSound(Sweep(d))
<1>1. \A s \in Expired(d) : \E u \in Units : \E i \in InStatus(d, u, "leased") : s = <<u, i>>
  BY DEF Expired
<1> QED BY <1>1, ReleaseSound DEF Sweep

\* Voiding valid labels: a unit that loses one reopens its slot and, unless a
\* reviewer decided it, loses its decision.
LEMMA VoidLabelsSound ==
  ASSUME NEW d \in Databases, Match(d), NEW ls \in SUBSET Valid(d), NEW u \in Units
  PROVE  LET e == VoidLabels(d, ls)
         IN  /\ Sound(d, u) => Sound(e, u)
             /\ Pending(d, u) => Pending(e, u)
             /\ Sound(d, u) /\ (\E l \in ls : d.label[l].unit = u) => Pending(e, u)
<1> DEFINE slots  == {<<d.label[l].unit, d.label[l].slot>> : l \in ls}
           units  == {d.label[l].unit : l \in ls}
           forced == AutoFinalized(d, units)
           v      == Invalidate(d, ls)
           o      == Reopen(v, Occupied(d, slots))
           w      == Unwind(o, forced)
           e      == VoidLabels(d, ls)
<1>1. e = Recompute(w, units, forced)
  BY DEF VoidLabels
<1>2. v \in Databases /\ o \in Databases /\ w \in Databases
  BY InvalidateType, ReopenType, UnwindType
<1>3. /\ v.slot = d.slot /\ v.unit = d.unit /\ v.final = d.final /\ v.k = d.k
      /\ v.label = [l \in DOMAIN d.label |-> [d.label[l] EXCEPT !.valid = @ /\ l \notin ls]]
  BY DEF Invalidate, Databases
<1>4. /\ w.slot = o.slot /\ w.unit = o.unit /\ w.label = o.label /\ w.k = o.k
      /\ w.final[u] = IF u \in forced THEN NoDecision ELSE o.final[u]
  BY <1>2 DEF Unwind, Databases
<1> HIDE DEF v
<1>5. /\ o.unit = v.unit /\ o.label = v.label /\ o.final = v.final /\ o.k = v.k
      /\ DOMAIN o.slot[u] = DOMAIN v.slot[u] /\ Len(o.slot[u]) = Len(v.slot[u])
      /\ \A i \in DOMAIN v.slot[u] :
           o.slot[u][i].status = IF <<u, i>> \in Occupied(d, slots) THEN "open" ELSE v.slot[u][i].status
  BY <1>2, ReopenFields
<1> HIDE DEF o, w, e
<1>6. /\ e.slot = w.slot /\ e.label = w.label /\ e.final = w.final /\ e.k = w.k
      /\ e.unit[u].escalated = w.unit[u].escalated /\ DerivedStatus(e, u) = DerivedStatus(w, u)
      /\ e.unit[u].status = IF u \in units /\ (w.unit[u].status # "finalized" \/ u \in forced)
                            THEN DerivedStatus(w, u) ELSE w.unit[u].status
      /\ u \notin units => e.unit[u] = w.unit[u]
  BY <1>1, <1>2, RecomputeFields
<1>7. /\ e.k = d.k /\ e.label = v.label
      /\ DOMAIN e.slot[u] = DOMAIN d.slot[u] /\ Len(e.slot[u]) = Len(d.slot[u])
      /\ \A i \in DOMAIN d.slot[u] :
           e.slot[u][i].status = IF <<u, i>> \in Occupied(d, slots) THEN "open" ELSE d.slot[u][i].status
      /\ e.final[u] = IF u \in forced THEN NoDecision ELSE d.final[u]
      /\ e.unit[u].escalated = d.unit[u].escalated
      /\ e.unit[u].status = IF u \in units /\ (d.unit[u].status # "finalized" \/ u \in forced)
                            THEN DerivedStatus(e, u) ELSE d.unit[u].status
  BY <1>3, <1>4, <1>5, <1>6
<1> HIDE DEF slots, units, forced
<1>8. CASE u \notin units
  <2>1. \A i \in DOMAIN d.slot[u] : <<u, i>> \notin Occupied(d, slots)
    BY <1>8 DEF Occupied, slots, units
  <2>2. u \notin forced
    BY <1>8 DEF AutoFinalized, forced
  <2>3. ASSUME NEW l \in DOMAIN d.label
        PROVE  /\ l \in ValidLabels(e, u) <=> l \in ValidLabels(d, u)
               /\ e.label[l].value = d.label[l].value
    <3>1. d.label[l] \in LabelRow /\ e.label[l] = [d.label[l] EXCEPT !.valid = @ /\ l \notin ls]
      BY <1>3, <1>7, RowTypes
    <3>2. e.label[l].unit = d.label[l].unit /\ e.label[l].value = d.label[l].value
      BY <3>1 DEF LabelRow
    <3>3. e.label[l].valid <=> d.label[l].valid /\ l \notin ls
      BY <3>1, Zenon DEF LabelRow
    <3>4. d.label[l].unit = u => l \notin ls
      BY <1>8 DEF units
    <3>5. DOMAIN e.label = DOMAIN d.label
      BY <1>3, <1>7
    <3> QED BY <3>2, <3>3, <3>4, <3>5 DEF ValidLabels
  <2>4. ValidLabels(e, u) = ValidLabels(d, u)
    <3>1. DOMAIN e.label = DOMAIN d.label
      BY <1>3, <1>7
    <3> QED BY <2>3, <3>1 DEF ValidLabels
  <2>5. \A l \in ValidLabels(d, u) : e.label[l].value = d.label[l].value
    BY <2>3 DEF ValidLabels
  <2>6. SameView(d, e, u)
    BY <1>8, <1>7, <2>1, <2>2, <2>4, <2>5 DEF SameView
  <2>7. ~\E l \in ls : d.label[l].unit = u
    BY <1>8 DEF units
  <2> QED BY <2>6, <2>7, SameViewKeeps DEF e
<1>9. CASE u \in units
  <2>1. PICK l \in ls : d.label[l].unit = u
    BY <1>9 DEF units
  <2> DEFINE i == d.label[l].slot
  <2>2. i \in DOMAIN d.slot[u] /\ d.slot[u][i].status = "filled"
    BY <2>1 DEF Match, OnFilledSlot
  <2>3. <<u, i>> \in Occupied(d, slots)
    BY <2>1, <2>2 DEF Occupied, slots
  <2>4. i \in InStatus(e, u, "open")
    BY <1>7, <2>2, <2>3 DEF InStatus
  <2>5. ~Automatic(e, u)
    BY <1>9, <1>7
    DEF Automatic, forced, AutoFinalized, HumanDecided, HumanMethods, NoDecision
  <2>6. Shaped(d, u) => Shaped(e, u)
    BY <1>7 DEF Shaped
  <2>7. StatusKept(d, u) => StatusKept(e, u)
    BY <1>9, <1>7, DerivedNotFinalized DEF StatusKept, forced, AutoFinalized
  <2>8. Shaped(d, u) /\ StatusKept(d, u) => Sound(e, u) /\ Pending(e, u)
    BY <2>4, <2>5, <2>6, <2>7, ReopenedIsSound
  <2> QED BY <2>8 DEF Sound, Pending, e
<1> QED BY <1>8, <1>9

-----------------------------------------------------------------------------
(* The fill, the pause and the consensus policy.                           *)

\* One slot is rewritten; the other units keep their rows.
LEMMA FillSound ==
  ASSUME NEW d \in Databases, AllSound(d), NEW a \in Annotators, NEW u \in Units, NEW i,
         NEW value \in Answers, Holds(d, a, u, i)
  PROVE  /\ Pending(Fill(d, a, u, i, value), u)
         /\ \A w \in Units \ {u} : Sound(Fill(d, a, u, i, value), w)
<1> DEFINE lrow == [unit |-> u, slot |-> i, by |-> a, value |-> value,
                    valid |-> TRUE, gold |-> Grade(u, value)]
           row == [d.slot[u][i] EXCEPT !.status = "filled", !.expired = FALSE]
           e == Fill(d, a, u, i, value)
<1>1. i \in DOMAIN d.slot[u] /\ d.slot[u][i].status = "leased"
  BY DEF Holds
<1>2. row.status = "filled"
  BY <1>1, RowTypes DEF SlotRow
<1>3. lrow.unit = u
  OBVIOUS
<1>4. /\ e.label = Append(d.label, lrow) /\ e.k = d.k /\ e.final = d.final
      /\ e.slot = [d.slot EXCEPT ![u] = [d.slot[u] EXCEPT ![i] = row]]
      /\ \A w \in Units : e.unit[w] = IF w = u /\ d.unit[w].status # "finalized"
                                      THEN [d.unit[w] EXCEPT !.status = DerivedStatus(e, w)]
                                      ELSE d.unit[w]
  BY DEF Fill, Recompute, DerivedStatus, Live, InStatus, Databases
<1>5. e \in Databases
  BY <1>1, FillType
<1> HIDE DEF e, row, lrow
<1>6. d.slot \in [Units -> Seq(SlotRow)] /\ e.slot \in [Units -> Seq(SlotRow)] /\ d.unit[u] \in UnitRow
  BY <1>5, DatabaseFields
<1>7. Pending(e, u)
  <2>1. Pending(d, u)
    BY <1>1, UnfinishedIsUndecided DEF AllSound
  <2>2. DOMAIN e.slot[u] = DOMAIN d.slot[u]
    BY <1>4, <1>6
  <2>3. Len(e.slot[u]) = Len(d.slot[u])
    BY <1>6, <2>2, SameDomainSameLen
  <2>4. \A j \in DOMAIN e.slot[u] : e.slot[u][j].status = "filled" \/ e.slot[u][j] = d.slot[u][j]
    BY <1>2, <1>4, <1>6
  <2>5. Shaped(e, u)
    BY <1>4, <2>1, <2>2, <2>3, <2>4 DEF Pending, Shaped
  <2>6. e.unit[u].status = IF d.unit[u].status # "finalized" THEN DerivedStatus(e, u) ELSE d.unit[u].status
    BY <1>4, <1>6 DEF UnitRow
  <2>7. StatusKept(e, u) /\ ~Automatic(e, u)
    BY <1>4, <2>1, <2>6, DerivedNotFinalized DEF Pending, StatusKept, Automatic
  <2> QED BY <2>5, <2>7 DEF Pending
<1>8. ASSUME NEW w \in Units \ {u}
      PROVE  Sound(e, w)
  <2>1. e.slot[w] = d.slot[w] /\ e.unit[w] = d.unit[w]
    BY <1>4, <1>6
  <2>2. d.label \in Seq(LabelRow) /\ DOMAIN d.label = 1..Len(d.label) /\ Len(d.label) \in Nat
    BY DatabaseFields, SeqFacts
  <2>3. /\ DOMAIN e.label = 1..(Len(d.label) + 1) /\ e.label[Len(d.label) + 1] = lrow
        /\ \A l \in DOMAIN d.label : e.label[l] = d.label[l]
    BY <1>4, <2>2
  <2>4. ValidLabels(e, w) = ValidLabels(d, w)
    BY <1>3, <2>2, <2>3 DEF ValidLabels
  <2>5. \A l \in ValidLabels(d, w) : e.label[l].value = d.label[l].value
    BY <2>3 DEF ValidLabels
  <2>6. SameView(d, e, w)
    BY <1>4, <2>1, <2>4, <2>5 DEF SameView
  <2> QED BY <2>6, SameViewKeeps DEF AllSound
<1> QED BY <1>7, <1>8 DEF e

LEMMA EnforceSound ==
  ASSUME NEW d \in Databases, Match(d), NEW a \in Annotators, NEW u, NEW grade, NEW w \in Units
  PROVE  LET e == EnforceGoldThreshold(d, a, u, grade)
         IN  /\ Sound(d, w) => Sound(e, w)
             /\ Pending(d, w) => Pending(e, w)
<1> DEFINE paused == [d EXCEPT !.ann[a] = "paused"]
           ls     == Newest(ValidLabelsBy(d, a, ProjectOf[u]), VoidLookback)
<1>1. paused \in Databases
  BY DEF Databases
<1>2. /\ paused.slot = d.slot /\ paused.label = d.label /\ paused.k = d.k
      /\ paused.unit = d.unit /\ paused.final = d.final
  BY DEF Databases
<1>3. ls \subseteq Valid(d)
  BY DEF Newest, ValidLabelsBy, LabelsBy, Valid
<1>4. EnforceGoldThreshold(d, a, u, grade) \in {d, VoidLabels(paused, ls)}
  BY DEF EnforceGoldThreshold, PauseAnnotator
<1> HIDE DEF paused, ls
<1>5. Match(paused) /\ Valid(paused) = Valid(d)
  BY <1>2, SameSlots, SameFilledKeeps DEF Valid
<1>6. SameView(d, paused, w)
  BY <1>2, SameRowsSameView
<1>7. /\ Sound(d, w) => Sound(VoidLabels(paused, ls), w)
      /\ Pending(d, w) => Pending(VoidLabels(paused, ls), w)
  BY <1>1, <1>3, <1>5, <1>6, SameViewKeeps, VoidLabelsSound
<1> QED BY <1>4, <1>7

\* A growth round leaves the unit in progress, with slots to fill.
LEMMA GrowSound ==
  ASSUME NEW d \in Databases, Match(d), NEW u \in Units, Pending(d, u), Complete(d, u),
         NEW plan \in SlotPlans(NumVariants)
  PROVE  Sound(GrowOverlap(d, u, plan), u)
<1> DEFINE e == GrowOverlap(d, u, plan)
           s == d.slot[u]
           t == NewSlots(plan)
<1>1. s \in Seq(SlotRow) /\ t \in Seq(SlotRow) /\ Len(t) = NumVariants
  BY DatabaseFields, NewSlotsType, NumVariantsType DEF SlotPlans
<1>2. \A i \in DOMAIN t : t[i].status = "open"
  BY DEF NewSlots, OpenSlot
<1>3. e.slot[u] = s \o t /\ e.k = d.k /\ e.final = d.final
  BY DEF GrowOverlap, Databases
<1>4. e.unit[u].status = "in_progress"
  <2>1. e.unit[u] = [d.unit[u] EXCEPT !.status = "in_progress"]
    BY DEF GrowOverlap, Databases
  <2> QED BY <2>1, RowTypes DEF UnitRow
<1>5. NumVariants \in Nat /\ NumVariants # 0
  BY OverlapAssumption, NumVariantsType, FS_EmptySet DEF NumVariants
<1>6. Shaped(d, u) /\ ~Automatic(d, u) /\ s = d.slot[u]
  BY DEF Pending
<1>7. \A i \in DOMAIN s : s[i].status = "filled"
  <2>1. \A i \in DOMAIN s : s[i] \in SlotRow
    BY RowTypes
  <2> QED BY <1>6, <2>1 DEF Complete, InStatus, Shaped, SlotRow
<1>8. d.k[ProjectOf[u]] \in Nat
  BY DatabaseFields, IdsAssumption
<1> HIDE DEF e, s, t
<1>9. /\ Len(s) \in Nat /\ DOMAIN s = 1..Len(s) /\ DOMAIN t = 1..NumVariants
      /\ Len(s) >= 1 /\ Len(s) >= d.k[ProjectOf[u]] /\ d.k[ProjectOf[u]] >= 1
  BY <1>1, <1>6, <1>8, SeqFacts DEF Shaped
<1>10. /\ Len(s \o t) = Len(s) + NumVariants /\ DOMAIN (s \o t) = 1..(Len(s) + NumVariants)
       /\ \A i \in 1..(Len(s) + NumVariants) :
             (s \o t)[i] = IF i <= Len(s) THEN s[i] ELSE t[i - Len(s)]
  <2>1. s \o t \in Seq(SlotRow) /\ Len(s \o t) = Len(s) + Len(t)
    BY <1>1, ConcatProperties
  <2>2. \A i \in 1..(Len(s) + Len(t)) : (s \o t)[i] = IF i <= Len(s) THEN s[i] ELSE t[i - Len(s)]
    BY <1>1, ConcatProperties
  <2>3. DOMAIN (s \o t) = 1..Len(s \o t)
    BY <2>1, SeqFacts
  <2> QED BY <1>1, <2>1, <2>2, <2>3
<1>11. \A i \in DOMAIN (s \o t) : (s \o t)[i].status = IF i <= Len(s) THEN "filled" ELSE "open"
  <2> SUFFICES ASSUME NEW i \in 1..(Len(s) + NumVariants)
               PROVE  (s \o t)[i].status = IF i <= Len(s) THEN "filled" ELSE "open"
    BY <1>10
  <2>1. CASE i <= Len(s)
    <3>1. i \in DOMAIN s /\ (s \o t)[i] = s[i]
      BY <1>9, <1>10, <2>1
    <3> QED BY <1>7, <2>1, <3>1
  <2>2. CASE ~(i <= Len(s))
    <3>1. i - Len(s) \in DOMAIN t /\ (s \o t)[i] = t[i - Len(s)]
      BY <1>5, <1>9, <1>10, <2>2
    <3> QED BY <1>2, <2>2, <3>1
  <2> QED BY <2>1, <2>2
<1>12. Shaped(e, u)
  <2>1. Len(e.slot[u]) >= e.k[ProjectOf[u]] /\ e.k[ProjectOf[u]] >= 1
    BY <1>3, <1>5, <1>8, <1>9, <1>10
  <2>2. \A i \in DOMAIN e.slot[u] : e.slot[u][i].status # "deleted"
    BY <1>3, <1>11
  <2> QED BY <2>1, <2>2 DEF Shaped
<1>13. (Len(s) + 1) \in InStatus(e, u, "open") /\ 1 \in InStatus(e, u, "filled")
  BY <1>3, <1>5, <1>9, <1>10, <1>11 DEF InStatus
<1>14. DerivedStatus(e, u) = "in_progress"
  BY <1>13 DEF DerivedStatus, Live, InStatus
<1>15. StatusKept(e, u) /\ ~Automatic(e, u)
  BY <1>3, <1>4, <1>6, <1>14 DEF StatusKept, Automatic
<1> QED BY <1>12, <1>13, <1>15, ReopenedIsSound DEF e

-----------------------------------------------------------------------------
(* Routing.                                                                *)

LEMMA FinalizeFields ==
  ASSUME NEW d \in Databases, NEW u \in Units, NEW method, NEW value
  PROVE  LET e == FinalizeUnit(d, u, method, value)
         IN  /\ e.slot = d.slot /\ e.label = d.label /\ e.k = d.k
             /\ e.final[u] = [method |-> method, value |-> value]
             /\ e.unit[u].status = "finalized"
             /\ \A w \in Units \ {u} : e.final[w] = d.final[w] /\ e.unit[w] = d.unit[w]
<1>1. [d.unit[u] EXCEPT !.status = "finalized", !.escalated = FALSE].status = "finalized"
  BY RowTypes DEF UnitRow
<1> QED BY <1>1 DEF FinalizeUnit, Databases

LEMMA EscalateFields ==
  ASSUME NEW d \in Databases, NEW u \in Units
  PROVE  /\ SameView(d, [d EXCEPT !.unit[u].escalated = TRUE], u)
         /\ [d EXCEPT !.unit[u].escalated = TRUE].unit[u].escalated
<1> DEFINE e == [d EXCEPT !.unit[u].escalated = TRUE]
<1>1. /\ e.slot = d.slot /\ e.label = d.label /\ e.k = d.k /\ e.final = d.final
      /\ e.unit[u] = [d.unit[u] EXCEPT !.escalated = TRUE]
  BY DEF Databases
<1>2. d.unit[u] \in UnitRow
  BY RowTypes
<1> HIDE DEF e
<1>3. e.unit[u].escalated /\ e.unit[u].status = d.unit[u].status
  BY <1>1, <1>2 DEF UnitRow
<1>4. SameView(d, e, u)
  BY <1>1, <1>3 DEF SameView, ValidLabels
<1> QED BY <1>3, <1>4 DEF e

\* Routing a collected unit decides it on its votes or queues it.
LEMMA RouteUnitSound ==
  ASSUME NEW d \in Databases, NEW u \in Units, Shaped(d, u), StatusKept(d, u), Evidence(d, u),
         Complete(d, u) \/ HumanDecided(d, u), NEW merge \in Merges(d, u)
  PROVE  Sound(RouteUnit(d, u, merge), u)
<1>1. CASE HumanDecided(d, u)
  BY <1>1 DEF RouteUnit, Sound, Routed
<1>2. CASE ~HumanDecided(d, u) /\ merge.passes
  <2> DEFINE e == FinalizeUnit(d, u, "auto_consensus", merge.value)
  <2>1. RouteUnit(d, u, merge) = e
    BY <1>2 DEF RouteUnit
  <2>2. /\ e.slot = d.slot /\ e.label = d.label /\ e.k = d.k
        /\ e.final[u] = [method |-> "auto_consensus", value |-> merge.value]
        /\ e.unit[u].status = "finalized"
    BY FinalizeFields
  <2> HIDE DEF e
  <2>3. Complete(e, u)
    BY <1>2, <2>2 DEF Complete, ValidLabels, InStatus
  <2>4. Votes(e, u) = Votes(d, u)
    BY <2>2 DEF Votes, ValidLabels
  <2>5. merge.value \in Votes(d, u)
    BY <1>2, MergesType
  <2>6. ASSUME ~SplitMayPass
        PROVE  Votes(d, u) = {merge.value}
    <3>1. Cardinality(Votes(d, u)) = 1
      BY <1>2, <2>5, <2>6 DEF Merges
    <3>2. \E x : Votes(d, u) = {x}
      BY <3>1, FiniteVotes, FS_Singleton
    <3> QED BY <2>5, <3>2
  <2>7. Evidence(e, u)
    BY <2>2, <2>3, <2>4, <2>5, <2>6 DEF Evidence
  <2>8. Shaped(e, u) /\ StatusKept(e, u) /\ Routed(e, u)
    BY <2>2 DEF Shaped, StatusKept, Routed
  <2> QED BY <2>1, <2>7, <2>8 DEF Sound
<1>3. CASE ~HumanDecided(d, u) /\ ~merge.passes
  <2> DEFINE e == [d EXCEPT !.unit[u].escalated = TRUE]
  <2>1. RouteUnit(d, u, merge) = e
    BY <1>3 DEF RouteUnit
  <2>2. SameView(d, e, u) /\ e.unit[u].escalated
    BY EscalateFields
  <2> HIDE DEF e
  <2>3. Shaped(e, u)
    BY <2>2 DEF Shaped, SameView
  <2>4. StatusKept(e, u) /\ Evidence(e, u)
    BY <2>2, SameViewDerives DEF StatusKept, Evidence, SameView
  <2> QED BY <2>1, <2>2, <2>3, <2>4 DEF Sound, Routed
<1> QED BY <1>1, <1>2, <1>3

\* Routing, growing and queuing a unit leave the others alone.
LEMMA OthersUntouched ==
  ASSUME NEW d \in Databases, NEW u \in Units, NEW plan, NEW merge, NEW w \in Units \ {u}
  PROVE  /\ Sound(d, w) => Sound(ApplyConsensusPolicy(d, u, plan), w)
         /\ Sound(d, w) => Sound(RouteUnit(d, u, merge), w)
<1>1. ASSUME NEW e, e.k = d.k, e.label = d.label, e.slot[w] = d.slot[w], e.unit[w] = d.unit[w],
             e.final[w] = d.final[w]
      PROVE  Sound(d, w) => Sound(e, w)
  BY <1>1, SameRowsSameView, SameViewKeeps
<1>2. Sound(d, w) => Sound(GrowOverlap(d, u, plan), w)
  <2> DEFINE e == GrowOverlap(d, u, plan)
  <2>1. /\ e.k = d.k /\ e.label = d.label /\ e.slot[w] = d.slot[w] /\ e.unit[w] = d.unit[w]
        /\ e.final[w] = d.final[w]
    BY DEF GrowOverlap, Databases
  <2> QED BY <1>1, <2>1
<1>3. Sound(d, w) => Sound([d EXCEPT !.unit[u].escalated = TRUE], w)
  <2> DEFINE e == [d EXCEPT !.unit[u].escalated = TRUE]
  <2>1. /\ e.k = d.k /\ e.label = d.label /\ e.slot[w] = d.slot[w] /\ e.unit[w] = d.unit[w]
        /\ e.final[w] = d.final[w]
    BY DEF Databases
  <2> QED BY <1>1, <2>1
<1>4. Sound(d, w) => Sound(FinalizeUnit(d, u, "auto_consensus", merge.value), w)
  <2> DEFINE e == FinalizeUnit(d, u, "auto_consensus", merge.value)
  <2>1. /\ e.k = d.k /\ e.label = d.label /\ e.slot[w] = d.slot[w] /\ e.unit[w] = d.unit[w]
        /\ e.final[w] = d.final[w]
    BY DEF FinalizeUnit, Databases
  <2> HIDE DEF e
  <2> QED BY <1>1, <2>1 DEF e
<1> QED BY <1>2, <1>3, <1>4 DEF ApplyConsensusPolicy, Escalate, RouteUnit

-----------------------------------------------------------------------------
(* The lease primitives.                                                   *)

\* Whether a lease has run out matters to none of this.
LEMMA ExpiredUnread ==
  ASSUME NEW d \in Databases, NEW e, NEW u \in Units, NEW i \in InStatus(d, u, "leased"), NEW x,
         e.label = d.label, e.k = d.k, e.unit = d.unit, e.final = d.final,
         e.slot = [d.slot EXCEPT ![u] = [d.slot[u] EXCEPT ![i].expired = x]],
         NEW w \in Units
  PROVE  SameView(d, e, w)
<1> DEFINE row == [d.slot[u][i] EXCEPT !.expired = x]
<1>1. d.slot \in [Units -> Seq(SlotRow)] /\ i \in DOMAIN d.slot[u] /\ d.slot[u][i] \in SlotRow
  BY DatabaseFields, RowTypes DEF InStatus
<1>2. row.status = d.slot[u][i].status
  BY <1>1 DEF SlotRow
<1>3. e.slot = [d.slot EXCEPT ![u] = [d.slot[u] EXCEPT ![i] = row]]
  OBVIOUS
<1> HIDE DEF row
<1>4. DOMAIN e.slot[w] = DOMAIN d.slot[w]
  BY <1>1, <1>3
<1>5. Len(e.slot[w]) = Len(d.slot[w])
  <2>1. d.slot[w] \in Seq(SlotRow) /\ e.slot[w] = IF w = u THEN [d.slot[u] EXCEPT ![i] = row] ELSE d.slot[w]
    BY <1>1, <1>3
  <2>2. CASE w # u
    BY <2>1, <2>2
  <2>3. CASE w = u
    BY <1>1, <2>1, <2>3, ExceptSeq
  <2> QED BY <2>2, <2>3
<1>6. \A j \in DOMAIN d.slot[w] : e.slot[w][j].status = d.slot[w][j].status
  BY <1>1, <1>2, <1>3
<1> QED BY <1>4, <1>5, <1>6 DEF SameView, ValidLabels

\* A lease is given on a unit that is not decided and still has a slot open.
LEMMA LeaseSound ==
  ASSUME NEW d \in Databases, AllSound(d), NEW a \in Annotators, NEW u \in Units,
         NEW i \in InStatus(d, u, "open"), MayTake(d, a, u)
  PROVE  AllSound(Lease(d, a, u, i))
<1> DEFINE row == [d.slot[u][i] EXCEPT !.status = "leased", !.by = a, !.expired = FALSE]
           e == Lease(d, a, u, i)
<1>1. i \in DOMAIN d.slot[u] /\ d.slot[u][i].status = "open"
  BY DEF InStatus
<1>2. row.status = "leased"
  BY <1>1, RowTypes DEF SlotRow
<1>3. /\ e.label = d.label /\ e.k = d.k /\ e.final = d.final
      /\ e.slot = [d.slot EXCEPT ![u] = [d.slot[u] EXCEPT ![i] = row]]
      /\ \A w \in Units \ {u} : e.unit[w] = d.unit[w]
      /\ e.unit[u] = [d.unit[u] EXCEPT !.status = IF @ = "pending" THEN "in_progress" ELSE @]
  BY DEF Lease, Databases
<1>4. e \in Databases
  BY <1>1, LeaseType
<1> HIDE DEF e, row
<1>5. d.slot \in [Units -> Seq(SlotRow)] /\ e.slot \in [Units -> Seq(SlotRow)] /\ d.unit[u] \in UnitRow
  BY <1>4, DatabaseFields
<1>6. ASSUME NEW w \in Units \ {u}
      PROVE  Sound(e, w)
  <2>1. e.slot[w] = d.slot[w] /\ e.unit[w] = d.unit[w]
    BY <1>3, <1>5
  <2>2. SameView(d, e, w)
    BY <1>3, <2>1, SameRowsSameView
  <2> QED BY <2>2, SameViewKeeps DEF AllSound
<1>7. Sound(e, u)
  <2>1. Pending(d, u)
    BY <1>1, UnfinishedIsUndecided DEF AllSound
  <2>2. DOMAIN e.slot[u] = DOMAIN d.slot[u]
    BY <1>3, <1>5
  <2>3. Len(e.slot[u]) = Len(d.slot[u])
    BY <1>5, <2>2, SameDomainSameLen
  <2>4. /\ e.slot[u][i].status = "leased"
        /\ \A j \in DOMAIN e.slot[u] : e.slot[u][j].status = "leased" \/ e.slot[u][j] = d.slot[u][j]
    BY <1>1, <1>2, <1>3, <1>5
  <2>5. Shaped(e, u) /\ ~Automatic(e, u)
    BY <1>3, <2>1, <2>2, <2>3, <2>4 DEF Pending, Shaped, Automatic
  <2>6. DerivedStatus(e, u) = "in_progress"
    BY <1>1, <2>2, <2>4 DEF DerivedStatus, Live, InStatus
  <2>7. DerivedStatus(d, u) \in {"pending", "in_progress"}
    BY <1>1 DEF DerivedStatus, Live, InStatus
  <2>8. d.unit[u].status = DerivedStatus(d, u)
    BY <2>1 DEF Pending, StatusKept, MayTake
  <2>9. e.unit[u].status = "in_progress"
    BY <1>3, <1>5, <2>7, <2>8 DEF UnitRow
  <2> QED BY <2>5, <2>6, <2>9 DEF Sound, StatusKept, Evidence, Routed
<1> QED BY <1>6, <1>7 DEF AllSound, e

-----------------------------------------------------------------------------
(* The requests.                                                           *)

LEMMA NextTaskSound ==
  ASSUME TypeOK, AllSound(db), NEW a \in Annotators, NEW p \in Projects, NextTask(a, p)
  PROVE  AllSound(db')
<1> DEFINE d == Sweep(db)
<1>1. d \in Databases /\ AllSound(d)
  BY SweepType, SweepSound DEF TypeOK
<1>2. CASE \E s \in HeldSlots(d, a, p) : db' = [d EXCEPT !.slot[s[1]][s[2]].expired = FALSE]
  <2> HIDE DEF d
  <2>1. PICK s \in HeldSlots(d, a, p) : db' = [d EXCEPT !.slot[s[1]][s[2]].expired = FALSE]
    BY <1>2
  <2>2. PICK u \in Units : \E i \in InStatus(d, u, "leased") : s = <<u, i>>
    BY <2>1 DEF HeldSlots
  <2>3. PICK i \in InStatus(d, u, "leased") : s = <<u, i>>
    BY <2>2
  <2>4. /\ db'.label = d.label /\ db'.k = d.k /\ db'.unit = d.unit /\ db'.final = d.final
        /\ db'.slot = [d.slot EXCEPT ![u] = [d.slot[u] EXCEPT ![i].expired = FALSE]]
    BY <1>1, <2>1, <2>3 DEF Databases
  <2>5. ASSUME NEW w \in Units
        PROVE  SameView(d, db', w)
    BY <1>1, <2>4, ExpiredUnread
  <2> QED BY <1>1, <2>5, SameViewKeeps DEF AllSound
<1>3. CASE \E s \in NextSlots(d, a, p) : db' = Lease(d, a, s[1], s[2])
  <2> HIDE DEF d
  <2>1. PICK s \in NextSlots(d, a, p) : db' = Lease(d, a, s[1], s[2])
    BY <1>3
  <2>2. PICK u \in Units : \E i \in InStatus(d, u, "open") : s = <<u, i>> /\ MayTake(d, a, u)
    BY <2>1 DEF NextSlots, First, OpenSlots
  <2>3. PICK i \in InStatus(d, u, "open") : s = <<u, i>>
    BY <2>2
  <2> QED BY <1>1, <2>1, <2>2, <2>3, LeaseSound
<1>4. CASE db' = d
  BY <1>1, <1>4
<1> QED BY <1>2, <1>3, <1>4 DEF NextTask

\* What a submit does after the fill: the unit is routed if it stopped collecting,
\* grown, or left with slots to fill; it is Sound again in each case.
LEMMA SubmitSound ==
  ASSUME TypeOK, Match(db), AllSound(db), NEW a \in Annotators, NEW u \in Units, NEW i,
         NEW value \in Answers, Submit(a, u, i, value)
  PROVE  AllSound(db')
<1>1. PICK plan \in SlotPlans(NumVariants) :
        LET judged  == EnforceGoldThreshold(Fill(db, a, u, i, value), a, u, Grade(u, value))
            settled == ApplyConsensusPolicy(judged, u, plan)
        IN  IF StopsCollecting(judged, u)
            THEN \E merge \in Merges(settled, u) : db' = RouteUnit(settled, u, merge)
            ELSE db' = settled
  BY DEF Submit
<1> DEFINE filled  == Fill(db, a, u, i, value)
           judged  == EnforceGoldThreshold(filled, a, u, Grade(u, value))
           settled == ApplyConsensusPolicy(judged, u, plan)
<1>2. Holds(db, a, u, i) /\ i \in DOMAIN db.slot[u]
  BY DEF Submit, Holds
<1>3. filled \in Databases /\ Match(filled)
  BY <1>2, FillType, FillMatch DEF TypeOK
<1>4. Pending(filled, u) /\ \A w \in Units \ {u} : Sound(filled, w)
  BY <1>2, FillSound DEF TypeOK
<1>5. IF StopsCollecting(judged, u)
      THEN \E merge \in Merges(settled, u) : db' = RouteUnit(settled, u, merge)
      ELSE db' = settled
  BY <1>1
<1> HIDE DEF filled
<1>6. judged \in Databases /\ Match(judged)
  BY <1>3, EnforceGoldThresholdType, EnforceMatch
<1>7. Pending(judged, u) /\ \A w \in Units \ {u} : Sound(judged, w)
  BY <1>3, <1>4, EnforceSound
<1> HIDE DEF judged
<1>8. settled \in Databases
  BY <1>6, ApplyConsensusPolicyType
<1>9. ASSUME NEW w \in Units \ {u}
      PROVE  Sound(db', w)
  <2>1. Sound(settled, w)
    BY <1>6, <1>7, OthersUntouched
  <2> HIDE DEF settled
  <2> QED BY <1>5, <1>8, <2>1, OthersUntouched
<1>10. Sound(db', u)
  <2>1. CASE ~Complete(judged, u)
    <3>1. db' = judged
      BY <1>5, <2>1 DEF StopsCollecting, ApplyConsensusPolicy
    <3>2. judged.unit[u].status # "labeled"
      BY <1>6, <1>7, <2>1, LabeledIsComplete DEF Pending
    <3> QED BY <1>7, <3>1, <3>2 DEF Sound, Pending, Evidence, Routed
  <2>2. CASE Complete(judged, u) /\ ~Agreed(judged, u) /\ CanGrow(judged, u)
    <3>1. db' = GrowOverlap(judged, u, plan)
      BY <1>5, <2>2 DEF StopsCollecting, ApplyConsensusPolicy
    <3> QED BY <1>6, <1>7, <2>2, <3>1, GrowSound
  <2>3. CASE Complete(judged, u) /\ (Agreed(judged, u) \/ ~CanGrow(judged, u))
    <3>1. settled = judged \/ settled = [judged EXCEPT !.unit[u].escalated = TRUE]
      BY <2>3 DEF ApplyConsensusPolicy, Escalate
    <3>2. PICK merge \in Merges(settled, u) : db' = RouteUnit(settled, u, merge)
      BY <1>5, <2>3 DEF StopsCollecting
    <3> HIDE DEF settled
    <3>3. Pending(settled, u) /\ Complete(settled, u)
      <4>1. CASE settled = judged
        BY <1>7, <2>3, <4>1
      <4>2. CASE settled = [judged EXCEPT !.unit[u].escalated = TRUE]
        <5>1. SameView(judged, settled, u)
          BY <1>6, <4>2, EscalateFields
        <5> QED BY <1>7, <2>3, <5>1, SameViewKeeps, SameViewDerives
      <4> QED BY <3>1, <4>1, <4>2
    <3> QED BY <1>8, <3>2, <3>3, RouteUnitSound DEF Pending, Evidence
  <2> QED BY <2>1, <2>2, <2>3
<1> QED BY <1>9, <1>10 DEF AllSound

LEMMA SkipSound ==
  ASSUME TypeOK, AllSound(db), NEW a \in Annotators, NEW u \in Units, NEW i, Skip(a, u, i)
  PROVE  AllSound(db')
<1>1. i \in InStatus(db, u, "leased")
  BY DEF Skip, Holds, InStatus
<1>2. {u} = {s[1] : s \in {<<u, i>>}}
  OBVIOUS
<1>3. AllSound(Recompute(Reopen(db, {<<u, i>>}), {u}, {}))
  BY <1>1, <1>2, ReleaseSound DEF TypeOK
<1> QED BY <1>3 DEF Skip

\* An admin's void leaves no label, no automatic decision and only open slots.
LEMMA PatchUnitSound ==
  ASSUME TypeOK, Match(db), AllSound(db), NEW u \in Units, NEW n \in Int, NEW void \in BOOLEAN,
         PatchUnit(u, n, void)
  PROVE  AllSound(db')
<1> DEFINE d == [db EXCEPT !.unit[u].priority = n]
           ls       == ValidLabels(d, u)
           voided   == VoidLabels(d, ls)
           stranded == {u} \X (InStatus(voided, u, "leased") \cup InStatus(voided, u, "filled"))
           cleared  == Reopen(voided, stranded)
           e        == Recompute(cleared, {u}, {})
<1>1. d \in Databases
  <2>1. [db.unit[u] EXCEPT !.priority = n] \in UnitRow
    BY RowTypes DEF TypeOK, UnitRow
  <2>2. d = [db EXCEPT !.unit[u] = [db.unit[u] EXCEPT !.priority = n]]
    BY DEF TypeOK, Databases
  <2> HIDE DEF d
  <2> QED BY <2>1, <2>2, OneUnitRow DEF TypeOK
<1>2. /\ d.slot = db.slot /\ d.label = db.label /\ d.k = db.k /\ d.final = db.final
      /\ \A w \in Units : d.unit[w] = IF w = u THEN [db.unit[u] EXCEPT !.priority = n] ELSE db.unit[w]
  BY DEF TypeOK, Databases
<1>3. db' = IF void THEN e ELSE d
  BY DEF PatchUnit
<1> HIDE DEF d
<1>4. Match(d)
  BY <1>2, SameSlots, SameFilledKeeps DEF TypeOK
<1>5. AllSound(d)
  <2> SUFFICES ASSUME NEW w \in Units PROVE SameView(db, d, w)
    BY SameViewKeeps DEF AllSound
  <2>1. db.unit[w] \in UnitRow
    BY RowTypes DEF TypeOK
  <2>2. d.unit[w].status = db.unit[w].status /\ d.unit[w].escalated = db.unit[w].escalated
    BY <1>2, <2>1 DEF UnitRow
  <2> QED BY <1>2, <2>2 DEF SameView, ValidLabels
<1>6. ls \in SUBSET Valid(d)
  BY DEF ValidLabels, Valid
<1>7. voided \in Databases /\ AllSound(voided)
  BY <1>1, <1>4, <1>5, <1>6, VoidLabelsType, VoidLabelsSound DEF AllSound
<1>8. Pending(voided, u)
  <2>1. CASE ls = {}
    <3>1. ~Automatic(d, u)
      BY <1>5, <2>1 DEF AllSound, Sound, Evidence, Votes
    <3>2. Pending(d, u)
      BY <1>5, <3>1 DEF AllSound, Sound, Pending
    <3> QED BY <1>1, <1>4, <1>6, <3>2, VoidLabelsSound
  <2>2. CASE ls # {}
    <3>1. \E l \in ls : d.label[l].unit = u
      BY <2>2 DEF ValidLabels
    <3> QED BY <1>1, <1>4, <1>5, <1>6, <3>1, VoidLabelsSound DEF AllSound
  <2> QED BY <2>1, <2>2
<1> HIDE DEF voided, ls
<1>9. cleared \in Databases
  BY <1>7, ReopenType
<1>10. /\ cleared.unit = voided.unit /\ cleared.label = voided.label
       /\ cleared.final = voided.final /\ cleared.k = voided.k
       /\ \A w \in Units :
            /\ DOMAIN cleared.slot[w] = DOMAIN voided.slot[w]
            /\ Len(cleared.slot[w]) = Len(voided.slot[w])
            /\ \A i \in DOMAIN voided.slot[w] : cleared.slot[w][i].status =
                  IF <<w, i>> \in stranded THEN "open" ELSE voided.slot[w][i].status
  BY <1>7, ReopenFields
<1> HIDE DEF cleared
<1>11. /\ e.slot = cleared.slot /\ e.label = cleared.label /\ e.final = cleared.final /\ e.k = cleared.k
       /\ \A w \in Units : /\ DerivedStatus(e, w) = DerivedStatus(cleared, w)
                           /\ e.unit[w].status = IF w \in {u} /\ cleared.unit[w].status # "finalized"
                                                 THEN DerivedStatus(cleared, w) ELSE cleared.unit[w].status
                           /\ w \notin {u} => e.unit[w] = cleared.unit[w]
  BY <1>9, RecomputeFields
<1> HIDE DEF e
<1>12. ASSUME NEW w \in Units \ {u}
       PROVE  Sound(e, w)
  <2>1. \A i \in DOMAIN voided.slot[w] : <<w, i>> \notin stranded
    OBVIOUS
  <2> HIDE DEF stranded
  <2>2. SameView(voided, e, w)
    BY <1>10, <1>11, <2>1, ZenonT(40) DEF SameView, ValidLabels
  <2> QED BY <1>7, <2>2, SameViewKeeps DEF AllSound
<1>13. Sound(e, u)
  <2>1. Shaped(voided, u) /\ StatusKept(voided, u) /\ ~Automatic(voided, u)
    BY <1>8 DEF Pending
  <2>2. 1 \in DOMAIN voided.slot[u]
    <3>1. /\ Len(voided.slot[u]) \in Nat /\ DOMAIN voided.slot[u] = 1..Len(voided.slot[u])
          /\ voided.k[ProjectOf[u]] \in Nat
      BY <1>7, DatabaseFields, SeqFacts, IdsAssumption
    <3> QED BY <2>1, <3>1 DEF Shaped
  <2>3. ASSUME NEW i \in DOMAIN voided.slot[u]
        PROVE  cleared.slot[u][i].status = "open"
    <3>1. voided.slot[u][i].status \in {"open", "leased", "filled"}
      <4>1. voided.slot[u][i] \in SlotRow
        BY <1>7, RowTypes
      <4> QED BY <2>1, <4>1 DEF Shaped, SlotRow
    <3>2. voided.slot[u][i].status \in {"leased", "filled"} => <<u, i>> \in stranded
      BY DEF InStatus
    <3> QED BY <1>10, <3>1, <3>2
  <2> HIDE DEF stranded
  <2>4. Shaped(e, u) /\ ~Automatic(e, u)
    BY <1>10, <1>11, <2>1, <2>3 DEF Shaped, Automatic
  <2>5. 1 \in InStatus(e, u, "open")
    BY <1>10, <1>11, <2>2, <2>3 DEF InStatus
  <2>6. StatusKept(e, u)
    BY <1>10, <1>11, <2>1, DerivedNotFinalized DEF StatusKept
  <2> QED BY <2>4, <2>5, <2>6, ReopenedIsSound
<1>14. AllSound(e)
  BY <1>12, <1>13 DEF AllSound
<1> QED BY <1>3, <1>5, <1>14

LEMMA DecideSound ==
  ASSUME TypeOK, AllSound(db), NEW u \in Units, Decide(u)
  PROVE  AllSound(db')
<1>1. PICK x \in Decisions(db, u) : db' = FinalizeUnit(db, u, x.method, x.value)
  BY DEF Decide
<1>2. x.method \in HumanMethods
  BY DEF Decisions, HumanMethods
<1>3. /\ db'.slot = db.slot /\ db'.label = db.label /\ db'.k = db.k
      /\ db'.final[u] = [method |-> x.method, value |-> x.value]
      /\ db'.unit[u].status = "finalized"
      /\ \A w \in Units \ {u} : db'.final[w] = db.final[w] /\ db'.unit[w] = db.unit[w]
  BY <1>1, FinalizeFields DEF TypeOK
<1>4. ASSUME NEW w \in Units \ {u}
      PROVE  Sound(db', w)
  <2>1. SameView(db, db', w)
    BY <1>3, SameRowsSameView
  <2> QED BY <2>1, SameViewKeeps DEF AllSound
<1>5. Sound(db', u)
  <2>1. db'.final[u].method # "none" /\ db'.final[u].method # "auto_consensus"
    BY <1>2, <1>3 DEF HumanMethods
  <2>2. Shaped(db', u)
    BY <1>3 DEF AllSound, Sound, Shaped
  <2> QED BY <1>3, <2>1, <2>2 DEF Sound, StatusKept, Evidence, Automatic, Routed
<1> QED BY <1>4, <1>5 DEF AllSound

LEMMA RouteProjectSound ==
  ASSUME TypeOK, Match(db), AllSound(db), NEW p \in Projects, NEW all \in BOOLEAN,
         RouteProject(p, all)
  PROVE  AllSound(db')
<1> DEFINE us == Routable(db, p, all)
<1>1. PICK merges : /\ \A u \in us : merges[u] \in Merges(db, u)
                    /\ db' = RouteUnits(db, us, merges)
  BY DEF RouteProject
<1>2. /\ db'.slot = db.slot /\ db'.label = db.label /\ db'.k = db.k
      /\ \A u \in Units :
           /\ db'.unit[u]  = IF u \in us THEN RouteUnit(db, u, merges[u]).unit[u] ELSE db.unit[u]
           /\ db'.final[u] = IF u \in us THEN RouteUnit(db, u, merges[u]).final[u] ELSE db.final[u]
  BY <1>1 DEF RouteUnits, TypeOK, Databases
<1> SUFFICES ASSUME NEW u \in Units
             PROVE  Sound(db', u)
  BY DEF AllSound
<1>3. Sound(db, u)
  BY DEF AllSound
<1>4. CASE u \notin us
  <2>1. SameView(db, db', u)
    BY <1>2, <1>4, SameRowsSameView
  <2> QED BY <1>3, <2>1, SameViewKeeps
<1>5. CASE u \in us
  <2> DEFINE e == RouteUnit(db, u, merges[u])
  <2>1. e.slot = db.slot /\ e.label = db.label /\ e.k = db.k
    BY DEF RouteUnit, FinalizeUnit, TypeOK, Databases
  <2>2. Complete(db, u) \/ HumanDecided(db, u)
    <3>1. CASE db.unit[u].status = "labeled"
      BY <1>3, <3>1, LabeledIsComplete DEF Sound, TypeOK
    <3>2. CASE db.unit[u].status = "finalized"
      <4>1. db.final[u].method # "none" /\ db.final[u] \in FinalRow
        BY <1>3, <3>2, DatabaseFields DEF Sound, StatusKept, TypeOK
      <4> QED BY <1>3, <4>1 DEF Sound, Evidence, Automatic, HumanDecided, FinalRow
    <3> QED BY <1>5, <3>1, <3>2 DEF Routable
  <2>3. Sound(e, u)
    BY <1>1, <1>3, <1>5, <2>2, RouteUnitSound DEF Sound, TypeOK
  <2>4. db'.unit[u] = e.unit[u] /\ db'.final[u] = e.final[u]
    BY <1>2, <1>5
  <2> HIDE DEF e
  <2>5. SameView(e, db', u)
    BY <1>2, <2>1, <2>4, SameRowsSameView
  <2> QED BY <2>3, <2>5, SameViewKeeps
<1> QED BY <1>4, <1>5

LEMMA LeaseRunsOutSound ==
  ASSUME TypeOK, AllSound(db), NEW u \in Units, NEW i, LeaseRunsOut(u, i)
  PROVE  AllSound(db')
<1>1. /\ db'.label = db.label /\ db'.k = db.k /\ db'.unit = db.unit /\ db'.final = db.final
      /\ db'.slot = [db.slot EXCEPT ![u] = [db.slot[u] EXCEPT ![i].expired = TRUE]]
  BY DEF LeaseRunsOut, TypeOK, Databases
<1>2. i \in InStatus(db, u, "leased")
  BY DEF LeaseRunsOut
<1>3. ASSUME NEW w \in Units
      PROVE  SameView(db, db', w)
  BY <1>1, <1>2, ExpiredUnread DEF TypeOK
<1> QED BY <1>3, SameViewKeeps DEF AllSound

-----------------------------------------------------------------------------

LEMMA SoundInit ==
  ASSUME Init
  PROVE  AllSound(db)
<1>1. PICK layout \in [Units -> SlotPlans(LabelsPerUnit)] :
        /\ db.slot = [u \in Units |-> NewSlots(layout[u])]
        /\ db.unit = [u \in Units |-> [status |-> "pending", escalated |-> FALSE, priority |-> 0]]
        /\ db.final = [u \in Units |-> NoDecision]
        /\ db.k = [p \in Projects |-> LabelsPerUnit]
  BY DEF Init
<1> SUFFICES ASSUME NEW u \in Units
             PROVE  Sound(db, u)
  BY DEF AllSound
<1>2. Len(db.slot[u]) = LabelsPerUnit /\ DOMAIN db.slot[u] = 1..LabelsPerUnit
  <2>1. layout[u] \in [1..LabelsPerUnit -> Variants] /\ LabelsPerUnit \in Nat
    BY <1>1, OverlapAssumption DEF SlotPlans
  <2>2. NewSlots(layout[u]) \in Seq(SlotRow) /\ Len(NewSlots(layout[u])) = LabelsPerUnit
    BY <2>1, NewSlotsType
  <2> QED BY <1>1, <2>2, SeqFacts
<1>3. \A i \in DOMAIN db.slot[u] : db.slot[u][i].status = "open"
  BY <1>1 DEF NewSlots, OpenSlot
<1>4. db.k[ProjectOf[u]] = LabelsPerUnit
  BY <1>1, IdsAssumption
<1>5. Shaped(db, u)
  BY <1>2, <1>3, <1>4, OverlapAssumption DEF Shaped
<1>6. 1 \in InStatus(db, u, "open")
  BY <1>2, <1>3, OverlapAssumption DEF InStatus
<1>7. DerivedStatus(db, u) = "pending"
  BY <1>3, <1>6 DEF DerivedStatus, Live, InStatus
<1>8. StatusKept(db, u) /\ ~Automatic(db, u)
  BY <1>1, <1>7 DEF StatusKept, Automatic, NoDecision
<1> QED BY <1>5, <1>6, <1>8, ReopenedIsSound

LEMMA SoundNext ==
  ASSUME TypeOK, Match(db), AllSound(db), Next
  PROVE  AllSound(db')
<1>1. CASE AnnotatorStep
  BY <1>1, NextTaskSound, SubmitSound, SkipSound DEF AnnotatorStep
<1>2. CASE StaffStep
  <2>1. ASSUME NEW a \in Annotators, ResumeAnnotator(a)
        PROVE  AllSound(db')
    <3>1. /\ db'.slot = db.slot /\ db'.label = db.label /\ db'.k = db.k
          /\ db'.unit = db.unit /\ db'.final = db.final
      BY <2>1 DEF ResumeAnnotator, TypeOK, Databases
    <3> QED BY <3>1, SameRowsSameView, SameViewKeeps DEF AllSound
  <2>2. ASSUME NEW u \in Units, NEW n \in Priorities \cup {db.unit[u].priority},
               NEW void \in BOOLEAN, PatchUnit(u, n, void)
        PROVE  AllSound(db')
    <3>1. n \in Int
      BY PlatformAssumption, RowTypes DEF TypeOK, UnitRow
    <3> QED BY <2>2, <3>1, PatchUnitSound
  <2> QED BY <1>2, <2>1, <2>2, DecideSound, RouteProjectSound DEF StaffStep
<1>3. CASE ClockStep
  <2>1. CASE AvailableWork
    BY <2>1, SweepSound DEF AvailableWork, TypeOK
  <2> QED BY <1>3, <2>1, LeaseRunsOutSound DEF ClockStep
<1> QED BY <1>1, <1>2, <1>3 DEF Next

LEMMA SoundInvariant == Spec => []AllSound(db)
<1>1. Init => Match(db) /\ AllSound(db)
  BY MatchInit, SoundInit
<1>2. TypeOK /\ Match(db) /\ AllSound(db) /\ [Next]_db => Match(db)' /\ AllSound(db)'
  <2> SUFFICES ASSUME TypeOK, Match(db), AllSound(db), [Next]_db
               PROVE  Match(db') /\ AllSound(db')
    OBVIOUS
  <2>1. CASE UNCHANGED db
    BY <2>1
  <2> QED BY <2>1, MatchNext, SoundNext
<1> QED BY <1>1, <1>2, TypeCorrect, PTL DEF Spec

\* The stored status of a unit is in every reachable state the one its slots imply,
\* or "finalized" with a final label (lifecycle.recompute_unit_status and its callers).
THEOREM StatusTheorem == Spec => []StatusFollowsRows
<1>1. AllSound(db) => StatusFollowsRows
  BY DEF AllSound, Sound, StatusKept, StatusFollowsRows
<1> QED BY <1>1, SoundInvariant, PTL

\* An automatic decision always rests on the valid labels of a complete unit, and
\* on all of them where a split may not pass (void_labels and its unwinding).
THEOREM EvidenceTheorem == Spec => []AutoDecisionHasEvidence
<1>1. AllSound(db) => AutoDecisionHasEvidence
  BY DEF AllSound, Sound, Evidence, Automatic, AutoDecisionHasEvidence
<1> QED BY <1>1, SoundInvariant, PTL

\* A collected unit is decided or queued for a reviewer in every reachable state,
\* though a submit collects it and routes it in separate steps of one transaction.
THEOREM RoutedTheorem == Spec => []CollectedIsRouted
<1>1. AllSound(db) => CollectedIsRouted
  BY DEF AllSound, Sound, Routed, CollectedIsRouted
<1> QED BY <1>1, SoundInvariant, PTL

=============================================================================
