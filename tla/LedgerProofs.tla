----------------------------- MODULE LedgerProofs -----------------------------
(***************************************************************************)
(* Concurrent requests without voids: slots, labels and final labels agree *)
(* in the committed rows, the slots and labels change as SlotLedger says,  *)
(* and without re-routing verdicts stay, for any number of sessions,       *)
(* annotators, units and slots.                                            *)
(*                                                                         *)
(* TransactionProofs says what a session has written of slots and units;   *)
(* here its rows in labels and final_labels are added: a submit inserts    *)
(* one label, a decision keeps the unit of a row and locks every committed *)
(* row it has updated.  Then come the final labels a submit may find under *)
(* its unit lock, and last the order in which requests lock, and so who    *)
(* can wait for whom.                                                      *)
(***************************************************************************)
EXTENDS TransactionProofs, FiniteSetTheorems, WellFoundedInduction

NoVoids == "void" \notin Served

Vote(i, a) == [slot |-> i, by |-> a, valid |-> TRUE]

\* The one label row of a submit; nobody else writes any.
LabelsWritten(d, st) ==
  IF Filling(st)
  THEN \E n \in LabelKeys : /\ DOMAIN st.w.label = {n} /\ d.label[n] = None
                            /\ st.w.label[n] = Vote(st.i, st.a)
  ELSE DOMAIN st.w.label = {}

\* A final label is updated under its lock, and keeps its unit.
RowKept(old, new) == new.unit = old.unit

FinalsWritten(d, L, s, w) ==
  \A k \in DOMAIN w.final :
     /\ w.final[k] # None
     /\ d.final[k] # None => RowKept(d.final[k], w.final[k]) /\ Has(L, s, <<"final", k>>, "update")

\* A unit is marked finalized together with a final label, written or about to be.
Marked(st) ==
  \A u \in DOMAIN st.w.unit : st.w.unit[u] = "finalized" =>
     \/ st.pc \in {"mark", "record"} /\ u = st.u
     \/ \E k \in DOMAIN st.w.final : st.w.final[k].unit = u

\* The final label read is the unit's, committed or the session's own.
RowRead(d, st) ==
  st.pc \in {"mark", "record"} /\ st.row # None =>
     \/ d.final[st.row] # None /\ d.final[st.row].unit = st.u
     \/ st.row \in DOMAIN st.w.final /\ st.w.final[st.row].unit = st.u

\* Only a request that decides has final labels written and not yet committed.
FinalsHeld(st) == DOMAIN st.w.final # {} => Deciding(st)

Wrote(d, L, s, st) ==
  LabelsWritten(d, st) /\ FinalsWritten(d, L, s, st.w) /\ Marked(st) /\ RowRead(d, st) /\ FinalsHeld(st)

FinalsApart ==
  \A s, t \in Sessions : \A k \in DOMAIN ses[s].w.final :
     s # t /\ k \in DOMAIN ses[t].w.final => db.final[k] # None

LedgerInv ==
  /\ FilledByOneLabel /\ FinalizedHasFinalLabel /\ FinalsApart
  /\ \A s \in Sessions : Wrote(db, locks, s, ses[s])

-----------------------------------------------------------------------------
(* The shapes of a step.                                                   *)

\* Final labels stay, and the refinement of SlotLedger, of one step.
FinalsStay ==
  \A k \in FinalKeys : db.final[k] # None =>
     db'.final[k] # None /\ RowKept(db.final[k], db'.final[k])

LedgerStep == [Ledger!LedgerNext]_<<db.slot, db.label>>

Ledgered == LedgerInv' /\ FinalsStay /\ LedgerStep

LEMMA GoWrote ==
  ASSUME Inv, LedgerInv, NEW s \in Sessions, NEW st \in SesRec,
         db' = db, ses' = [ses EXCEPT ![s] = st], \A l \in locks : l.by # s => l \in locks',
         Wrote(db, locks', s, st),
         \A k \in DOMAIN st.w.final :
            k \in DOMAIN ses[s].w.final \/ db.final[k] # None \/ k \in Fresh("final")
  PROVE  Ledgered
  <1>1. /\ \A t \in Sessions \ {s} : ses'[t] = ses[t]
        /\ ses'[s] = st
    BY DEF Inv
  <1>2. FilledByOneLabel' /\ FinalizedHasFinalLabel'
    BY DEF LedgerInv, FilledByOneLabel, FinalizedHasFinalLabel, FinalsOf, Votes
  <1>3. FinalsApart'
    <2> SUFFICES ASSUME NEW p \in Sessions, NEW q \in Sessions, p # q,
                        NEW k, k \in DOMAIN ses'[p].w.final, k \in DOMAIN ses'[q].w.final
                 PROVE  db'.final[k] # None
      BY DEF FinalsApart
    <2>1. k \in Fresh("final") => \A t \in Sessions : k \notin DOMAIN ses[t].w.final
      BY DEF Fresh
    <2>2. \A t \in Sessions \ {s} : k \in DOMAIN ses[s].w.final /\ k \in DOMAIN ses[t].w.final
                                      => db.final[k] # None
      BY DEF LedgerInv, FinalsApart
    <2>3. CASE p # s /\ q # s
      BY <1>1, <2>3 DEF LedgerInv, FinalsApart
    <2>4. CASE p = s \/ q = s
      BY <1>1, <2>1, <2>2, <2>4
    <2> QED  BY <2>3, <2>4
  <1>4. ASSUME NEW t \in Sessions PROVE Wrote(db', locks', t, ses'[t])
    <2>1. CASE t = s
      BY <1>1, <2>1
    <2>2. CASE t # s
      <3>1. ses'[t] = ses[t] /\ Wrote(db, locks, t, ses[t])
        BY <1>1, <2>2 DEF LedgerInv
      <3>2. \A on, mode : Has(locks, t, on, mode) => Has(locks', t, on, mode)
        BY <2>2 DEF Has
      <3> QED  BY <3>1, <3>2 DEF Wrote, FinalsWritten
    <2> QED  BY <2>1, <2>2
  <1>5. FinalsStay /\ LedgerStep
    BY DEF FinalsStay, RowKept, LedgerStep
  <1> QED  BY <1>2, <1>3, <1>4, <1>5 DEF Ledgered, LedgerInv

\* What a session has written when it commits, as a step of the ledger.
LEMMA LeaseRenewed ==
  ASSUME NEW row \in SlotRow, row.status = "leased"
  PROVE  [row EXCEPT !.expired = FALSE] = Leased(row.by)
  <1>1. ASSUME NEW x \in BOOLEAN
        PROVE  [row EXCEPT !.expired = x] = [status |-> row.status, by |-> row.by, expired |-> x]
    BY RowExcept DEF SlotRow
  <1>2. [row EXCEPT !.expired = FALSE] = [status |-> row.status, by |-> row.by, expired |-> FALSE]
    BY <1>1, Zenon
  <1> QED  BY <1>2 DEF Leased

LEMMA CommitLedger ==
  ASSUME Inv, LedgerInv, NoVoids, NEW s \in Sessions, NEW w \in Writes,
         db' = Over(w), w.slot = ses[s].w.slot, w.label = ses[s].w.label
  PROVE  LedgerStep
  <1> DEFINE st == ses[s]
             is == DOMAIN w.slot
  <1>1. st \in SesRec /\ SesInv(db, locks, s, st) /\ db \in Tables /\ st.pc \in Pcs
    BY SessionFacts, RecFields
  <1>2. Typed(db, st) /\ Phase(db, locks, s, st) /\ LabelsWritten(db, st)
    BY <1>1 DEF SesInv, LedgerInv, Wrote
  <1>3. st.pc \notin VoidPcs
    BY <1>2 DEF Typed, NoVoids
  <1>4. /\ \A i \in Slots : db'.slot[i] = IF i \in is THEN w.slot[i] ELSE db.slot[i]
        /\ \A n \in LabelKeys : db'.label[n] = IF n \in DOMAIN w.label THEN w.label[n] ELSE db.label[n]
        /\ db' \in Tables
    BY <1>1, OverRows
  <1>5. /\ db.slot \in [Slots -> SlotRow] /\ db'.slot \in [Slots -> SlotRow]
        /\ db.label \in [LabelKeys -> {None} \cup LabelRow]
        /\ db'.label \in [LabelKeys -> {None} \cup LabelRow]
    BY <1>1, <1>4 DEF Tables
  <1>6. is \subseteq Slots
    BY WriteFields
  <1>7. ~Filling(st) => db'.label = db.label
    BY <1>2, <1>4, <1>5 DEF LabelsWritten
  <1>8. \A js \in SUBSET Slots : Swept(db, w, js) => js \in SUBSET Ledger!Lapsed
    BY DEF Swept, Lapsed, Ledger!Lapsed
  <1>9. Ledger!Open = OpenSlot
    BY DEF Ledger!Open, OpenSlot
  <1>10. \A js : Swept(db, st.w, js) => Swept(db, w, js)
    BY DEF Swept
  <1>11. CASE st.pc \in {"swept", "pick"}
    <2>1. Swept(db, w, is)
      BY <1>2, <1>11, <1>10 DEF Phase
    <2>2. db'.slot = Ledger!Reclaimed(is)
      BY <1>4, <1>5, <1>9, <2>1 DEF Ledger!Reclaimed, Swept
    <2>3. is \in SUBSET Ledger!Lapsed /\ db'.label = db.label
      BY <1>6, <1>7, <1>8, <1>11, <2>1 DEF Filling, Finalizing
    <2> QED  BY <2>2, <2>3 DEF LedgerStep, Ledger!LedgerNext, Ledger!Reclaim
  <1>12. CASE st.pc = "event"
    <2>1. PICK i \in is : /\ w.slot[i] = Leased(st.a) /\ Holds(db, st.a, i)
                          /\ Swept(db, w, is \ {i})
      BY <1>2, <1>12, <1>10 DEF Phase
    <2>2. is \ {i} \in SUBSET Ledger!Lapsed /\ db'.label = db.label /\ st.a \in Annotators
      BY <1>2, <1>6, <1>7, <1>8, <1>12, <2>1 DEF Filling, Finalizing, Typed
    <2>3. Ledger!Reclaimed(is \ {i})[i] = db.slot[i] /\ i \in Slots
      BY <1>6 DEF Ledger!Reclaimed
    <2>4. [db.slot[i] EXCEPT !.expired = FALSE] = Leased(st.a)
      BY <1>5, <2>1, <2>3, LeaseRenewed DEF Holds
    <2>5. db'.slot = [Ledger!Reclaimed(is \ {i}) EXCEPT ![i] = Leased(st.a)]
      BY <1>4, <1>5, <1>6, <1>9, <2>1 DEF Ledger!Reclaimed, Swept
    <2>6. db'.slot = [Ledger!Reclaimed(is \ {i}) EXCEPT ![i].expired = FALSE]
      BY <2>3, <2>4, <2>5
    <2>7. Ledger!Resume(st.a, i)
      BY <2>1, <2>2, <2>6 DEF Ledger!Resume, Ledger!HeldBy, Holds
    <2> QED  BY <2>2, <2>3, <2>7 DEF LedgerStep, Ledger!LedgerNext
  <1>13. CASE st.pc \in {"look", "lease"}
    <2>1. PICK i \in is : /\ w.slot[i] = Leased(st.a) /\ (db.slot[i].status = "open" \/ Lapsed(db, i))
                          /\ Swept(db, w, is \ {i})
      BY <1>2, <1>13, <1>10 DEF Phase
    <2> DEFINE js == IF Lapsed(db, i) THEN is ELSE is \ {i}
    <2>2. js \in SUBSET Ledger!Lapsed /\ db'.label = db.label /\ st.a \in Annotators /\ i \in Slots
      BY <1>2, <1>6, <1>7, <1>8, <1>13, <2>1 DEF Filling, Finalizing, Typed, Ledger!Lapsed, Lapsed
    <2>3. Ledger!Reclaimed(js)[i].status = "open"
      BY <1>9, <2>1, <2>2 DEF Ledger!Reclaimed, OpenSlot
    <2>4. db'.slot = [Ledger!Reclaimed(js) EXCEPT ![i] = Leased(st.a)]
      BY <1>4, <1>5, <1>6, <1>9, <2>1 DEF Ledger!Reclaimed, Swept
    <2> HIDE DEF js
    <2>5. Ledger!Lease(st.a, i)
      BY <2>2, <2>3, <2>4 DEF Ledger!Lease, Leased
    <2> QED  BY <2>2, <2>5 DEF LedgerStep, Ledger!LedgerNext
  <1>14. CASE st.pc = "release"
    <2>1. is = {st.i} /\ w.slot[st.i] = OpenSlot /\ Holds(db, st.a, st.i)
      BY <1>2, <1>14 DEF Phase
    <2>2. db'.label = db.label /\ st.a \in Annotators /\ st.i \in Slots
      BY <1>2, <1>7, <1>14 DEF Filling, Finalizing, Typed
    <2>3. db'.slot = [db.slot EXCEPT ![st.i] = Ledger!Open]
      BY <1>4, <1>5, <1>9, <2>1, <2>2
    <2>4. Ledger!Release(st.a, st.i)
      BY <2>1, <2>2, <2>3 DEF Ledger!Release, Ledger!HeldBy, Holds
    <2> QED  BY <2>2, <2>4 DEF LedgerStep, Ledger!LedgerNext
  <1>15. CASE Filling(st)
    <2>1. is = {st.i} /\ w.slot[st.i] = Filled(st.a) /\ Holds(db, st.a, st.i)
      BY <1>2, <1>15 DEF Phase
    <2>2. st.a \in Annotators /\ st.i \in Slots
      BY <1>2, <1>15 DEF Typed
    <2>3. PICK n \in LabelKeys : /\ DOMAIN w.label = {n} /\ db.label[n] = None
                                 /\ w.label[n] = Vote(st.i, st.a)
      BY <1>2, <1>15 DEF LabelsWritten
    <2>4. db'.label = [db.label EXCEPT ![n] = Vote(st.i, st.a)] /\ n \in DOMAIN db.label
      BY <1>4, <1>5, <2>3
    <2>5. db'.slot = [db.slot EXCEPT ![st.i] = Filled(st.a)]
      BY <1>4, <1>5, <2>1, <2>2
    <2>6. Ledger!Fill(st.a, st.i)
      BY <2>1, <2>3, <2>4, <2>5 DEF Ledger!Fill, Ledger!HeldBy, Holds, Filled, Vote
    <2> QED  BY <2>2, <2>6 DEF LedgerStep, Ledger!LedgerNext
  <1>16. CASE Deciding(st)
    <2>1. is = {} /\ ~Filling(st)
      BY <1>2, <1>16 DEF Phase, Deciding, Filling, Finalizing
    <2>2. db'.slot = db.slot
      BY <1>4, <1>5, <2>1
    <2> QED  BY <1>7, <2>1, <2>2 DEF LedgerStep
  <1>17. st.pc \in {"idle", "sweep", "submit", "skip", "fill"} => Clean(st.w)
    BY <1>2 DEF Phase
  <1>18. Clean(st.w) => is = {}
    BY DEF Clean
  <1>19. CASE st.pc \in {"idle", "sweep", "submit", "skip", "fill"}
    <2>1. db'.slot = db.slot
      BY <1>4, <1>5, <1>17, <1>18, <1>19
    <2> QED  BY <1>7, <1>19, <2>1 DEF Filling, Finalizing, LedgerStep
  <1>20. st.pc \in {"swept", "pick", "event", "look", "lease", "release", "idle", "sweep", "submit",
                    "skip", "fill"} \/ Filling(st) \/ Deciding(st)
    BY <1>1, <1>3 DEF Pcs, Filling, Deciding, Finalizing
  <1> QED  BY <1>11, <1>12, <1>13, <1>14, <1>15, <1>16, <1>19, <1>20

\* The valid labels in slot i.
Occupants(d, i) == {n \in LabelKeys : d.label[n] # None /\ d.label[n].valid /\ d.label[n].slot = i}

LEMMA OccupantsAre ==
  ASSUME NEW d \in Tables, NEW i \in Slots
  PROVE  {n \in Votes(d, UnitOf[i]) : d.label[n].slot = i} = Occupants(d, i)
  BY DEF Votes, Occupants, Tables

\* A step of the ledger that fills no slot keeps the labels, and leaves the filled slots.
SlotKept(i) ==
  /\ db'.label = db.label
  /\ (db.slot[i].status = "filled" \/ db'.slot[i].status = "filled")
       => db'.slot[i].status = db.slot[i].status /\ db'.slot[i].by = db.slot[i].by

LEMMA LedgerSlots ==
  ASSUME db \in Tables, db' \in Tables, LedgerStep, NEW i \in Slots,
         \A a \in Annotators, j \in Slots : ~Ledger!Fill(a, j)
  PROVE  SlotKept(i)
  <1> USE TransactionsAssumption
  <1>1. /\ db.slot \in [Slots -> SlotRow] /\ db'.slot \in [Slots -> SlotRow]
        /\ db.label \in [LabelKeys -> {None} \cup LabelRow]
        /\ db'.label \in [LabelKeys -> {None} \cup LabelRow]
    BY DEF Tables
  <1>2. Ledger!Open.status = "open"
    BY DEF Ledger!Open
  <1>3. ASSUME NEW is \in SUBSET Ledger!Lapsed, NEW k \in Slots
        PROVE  /\ Ledger!Reclaimed(is) \in [Slots -> {Ledger!Open} \cup SlotRow]
               /\ \/ Ledger!Reclaimed(is)[k] = db.slot[k]
                  \/ Ledger!Reclaimed(is)[k] = Ledger!Open /\ db.slot[k].status = "leased"
    BY <1>1 DEF Ledger!Reclaimed, Ledger!Lapsed
  <1>4. ASSUME Ledger!Reclaim
        PROVE  db'.label = db.label /\ (db'.slot[i] = db.slot[i] \/ (db.slot[i].status = "leased" /\ db'.slot[i].status = "open"))
    BY <1>2, <1>3, <1>4 DEF Ledger!Reclaim
  <1>5. ASSUME NEW a \in Annotators, NEW j \in Slots, Ledger!Lease(a, j)
        PROVE  /\ db'.label = db.label
               /\ \/ db'.slot[i] = db.slot[i]
                  \/ /\ db.slot[i].status \in {"open", "leased"}
                     /\ db'.slot[i].status \in {"open", "leased"}
    <2>1. PICK is \in SUBSET Ledger!Lapsed :
             /\ Ledger!Reclaimed(is)[j].status = "open"
             /\ db'.slot = [Ledger!Reclaimed(is) EXCEPT ![j] = Leased(a)] /\ db'.label = db.label
      BY <1>5 DEF Ledger!Lease, Leased
    <2>2. CASE i = j
      <3>1. db'.slot[i] = Leased(a)
        BY <1>3, <2>1, <2>2
      <3> QED  BY <1>3, <2>1, <2>2, <3>1 DEF Leased
    <2>3. CASE i # j
      <3>1. db'.slot[i] = Ledger!Reclaimed(is)[i]
        BY <1>3, <2>1, <2>3
      <3> QED  BY <1>2, <1>3, <2>1, <3>1
    <2> QED  BY <2>2, <2>3
  <1>6. ASSUME NEW a \in Annotators, NEW j \in Slots, Ledger!Resume(a, j)
        PROVE  /\ db'.label = db.label
               /\ \/ db'.slot[i] = db.slot[i]
                  \/ /\ db.slot[i].status \in {"open", "leased"}
                     /\ db'.slot[i].status \in {"open", "leased"}
    <2>1. PICK is \in SUBSET Ledger!Lapsed :
             /\ db.slot[j].status = "leased" /\ j \notin is
             /\ db'.slot = [Ledger!Reclaimed(is) EXCEPT ![j].expired = FALSE] /\ db'.label = db.label
      BY <1>6 DEF Ledger!Resume, Ledger!HeldBy
    <2> DEFINE row == [Ledger!Reclaimed(is)[j] EXCEPT !.expired = FALSE]
    <2>2. Ledger!Reclaimed(is)[j] = db.slot[j]
      BY <2>1 DEF Ledger!Reclaimed
    <2>3. db'.slot = [Ledger!Reclaimed(is) EXCEPT ![j] = row]
      BY <2>1
    <2>4. row = Leased(db.slot[j].by)
      BY <1>1, <2>1, <2>2, LeaseRenewed
    <2> HIDE DEF row
    <2>5. CASE i = j
      <3>1. db'.slot[i] = row
        BY <1>3, <2>3, <2>5
      <3> QED  BY <2>1, <2>4, <2>5, <3>1 DEF Leased
    <2>6. CASE i # j
      <3>1. db'.slot[i] = Ledger!Reclaimed(is)[i]
        BY <1>3, <2>3, <2>6
      <3> QED  BY <1>2, <1>3, <2>1, <3>1
    <2> QED  BY <2>5, <2>6
  <1>7. ASSUME NEW a \in Annotators, NEW j \in Slots, Ledger!Release(a, j)
         PROVE  db'.label = db.label /\ (db'.slot[i] = db.slot[i] \/ (db.slot[i].status = "leased" /\ db'.slot[i].status = "open"))
    BY <1>1, <1>2, <1>7 DEF Ledger!Release, Ledger!HeldBy
  <1>8. ASSUME NEW j \in Slots, Ledger!RunOut(j)
         PROVE  /\ db'.label = db.label
                /\ db'.slot[i].status = db.slot[i].status /\ db'.slot[i].by = db.slot[i].by
    <2>1. db'.slot = [db.slot EXCEPT ![j].expired = TRUE] /\ db'.label = db.label
      BY <1>8 DEF Ledger!RunOut
    <2> QED  BY <1>1, <2>1 DEF SlotRow
  <1>9. CASE UNCHANGED <<db.slot, db.label>>
    BY <1>9 DEF SlotKept
  <1>10. CASE Ledger!LedgerNext
    BY <1>1, <1>4, <1>5, <1>6, <1>7, <1>8, <1>10 DEF Ledger!LedgerNext, SlotKept
  <1> QED  BY <1>9, <1>10 DEF LedgerStep

\* A step of the ledger leaves the filled slots filled.
LEMMA FilledStays ==
  ASSUME db \in Tables, db' \in Tables, LedgerStep, NEW i \in Slots, db.slot[i].status = "filled"
  PROVE  db'.slot[i].status = "filled"
  <1>1. ASSUME NEW a \in Annotators, NEW j \in Slots, Ledger!Fill(a, j)
        PROVE  db'.slot[i].status = "filled"
    <2>1. db.slot[j].status = "leased" /\ db'.slot = [db.slot EXCEPT ![j] = Filled(a)]
      BY <1>1 DEF Ledger!Fill, Ledger!HeldBy, Filled
    <2> QED  BY <2>1 DEF Tables
  <1>2. CASE \A a \in Annotators, j \in Slots : ~Ledger!Fill(a, j)
    BY <1>2, LedgerSlots DEF SlotKept
  <1> QED  BY <1>1, <1>2

\* A step of the ledger keeps filled slots and valid labels one to one.
LEMMA LedgerFills ==
  ASSUME db \in Tables, db' \in Tables, LedgerStep, FilledByOneLabel
  PROVE  FilledByOneLabel'
  <1> USE TransactionsAssumption
  <1>1. /\ db.slot \in [Slots -> SlotRow] /\ db'.slot \in [Slots -> SlotRow]
        /\ db.label \in [LabelKeys -> {None} \cup LabelRow]
        /\ db'.label \in [LabelKeys -> {None} \cup LabelRow]
    BY DEF Tables
  <1>2. ASSUME NEW i \in Slots
        PROVE  IF db.slot[i].status = "filled"
               THEN \E n \in Occupants(db, i) : /\ Occupants(db, i) = {n}
                                                /\ db.label[n].by = db.slot[i].by
               ELSE Occupants(db, i) = {}
    BY OccupantsAre DEF FilledByOneLabel
  <1>3. SUFFICES ASSUME NEW i \in Slots
                 PROVE  IF db'.slot[i].status = "filled"
                        THEN \E n \in Occupants(db', i) : /\ Occupants(db', i) = {n}
                                                          /\ db'.label[n].by = db'.slot[i].by
                        ELSE Occupants(db', i) = {}
    BY OccupantsAre DEF FilledByOneLabel
  <1>4. CASE SlotKept(i)
    <2>1. Occupants(db', i) = Occupants(db, i) /\ db'.label = db.label
      BY <1>4 DEF Occupants, SlotKept
    <2>2. CASE db'.slot[i].status = "filled"
      <3>1. db.slot[i].status = "filled" /\ db'.slot[i].by = db.slot[i].by
        BY <1>4, <2>2 DEF SlotKept
      <3>2. PICK n \in Occupants(db, i) : /\ Occupants(db, i) = {n}
                                         /\ db.label[n].by = db.slot[i].by
        BY <1>2, <3>1
      <3> QED  BY <2>1, <2>2, <3>1, <3>2
    <2>3. CASE db'.slot[i].status # "filled"
      BY <1>2, <1>4, <2>1, <2>3 DEF SlotKept
    <2> QED  BY <2>2, <2>3
  <1>5. ASSUME NEW a \in Annotators, NEW j \in Slots, Ledger!Fill(a, j)
        PROVE  IF db'.slot[i].status = "filled"
               THEN \E n \in Occupants(db', i) : /\ Occupants(db', i) = {n}
                                                 /\ db'.label[n].by = db'.slot[i].by
               ELSE Occupants(db', i) = {}
    <2>1. /\ db.slot[j].status = "leased" /\ db'.slot = [db.slot EXCEPT ![j] = Filled(a)]
      BY <1>5 DEF Ledger!Fill, Ledger!HeldBy, Filled
    <2>2. PICK n \in LabelKeys : db.label[n] = None /\ db'.label = [db.label EXCEPT ![n] = Vote(j, a)]
      BY <1>1, <1>5 DEF Ledger!Fill, Vote
    <2>3. Vote(j, a) # None
      <3>1. Vote(j, a) \in LabelRow  BY DEF Vote, LabelRow
      <3>2. None \notin LabelRow  BY DEF LabelRow
      <3> QED  BY <3>1, <3>2
    <2>4. CASE i = j
      <3>1. Occupants(db, i) = {}
        BY <1>2, <2>1, <2>4
      <3>2. \A m \in LabelKeys : m # n => db'.label[m] = db.label[m]
        BY <1>1, <2>2
      <3>3. db'.label[n] = Vote(j, a)
        BY <1>1, <2>2
      <3>4. Occupants(db', i) = {n}
        BY <2>3, <2>4, <3>1, <3>2, <3>3 DEF Occupants, Vote
      <3>5. db'.slot[i] = Filled(a)
        BY <1>1, <2>1, <2>4
      <3> QED  BY <3>3, <3>4, <3>5 DEF Filled, Vote
    <2>5. CASE i # j
      <3>1. db'.slot[i] = db.slot[i]
        BY <1>1, <2>1, <2>5
      <3>2. \A m \in LabelKeys : m # n => db'.label[m] = db.label[m]
        BY <1>1, <2>2
      <3>3. db'.label[n].slot = j
        BY <1>1, <2>2 DEF Vote
      <3>4. Occupants(db', i) = Occupants(db, i)
        BY <2>2, <2>5, <3>2, <3>3 DEF Occupants
      <3>5. \A m \in Occupants(db, i) : db'.label[m] = db.label[m]
        BY <2>2, <3>2 DEF Occupants
      <3> QED  BY <1>2, <3>1, <3>4, <3>5
    <2> QED  BY <2>4, <2>5
  <1> QED  BY <1>4, <1>5, LedgerSlots

LEMMA IdleWrote ==
  ASSUME NEW d, NEW L, NEW s
  PROVE  Wrote(d, L, s, Idle)
  BY IdleRec DEF Wrote, LabelsWritten, FinalsWritten, Marked, RowRead, FinalsHeld, Clean, Filling, Finalizing

\* A commit: the rows of final_labels it writes are locked or new, and its marks backed.
LEMMA EndWrote ==
  ASSUME Inv, Inv', LedgerInv, NoVoids, NEW s \in Sessions, NEW w \in Writes,
         Commit(s, w), w.slot = ses[s].w.slot, w.label = ses[s].w.label,
         \A k \in DOMAIN w.final :
            /\ w.final[k] # None
            /\ db.final[k] # None =>
                  /\ RowKept(db.final[k], w.final[k])
                  /\ \A t \in Sessions \ {s} : ~Has(locks, t, <<"final", k>>, "update")
            /\ db.final[k] = None => k \in DOMAIN ses[s].w.final \/ k \in Fresh("final"),
         \A u \in DOMAIN w.unit : w.unit[u] = "finalized" =>
            \E k \in DOMAIN w.final : w.final[k].unit = u
  PROVE  Ledgered
  <1>1. /\ db' = Over(w) /\ ses' = [ses EXCEPT ![s] = Idle] /\ locks' = {l \in locks : l.by # s}
    BY DEF Commit, Close
  <1>2. db \in Tables /\ db' \in Tables /\ \A t \in Sessions : ses[t].w \in Writes
    BY SessionFacts DEF Inv
  <1>3. /\ \A t \in Sessions \ {s} : ses'[t] = ses[t]
        /\ ses'[s] = Idle
    BY <1>1 DEF Inv
  <1>4. /\ \A u \in Units : db'.unit[u] = IF u \in DOMAIN w.unit THEN w.unit[u] ELSE db.unit[u]
        /\ \A n \in LabelKeys : db'.label[n] = IF n \in DOMAIN w.label THEN w.label[n] ELSE db.label[n]
        /\ \A k \in FinalKeys : db'.final[k] = IF k \in DOMAIN w.final THEN w.final[k] ELSE db.final[k]
    BY <1>1, <1>2, OverRows
  <1>5. DOMAIN w.final \subseteq FinalKeys /\ DOMAIN db.final = FinalKeys /\ DOMAIN db'.final = FinalKeys
    BY <1>2, WriteFields DEF Tables
  <1>6. LedgerStep
    BY <1>1, CommitLedger
  <1>7. FilledByOneLabel'
    BY <1>2, <1>6, LedgerFills DEF LedgerInv
  <1>8. \A k \in FinalKeys : db.final[k] # None =>
           db'.final[k] # None /\ RowKept(db.final[k], db'.final[k])
    BY <1>4, ZenonT(40) DEF RowKept
  <1>9. FinalizedHasFinalLabel'
    <2> SUFFICES ASSUME NEW u \in Units, db'.unit[u] = "finalized"
                 PROVE  \E k \in FinalKeys : db'.final[k] # None /\ db'.final[k].unit = u
      BY <1>5 DEF FinalizedHasFinalLabel, FinalsOf
    <2>1. CASE u \in DOMAIN w.unit
      <3>1. w.unit[u] = "finalized"
        BY <1>4, <2>1
      <3>2. PICK k \in DOMAIN w.final : w.final[k].unit = u
        BY <2>1, <3>1
      <3>3. k \in FinalKeys /\ db'.final[k] = w.final[k] /\ w.final[k] # None
        BY <1>4, <1>5
      <3> QED  BY <3>2, <3>3
    <2>2. CASE u \notin DOMAIN w.unit
      <3>1. PICK k \in FinalKeys : db.final[k] # None /\ db.final[k].unit = u
        BY <1>4, <1>5, <2>2 DEF LedgerInv, FinalizedHasFinalLabel, FinalsOf
      <3> QED  BY <1>8, <3>1 DEF RowKept
    <2> QED  BY <2>1, <2>2
  <1>10. FinalsStay
    BY <1>8 DEF FinalsStay
  <1>11. FinalsApart'
    <2>1. DOMAIN Idle.w.final = {}
      BY IdleRec DEF Clean
    <2>2. \A t \in Sessions : DOMAIN ses[t].w.final \subseteq FinalKeys
      BY <1>2, WriteFields
    <2> QED  BY <1>3, <1>8, <2>1, <2>2 DEF LedgerInv, FinalsApart
  <1>12. Wrote(db', locks', s, Idle)
    BY IdleWrote
  <1>13. ASSUME NEW t \in Sessions \ {s} PROVE Wrote(db', locks', t, ses[t])
    <2>1. Wrote(db, locks, t, ses[t])
      BY DEF LedgerInv
    <2>2. /\ DOMAIN ses[t].w.label \subseteq LabelKeys /\ DOMAIN ses[t].w.final \subseteq FinalKeys
          /\ \A k \in DOMAIN ses[t].w.final : ses[t].w.final[k] \in {None} \cup FinalRow
      BY <1>2, WriteFields
    <2>3. \A n \in DOMAIN ses[t].w.label : db.label[n] = None => db'.label[n] = None
      <3>1. \A n \in DOMAIN ses[t].w.label : db.label[n] = None => n \notin DOMAIN w.label
        BY DEF Inv, KeysApart
      <3> QED  BY <1>4, <2>2, <3>1
    <2>4. LabelsWritten(db', ses[t])
      BY <2>1, <2>3 DEF Wrote, LabelsWritten
    <2>5. \A k \in DOMAIN ses[t].w.final : db'.final[k] = db.final[k]
      <3> SUFFICES ASSUME NEW k \in DOMAIN ses[t].w.final, k \in DOMAIN w.final PROVE FALSE
        BY <1>4, <2>2
      <3>1. CASE db.final[k] # None
        BY <2>1, <3>1 DEF Wrote, FinalsWritten
      <3>2. CASE db.final[k] = None
        BY <3>2 DEF LedgerInv, FinalsApart, Fresh
      <3> QED  BY <3>1, <3>2
    <2>6. \A on, mode : Has(locks', t, on, mode) <=> Has(locks, t, on, mode)
      BY <1>1 DEF Has
    <2>7. FinalsWritten(db', locks', t, ses[t].w)
      BY <2>1, <2>5, <2>6 DEF Wrote, FinalsWritten
    <2>8. RowRead(db', ses[t])
      <3>1. ses[t].row \in FinalKeys \cup {None}
        BY SessionFacts, RecFields
      <3> QED  BY <1>8, <2>1, <3>1 DEF Wrote, RowRead, RowKept
    <2> QED  BY <2>1, <2>4, <2>7, <2>8 DEF Wrote
  <1> QED  BY <1>3, <1>6, <1>7, <1>9, <1>10, <1>11, <1>12, <1>13 DEF Ledgered, LedgerInv

LEMMA RollbackWrote ==
  ASSUME Inv, LedgerInv, NEW s \in Sessions, Abort(s)
  PROVE  Ledgered
  <1>1. db' = db /\ ses' = [ses EXCEPT ![s] = Idle] /\ locks' = {l \in locks : l.by # s}
    BY DEF Abort, Close
  <1>2. Wrote(db, locks', s, Idle)
    BY IdleWrote
  <1>3. DOMAIN Idle.w.final = {}
    BY IdleRec DEF Clean
  <1> QED  BY <1>1, <1>2, <1>3, IdleRec, GoWrote

-----------------------------------------------------------------------------
(* Steps that write neither labels, nor final labels, nor marks.           *)

NoMarks(p, w) ==
  /\ p.label = w.label /\ p.final = w.final
  /\ \A u \in DOMAIN p.unit : p.unit[u] = "finalized" => u \in DOMAIN w.unit /\ w.unit[u] = "finalized"

Plain == Pcs \ (VoidPcs \cup {"find", "mark", "record", "quality"})

LEMMA PutSame ==
  ASSUME NEW w \in Writes, NEW ks, NEW row
  PROVE  /\ NoMarks(Put(w, "slot", ks, row), w)
         /\ Put(w, "unit", ks, row).label = w.label /\ Put(w, "unit", ks, row).final = w.final
         /\ Put(w, "unit", ks, row).slot = w.slot
  BY DEF Put, Writes, NoMarks

LEMMA PutPending ==
  ASSUME NEW w \in Writes, NEW u \in Units, NEW x \in UnitStatus, x # "finalized"
  PROVE  NoMarks(Put(w, "unit", {u}, x), w)
  <1> DEFINE p == Put(w, "unit", {u}, x)
  <1>1. IsPutUnit(p, w, u, x)
    BY PutUnit
  <1> HIDE DEF p
  <1>2. NoMarks(p, w)
    BY <1>1 DEF IsPutUnit, NoMarks
  <1> QED  BY <1>2 DEF p

LEMMA RecountMarks ==
  ASSUME NEW w \in Writes, NEW u \in Units, NEW seen \in Seen
  PROVE  NoMarks(Recount(w, u, seen, FALSE), w) /\ Recount(w, u, seen, FALSE).slot = w.slot
  <1> DEFINE x == Recomputed(Over(w), u, seen, FALSE)
  <1>1. x \in UnitStatus /\ (x = "finalized" => seen = "finalized")
    BY DEF Recomputed, Seen, UnitStatus
  <1>2. Recount(w, u, seen, FALSE) = IF x = seen THEN w ELSE Put(w, "unit", {u}, x)
    BY DEF Recount
  <1> HIDE DEF x
  <1>3. CASE x = seen
    BY <1>2, <1>3 DEF NoMarks
  <1>4. CASE x # seen
    <2>1. NoMarks(Put(w, "unit", {u}, x), w)
      BY <1>1, <1>4, PutPending
    <2>2. Put(w, "unit", {u}, x).slot = w.slot
      BY PutSame
    <2>3. Recount(w, u, seen, FALSE) = Put(w, "unit", {u}, x)
      BY <1>2, <1>4
    <2> QED  BY <2>1, <2>2, <2>3
  <1> QED  BY <1>3, <1>4

LEMMA StepWrote ==
  ASSUME Inv, Inv', LedgerInv, NEW s \in Sessions, NEW st, Go(s, st), \A l \in locks : l \in locks',
         ses[s].pc \in Plain, st.pc \in Plain, NoMarks(st.w, ses[s].w),
         ses[s].pc \in {"escalate", "route"} => st.pc \in {"escalate", "route"}
  PROVE  Ledgered
  <1>1. db' = db /\ ses' = [ses EXCEPT ![s] = st] /\ st \in SesRec
    BY DEF Go, Inv
  <1>2. Wrote(db, locks, s, ses[s])
    BY DEF LedgerInv
  <1>3. \A on, mode : Has(locks, s, on, mode) => Has(locks', s, on, mode)
    BY DEF Has
  <1>4. LabelsWritten(db, st)
    BY <1>2 DEF Wrote, LabelsWritten, Filling, Finalizing, Plain, NoMarks
  <1>5. FinalsWritten(db, locks', s, st.w)
    BY <1>2, <1>3 DEF Wrote, FinalsWritten, NoMarks
  <1>6. Marked(st)
    BY <1>2 DEF Wrote, Marked, NoMarks, Plain
  <1>7. Wrote(db, locks', s, st)
    BY <1>2, <1>4, <1>5, <1>6 DEF Wrote, RowRead, Plain, FinalsHeld, NoMarks, Deciding, Finalizing
  <1>8. \A k \in DOMAIN st.w.final : k \in DOMAIN ses[s].w.final
    BY DEF NoMarks
  <1> QED  BY <1>1, <1>7, <1>8, GoWrote

LEMMA BeginWrote ==
  ASSUME Inv, Inv', LedgerInv, NEW s \in Sessions, NEW st, Go(s, st), UNCHANGED locks,
         st.pc \in Plain \/ (st.pc = "find" /\ st.a = None), st.w = Idle.w
  PROVE  Ledgered
  <1>1. db' = db /\ ses' = [ses EXCEPT ![s] = st] /\ st \in SesRec
    BY DEF Go, Inv
  <1>2. Wrote(db, locks', s, st)
    BY IdleRec DEF Wrote, LabelsWritten, FinalsWritten, Marked, RowRead, FinalsHeld, Clean, Filling,
                   Finalizing, Plain
  <1>3. DOMAIN st.w.final = {}
    BY IdleRec DEF Clean
  <1> QED  BY <1>1, <1>2, <1>3, GoWrote

\* The commit of the rows written so far, units recounted apart.
LEMMA CloseWrote ==
  ASSUME Inv, Inv', LedgerInv, NoVoids, NEW s \in Sessions, NEW w \in Writes, Commit(s, w),
         ses[s].pc \in Plain \cup {"quality"}, NoMarks(w, ses[s].w), w.slot = ses[s].w.slot
  PROVE  Ledgered
  <1>1. Wrote(db, locks, s, ses[s])
    BY DEF LedgerInv
  <1>2. \A t \in Sessions \ {s} : \A on : Has(locks, s, on, "update") => ~Has(locks, t, on, "update")
    BY DEF Inv, LocksOK, Has, Clash
  <1>3. ASSUME NEW k \in DOMAIN w.final
        PROVE  /\ w.final[k] # None
               /\ db.final[k] # None =>
                     /\ RowKept(db.final[k], w.final[k])
                     /\ \A t \in Sessions \ {s} : ~Has(locks, t, <<"final", k>>, "update")
               /\ db.final[k] = None => k \in DOMAIN ses[s].w.final \/ k \in Fresh("final")
    BY <1>1, <1>2 DEF Wrote, FinalsWritten, NoMarks
  <1>4. \A u \in DOMAIN w.unit : w.unit[u] = "finalized" =>
           \E k \in DOMAIN w.final : w.final[k].unit = u
    BY <1>1 DEF Wrote, Marked, NoMarks, Plain
  <1> QED  BY <1>3, <1>4, EndWrote DEF NoMarks

LEMMA BeginsWrote ==
  ASSUME Inv, Inv', LedgerInv, NEW s \in Sessions,
         \/ \E a \in Annotators : \/ BeginNext(s, a)
                                  \/ \E i \in Slots : BeginSubmit(s, a, i) \/ BeginSkip(s, a, i)
         \/ BeginAvailable(s) \/ (\E u \in Units : BeginDecide(s, u)) \/ BeginRoute(s)
  PROVE  Ledgered
  <1>0. Idle \in SesRec /\ \A pc \in {"sweep", "submit", "skip", "route"} : pc \in Plain
    BY IdleRec DEF Plain, Pcs, VoidPcs
  <1>1. ASSUME NEW a \in Annotators, BeginNext(s, a) PROVE Ledgered
    <2> DEFINE st == [Idle EXCEPT !.pc = "sweep", !.a = a]
    <2>1. st.pc = "sweep" /\ st.w = Idle.w
      BY <1>0 DEF SesRec
    <2>2. Go(s, st) /\ UNCHANGED locks
      BY <1>1 DEF BeginNext
    <2> HIDE DEF st
    <2> QED  BY <1>0, <2>1, <2>2, BeginWrote
  <1>2. ASSUME NEW a \in Annotators, NEW i \in Slots, BeginSubmit(s, a, i) PROVE Ledgered
    <2> DEFINE st == [Idle EXCEPT !.pc = "submit", !.a = a, !.i = i, !.u = UnitOf[i]]
    <2>1. st.pc = "submit" /\ st.w = Idle.w
      BY <1>0 DEF SesRec
    <2>2. Go(s, st) /\ UNCHANGED locks
      BY <1>2 DEF BeginSubmit
    <2> HIDE DEF st
    <2> QED  BY <1>0, <2>1, <2>2, BeginWrote
  <1>3. ASSUME NEW a \in Annotators, NEW i \in Slots, BeginSkip(s, a, i) PROVE Ledgered
    <2> DEFINE st == [Idle EXCEPT !.pc = "skip", !.a = a, !.i = i, !.u = UnitOf[i]]
    <2>1. st.pc = "skip" /\ st.w = Idle.w
      BY <1>0 DEF SesRec
    <2>2. Go(s, st) /\ UNCHANGED locks
      BY <1>3 DEF BeginSkip
    <2> HIDE DEF st
    <2> QED  BY <1>0, <2>1, <2>2, BeginWrote
  <1>4. ASSUME BeginAvailable(s) PROVE Ledgered
    <2> DEFINE st == [Idle EXCEPT !.pc = "sweep"]
    <2>1. st.pc = "sweep" /\ st.w = Idle.w
      BY <1>0 DEF SesRec
    <2>2. Go(s, st) /\ UNCHANGED locks
      BY <1>4 DEF BeginAvailable
    <2> HIDE DEF st
    <2> QED  BY <1>0, <2>1, <2>2, BeginWrote
  <1>5. ASSUME NEW u \in Units, BeginDecide(s, u) PROVE Ledgered
    <2> DEFINE st == [Idle EXCEPT !.pc = "find", !.u = u, !.who = "human", !.seen[u] = db.unit[u]]
    <2>1. st.pc = "find" /\ st.a = None /\ st.w = Idle.w
      BY <1>0 DEF SesRec, Idle
    <2>2. Go(s, st) /\ UNCHANGED locks
      BY <1>5 DEF BeginDecide
    <2> HIDE DEF st
    <2> QED  BY <1>0, <2>1, <2>2, BeginWrote
  <1>6. ASSUME BeginRoute(s) PROVE Ledgered
    <2>1. PICK us, seen : Go(s, [Idle EXCEPT !.pc = "route", !.todo = us, !.seen = seen])
      BY <1>6 DEF BeginRoute
    <2> DEFINE st == [Idle EXCEPT !.pc = "route", !.todo = us, !.seen = seen]
    <2>2. st.pc = "route" /\ st.w = Idle.w
      BY <1>0 DEF SesRec
    <2>3. Go(s, st) /\ UNCHANGED locks
      BY <1>6, <2>1 DEF BeginRoute
    <2> HIDE DEF st
    <2> QED  BY <1>0, <2>2, <2>3, BeginWrote
  <1> QED  BY <1>1, <1>2, <1>3, <1>4, <1>5, <1>6

LEMMA SweepsWrote ==
  ASSUME Inv, Inv', LedgerInv, NoVoids, NEW s \in Sessions,
         Sweep(s) \/ (\E u \in Units : SweepUnit(s, u)) \/ CountWork(s)
  PROVE  Ledgered
  <1> DEFINE old == ses[s]
  <1>1. old \in SesRec /\ old.w \in Writes /\ db \in Tables
    BY SessionFacts
  <1>2. ASSUME Sweep(s) PROVE Ledgered
    <2>1. PICK is, st : /\ st = [old EXCEPT !.pc = "swept", !.todo = {UnitOf[i] : i \in is},
                                            !.w = Put(@, "slot", is, OpenSlot)]
                        /\ Go(s, st)
      BY <1>2 DEF Sweep
    <2>2. st.pc = "swept" /\ st.w = Put(old.w, "slot", is, OpenSlot)
      BY <1>1, <2>1 DEF SesRec
    <2>3. old.pc = "sweep" /\ \A l \in locks : l \in locks'
      BY <1>2 DEF Sweep, At
    <2>4. NoMarks(st.w, old.w)
      BY <1>1, <2>2, PutSame
    <2> QED  BY <2>1, <2>2, <2>3, <2>4, StepWrote DEF Plain, Pcs, VoidPcs
  <1>3. ASSUME NEW u \in Units, SweepUnit(s, u) PROVE Ledgered
    <2> DEFINE st == [old EXCEPT !.todo = @ \ {u}, !.w = Recount(@, u, db.unit[u], FALSE)]
    <2>1. Go(s, st) /\ old.pc = "swept" /\ \A l \in locks : l \in locks'
      BY <1>3 DEF SweepUnit, At, Lock
    <2>2. st.pc = "swept" /\ st.w = Recount(old.w, u, db.unit[u], FALSE)
      BY <1>1, <2>1 DEF SesRec
    <2>3. db.unit[u] \in Seen
      BY <1>1 DEF Tables, Seen
    <2> HIDE DEF st
    <2>4. NoMarks(st.w, old.w)
      BY <1>1, <2>2, <2>3, RecountMarks
    <2> QED  BY <2>1, <2>2, <2>4, StepWrote DEF Plain, Pcs, VoidPcs
  <1>4. ASSUME CountWork(s) PROVE Ledgered
    <2>1. Commit(s, old.w) /\ old.pc = "swept" /\ NoMarks(old.w, old.w)
      BY <1>4 DEF CountWork, At, NoMarks
    <2> QED  BY <1>1, <2>1, CloseWrote DEF Plain, Pcs, VoidPcs
  <1> QED  BY <1>2, <1>3, <1>4

LEMMA HandsOutWrote ==
  ASSUME Inv, Inv', LedgerInv, NoVoids, NEW s \in Sessions, Resume(s) \/ Pick(s)
  PROVE  Ledgered
  <1> DEFINE old == ses[s]
  <1>1. old \in SesRec /\ old.w \in Writes /\ old.pc \in {"swept", "pick"}
    BY SessionFacts DEF Resume, Pick, At
  <1>2. ASSUME Go(s, [old EXCEPT !.pc = "pick"]), UNCHANGED locks PROVE Ledgered
    <2> DEFINE st == [old EXCEPT !.pc = "pick"]
    <2>1. st.pc = "pick" /\ NoMarks(st.w, old.w)
      BY <1>1 DEF SesRec, NoMarks
    <2>2. Go(s, st)
      BY <1>2
    <2> HIDE DEF st
    <2> QED  BY <1>1, <1>2, <2>1, <2>2, StepWrote DEF Plain, Pcs, VoidPcs
  <1>3. ASSUME NEW pc \in {"event", "look"}, NEW i \in Slots, NEW row,
               Go(s, [old EXCEPT !.pc = pc, !.u = UnitOf[i], !.w = Put(@, "slot", {i}, row)]),
               Lock(s, <<"slot", i>>, "update")
        PROVE  Ledgered
    <2> DEFINE st == [old EXCEPT !.pc = pc, !.u = UnitOf[i], !.w = Put(@, "slot", {i}, row)]
    <2>1. st.pc = pc /\ st.w = Put(old.w, "slot", {i}, row)
      BY <1>1 DEF SesRec
    <2>2. Go(s, st) /\ \A l \in locks : l \in locks'
      BY <1>3 DEF Lock
    <2> HIDE DEF st
    <2>3. NoMarks(st.w, old.w)
      BY <1>1, <2>1, PutSame
    <2> QED  BY <1>1, <1>3, <2>1, <2>2, <2>3, StepWrote DEF Plain, Pcs, VoidPcs
  <1>4. ASSUME Commit(s, old.w) PROVE Ledgered
    <2>1. NoMarks(old.w, old.w)
      BY DEF NoMarks
    <2> QED  BY <1>1, <1>4, <2>1, CloseWrote DEF Plain, Pcs, VoidPcs
  <1>5. CASE Resume(s)
    BY <1>2, <1>3, <1>5 DEF Resume
  <1>6. CASE Pick(s)
    BY <1>3, <1>4, <1>6 DEF Pick, Candidates
  <1> QED  BY <1>5, <1>6

LEMMA LeasesWrote ==
  ASSUME Inv, Inv', LedgerInv, NoVoids, NEW s \in Sessions, LogResumed(s) \/ Look(s) \/ Lease(s)
  PROVE  Ledgered
  <1> DEFINE old == ses[s]
  <1>1. /\ old \in SesRec /\ old.w \in Writes /\ old.pc \in {"event", "look", "lease"} /\ db \in Tables
        /\ old.u \in Units
    BY SessionFacts DEF LogResumed, Look, Lease, At, SesInv, Typed
  <1>2. ASSUME Look(s) PROVE Ledgered
    <2> DEFINE x  == Over(old.w).unit[old.u]
               st == [old EXCEPT !.pc = "lease", !.seen[old.u] = x]
    <2>1. st.pc = "lease" /\ NoMarks(st.w, old.w)
      <3> HIDE DEF x
      <3> QED  BY <1>1 DEF SesRec, NoMarks
    <2>2. Go(s, st) /\ UNCHANGED locks
      BY <1>2 DEF Look
    <2> HIDE DEF st
    <2> QED  BY <1>1, <2>1, <2>2, StepWrote DEF Plain, Pcs, VoidPcs
  <1>3. ASSUME Commit(s, old.w) PROVE Ledgered
    <2>1. NoMarks(old.w, old.w)
      BY DEF NoMarks
    <2> QED  BY <1>1, <1>3, <2>1, CloseWrote DEF Plain, Pcs, VoidPcs
  <1>4. ASSUME Commit(s, Put(old.w, "unit", {old.u}, "in_progress")) PROVE Ledgered
    <2> DEFINE w == Put(old.w, "unit", {old.u}, "in_progress")
    <2>1. "in_progress" \in UnitStatus
      BY DEF UnitStatus
    <2>2. NoMarks(w, old.w) /\ w.slot = old.w.slot
      BY <1>1, <2>1, PutPending, PutSame
    <2>3. w \in Writes
      <3>1. IsPutUnit(w, old.w, old.u, "in_progress")
        BY <1>1, <2>1, PutUnit
      <3> QED  BY <3>1 DEF IsPutUnit
    <2>4. Commit(s, w)
      BY <1>4
    <2> HIDE DEF w
    <2> QED  BY <1>1, <2>2, <2>3, <2>4, CloseWrote DEF Plain, Pcs, VoidPcs
  <1> QED  BY <1>2, <1>3, <1>4 DEF LogResumed, Lease

LEMMA TakesWrote ==
  ASSUME Inv, Inv', LedgerInv, NoVoids, NEW s \in Sessions, TakeSlot(s) \/ Release(s)
  PROVE  Ledgered
  <1> DEFINE old == ses[s]
  <1>1. /\ old \in SesRec /\ old.w \in Writes /\ old.pc \in {"submit", "skip", "release"} /\ db \in Tables
        /\ old.i \in Slots /\ old.u = UnitOf[old.i]
    BY SessionFacts DEF TakeSlot, Release, At, SesInv, Typed
  <1>2. ASSUME Abort(s) PROVE Ledgered
    BY <1>2, RollbackWrote
  <1>3. ASSUME LockSlot(s), Go(s, [old EXCEPT !.pc = "fill"]) PROVE Ledgered
    <2> DEFINE st == [old EXCEPT !.pc = "fill"]
    <2>1. st.pc = "fill" /\ NoMarks(st.w, old.w)
      BY <1>1 DEF SesRec, NoMarks
    <2>2. Go(s, st) /\ \A l \in locks : l \in locks'
      BY <1>3 DEF LockSlot, Lock
    <2> HIDE DEF st
    <2> QED  BY <1>1, <2>1, <2>2, StepWrote DEF Plain, Pcs, VoidPcs
  <1>4. ASSUME LockSlot(s),
               Go(s, [old EXCEPT !.pc = "release", !.w = Put(@, "slot", {old.i}, OpenSlot)])
        PROVE  Ledgered
    <2> DEFINE st == [old EXCEPT !.pc = "release", !.w = Put(@, "slot", {old.i}, OpenSlot)]
    <2>1. st.pc = "release" /\ st.w = Put(old.w, "slot", {old.i}, OpenSlot)
      BY <1>1 DEF SesRec
    <2>2. Go(s, st) /\ \A l \in locks : l \in locks'
      BY <1>4 DEF LockSlot, Lock
    <2> HIDE DEF st
    <2>3. NoMarks(st.w, old.w)
      BY <1>1, <2>1, PutSame
    <2> QED  BY <1>1, <2>1, <2>2, <2>3, StepWrote DEF Plain, Pcs, VoidPcs
  <1>5. ASSUME Release(s) PROVE Ledgered
    <2> DEFINE w == Recount(old.w, old.u, db.unit[old.u], FALSE)
    <2>1. Commit(s, w)
      BY <1>5 DEF Release
    <2>2. old.u \in Units /\ db.unit[old.u] \in Seen
      BY <1>1, SlotUnits DEF Tables, Seen
    <2>3. NoMarks(w, old.w) /\ w.slot = old.w.slot
      BY <1>1, <2>2, RecountMarks
    <2>4. w \in Writes
      <3> HIDE DEF old
      <3>1. IsRecount(w, old.w, old.u, db.unit[old.u])
        BY <1>1, <2>2, RecountCases
      <3> QED  BY <3>1 DEF IsRecount
    <2> HIDE DEF w
    <2> QED  BY <1>1, <2>1, <2>3, <2>4, CloseWrote DEF Plain, Pcs, VoidPcs
  <1> QED  BY <1>2, <1>3, <1>4, <1>5 DEF TakeSlot

-----------------------------------------------------------------------------
(* Steps that do.                                                          *)

LEMMA FillWrote ==
  ASSUME Inv, Inv', LedgerInv, NoVoids, NEW s \in Sessions, Fill(s)
  PROVE  Ledgered
  <1> DEFINE old == ses[s]
             u   == old.u
             n   == CHOOSE m \in Fresh("label") : TRUE
             row == [slot |-> old.i, by |-> old.a, valid |-> TRUE]
             w1  == Put(old.w, "slot", {old.i}, Filled(old.a))
             w2  == Put(w1, "label", {n}, row)
             w   == Recount(w2, u, db.unit[u], FALSE)
             st  == [old EXCEPT !.pc = "quality", !.w = w]
  <1>1. old.pc = "fill"
    BY DEF Fill, At
  <1>2. CASE Abort(s)
    BY <1>2, RollbackWrote
  <1>3. CASE Fresh("label") # {} /\ Lock(s, <<"unit", u>>, "update") /\ Go(s, st)
    <2>1. /\ old \in SesRec /\ old.w \in Writes /\ db \in Tables
          /\ old.a \in Annotators /\ old.i \in Slots /\ u = UnitOf[old.i] /\ Clean(old.w)
      BY <1>1, SessionFacts DEF SesInv, Typed, Phase
    <2>2. u \in Units
      BY <2>1, TransactionsAssumption
    <2>3. db.unit[u] \in Seen
      BY <2>1, <2>2 DEF Tables, Seen
    <2>4. n \in LabelKeys /\ db.label[n] = None
      BY <1>3, <2>1 DEF Fresh, Tables
    <2>5. IsPutSlot(w1, old.w, {old.i}, Filled(old.a))
      <3>1. Filled(old.a) \in SlotRow /\ {old.i} \in SlotSets
        BY <2>1, TransactionsAssumption DEF Filled, SlotRow, SlotSets
      <3> HIDE DEF old
      <3> QED  BY <2>1, <3>1, PutSlot
    <2> HIDE DEF w1
    <2>6. IsPutLabel(w2, w1, n, row)
      <3>1. row \in LabelRow  BY <2>1 DEF LabelRow
      <3>2. w1 \in Writes  BY <2>5 DEF IsPutSlot
      <3> HIDE DEF row, n
      <3> QED  BY <2>4, <3>1, <3>2, PutLabel
    <2> HIDE DEF w2
    <2>7. NoMarks(w, w2)
      <3>1. w2 \in Writes  BY <2>6 DEF IsPutLabel
      <3> HIDE DEF u
      <3> QED  BY <2>2, <2>3, <3>1, RecountMarks
    <2> HIDE DEF w, n
    <2>8. st.pc = "quality" /\ st.a = old.a /\ st.i = old.i /\ st.w = w
      BY <2>1 DEF SesRec
    <2>9. Go(s, st) /\ \A l \in locks : l \in locks'
      BY <1>3 DEF Lock
    <2> HIDE DEF st
    <2>10. /\ DOMAIN w.label = {n} /\ w.label[n] = Vote(old.i, old.a)
           /\ DOMAIN w.final = {} /\ \A v \in DOMAIN w.unit : w.unit[v] # "finalized"
      BY <2>1, <2>5, <2>6, <2>7 DEF IsPutSlot, IsPutLabel, Clean, NoMarks, Vote
    <2>11. Wrote(db, locks', s, st)
      BY <2>4, <2>8, <2>10 DEF Wrote, LabelsWritten, FinalsWritten, Marked, RowRead, FinalsHeld, Filling, Finalizing
    <2>12. db' = db /\ ses' = [ses EXCEPT ![s] = st] /\ st \in SesRec
      BY <2>9 DEF Go, Inv
    <2> QED  BY <2>8, <2>9, <2>10, <2>11, <2>12, GoWrote
  <1> QED  BY <1>2, <1>3 DEF Fill, Filled, UnitLock

\* A request goes on to finalize a unit, with what it has written.
LEMMA FindsWrote ==
  ASSUME Inv, Inv', LedgerInv, NEW s \in Sessions, NEW st, Go(s, st), UNCHANGED locks,
         ses[s].pc \in {"quality", "route"}, st.pc = "find",
         st.a = ses[s].a, st.i = ses[s].i, st.w = ses[s].w
  PROVE  Ledgered
  <1> DEFINE old == ses[s]
  <1>1. db' = db /\ ses' = [ses EXCEPT ![s] = st] /\ st \in SesRec
    BY DEF Go, Inv
  <1>2. Wrote(db, locks, s, old) /\ Typed(db, old)
    BY SessionFacts DEF LedgerInv, SesInv
  <1>3. (Filling(st) <=> Filling(old)) /\ (Deciding(st) <=> Deciding(old))
    <2>1. CASE old.pc = "quality"
      BY <1>2, <2>1, TransactionsAssumption DEF Typed, Filling, Deciding, Finalizing
    <2>2. CASE old.pc = "route"
      BY <1>2, <2>2 DEF Typed, Filling, Deciding, Finalizing
    <2> QED  BY <2>1, <2>2
  <1>4. Wrote(db, locks', s, st)
    BY <1>2, <1>3 DEF Wrote, LabelsWritten, FinalsWritten, Marked, RowRead, FinalsHeld
  <1> QED  BY <1>1, <1>4, GoWrote

\* A decision is on its way: a final label of the unit has been read, or none.
LEMMA DecidesWrote ==
  ASSUME Inv, Inv', LedgerInv, NEW s \in Sessions, NEW st, Go(s, st), UNCHANGED locks,
         ses[s].pc = "find", st.pc \in {"mark", "record"},
         st.a = ses[s].a, st.i = ses[s].i,
         IsFinalized(st.w, ses[s].w, st.u), st.row \in SomeFinal(Over(ses[s].w), st.u)
  PROVE  Ledgered
  <1> DEFINE old == ses[s]
  <1>1. db' = db /\ ses' = [ses EXCEPT ![s] = st] /\ st \in SesRec
    BY DEF Go, Inv
  <1>2. Wrote(db, locks, s, old) /\ old.w \in Writes /\ db \in Tables
    BY SessionFacts DEF LedgerInv
  <1>3. st.w.label = old.w.label /\ st.w.final = old.w.final
    BY DEF IsFinalized
  <1>4. LabelsWritten(db, st) /\ FinalsHeld(st)
    BY <1>2, <1>3 DEF Wrote, LabelsWritten, FinalsHeld, Filling, Deciding, Finalizing
  <1>5. FinalsWritten(db, locks', s, st.w)
    BY <1>2, <1>3 DEF Wrote, FinalsWritten
  <1>6. Marked(st)
    <2>1. \A u \in DOMAIN old.w.unit : old.w.unit[u] = "finalized" =>
             \E k \in DOMAIN old.w.final : old.w.final[k].unit = u
      BY <1>2 DEF Wrote, Marked
    <2> QED  BY <1>3, <2>1 DEF Marked, IsFinalized
  <1>7. RowRead(db, st)
    <2>1. CASE st.row = None
      BY <2>1 DEF RowRead
    <2>2. CASE st.row # None
      <3>1. Over(old.w) \in Tables
            /\ \A k \in FinalKeys : Over(old.w).final[k] = IF k \in DOMAIN old.w.final
                                                           THEN old.w.final[k] ELSE db.final[k]
        BY <1>2, OverRows
      <3>2. st.row \in FinalKeys
        BY <1>1, <2>2, RecFields
      <3>3. Over(old.w).final[st.row] # None /\ Over(old.w).final[st.row].unit = st.u
        BY <2>2 DEF SomeFinal, FinalsOf
      <3> QED  BY <1>3, <3>1, <3>2, <3>3 DEF RowRead
    <2> QED  BY <2>1, <2>2
  <1>8. Wrote(db, locks', s, st)
    BY <1>4, <1>5, <1>6, <1>7 DEF Wrote
  <1> QED  BY <1>1, <1>3, <1>8, GoWrote

LEMMA QualityWrote ==
  ASSUME Inv, Inv', LedgerInv, NoVoids, NEW s \in Sessions, Quality(s)
  PROVE  Ledgered
  <1> DEFINE old == ses[s]
             u   == old.u
             seen == Over(old.w).unit[u]
  <1>1. old.pc = "quality"
    BY DEF Quality, At
  <1>2. /\ old \in SesRec /\ old.w \in Writes /\ db \in Tables /\ u \in Units
    BY <1>1, SessionFacts, SlotUnits DEF SesInv, Typed, Filling
  <1>3. ASSUME Commit(s, old.w) PROVE Ledgered
    <2>1. NoMarks(old.w, old.w)
      BY DEF NoMarks
    <2> QED  BY <1>1, <1>2, <1>3, <2>1, CloseWrote
  <1>4. ASSUME UNCHANGED locks, Go(s, ToFinalize(s, u, seen)) PROVE Ledgered
    <2>1. seen \in Seen
      <3>1. Over(old.w) \in Tables
        BY <1>2, OverRows
      <3> QED  BY <1>2, <3>1 DEF Tables, Seen
    <2> HIDE DEF seen, u
    <2>2. PICK st : st = ToFinalize(s, u, seen)
      OBVIOUS
    <2>3. st.pc = "find" /\ st.a = old.a /\ st.i = old.i /\ st.w = old.w
      BY <1>2, <2>1, <2>2, ToFinalizeFields
    <2> QED  BY <1>1, <1>4, <2>2, <2>3, FindsWrote
  <1> QED  BY <1>3, <1>4 DEF Quality

LEMMA FindFinalWrote ==
  ASSUME Inv, Inv', LedgerInv, NEW s \in Sessions, FindFinal(s)
  PROVE  Ledgered
  <1>1. ses[s].pc = "find" /\ UNCHANGED locks
    BY DEF FindFinal, At
  <1>2. PICK st \in SesRec :
          /\ Go(s, st) /\ st.pc \in {"mark", "record"}
          /\ st.a = ses[s].a /\ st.i = ses[s].i /\ st.u = ses[s].u
          /\ st.row \in SomeFinal(Over(ses[s].w), ses[s].u)
          /\ IsFinalized(st.w, ses[s].w, st.u)
    BY FindFinalFields
  <1> QED  BY <1>1, <1>2, DecidesWrote

LEMMA WriteUnitWrote ==
  ASSUME Inv, Inv', LedgerInv, NoVoids, NEW s \in Sessions, WriteUnit(s)
  PROVE  Ledgered
  <1> DEFINE old == ses[s]
             pc  == IF old.pc = "mark" THEN "record" ELSE "route"
             st  == [old EXCEPT !.pc = pc]
  <1>1. old.pc \in {"mark", "escalate"} /\ Go(s, st) /\ \A l \in locks : l \in locks'
    BY DEF WriteUnit, Lock
  <1>2. old \in SesRec /\ (old.pc = "escalate" => old.a = None)
    BY <1>1, SessionFacts DEF SesInv, Typed
  <1>3. pc = IF old.pc = "mark" THEN "record" ELSE "route"
    OBVIOUS
  <1> HIDE DEF pc
  <1>4. /\ st.pc = pc /\ st.a = old.a /\ st.i = old.i /\ st.u = old.u
        /\ st.row = old.row /\ st.w = old.w
    BY <1>2 DEF SesRec
  <1> HIDE DEF st
  <1>5. CASE old.pc = "escalate"
    BY <1>1, <1>3, <1>4, <1>5, StepWrote DEF Plain, Pcs, VoidPcs, NoMarks
  <1>6. CASE old.pc = "mark"
    <2>1. db' = db /\ ses' = [ses EXCEPT ![s] = st] /\ st \in SesRec
      BY <1>1 DEF Go, Inv
    <2>2. Wrote(db, locks, s, old)
      BY DEF LedgerInv
    <2>3. \A on, mode : Has(locks, s, on, mode) => Has(locks', s, on, mode)
      BY <1>1 DEF Has
    <2>4. Wrote(db, locks', s, st)
      BY <1>2, <1>3, <1>4, <1>6, <2>2, <2>3
         DEF Wrote, LabelsWritten, FinalsWritten, Marked, RowRead, FinalsHeld, Filling, Deciding, Finalizing
    <2> QED  BY <1>1, <1>4, <2>1, <2>4, GoWrote
  <1> QED  BY <1>1, <1>5, <1>6

LEMMA RouteNextWrote ==
  ASSUME Inv, Inv', LedgerInv, NoVoids, NEW s \in Sessions, RouteNext(s)
  PROVE  Ledgered
  <1> DEFINE old == ses[s]
  <1>1. old.pc = "route"
    BY DEF RouteNext, At
  <1>2. old \in SesRec /\ old.w \in Writes /\ old.a = None /\ old.todo \subseteq Units
    BY <1>1, SessionFacts DEF SesInv, Typed
  <1>3. CASE Commit(s, old.w)
    <2>1. NoMarks(old.w, old.w)
      BY DEF NoMarks
    <2> QED  BY <1>1, <1>2, <1>3, <2>1, CloseWrote DEF Plain, Pcs, VoidPcs
  <1>4. CASE ~Commit(s, old.w)
    <2>1. PICK st \in SesRec : /\ UNCHANGED locks /\ Go(s, st) /\ st.pc \in {"route", "escalate", "find"}
                               /\ st.a = old.a /\ st.i = old.i /\ st.w = old.w
      BY <1>2, <1>4, RouteNextFields
    <2>2. NoMarks(st.w, old.w)
      BY <2>1 DEF NoMarks
    <2>3. CASE st.pc = "find"
      BY <1>1, <2>1, <2>3, FindsWrote
    <2>4. CASE st.pc # "find"
      BY <1>1, <2>1, <2>2, <2>4, StepWrote DEF Plain, Pcs, VoidPcs
    <2> QED  BY <2>3, <2>4
  <1> QED  BY <1>3, <1>4

\* The row a decision writes: new, or the committed one with its unit kept.
LEMMA RecordedIs ==
  ASSUME Inv, LedgerInv, NEW s \in Sessions, ses[s].pc = "record",
         IF ses[s].row = None THEN Fresh("final") # {} ELSE db.final[ses[s].row] # None,
         NEW w \in Recorded(s)
  PROVE  \E f \in FinalKeys, r \in FinalRow :
            /\ IsPutFinal(w, ses[s].w, f, r) /\ r.unit = ses[s].u
            /\ IF ses[s].row = None THEN f \in Fresh("final") /\ r.method = ses[s].who
               ELSE /\ f = ses[s].row /\ db.final[f] # None /\ RowKept(db.final[f], r)
                    /\ r.method \in Methods(s)
  <1> DEFINE old == ses[s]
  <1>1. old.u \in Units
    BY SessionFacts DEF SesInv, Typed
  <1>2. PICK f \in FinalKeys, r \in FinalRow :
          /\ IsPutFinal(w, old.w, f, r) /\ r.unit = old.u
          /\ IF old.row = None THEN f \in Fresh("final") /\ r.method = old.who
             ELSE f = old.row /\ r.method \in Methods(s)
    BY <1>1, RecordedCases
  <1>3. old.row # None => RowKept(db.final[old.row], r)
    <2>1. Wrote(db, locks, s, old)
      BY DEF LedgerInv
    <2> QED  BY <1>2, <2>1 DEF Wrote, RowRead, FinalsWritten, RowKept
  <1> QED  BY <1>2, <1>3

LEMMA RecordWrote ==
  ASSUME Inv, Inv', LedgerInv, NoVoids, NEW s \in Sessions, Record(s)
  PROVE  Ledgered
  <1> DEFINE old == ses[s]
  <1>1. old.pc = "record"
    BY DEF Record, At
  <1>2. old \in SesRec /\ old.w \in Writes /\ db \in Tables /\ Wrote(db, locks, s, old)
    BY SessionFacts DEF LedgerInv
  <1>3. CASE Abort(s)
    BY <1>3, RollbackWrote
  <1>4. ASSUME ~(old.row # None /\ db.final[old.row] = None), NEW w \in Recorded(s),
               IF old.todo = {} THEN Commit(s, w)
               ELSE /\ IF old.row = None THEN UNCHANGED locks ELSE Lock(s, <<"final", old.row>>, "update")
                    /\ Go(s, [old EXCEPT !.pc = "route", !.w = w])
        PROVE  Ledgered
    <2>1. PICK f \in FinalKeys, r \in FinalRow :
            /\ IsPutFinal(w, old.w, f, r) /\ r.unit = old.u
            /\ IF old.row = None THEN f \in Fresh("final")
               ELSE f = old.row /\ db.final[f] # None /\ RowKept(db.final[f], r)
      BY <1>1, <1>4, RecordedIs DEF Record
    <2>2. /\ w \in Writes /\ w.slot = old.w.slot /\ w.unit = old.w.unit /\ w.label = old.w.label
          /\ DOMAIN w.final = DOMAIN old.w.final \cup {f} /\ w.final[f] = r
          /\ \A k \in DOMAIN old.w.final \ {f} : w.final[k] = old.w.final[k]
      BY <2>1 DEF IsPutFinal
    <2>3. r # None
      <3>1. None \notin FinalRow  BY TransactionsAssumption DEF FinalRow
      <3> QED  BY <3>1
    <2>4. f \in Fresh("final") => db.final[f] = None /\ \A t \in Sessions : f \notin DOMAIN ses[t].w.final
      BY DEF Fresh
    <2>5. old.row # None =>
            \A t \in Sessions \ {s} : ~Has(locks, t, <<"final", old.row>>, "update")
      BY DEF Record, Free, Blockers, Has, Clash
    <2>6. \A k \in DOMAIN old.w.final : w.final[k].unit = old.w.final[k].unit
      <3>1. f \in DOMAIN old.w.final => r.unit = old.w.final[f].unit
        BY <1>2, <2>1, <2>4 DEF Wrote, FinalsWritten, RowKept
      <3> QED  BY <2>2, <3>1
    <2>7. \A u \in DOMAIN w.unit : w.unit[u] = "finalized" =>
             \E k \in DOMAIN w.final : w.final[k].unit = u
      BY <1>2, <2>1, <2>2, <2>6 DEF Wrote, Marked
    <2>8. \A k \in DOMAIN w.final :
            /\ w.final[k] # None
            /\ db.final[k] # None => RowKept(db.final[k], w.final[k])
            /\ db.final[k] # None => Has(locks, s, <<"final", k>>, "update") \/ k = old.row
            /\ db.final[k] = None => k \in DOMAIN old.w.final \/ k \in Fresh("final")
      BY <1>2, <2>1, <2>2, <2>3, <2>4 DEF Wrote, FinalsWritten
    <2>9. ASSUME Commit(s, w) PROVE Ledgered
      <3>1. \A t \in Sessions \ {s} : \A on : Has(locks, s, on, "update") => ~Has(locks, t, on, "update")
        BY DEF Inv, LocksOK, Has, Clash
      <3>2. \A k \in DOMAIN w.final : db.final[k] # None =>
               \A t \in Sessions \ {s} : ~Has(locks, t, <<"final", k>>, "update")
        <4>1. None \notin FinalKeys
          BY TransactionsAssumption DEF FinalKeys
        <4>2. DOMAIN w.final \subseteq FinalKeys
          BY <2>2, WriteFields
        <4> QED  BY <2>5, <2>8, <3>1, <4>1, <4>2
      <3> HIDE DEF old
      <3> QED  BY <2>2, <2>7, <2>8, <2>9, <3>2, EndWrote DEF old
    <2>10. ASSUME old.todo # {},
                  IF old.row = None THEN UNCHANGED locks ELSE Lock(s, <<"final", old.row>>, "update"),
                  Go(s, [old EXCEPT !.pc = "route", !.w = w])
           PROVE  Ledgered
      <3> DEFINE st == [old EXCEPT !.pc = "route", !.w = w]
      <3>1. st.pc = "route" /\ st.w = w
        BY <1>2 DEF SesRec
      <3>2. Go(s, st) /\ \A l \in locks : l \in locks'
        BY <2>10 DEF Lock
      <3> HIDE DEF st
      <3>3. ~Filling(old) /\ ~Filling(st)
        BY <1>1, <2>10, <3>1, SessionFacts DEF SesInv, Phase, Filling, Finalizing
      <3>4. LabelsWritten(db, st) /\ FinalsHeld(st)
        BY <1>2, <2>2, <3>1, <3>3 DEF Wrote, LabelsWritten, FinalsHeld, Deciding
      <3>5. FinalsWritten(db, locks', s, w)
        <4>1. \A on, mode : Has(locks, s, on, mode) => Has(locks', s, on, mode)
          BY <3>2 DEF Has
        <4>2. old.row # None => Has(locks', s, <<"final", old.row>>, "update")
          BY <2>10 DEF Lock, Has
        <4>3. None \notin FinalKeys
          BY TransactionsAssumption DEF FinalKeys
        <4>4. DOMAIN w.final \subseteq FinalKeys
          BY <2>2, WriteFields
        <4> QED  BY <2>8, <4>1, <4>2, <4>3, <4>4 DEF FinalsWritten
      <3>6. Marked(st) /\ RowRead(db, st)
        BY <2>7, <3>1 DEF Marked, RowRead
      <3>7. Wrote(db, locks', s, st)
        BY <3>1, <3>4, <3>5, <3>6 DEF Wrote
      <3>8. db' = db /\ ses' = [ses EXCEPT ![s] = st] /\ st \in SesRec
        BY <3>2 DEF Go, Inv
      <3>9. \A k \in DOMAIN st.w.final :
               k \in DOMAIN ses[s].w.final \/ db.final[k] # None \/ k \in Fresh("final")
        BY <2>8, <3>1
      <3> QED  BY <3>2, <3>7, <3>8, <3>9, GoWrote
    <2> QED  BY <1>4, <2>9, <2>10
  <1> QED  BY <1>3, <1>4 DEF Record

\* Time alone marks a lease as run out and touches nothing else.
LEMMA RunOutWrote ==
  ASSUME Inv, Inv', LedgerInv, NEW i \in Slots, LeaseRunsOut(i)
  PROVE  Ledgered
  <1>1. db' = [db EXCEPT !.slot[i].expired = TRUE] /\ UNCHANGED <<ses, locks>>
    BY DEF LeaseRunsOut
  <1>2. db \in Tables /\ db' \in Tables
    BY DEF Inv
  <1>3. /\ db'.slot = [db.slot EXCEPT ![i].expired = TRUE]
        /\ db'.unit = db.unit /\ db'.label = db.label /\ db'.final = db.final
    BY <1>1, <1>2 DEF Tables
  <1>4. Ledger!RunOut(i)
    BY <1>3 DEF LeaseRunsOut, Ledger!RunOut
  <1>5. LedgerStep
    BY <1>4 DEF LedgerStep, Ledger!LedgerNext
  <1>6. FilledByOneLabel'
    BY <1>2, <1>5, LedgerFills DEF LedgerInv
  <1>7. FinalizedHasFinalLabel' /\ FinalsApart' /\ FinalsStay
    BY <1>1, <1>3 DEF LedgerInv, FinalizedHasFinalLabel, FinalsApart, FinalsStay, FinalsOf, RowKept
  <1>8. \A s \in Sessions : Wrote(db', locks', s, ses'[s])
    BY <1>1, <1>3 DEF LedgerInv, Wrote, LabelsWritten, FinalsWritten, Marked, RowRead, FinalsHeld
  <1> QED  BY <1>5, <1>6, <1>7, <1>8 DEF Ledgered, LedgerInv

LEMMA NoVoidSteps ==
  ASSUME Inv, NoVoids, NEW s \in Sessions
  PROVE  /\ \A u \in Units : ~BeginVoid(s, u)
         /\ ~ReadLabels(s) /\ ~FindSlots(s) /\ \A i \in Slots : ~ReopenSlot(s, i)
         /\ ~Unwind(s) /\ ~DeleteFinal(s) /\ ~Demote(s) /\ ~Settle(s)
  <1>1. ses[s].pc \notin VoidPcs
    BY SessionFacts DEF SesInv, Typed, NoVoids
  <1> QED  BY <1>1 DEF NoVoids, BeginVoid, ReadLabels, FindSlots, ReopenSlot, Unwind, DeleteFinal,
                       Demote, Settle, At, VoidPcs

LEMMA InitLedger ==
  Init => LedgerInv /\ Ledger!LedgerInit
  <1> SUFFICES ASSUME Init PROVE LedgerInv /\ Ledger!LedgerInit
    OBVIOUS
  <1> USE TransactionsAssumption
  <1>1. /\ db = [slot  |-> [i \in Slots |-> OpenSlot], unit  |-> [u \in Units |-> "pending"],
                 label |-> [n \in LabelKeys |-> None], final |-> [f \in FinalKeys |-> None]]
        /\ ses = [s \in Sessions |-> Idle]
    BY DEF Init, LabelKeys, FinalKeys
  <1>2. /\ db.slot = [i \in Slots |-> OpenSlot] /\ db.unit = [u \in Units |-> "pending"]
        /\ db.label = [n \in LabelKeys |-> None]
    BY <1>1
  <1>3. OpenSlot.status = "open" /\ OpenSlot = Ledger!Open
    BY DEF OpenSlot, Ledger!Open
  <1>4. FilledByOneLabel
    BY <1>2, <1>3 DEF FilledByOneLabel, Votes
  <1>5. FinalizedHasFinalLabel
    BY <1>2 DEF FinalizedHasFinalLabel
  <1>6. FinalsApart
    BY <1>1, IdleRec DEF FinalsApart, Clean
  <1>7. \A s \in Sessions : Wrote(db, locks, s, ses[s])
    BY <1>1, IdleWrote
  <1>8. Ledger!LedgerInit
    BY <1>2, <1>3 DEF Ledger!LedgerInit
  <1> QED  BY <1>4, <1>5, <1>6, <1>7, <1>8 DEF LedgerInv

LEMMA LedgerKeeps ==
  ASSUME NoVoids
  PROVE  Inv /\ LedgerInv /\ [Next]_vars => Inv' /\ Ledgered
  <1> SUFFICES ASSUME Inv, LedgerInv, [Next]_vars PROVE Inv' /\ Ledgered
    OBVIOUS
  <1>0. Inv'
    BY NextKeeps
  <1>1. ASSUME NEW s \in Sessions, WorkerStep(s) PROVE Ledgered
    <2>1. CASE \/ \E a \in Annotators : \/ BeginNext(s, a)
                                        \/ \E i \in Slots : BeginSubmit(s, a, i) \/ BeginSkip(s, a, i)
               \/ BeginAvailable(s)
      BY <1>0, <2>1, BeginsWrote
    <2>2. CASE Sweep(s) \/ (\E u \in Units : SweepUnit(s, u)) \/ CountWork(s)
      BY <1>0, <2>2, SweepsWrote
    <2>3. CASE Resume(s) \/ LogResumed(s) \/ Pick(s) \/ Look(s) \/ Lease(s)
      BY <1>0, <2>3, HandsOutWrote, LeasesWrote
    <2>4. CASE TakeSlot(s) \/ Release(s) \/ Fill(s) \/ Quality(s) \/ FindFinal(s) \/ Record(s)
      BY <1>0, <2>4, TakesWrote, FillWrote, QualityWrote, FindFinalWrote, RecordWrote
    <2> QED  BY <1>1, <2>1, <2>2, <2>3, <2>4 DEF WorkerStep
  <1>2. ASSUME NEW s \in Sessions, StaffStep(s) PROVE Ledgered
    <2>1. CASE (\E u \in Units : BeginDecide(s, u)) \/ BeginRoute(s)
      BY <1>0, <2>1, BeginsWrote
    <2>2. CASE WriteUnit(s) \/ RouteNext(s)
      BY <1>0, <2>2, WriteUnitWrote, RouteNextWrote
    <2> QED  BY <1>2, <2>1, <2>2, NoVoidSteps DEF StaffStep
  <1>3. ASSUME NEW s \in Sessions, Rollback(s) PROVE Ledgered
    BY <1>3, RollbackWrote DEF Rollback
  <1>4. ASSUME NEW i \in Slots, LeaseRunsOut(i) PROVE Ledgered
    BY <1>0, <1>4, RunOutWrote
  <1>5. CASE UNCHANGED vars
    <2>1. UNCHANGED <<db, ses, locks>>
      BY <1>5 DEF vars
    <2>2. LedgerInv'
      BY <2>1, SMTT(30) DEF LedgerInv, FilledByOneLabel, FinalizedHasFinalLabel, FinalsApart, FinalsOf, Votes,
                  Wrote, LabelsWritten, FinalsWritten, Marked, RowRead, FinalsHeld
    <2>3. FinalsStay /\ LedgerStep
      BY <2>1 DEF FinalsStay, LedgerStep, RowKept
    <2> QED  BY <1>0, <2>2, <2>3 DEF Ledgered
  <1>6. Ledgered
    BY <1>1, <1>2, <1>3, <1>4, <1>5 DEF Next
  <1> QED  BY <1>0, <1>6

LEMMA AlwaysLedger ==
  ASSUME NoVoids
  PROVE  Spec => [](Inv /\ LedgerInv) /\ [][LedgerStep]_vars
  <1>1. Ledgered => LedgerInv' /\ LedgerStep
    BY DEF Ledgered
  <1>2. Init => Inv /\ LedgerInv
    BY InitInv, InitLedger
  <1>3. Inv /\ LedgerInv /\ [Next]_vars => (Inv /\ LedgerInv)' /\ LedgerStep
    BY <1>1, LedgerKeeps
  <1>4. Spec => [](Inv /\ LedgerInv)
    BY <1>2, <1>3, PTL DEF Spec
  <1> QED  BY <1>3, <1>4, PTL DEF Spec

\* The committed rows agree with each other whatever requests of workers and reviewers
\* overlap: slots are written under their own lock, every filled slot has exactly its
\* holder's valid label (submit_label's recheck after its wait, engine.py), no full unit
\* goes unnoticed, and a finalized unit has a final label (finalize_unit, merge/finalize.py).
THEOREM RowsAgreeTheorem ==
  ASSUME NoVoids
  PROVE  Spec => []RowsAgree
  <1>1. ASSUME Inv, LedgerInv PROVE RowsAgree
    <2>1. db \in Tables /\ LocksOK
      BY <1>1 DEF Inv
    <2>2. DOMAIN db.final = FinalKeys
      BY <2>1 DEF Tables
    <2>3. locks \subseteq [by : Sessions, on : Resources, mode : Modes]
      BY <2>1, <2>2 DEF LocksOK, Resources
    <2>4. /\ \A i \in Slots : db.slot[i] \in SlotRow
          /\ db.unit \in [Units -> UnitStatus]
          /\ \A n \in LabelKeys : db.label[n] \in {None} \cup LabelRow
          /\ \A f \in FinalKeys : db.final[f] \in {None} \cup FinalRow
      BY <2>1 DEF Tables
    <2>5. TypeOK
      BY <2>3, <2>4 DEF TypeOK, SlotRow, UnitStatus, LabelRow, FinalRow, LabelKeys, FinalKeys
    <2>6. ExclusiveLocks
      <3>1. \A l \in locks : l.by \in Sessions /\ ~At(l.by, "idle")
        <4>1. \A l \in locks : l.by \in Sessions
          BY <2>1 DEF LocksOK
        <4>2. \A s \in Sessions : \A l \in locks : l.by = s => ses[s].pc # "idle"
          BY <1>1 DEF Inv, SesInv
        <4> QED  BY <4>1, <4>2 DEF At
      <3>2. \A s \in Sessions : Guarded(locks, s, ses[s].w)
        BY <1>1 DEF Inv, SesInv
      <3> QED  BY <2>1, <3>1, <3>2 DEF ExclusiveLocks, LocksOK, Guarded, Has
    <2> QED  BY <1>1, <2>5, <2>6 DEF RowsAgree, Inv, LedgerInv
  <1> QED  BY <1>1, AlwaysLedger, PTL

\* The statements of overlapping requests amount to requests granted one at a time: every
\* commit changes the slots and labels tables as one step of SlotLedger.
THEOREM GrantedTheorem ==
  ASSUME NoVoids
  PROVE  Spec => GrantedAtOnce
  <1>1. Init => Ledger!LedgerInit
    BY InitLedger
  <1>2. [LedgerStep]_vars => [Ledger!LedgerNext]_<<db.slot, db.label>>
    BY DEF LedgerStep, vars
  <1> QED  BY <1>1, <1>2, AlwaysLedger, PTL DEF Spec, GrantedAtOnce, Ledger!LedgerSpec

-----------------------------------------------------------------------------
(* Verdicts, without re-routing.  A submit holds its unit's lock from before *)
(* it looks for a final label until it commits, so what it found, none, is *)
(* still true when it writes: of a reviewer's decision on the unit either   *)
(* the unit was finalized before, and then there was a final label, or it  *)
(* updates the unit's status, and waits.                                   *)

NoRouting == "route" \notin Served

\* A reviewer's decision, and a submit that finalizes its unit.
Reviewing(st) == Finalizing(st) /\ st.a = None
Settling(st)  == Finalizing(st) /\ st.a # None

VerdictSes(d, st) ==
  /\ st.pc \notin {"route", "escalate"}
  /\ Reviewing(st) =>
       /\ st.who = "human" /\ st.todo = {} /\ DOMAIN st.w.final = {}
       /\ IF st.seen[st.u] = "finalized" THEN FinalsOf(d, st.u) # {}
          ELSE st.pc # "find" => st.u \in DOMAIN st.w.unit
  /\ Settling(st) =>
       /\ FinalsOf(d, st.u) = {} /\ (st.pc # "find" => st.row = None)
       /\ \A i \in SlotsOf(st.u) \ {st.i} : d.slot[i].status = "filled"

\* The slots of a unit with an automatic final label are filled.
AutoFull ==
  \A f \in FinalKeys : db.final[f] # None /\ db.final[f].method = "auto" =>
     \A i \in SlotsOf(db.final[f].unit) : db.slot[i].status = "filled"

VerdictInv == AutoFull /\ \A s \in Sessions : VerdictSes(db, ses[s])

VerdictsStay == Verdicts(db) \subseteq Verdicts(db')

\* Steps that write no final label.
LEMMA QuietVerdicts ==
  ASSUME Inv, Inv', LedgerStep, VerdictInv, db'.final = db.final,
         \A t \in Sessions : ses'[t] = ses[t] \/ VerdictSes(db', ses'[t])
  PROVE  VerdictInv' /\ VerdictsStay
  <1>1. db \in Tables /\ db' \in Tables
    BY DEF Inv
  <1>2. \A i \in Slots : db.slot[i].status = "filled" => db'.slot[i].status = "filled"
    BY <1>1, FilledStays
  <1>3. AutoFull'
    BY <1>2 DEF VerdictInv, AutoFull, SlotsOf
  <1>4. ASSUME NEW t \in Sessions, ses'[t] = ses[t] PROVE VerdictSes(db', ses'[t])
    <2>1. VerdictSes(db, ses[t])
      BY DEF VerdictInv
    <2>2. \A u : FinalsOf(db', u) = FinalsOf(db, u)
      BY DEF FinalsOf
    <2> QED  BY <1>2, <1>4, <2>1, <2>2 DEF VerdictSes, SlotsOf
  <1>5. VerdictsStay
    BY DEF VerdictsStay, Verdicts
  <1> QED  BY <1>3, <1>4, <1>5 DEF VerdictInv

Quiet(st) == st.pc \notin {"find", "mark", "record", "route", "escalate"}

LEMMA QuietVerdict ==
  ASSUME NEW d, NEW st, Quiet(st)
  PROVE  VerdictSes(d, st)
  BY DEF VerdictSes, Quiet, Reviewing, Settling, Finalizing

LEMMA GoVerdict ==
  ASSUME Inv, Inv', LedgerStep, VerdictInv, NEW s \in Sessions, NEW st, Go(s, st), VerdictSes(db, st)
  PROVE  VerdictInv' /\ VerdictsStay
  <1>1. ses' = [ses EXCEPT ![s] = st] /\ db' = db /\ DOMAIN ses = Sessions
    BY DEF Go, Inv
  <1>2. \A t \in Sessions : ses'[t] = ses[t] \/ VerdictSes(db', ses'[t])
    BY <1>1
  <1> QED  BY <1>1, <1>2, QuietVerdicts

\* A commit, or a rollback, of a request that decides nothing.
LEMMA CloseQuiet ==
  ASSUME Inv, Inv', LedgerInv, LedgerStep, VerdictInv, NEW s \in Sessions, Close(s),
         \/ UNCHANGED db
         \/ ~Deciding(ses[s]) /\ \E w \in Writes : db' = Over(w) /\ w.final = ses[s].w.final
  PROVE  VerdictInv' /\ VerdictsStay
  <1>1. ses' = [ses EXCEPT ![s] = Idle] /\ DOMAIN ses = Sessions
    BY DEF Close, Inv
  <1>2. \A t \in Sessions : ses'[t] = ses[t] \/ VerdictSes(db', ses'[t])
    BY <1>1, IdleRec, QuietVerdict DEF Quiet
  <1>3. db'.final = db.final
    <2>1. CASE UNCHANGED db
      BY <2>1
    <2>2. ASSUME ~Deciding(ses[s]), NEW w \in Writes, db' = Over(w), w.final = ses[s].w.final
          PROVE  db'.final = db.final
      <3>1. DOMAIN w.final = {}
        BY <2>2 DEF LedgerInv, Wrote, FinalsHeld
      <3>2. \A k \in FinalKeys : db'.final[k] = db.final[k]
        BY <2>2, <3>1, OverRows DEF Inv
      <3> QED  BY <3>2 DEF Inv, Tables
    <2> QED  BY <2>1, <2>2
  <1> QED  BY <1>1, <1>2, <1>3, QuietVerdicts

\* What the steps of a request that is not finalizing come to.
LEMMA QuietSteps ==
  ASSUME Inv, NEW s \in Sessions,
         \/ \E a \in Annotators : \/ BeginNext(s, a)
                                  \/ \E i \in Slots : BeginSubmit(s, a, i) \/ BeginSkip(s, a, i)
         \/ BeginAvailable(s) \/ Sweep(s) \/ (\E u \in Units : SweepUnit(s, u))
         \/ Resume(s) \/ Pick(s) \/ Look(s) \/ TakeSlot(s) \/ Fill(s)
  PROVE  \/ \E st : Go(s, st) /\ Quiet(st)
         \/ Abort(s) \/ (Commit(s, ses[s].w) /\ ~Deciding(ses[s]))
  <1> DEFINE old == ses[s]
  <1>1. old \in SesRec /\ Idle \in SesRec
    BY SessionFacts, IdleRec
  <1>2. ASSUME NEW pc \in {"swept", "pick", "event", "look", "lease", "fill", "release", "quality"},
               NEW todo, NEW u, NEW w, NEW seen
        PROVE  /\ Quiet([old EXCEPT !.pc = pc]) /\ Quiet([old EXCEPT !.pc = pc, !.w = w])
               /\ Quiet([old EXCEPT !.pc = pc, !.todo = todo, !.w = w])
               /\ Quiet([old EXCEPT !.pc = pc, !.u = u, !.w = w])
               /\ Quiet([old EXCEPT !.pc = pc, !.seen = seen])
    <2> HIDE DEF old
    <2> QED  BY <1>1, <1>2 DEF Quiet, SesRec
  <1>3. CASE \E a \in Annotators : BeginNext(s, a) \/ \E i \in Slots : BeginSubmit(s, a, i) \/ BeginSkip(s, a, i)
    <2>1. ASSUME NEW a \in Annotators, BeginNext(s, a) PROVE \E st : Go(s, st) /\ Quiet(st)
      <3> DEFINE st == [Idle EXCEPT !.pc = "sweep", !.a = a]
      <3>1. Go(s, st)
        BY <2>1 DEF BeginNext
      <3>2. Quiet(st)
        BY <1>1 DEF Quiet, SesRec
      <3> HIDE DEF st
      <3> QED  BY <3>1, <3>2
    <2>2. ASSUME NEW a \in Annotators, NEW i \in Slots, NEW pc \in {"submit", "skip"},
                 Go(s, [Idle EXCEPT !.pc = pc, !.a = a, !.i = i, !.u = UnitOf[i]])
          PROVE  \E st : Go(s, st) /\ Quiet(st)
      <3> DEFINE st == [Idle EXCEPT !.pc = pc, !.a = a, !.i = i, !.u = UnitOf[i]]
      <3>1. Go(s, st)
        BY <2>2
      <3>2. Quiet(st)
        BY <1>1 DEF Quiet, SesRec
      <3> HIDE DEF st
      <3> QED  BY <3>1, <3>2
    <2> QED  BY <1>3, <2>1, <2>2 DEF BeginSubmit, BeginSkip
  <1>4. CASE BeginAvailable(s)
    <2> DEFINE st == [Idle EXCEPT !.pc = "sweep"]
    <2>1. Go(s, st)
      BY <1>4 DEF BeginAvailable
    <2>2. Quiet(st)
      BY <1>1 DEF Quiet, SesRec
    <2> HIDE DEF st
    <2> QED  BY <2>1, <2>2
  <1>5. CASE Sweep(s)
    <2>1. PICK todo, w : Go(s, [old EXCEPT !.pc = "swept", !.todo = todo, !.w = w])
      BY <1>5 DEF Sweep
    <2> DEFINE st == [old EXCEPT !.pc = "swept", !.todo = todo, !.w = w]
    <2>2. Go(s, st) /\ Quiet(st)
      BY <1>2, <2>1
    <2> HIDE DEF st
    <2> QED  BY <2>2
  <1>6. CASE \E u \in Units : SweepUnit(s, u)
    <2>1. PICK u \in Units : SweepUnit(s, u)
      BY <1>6
    <2> DEFINE st == [old EXCEPT !.todo = @ \ {u}, !.w = Recount(@, u, db.unit[u], FALSE)]
    <2>2. Go(s, st) /\ old.pc = "swept"
      BY <2>1 DEF SweepUnit, At
    <2>3. st.pc = "swept"
      BY <1>1, <2>2 DEF SesRec
    <2> HIDE DEF st
    <2> QED  BY <2>2, <2>3 DEF Quiet
  <1>7. CASE Resume(s)
    <2>1. CASE Go(s, [old EXCEPT !.pc = "pick"])
      BY <1>2, <2>1
    <2>2. CASE \E u, w : Go(s, [old EXCEPT !.pc = "event", !.u = u, !.w = w])
      <3>1. PICK u, w : Go(s, [old EXCEPT !.pc = "event", !.u = u, !.w = w])
        BY <2>2
      <3> DEFINE st == [old EXCEPT !.pc = "event", !.u = u, !.w = w]
      <3>2. Go(s, st) /\ Quiet(st)
        BY <1>2, <3>1
      <3> HIDE DEF st
      <3> QED  BY <3>2
    <2> QED  BY <1>7, <2>1, <2>2 DEF Resume
  <1>8. CASE Pick(s)
    <2>1. CASE \E u, w : Go(s, [old EXCEPT !.pc = "look", !.u = u, !.w = w])
      <3>1. PICK u, w : Go(s, [old EXCEPT !.pc = "look", !.u = u, !.w = w])
        BY <2>1
      <3> DEFINE st == [old EXCEPT !.pc = "look", !.u = u, !.w = w]
      <3>2. Go(s, st) /\ Quiet(st)
        BY <1>2, <3>1
      <3> HIDE DEF st
      <3> QED  BY <3>2
    <2>2. old.pc = "pick"
      BY <1>8 DEF Pick, At
    <2> QED  BY <1>8, <2>1, <2>2 DEF Pick, Deciding, Finalizing
  <1>9. CASE Look(s)
    <2>1. PICK seen : Go(s, [old EXCEPT !.pc = "lease", !.seen = seen])
      BY <1>9 DEF Look
    <2> QED  BY <1>2, <2>1
  <1>10. CASE TakeSlot(s)
    <2>1. \/ Abort(s)
          \/ Go(s, [old EXCEPT !.pc = "fill"])
          \/ \E w : Go(s, [old EXCEPT !.pc = "release", !.w = w])
      BY <1>10 DEF TakeSlot
    <2> QED  BY <1>2, <2>1
  <1>11. CASE Fill(s)
    <2>1. Abort(s) \/ \E w : Go(s, [old EXCEPT !.pc = "quality", !.w = w])
      BY <1>11 DEF Fill
    <2> QED  BY <1>2, <2>1
  <1> QED  BY <1>3, <1>4, <1>5, <1>6, <1>7, <1>8, <1>9, <1>10, <1>11

LEMMA BeginDecideVerdict ==
  ASSUME Inv, Inv', LedgerInv, LedgerStep, VerdictInv, NEW s \in Sessions, NEW u \in Units, BeginDecide(s, u)
  PROVE  VerdictInv' /\ VerdictsStay
  <1> DEFINE x  == db.unit[u]
             st == [Idle EXCEPT !.pc = "find", !.u = u, !.who = "human", !.seen[u] = x]
  <1>1. Go(s, st)
    BY DEF BeginDecide
  <1>2. x = "finalized" => FinalsOf(db, u) # {}
    BY DEF LedgerInv, FinalizedHasFinalLabel
  <1> HIDE DEF x
  <1>3. Idle.seen = [v \in Units |-> None] /\ Idle.a = None /\ Idle.todo = {}
    BY DEF Idle
  <1>4. /\ st.pc = "find" /\ st.a = None /\ st.u = u /\ st.who = "human" /\ st.todo = {}
        /\ st.w = Idle.w /\ st.seen[u] = x
    BY <1>3, IdleRec, ZenonT(60) DEF SesRec
  <1> HIDE DEF st
  <1>5. VerdictSes(db, st)
    BY <1>2, <1>4, IdleRec DEF VerdictSes, Reviewing, Settling, Finalizing, Clean
  <1> QED  BY <1>1, <1>5, GoVerdict

\* A submit holds its unit's lock, with its slot not yet filled in the committed rows.
LEMMA FillingFacts ==
  ASSUME Inv, LedgerInv, NEW s \in Sessions, Filling(ses[s])
  PROVE  LET st == ses[s]
         IN  /\ st.a # None /\ st.i \in SlotsOf(st.u) /\ st.u \in Units /\ st.todo = {}
             /\ db.slot[st.i].status = "leased"
             /\ DOMAIN st.w.slot = {st.i} /\ st.w.slot[st.i].status = "filled"
             /\ Has(locks, s, <<"unit", st.u>>, "update") /\ DOMAIN st.w.final = {}
  <1> DEFINE st == ses[s]
  <1>1. /\ st.a \in Annotators /\ st.i \in Slots /\ st.u = UnitOf[st.i] /\ Phase(db, locks, s, st)
    BY SessionFacts DEF SesInv, Typed
  <1>2. st.a # None /\ st.u \in Units /\ st.i \in SlotsOf(st.u)
    BY <1>1, SlotUnits, TransactionsAssumption DEF SlotsOf
  <1>3. ~Deciding(st)
    BY <1>2 DEF Filling, Deciding, Finalizing
  <1>4. DOMAIN st.w.final = {}
    BY <1>3 DEF LedgerInv, Wrote, FinalsHeld
  <1>5. DOMAIN st.w.slot = {st.i} /\ st.w.slot[st.i] = Filled(st.a) /\ Holds(db, st.a, st.i)
        /\ Has(locks, s, <<"unit", st.u>>, "update") /\ st.todo = {}
    BY <1>1 DEF Phase
  <1> QED  BY <1>2, <1>4, <1>5 DEF Filled, Holds

\* What a session without final labels of its own finds is what is committed.
LEMMA FinalsOver ==
  ASSUME Inv, NEW s \in Sessions, DOMAIN ses[s].w.final = {}, NEW u
  PROVE  FinalsOf(Over(ses[s].w), u) = FinalsOf(db, u)
         /\ \A f \in FinalKeys : Over(ses[s].w).final[f] = db.final[f]
  <1>1. db \in Tables /\ ses[s].w \in Writes
    BY SessionFacts
  <1>2. Over(ses[s].w) \in Tables /\ \A f \in FinalKeys : Over(ses[s].w).final[f] = db.final[f]
    BY <1>1, OverRows
  <1> QED  BY <1>1, <1>2 DEF FinalsOf, Tables

LEMMA QualityVerdict ==
  ASSUME Inv, Inv', LedgerInv, LedgerStep, VerdictInv, NEW s \in Sessions, Quality(s)
  PROVE  VerdictInv' /\ VerdictsStay
  <1> DEFINE old == ses[s]
             u   == old.u
             d   == Over(old.w)
             seen == d.unit[u]
  <1>1. /\ old.pc = "quality" /\ old \in SesRec /\ old.w \in Writes /\ db \in Tables
        /\ Filling(old) /\ ~Deciding(old)
    BY SessionFacts DEF Quality, At, Filling, Deciding, Finalizing
  <1>2. /\ old.a # None /\ old.i \in SlotsOf(u) /\ u \in Units /\ db.slot[old.i].status = "leased"
        /\ DOMAIN old.w.slot = {old.i} /\ DOMAIN old.w.final = {}
    BY <1>1, FillingFacts
  <1>3. CASE Commit(s, old.w)
    BY <1>1, <1>3, CloseQuiet DEF Commit
  <1>4. ASSUME NEW f \in SomeFinal(d, u), \A i \in SlotsOf(u) : d.slot[i].status = "filled",
               ~HumanRow(d, f), Go(s, ToFinalize(s, u, seen))
        PROVE  VerdictInv' /\ VerdictsStay
    <2>1. FinalsOf(d, u) = FinalsOf(db, u) /\ \A k \in FinalKeys : d.final[k] = db.final[k]
      BY <1>2, FinalsOver
    <2>2. FinalsOf(db, u) = {}
      <3> SUFFICES ASSUME FinalsOf(db, u) # {} PROVE FALSE
        OBVIOUS
      <3>1. f \in FinalKeys /\ db.final[f] # None /\ db.final[f].unit = u
        BY <1>1, <1>4, <2>1 DEF SomeFinal, FinalsOf, Tables
      <3>2. db.final[f] \in FinalRow /\ f # None
        BY <1>1, <3>1, TransactionsAssumption DEF Tables, FinalKeys
      <3>3. db.final[f].method = "auto"
        BY <1>4, <2>1, <3>1, <3>2 DEF HumanRow, FinalRow
      <3>4. db.slot[old.i].status = "filled"
        BY <1>2, <3>1, <3>3 DEF VerdictInv, AutoFull
      <3> QED  BY <1>2, <3>4
    <2>3. \A i \in SlotsOf(u) \ {old.i} : db.slot[i].status = "filled"
      BY <1>1, <1>2, <1>4, OverRows DEF SlotsOf
    <2>4. seen \in Seen
      <3>1. d \in Tables
        BY <1>1, OverRows
      <3> QED  BY <1>2, <3>1 DEF Tables, Seen
    <2> HIDE DEF seen, d
    <2>5. PICK st : st = ToFinalize(s, u, seen)
      OBVIOUS
    <2>6. st.pc = "find" /\ st.a = old.a /\ st.i = old.i /\ st.u = u
      BY <1>1, <1>2, <2>4, <2>5, ToFinalizeFields
    <2>7. VerdictSes(db, st)
      BY <1>2, <2>2, <2>3, <2>6 DEF VerdictSes, Reviewing, Settling
    <2> QED  BY <1>4, <2>5, <2>7, GoVerdict
  <1> QED  BY <1>3, <1>4 DEF Quality

LEMMA FindFinalVerdict ==
  ASSUME Inv, Inv', LedgerInv, LedgerStep, VerdictInv, NEW s \in Sessions, FindFinal(s)
  PROVE  VerdictInv' /\ VerdictsStay
  <1> DEFINE old == ses[s]
  <1>1. old.pc = "find" /\ VerdictSes(db, old)
    BY DEF FindFinal, At, VerdictInv
  <1>2. PICK st \in SesRec :
          /\ Go(s, st) /\ st.pc = IF old.seen[old.u] = "finalized" THEN "record" ELSE "mark"
          /\ st.a = old.a /\ st.i = old.i /\ st.u = old.u /\ st.todo = old.todo
          /\ st.who = old.who /\ st.seen = old.seen
          /\ st.row \in SomeFinal(Over(old.w), old.u)
          /\ IsFinalized(st.w, old.w, st.u)
          /\ st.pc = "mark" => st.u \in DOMAIN st.w.unit
    BY FindFinalFields
  <1>3. st.w.final = old.w.final
    BY <1>2 DEF IsFinalized
  <1>4. Finalizing(old) /\ Finalizing(st)
    BY <1>1, <1>2 DEF Finalizing
  <1> HIDE DEF old
  <1>5. ASSUME old.a = None PROVE VerdictSes(db, st)
    <2>1. Reviewing(old) /\ Reviewing(st) /\ ~Settling(st)
      BY <1>2, <1>4, <1>5 DEF Reviewing, Settling
    <2>2. /\ old.who = "human" /\ old.todo = {} /\ DOMAIN old.w.final = {}
          /\ old.seen[old.u] = "finalized" => FinalsOf(db, old.u) # {}
      BY <1>1, <2>1 DEF VerdictSes
    <2>3. st.pc \in {"mark", "record"} /\ (st.seen[st.u] # "finalized" => st.u \in DOMAIN st.w.unit)
      BY <1>2
    <2>4. st.seen[st.u] = "finalized" => FinalsOf(db, st.u) # {}
      BY <1>2, <2>2
    <2>5. st.who = "human" /\ st.todo = {} /\ DOMAIN st.w.final = {}
      BY <1>2, <1>3, <2>2
    <2> QED  BY <2>1, <2>3, <2>4, <2>5 DEF VerdictSes
  <1>6. ASSUME old.a # None PROVE VerdictSes(db, st)
    <2>1. Settling(old) /\ Settling(st) /\ ~Reviewing(st)
      BY <1>2, <1>4, <1>6 DEF Reviewing, Settling
    <2>2. /\ FinalsOf(db, old.u) = {}
          /\ \A i \in SlotsOf(old.u) \ {old.i} : db.slot[i].status = "filled"
      BY <1>1, <2>1 DEF VerdictSes
    <2>3. DOMAIN old.w.final = {}
      <3>1. Filling(old)
        BY <1>4, <1>6 DEF Filling
      <3> QED  BY <3>1, FillingFacts DEF old
    <2>4. FinalsOf(Over(old.w), old.u) = {}
      BY <2>2, <2>3, FinalsOver DEF old
    <2>5. st.row = None
      BY <1>2, <2>4 DEF SomeFinal
    <2>6. st.pc \in {"mark", "record"}
      BY <1>2
    <2> QED  BY <1>2, <2>1, <2>2, <2>5, <2>6 DEF VerdictSes
  <1>7. VerdictSes(db, st) => VerdictInv' /\ VerdictsStay
    BY <1>2, GoVerdict
  <1> QED  BY <1>5, <1>6, <1>7

LEMMA WriteUnitVerdict ==
  ASSUME Inv, Inv', LedgerInv, LedgerStep, VerdictInv, NEW s \in Sessions, WriteUnit(s)
  PROVE  VerdictInv' /\ VerdictsStay
  <1> DEFINE old == ses[s]
             st  == [old EXCEPT !.pc = "record"]
  <1>1. VerdictSes(db, old) /\ old.pc \in {"mark", "escalate"}
    BY DEF WriteUnit, VerdictInv
  <1>2. old.pc = "mark"
    BY <1>1 DEF VerdictSes
  <1>3. Go(s, st)
    BY <1>2 DEF WriteUnit
  <1>4. old \in SesRec
    BY SessionFacts
  <1>5. /\ st.pc = "record" /\ st.a = old.a /\ st.i = old.i /\ st.u = old.u /\ st.todo = old.todo
        /\ st.who = old.who /\ st.seen = old.seen /\ st.row = old.row /\ st.w = old.w
    BY <1>4 DEF SesRec
  <1> HIDE DEF st
  <1>6. VerdictSes(db, st)
    BY <1>1, <1>2, <1>5 DEF VerdictSes, Reviewing, Settling, Finalizing
  <1> QED  BY <1>3, <1>6, GoVerdict

\* Of two sessions that settle one unit, or of which one settles it and one decides it
\* with no final label there, both would hold its lock.
LEMMA OneSettles ==
  ASSUME Inv, LedgerInv, VerdictInv, NEW s \in Sessions, NEW t \in Sessions, s # t,
         ses[s].pc = "record", Settling(ses[t])
  PROVE  ses[s].u # ses[t].u
  <1> SUFFICES ASSUME ses[s].u = ses[t].u PROVE FALSE
    OBVIOUS
  <1>1. Has(locks, t, <<"unit", ses[t].u>>, "update") /\ FinalsOf(db, ses[t].u) = {}
    BY FillingFacts DEF Settling, Filling, VerdictInv, VerdictSes
  <1>2. UnitLocked(locks, s, ses[s].u)
    <2>1. CASE ses[s].a = None
      <3>1. Reviewing(ses[s]) /\ VerdictSes(db, ses[s])
        BY <2>1 DEF Reviewing, Finalizing, VerdictInv
      <3>2. ses[s].u \in DOMAIN ses[s].w.unit
        BY <1>1, <3>1 DEF VerdictSes
      <3>3. Covered(locks, s, ses[s]) /\ ~Waits(ses[s], ses[s].u)
        BY SessionFacts DEF SesInv, Waits, VoidPcs
      <3> QED  BY <3>2, <3>3 DEF Covered
    <2>2. CASE ses[s].a # None
      <3>1. Filling(ses[s])
        BY <2>2 DEF Filling, Finalizing
      <3> QED  BY <3>1, FillingFacts DEF UnitLocked
    <2> QED  BY <2>1, <2>2
  <1> QED  BY <1>1, <1>2 DEF Inv, LocksOK, Has, UnitLocked, Clash

\* The commit of a decision: the row f becomes r.
LEMMA DecidedVerdict ==
  ASSUME Inv, Inv', LedgerInv, LedgerStep, FinalsStay, VerdictInv, NEW s \in Sessions,
         ses[s].pc = "record", NEW w \in Writes, Commit(s, w), w.slot = ses[s].w.slot,
         NEW f \in FinalKeys, NEW r \in FinalRow, r.unit = ses[s].u,
         \A k \in FinalKeys : db'.final[k] = IF k = f THEN r ELSE db.final[k],
         \/ db.final[f] = None /\ (ses[s].a = None => r.method = "human")
         \/ /\ ses[s].a = None /\ db.final[f] # None /\ db.final[f].unit = r.unit
            /\ r.method # "human" => db.final[f].method = r.method
  PROVE  VerdictInv' /\ VerdictsStay
  <1>1. /\ db' = Over(w) /\ ses' = [ses EXCEPT ![s] = Idle] /\ DOMAIN ses = Sessions
        /\ db \in Tables /\ db' \in Tables
    BY DEF Commit, Close, Inv
  <1>2. DOMAIN db.final = FinalKeys /\ DOMAIN db'.final = FinalKeys
    BY <1>1 DEF Tables
  <1>3. VerdictsStay
    BY <1>2 DEF VerdictsStay, Verdicts, FinalsStay, FinalRow
  <1>4. \A i \in Slots : db.slot[i].status = "filled" => db'.slot[i].status = "filled"
    BY <1>1, FilledStays
  <1>5. ASSUME ses[s].a # None, NEW i \in SlotsOf(ses[s].u)
        PROVE  db'.slot[i].status = "filled"
    <2>1. Filling(ses[s]) /\ Settling(ses[s])
      BY <1>5 DEF Filling, Settling, Finalizing
    <2>2. DOMAIN w.slot = {ses[s].i} /\ w.slot[ses[s].i].status = "filled"
      BY <2>1, FillingFacts
    <2>3. i \in Slots
      BY DEF SlotsOf
    <2>4. CASE i = ses[s].i
      BY <1>1, <2>2, <2>3, <2>4, OverRows
    <2>5. CASE i # ses[s].i
      BY <1>4, <2>1, <2>3, <2>5 DEF VerdictInv, VerdictSes
    <2> QED  BY <2>4, <2>5
  <1>6. AutoFull'
    <2> SUFFICES ASSUME NEW g \in FinalKeys, db'.final[g] # None, db'.final[g].method = "auto",
                        NEW i \in SlotsOf(db'.final[g].unit)
                 PROVE  db'.slot[i].status = "filled"
      BY DEF AutoFull, SlotsOf
    <2>1. i \in Slots
      BY DEF SlotsOf
    <2>2. CASE g # f
      BY <1>4, <2>1, <2>2 DEF VerdictInv, AutoFull
    <2>3. CASE g = f /\ ses[s].a # None
      BY <1>5, <2>3
    <2>4. CASE g = f /\ ses[s].a = None
      <3>1. db.final[f] # None /\ db.final[f].unit = r.unit /\ db.final[f].method = "auto"
        BY <2>4
      <3> QED  BY <1>4, <2>1, <2>4, <3>1 DEF VerdictInv, AutoFull
    <2> QED  BY <2>2, <2>3, <2>4
  <1>7. ASSUME NEW t \in Sessions PROVE VerdictSes(db', ses'[t])
    <2>1. CASE t = s
      BY <1>1, <2>1, IdleRec, QuietVerdict DEF Quiet
    <2>2. CASE t # s
      <3> DEFINE st == ses[t]
      <3>1. ses'[t] = st /\ VerdictSes(db, st)
        BY <1>1, <2>2 DEF VerdictInv
      <3>2. Reviewing(st) /\ FinalsOf(db, st.u) # {} => FinalsOf(db', st.u) # {}
        BY <1>2 DEF FinalsOf, FinalsStay, RowKept
      <3>3. ASSUME Settling(st) PROVE FinalsOf(db', st.u) = {}
        <4>1. r.unit # st.u
          BY <2>2, <3>3, OneSettles
        <4>2. FinalsOf(db, st.u) = {}
          BY <3>1, <3>3 DEF VerdictSes
        <4> QED  BY <1>2, <4>1, <4>2 DEF FinalsOf
      <3>4. \A i \in SlotsOf(st.u) : db.slot[i].status = "filled" => db'.slot[i].status = "filled"
        BY <1>4 DEF SlotsOf
      <3> HIDE DEF st
      <3> QED  BY <3>1, <3>2, <3>3, <3>4 DEF VerdictSes
    <2> QED  BY <2>1, <2>2
  <1> QED  BY <1>3, <1>6, <1>7 DEF VerdictInv

LEMMA RecordVerdict ==
  ASSUME Inv, Inv', LedgerInv, LedgerStep, FinalsStay, VerdictInv, NEW s \in Sessions, Record(s)
  PROVE  VerdictInv' /\ VerdictsStay
  <1> DEFINE old == ses[s]
  <1>1. old.pc = "record" /\ Finalizing(old) /\ VerdictSes(db, old) /\ db \in Tables
    BY DEF Record, At, Finalizing, VerdictInv, Inv
  <1>2. CASE Abort(s)
    BY <1>2, CloseQuiet DEF Abort
  <1>3. old.todo = {} /\ DOMAIN old.w.final = {}
    <2>1. CASE old.a = None
      BY <1>1, <2>1 DEF VerdictSes, Reviewing
    <2>2. CASE old.a # None
      BY <1>1, <2>2, FillingFacts DEF Filling
    <2> QED  BY <2>1, <2>2
  <1>4. ASSUME ~Abort(s) PROVE VerdictInv' /\ VerdictsStay
    <2>1. PICK w \in Recorded(s) : Commit(s, w)
      BY <1>3, <1>4 DEF Record
    <2>2. IF old.row = None THEN Fresh("final") # {} ELSE db.final[old.row] # None
      BY <1>4 DEF Record
    <2>3. PICK f \in FinalKeys, r \in FinalRow :
            /\ IsPutFinal(w, old.w, f, r) /\ r.unit = old.u
            /\ IF old.row = None THEN f \in Fresh("final") /\ r.method = old.who
               ELSE /\ f = old.row /\ db.final[f] # None /\ RowKept(db.final[f], r)
                    /\ r.method \in Methods(s)
      BY <1>1, <2>2, RecordedIs
    <2>4. /\ w \in Writes /\ w.slot = old.w.slot
          /\ \A k \in FinalKeys : db'.final[k] = IF k = f THEN r ELSE db.final[k]
      <3>1. w \in Writes /\ w.slot = old.w.slot /\ DOMAIN w.final = {f} /\ w.final[f] = r
        BY <1>3, <2>3 DEF IsPutFinal
      <3>2. db' = Over(w)
        BY <2>1 DEF Commit
      <3> QED  BY <1>1, <3>1, <3>2, OverRows
    <2>5. CASE old.row = None
      <3>1. db.final[f] = None
        BY <2>3, <2>5 DEF Fresh
      <3>2. old.a = None => r.method = "human"
        BY <1>1, <2>3, <2>5 DEF VerdictSes, Reviewing
      <3> HIDE DEF old
      <3> QED  BY <1>1, <2>1, <2>3, <2>4, <3>1, <3>2, DecidedVerdict DEF old
    <2>6. CASE old.row # None
      <3>1. old.a = None
        BY <1>1, <2>6 DEF VerdictSes, Settling
      <3>2. r.method \in Methods(s) /\ old.who = "human" /\ f = old.row /\ db.final[f] # None
            /\ db.final[f].unit = r.unit
        BY <1>1, <2>3, <2>6, <3>1 DEF VerdictSes, Reviewing, RowKept
      <3>3. r.method # "human" => db.final[f].method = r.method
        BY <3>2 DEF Methods
      <3> HIDE DEF old
      <3> QED  BY <1>1, <2>1, <2>3, <2>4, <3>1, <3>2, <3>3, DecidedVerdict DEF old
    <2> QED  BY <2>5, <2>6
  <1> QED  BY <1>2, <1>4

\* The commits of requests that decide nothing.
LEMMA ClosesVerdict ==
  ASSUME Inv, Inv', LedgerInv, LedgerStep, VerdictInv, NEW s \in Sessions,
         CountWork(s) \/ LogResumed(s) \/ Lease(s) \/ Release(s)
  PROVE  VerdictInv' /\ VerdictsStay
  <1> DEFINE old == ses[s]
  <1>1. /\ old.w \in Writes /\ db \in Tables /\ old.pc \in {"swept", "event", "lease", "release"}
        /\ old.pc # "swept" => old.u \in Units
    BY SessionFacts, SlotUnits DEF CountWork, LogResumed, Lease, Release, At, SesInv, Typed
  <1>2. ~Deciding(old)
    BY <1>1 DEF Deciding, Finalizing
  <1>3. ASSUME Commit(s, old.w) PROVE VerdictInv' /\ VerdictsStay
    BY <1>1, <1>2, <1>3, CloseQuiet DEF Commit
  <1>4. ASSUME old.pc = "lease", Commit(s, Put(old.w, "unit", {old.u}, "in_progress"))
        PROVE  VerdictInv' /\ VerdictsStay
    <2> DEFINE w == Put(old.w, "unit", {old.u}, "in_progress")
    <2>1. w.final = old.w.final
      BY <1>1, PutSame
    <2>2. "in_progress" \in UnitStatus
      BY DEF UnitStatus
    <2>3. w \in Writes
      <3>1. IsPutUnit(w, old.w, old.u, "in_progress")
        BY <1>1, <1>4, <2>2, PutUnit
      <3> QED  BY <3>1 DEF IsPutUnit
    <2>4. Close(s) /\ db' = Over(w)
      BY <1>4 DEF Commit
    <2> HIDE DEF w
    <2> QED  BY <1>2, <2>1, <2>3, <2>4, CloseQuiet
  <1>5. ASSUME Release(s) PROVE VerdictInv' /\ VerdictsStay
    <2> DEFINE w == Recount(old.w, old.u, db.unit[old.u], FALSE)
    <2>1. old.u \in Units /\ db.unit[old.u] \in Seen
      BY <1>1, <1>5 DEF Release, At, Tables, Seen
    <2>2. w.final = old.w.final
      BY <1>1, <2>1, RecountMarks DEF NoMarks
    <2>3. w \in Writes
      <3> HIDE DEF old
      <3>1. IsRecount(w, old.w, old.u, db.unit[old.u])
        BY <1>1, <2>1, RecountCases
      <3> QED  BY <3>1 DEF IsRecount
    <2>4. Close(s) /\ db' = Over(w)
      BY <1>5 DEF Release, Commit
    <2> HIDE DEF w
    <2> QED  BY <1>2, <2>2, <2>3, <2>4, CloseQuiet
  <1> QED  BY <1>1, <1>3, <1>4, <1>5 DEF CountWork, LogResumed, Lease, At

LEMMA VerdictKeeps ==
  ASSUME NoVoids, NoRouting, Inv, Inv', LedgerInv, Ledgered, VerdictInv, [Next]_vars
  PROVE  VerdictInv' /\ VerdictsStay
  <1>1. LedgerStep /\ FinalsStay
    BY DEF Ledgered
  <1>2. ASSUME NEW s \in Sessions, WorkerStep(s) PROVE VerdictInv' /\ VerdictsStay
    <2>1. CASE \/ \E a \in Annotators : \/ BeginNext(s, a)
                                        \/ \E i \in Slots : BeginSubmit(s, a, i) \/ BeginSkip(s, a, i)
               \/ BeginAvailable(s) \/ Sweep(s) \/ (\E u \in Units : SweepUnit(s, u))
               \/ Resume(s) \/ Pick(s) \/ Look(s) \/ TakeSlot(s) \/ Fill(s)
      <3>1. \/ \E st : Go(s, st) /\ Quiet(st)
            \/ Abort(s) \/ (Commit(s, ses[s].w) /\ ~Deciding(ses[s]))
        BY <2>1, QuietSteps
      <3>2. ASSUME NEW st, Go(s, st), Quiet(st) PROVE VerdictInv' /\ VerdictsStay
        BY <1>1, <3>2, QuietVerdict, GoVerdict
      <3>3. CASE Abort(s)
        BY <1>1, <3>3, CloseQuiet DEF Abort
      <3>4. CASE Commit(s, ses[s].w) /\ ~Deciding(ses[s])
        <4>1. ses[s].w \in Writes
          BY SessionFacts
        <4> QED  BY <1>1, <3>4, <4>1, CloseQuiet DEF Commit
      <3> QED  BY <3>1, <3>2, <3>3, <3>4
    <2>2. CASE CountWork(s) \/ LogResumed(s) \/ Lease(s) \/ Release(s)
      BY <1>1, <2>2, ClosesVerdict
    <2>3. CASE Quality(s)
      BY <1>1, <2>3, QualityVerdict
    <2>4. CASE FindFinal(s)
      BY <1>1, <2>4, FindFinalVerdict
    <2>5. CASE Record(s)
      BY <1>1, <2>5, RecordVerdict
    <2> QED  BY <1>2, <2>1, <2>2, <2>3, <2>4, <2>5 DEF WorkerStep
  <1>3. ASSUME NEW s \in Sessions, StaffStep(s) PROVE VerdictInv' /\ VerdictsStay
    <2>1. ~BeginRoute(s) /\ ~RouteNext(s)
      BY DEF BeginRoute, RouteNext, NoRouting, At, VerdictInv, VerdictSes
    <2>2. CASE \E u \in Units : BeginDecide(s, u)
      BY <1>1, <2>2, BeginDecideVerdict
    <2>3. CASE WriteUnit(s)
      BY <1>1, <2>3, WriteUnitVerdict
    <2> QED  BY <1>3, <2>1, <2>2, <2>3, NoVoidSteps DEF StaffStep
  <1>4. ASSUME NEW s \in Sessions, Rollback(s) PROVE VerdictInv' /\ VerdictsStay
    BY <1>1, <1>4, CloseQuiet DEF Rollback, Abort
  <1>5. ASSUME NEW i \in Slots, LeaseRunsOut(i) PROVE VerdictInv' /\ VerdictsStay
    <2>1. db'.final = db.final /\ ses' = ses
      BY <1>5 DEF LeaseRunsOut, Inv, Tables
    <2> QED  BY <1>1, <2>1, QuietVerdicts
  <1>6. CASE UNCHANGED vars
    <2>1. db'.final = db.final /\ ses' = ses
      BY <1>6 DEF vars
    <2> QED  BY <1>1, <2>1, QuietVerdicts
  <1> QED  BY <1>2, <1>3, <1>4, <1>5, <1>6 DEF Next

LEMMA InitVerdict == Init => VerdictInv
  <1> SUFFICES ASSUME Init PROVE VerdictInv
    OBVIOUS
  <1>1. \A f \in FinalKeys : db.final[f] = None
    BY DEF Init, FinalKeys
  <1>2. \A s \in Sessions : VerdictSes(db, ses[s])
    BY IdleRec, QuietVerdict DEF Init, Quiet
  <1> QED  BY <1>1, <1>2 DEF VerdictInv, AutoFull

\* "A reviewer's decision must not be undone by a later automatic pass" (pipeline.py:22-25),
\* however submits overlap decisions: on_label_submitted looks for the reviewer's row and
\* finalizes under the unit's lock.  While nobody re-routes every step keeps every verdict;
\* with POST /projects/{id}/route, which takes no lock between its two reads, it does not
\* (Overruled.cfg).
THEOREM VerdictTheorem ==
  ASSUME NoVoids, NoRouting
  PROVE  Spec => VerdictKept /\ VerdictStands
  <1> DEFINE All == Inv /\ LedgerInv /\ VerdictInv
             Decides == \A s \in Sessions : At(s, "record") /\ ses[s].row \in Verdicts(db)
                                               => ses[s].who = "human"
  <1>1. Init => All
    BY InitInv, InitLedger, InitVerdict
  <1>2. All /\ [Next]_vars => All' /\ VerdictsStay
    BY LedgerKeeps, VerdictKeeps DEF Ledgered
  <1>3. All => Decides
    <2> SUFFICES ASSUME All, NEW s \in Sessions, At(s, "record"), ses[s].row \in Verdicts(db)
                 PROVE  ses[s].who = "human"
      OBVIOUS
    <2>1. Finalizing(ses[s]) /\ VerdictSes(db, ses[s]) /\ ses[s].pc = "record"
      BY DEF At, Finalizing, VerdictInv
    <2>2. None \notin Verdicts(db)
      BY TransactionsAssumption DEF Verdicts, Inv, Tables, FinalKeys
    <2> QED  BY <2>1, <2>2 DEF VerdictSes, Reviewing, Settling
  <1>4. All /\ [Next]_vars =>
          [/\ Verdicts(db) \subseteq Verdicts(db') \/ \E s \in Sessions : Reroutes(s) /\ ses'[s] # ses[s]
           /\ \A s \in Sessions : At(s, "record") /\ ses[s].row \in Verdicts(db)
                                    => ses[s].who = "human" \/ Reroutes(s)]_vars
    <2> HIDE DEF All
    <2> QED  BY <1>2, <1>3 DEF VerdictsStay
  <1>5. All /\ [Next]_vars => [Verdicts(db) \subseteq Verdicts(db')]_vars
    <2> HIDE DEF All
    <2> QED  BY <1>2 DEF VerdictsStay
  <1> HIDE DEF All
  <1> QED  BY <1>1, <1>2, <1>4, <1>5, PTL DEF Spec, VerdictKept, VerdictStands

-----------------------------------------------------------------------------
(* Waiting.  A request that decides takes units, and the final labels of   *)
(* each, in the order of the units; a submit or skip takes its slot, then  *)
(* the unit, then the final label.  So in a circle of waits some session   *)
(* swept leases of several units.                                          *)

SweepPcs == {"swept", "pick", "event", "look", "lease"}

\* A request that decides goes through its units in order, and is done with u.
Ahead(st) == st.pc \in {"find", "mark", "escalate", "record"} => \A x \in st.todo : st.u < x
Done(st, u) ==
  /\ Deciding(st)
  /\ \A x \in st.todo : u < x
  /\ st.pc # "route" => u < st.u

LockInOrder(l, st) ==
  /\ l.mode # "share"
  /\ l.on[1] = "slot" => st.pc \in SweepPcs \cup {"release", "fill"} \/ Filling(st)
  /\ l.on[1] = "unit" => \/ st.pc \in SweepPcs \/ Done(st, l.on[2])
                         \/ st.pc \in {"quality", "find", "mark", "record"} /\ l.on[2] = st.u
  /\ l.on[1] = "final" => l.on[2] \in DOMAIN st.w.final /\ Done(st, st.w.final[l.on[2]].unit)

InOrder(L, s, st) == Ahead(st) /\ \A l \in L : l.by = s => LockInOrder(l, st)
AllInOrder == \A s \in Sessions : InOrder(locks, s, ses[s])

LEMMA OnRow == \A k, x : <<k, x>>[1] = k /\ <<k, x>>[2] = x
  OBVIOUS

LEMMA GoOrder ==
  ASSUME Inv, AllInOrder, NEW s \in Sessions, NEW st, Go(s, st), InOrder(locks', s, st),
         \A l \in locks' : l.by # s => l \in locks
  PROVE  AllInOrder'
  <1>1. ses' = [ses EXCEPT ![s] = st] /\ DOMAIN ses = Sessions
    BY DEF Go, Inv
  <1>2. ASSUME NEW t \in Sessions PROVE InOrder(locks', t, ses'[t])
    <2>1. CASE t = s
      BY <1>1, <2>1
    <2>2. CASE t # s
      <3>1. ses'[t] = ses[t] /\ InOrder(locks, t, ses[t])
        BY <1>1, <2>2 DEF AllInOrder
      <3> QED  BY <2>2, <3>1 DEF InOrder
    <2> QED  BY <2>1, <2>2
  <1> QED  BY <1>2 DEF AllInOrder

LEMMA CloseOrder ==
  ASSUME Inv, AllInOrder, NEW s \in Sessions, Close(s)
  PROVE  AllInOrder'
  <1>1. /\ ses' = [ses EXCEPT ![s] = Idle] /\ DOMAIN ses = Sessions
        /\ locks' = {l \in locks : l.by # s}
    BY DEF Close, Inv
  <1>2. ASSUME NEW t \in Sessions PROVE InOrder(locks', t, ses'[t])
    <2>1. CASE t = s
      BY <1>1, <2>1, IdleRec DEF InOrder, Ahead
    <2>2. CASE t # s
      BY <1>1, <2>2 DEF AllInOrder, InOrder
    <2> QED  BY <2>1, <2>2
  <1> QED  BY <1>2 DEF AllInOrder

\* One more lock, or none.
LEMMA LockOrder ==
  ASSUME Inv, AllInOrder, NEW s \in Sessions, NEW st, Go(s, st), Ahead(st), NEW on, NEW mode,
         \/ UNCHANGED locks
         \/ Lock(s, on, mode) /\ LockInOrder([by |-> s, on |-> on, mode |-> mode], st),
         \A l \in locks : l.by = s => LockInOrder(l, st)
  PROVE  AllInOrder'
  BY GoOrder DEF Lock, InOrder

\* What a lock is on.
LEMMA LockKinds ==
  ASSUME Inv, NEW l \in locks
  PROVE  /\ l.by \in Sessions /\ l.mode \in Modes
         /\ \/ l.on[1] = "slot" /\ l.on[2] \in Slots
            \/ l.on[1] = "unit" /\ l.on[2] \in Units
            \/ l.on[1] = "final" /\ l.on[2] \in FinalKeys
         /\ l.on = <<l.on[1], l.on[2]>>
  BY DEF Inv, LocksOK

\* Who has not begun to lock holds nothing.
LEMMA BareHands ==
  ASSUME Inv, AllInOrder, NEW s \in Sessions,
         ses[s].pc \in {"idle", "sweep", "submit", "skip"}
  PROVE  \A l \in locks : l.by # s
  <1> SUFFICES ASSUME NEW l \in locks, l.by = s PROVE FALSE
    OBVIOUS
  <1>1. LockInOrder(l, ses[s])
    BY DEF AllInOrder, InOrder
  <1> QED  BY <1>1, LockKinds DEF LockInOrder, SweepPcs, Done, Deciding, Filling, Finalizing

LEMMA BeginOrder ==
  ASSUME Inv, AllInOrder, NEW s \in Sessions, NEW st, Go(s, st), UNCHANGED locks, At(s, "idle"),
         st.pc \in {"sweep", "submit", "skip", "find", "route"}, st.pc = "find" => st.todo = {}
  PROVE  AllInOrder'
  <1>1. \A l \in locks : l.by # s
    BY BareHands DEF At
  <1>2. InOrder(locks', s, st)
    BY <1>1 DEF InOrder, Ahead
  <1> QED  BY <1>2, GoOrder

LEMMA BeginsOrder ==
  ASSUME Inv, AllInOrder, NEW s \in Sessions,
         \/ \E a \in Annotators : \/ BeginNext(s, a)
                                  \/ \E i \in Slots : BeginSubmit(s, a, i) \/ BeginSkip(s, a, i)
         \/ BeginAvailable(s) \/ (\E u \in Units : BeginDecide(s, u)) \/ BeginRoute(s)
  PROVE  AllInOrder'
  <1>0. Idle \in SesRec /\ Idle.todo = {}
    BY IdleRec DEF Idle
  <1>1. UNCHANGED locks /\ At(s, "idle")
    BY DEF BeginNext, BeginSubmit, BeginSkip, BeginAvailable, BeginDecide, BeginRoute
  <1>2. ASSUME NEW a \in Annotators, BeginNext(s, a) PROVE AllInOrder'
    <2> DEFINE st == [Idle EXCEPT !.pc = "sweep", !.a = a]
    <2>1. st.pc = "sweep" /\ Go(s, st)
      BY <1>0, <1>2 DEF SesRec, BeginNext
    <2> HIDE DEF st
    <2> QED  BY <1>1, <2>1, BeginOrder
  <1>3. ASSUME NEW a \in Annotators, NEW i \in Slots, NEW pc \in {"submit", "skip"},
               Go(s, [Idle EXCEPT !.pc = pc, !.a = a, !.i = i, !.u = UnitOf[i]])
        PROVE  AllInOrder'
    <2> DEFINE st == [Idle EXCEPT !.pc = pc, !.a = a, !.i = i, !.u = UnitOf[i]]
    <2>1. st.pc = pc /\ Go(s, st)
      BY <1>0, <1>3 DEF SesRec
    <2> HIDE DEF st
    <2> QED  BY <1>1, <2>1, BeginOrder
  <1>4. ASSUME BeginAvailable(s) PROVE AllInOrder'
    <2> DEFINE st == [Idle EXCEPT !.pc = "sweep"]
    <2>1. st.pc = "sweep" /\ Go(s, st)
      BY <1>0, <1>4 DEF SesRec, BeginAvailable
    <2> HIDE DEF st
    <2> QED  BY <1>1, <2>1, BeginOrder
  <1>5. ASSUME NEW u \in Units, BeginDecide(s, u) PROVE AllInOrder'
    <2> DEFINE st == [Idle EXCEPT !.pc = "find", !.u = u, !.who = "human", !.seen[u] = db.unit[u]]
    <2>1. st.pc = "find" /\ st.todo = {} /\ Go(s, st)
      BY <1>0, <1>5 DEF SesRec, BeginDecide
    <2> HIDE DEF st
    <2> QED  BY <1>1, <2>1, BeginOrder
  <1>6. ASSUME BeginRoute(s) PROVE AllInOrder'
    <2>1. PICK us, seen : Go(s, [Idle EXCEPT !.pc = "route", !.todo = us, !.seen = seen])
      BY <1>6 DEF BeginRoute
    <2> DEFINE st == [Idle EXCEPT !.pc = "route", !.todo = us, !.seen = seen]
    <2>2. st.pc = "route" /\ Go(s, st)
      BY <1>0, <2>1 DEF SesRec
    <2> HIDE DEF st
    <2> QED  BY <1>1, <2>2, BeginOrder
  <1> QED  BY <1>2, <1>3, <1>4, <1>5, <1>6 DEF BeginSubmit, BeginSkip

\* A sweep, and what follows it in next_task, may hold slots and units as it likes.
LEMMA SweepOrder ==
  ASSUME Inv, AllInOrder, NEW s \in Sessions, NEW st, Go(s, st),
         ses[s].pc \in SweepPcs \cup {"sweep"}, st.pc \in SweepPcs,
         \A l \in locks' \ locks : l.by = s /\ l.mode = "update" /\ l.on[1] \in {"slot", "unit"}
  PROVE  AllInOrder'
  <1>1. ASSUME NEW l \in locks', l.by = s PROVE LockInOrder(l, st)
    <2>1. CASE l \in locks
      <3>1. LockInOrder(l, ses[s])
        BY <1>1, <2>1 DEF AllInOrder, InOrder
      <3>2. l.on[1] # "final"
        BY <3>1 DEF LockInOrder, Done, Deciding, Finalizing, SweepPcs
      <3> QED  BY <3>1, <3>2 DEF LockInOrder
    <2>2. CASE l \notin locks
      BY <1>1, <2>2 DEF LockInOrder
    <2> QED  BY <2>1, <2>2
  <1>2. Ahead(st)
    BY DEF Ahead, SweepPcs
  <1> QED  BY <1>1, <1>2, GoOrder DEF InOrder

LEMMA SweepsOrder ==
  ASSUME Inv, AllInOrder, NEW s \in Sessions,
         Sweep(s) \/ (\E u \in Units : SweepUnit(s, u)) \/ CountWork(s)
  PROVE  AllInOrder'
  <1> DEFINE old == ses[s]
  <1>1. old \in SesRec
    BY SessionFacts
  <1>2. ASSUME Sweep(s) PROVE AllInOrder'
    <2>1. PICK is, todo, w :
             /\ Go(s, [old EXCEPT !.pc = "swept", !.todo = todo, !.w = w])
             /\ locks' = locks \cup {[by |-> s, on |-> <<"slot", i>>, mode |-> "update"] : i \in is}
      BY <1>2 DEF Sweep
    <2> DEFINE st == [old EXCEPT !.pc = "swept", !.todo = todo, !.w = w]
    <2>2. st.pc = "swept" /\ Go(s, st) /\ old.pc = "sweep"
      BY <1>1, <1>2, <2>1 DEF SesRec, Sweep, At
    <2>3. \A l \in locks' \ locks : l.by = s /\ l.mode = "update" /\ l.on[1] \in {"slot", "unit"}
      BY <2>1, OnRow
    <2> HIDE DEF st
    <2> QED  BY <2>2, <2>3, SweepOrder DEF SweepPcs
  <1>3. ASSUME NEW u \in Units, SweepUnit(s, u) PROVE AllInOrder'
    <2>1. PICK todo, w : Go(s, [old EXCEPT !.todo = todo, !.w = w])
      BY <1>3 DEF SweepUnit
    <2> DEFINE st == [old EXCEPT !.todo = todo, !.w = w]
    <2>2. st.pc = "swept" /\ Go(s, st) /\ old.pc = "swept"
      BY <1>1, <1>3, <2>1 DEF SesRec, SweepUnit, At
    <2>3. locks' = locks \cup {[by |-> s, on |-> <<"unit", u>>, mode |-> "update"]}
      BY <1>3 DEF SweepUnit, Lock, UnitLock
    <2>4. \A l \in locks' \ locks : l.by = s /\ l.mode = "update" /\ l.on[1] \in {"slot", "unit"}
      BY <2>3, OnRow
    <2> HIDE DEF st
    <2> QED  BY <2>2, <2>4, SweepOrder DEF SweepPcs
  <1>4. CASE CountWork(s)
    BY <1>4, CloseOrder DEF CountWork, Commit
  <1> QED  BY <1>2, <1>3, <1>4

LEMMA HandsOutOrder ==
  ASSUME Inv, AllInOrder, NEW s \in Sessions,
         Resume(s) \/ LogResumed(s) \/ Pick(s) \/ Look(s) \/ Lease(s)
  PROVE  AllInOrder'
  <1> DEFINE old == ses[s]
  <1>1. old \in SesRec
    BY SessionFacts
  <1>2. CASE LogResumed(s) \/ Lease(s) \/ Commit(s, old.w)
    BY <1>2, CloseOrder DEF LogResumed, Lease, Commit
  <1>3. ASSUME NEW pc \in {"pick", "lease"}, NEW u, NEW seen, UNCHANGED locks,
               old.pc \in SweepPcs, Go(s, [old EXCEPT !.pc = pc]) \/ Go(s, [old EXCEPT !.pc = pc, !.seen[u] = seen])
        PROVE  AllInOrder'
    <2>0. [old EXCEPT !.pc = pc].pc = pc /\ [old EXCEPT !.pc = pc, !.seen[u] = seen].pc = pc
      BY <1>1 DEF SesRec
    <2>1. PICK st : Go(s, st) /\ st.pc = pc
      BY <1>3, <2>0
    <2> QED  BY <1>3, <2>1, SweepOrder DEF SweepPcs
  <1>4. ASSUME NEW pc \in {"event", "look"}, NEW i, NEW w, Lock(s, <<"slot", i>>, "update"),
               old.pc \in SweepPcs, Go(s, [old EXCEPT !.pc = pc, !.u = UnitOf[i], !.w = w])
        PROVE  AllInOrder'
    <2>0. [old EXCEPT !.pc = pc, !.u = UnitOf[i], !.w = w].pc = pc
      BY <1>1 DEF SesRec
    <2>1. PICK st : Go(s, st) /\ st.pc = pc
      BY <1>4, <2>0
    <2>2. locks' = locks \cup {[by |-> s, on |-> <<"slot", i>>, mode |-> "update"]}
      BY <1>4 DEF Lock
    <2>3. \A l \in locks' \ locks : l.by = s /\ l.mode = "update" /\ l.on[1] \in {"slot", "unit"}
      BY <2>2, OnRow
    <2> QED  BY <1>4, <2>1, <2>3, SweepOrder DEF SweepPcs
  <1>5. CASE Resume(s)
    BY <1>3, <1>4, <1>5 DEF Resume, At, SweepPcs
  <1>6. CASE Pick(s)
    BY <1>2, <1>4, <1>6 DEF Pick, At, SweepPcs
  <1>7. CASE Look(s)
    BY <1>3, <1>7 DEF Look, At, SweepPcs
  <1> QED  BY <1>2, <1>5, <1>6, <1>7

LEMMA TakesOrder ==
  ASSUME Inv, AllInOrder, NEW s \in Sessions, TakeSlot(s) \/ Release(s)
  PROVE  AllInOrder'
  <1> DEFINE old == ses[s]
             on  == <<"slot", old.i>>
  <1>1. old \in SesRec
    BY SessionFacts
  <1>2. CASE Abort(s) \/ Release(s)
    BY <1>2, CloseOrder DEF Abort, Release, Commit
  <1>3. ASSUME TakeSlot(s), NEW st, Go(s, st), st.pc \in {"release", "fill"}, LockSlot(s) PROVE AllInOrder'
    <2>1. \A l \in locks : l.by # s
      BY <1>3, BareHands DEF TakeSlot
    <2>2. Ahead(st) /\ Lock(s, on, "update")
      BY <1>3 DEF Ahead, LockSlot
    <2>3. LockInOrder([by |-> s, on |-> on, mode |-> "update"], st)
      <3> HIDE DEF old
      <3> QED  BY <1>3, OnRow DEF LockInOrder
    <2> HIDE DEF on
    <2> QED  BY <1>3, <2>1, <2>2, <2>3, LockOrder
  <1>4. ASSUME TakeSlot(s), LockSlot(s), Go(s, [old EXCEPT !.pc = "fill"]) PROVE AllInOrder'
    <2>1. [old EXCEPT !.pc = "fill"].pc = "fill"
      BY <1>1 DEF SesRec
    <2> QED  BY <1>3, <1>4, <2>1
  <1>5. ASSUME TakeSlot(s), LockSlot(s),
               Go(s, [old EXCEPT !.pc = "release", !.w = Put(@, "slot", {old.i}, OpenSlot)])
        PROVE  AllInOrder'
    <2>1. PICK w : Go(s, [old EXCEPT !.pc = "release", !.w = w])
      BY <1>5
    <2>2. [old EXCEPT !.pc = "release", !.w = w].pc = "release"
      BY <1>1 DEF SesRec
    <2> QED  BY <1>3, <1>5, <2>1, <2>2
  <1> QED  BY <1>2, <1>4, <1>5 DEF TakeSlot

LEMMA FillOrder ==
  ASSUME Inv, AllInOrder, NEW s \in Sessions, Fill(s)
  PROVE  AllInOrder'
  <1> DEFINE old == ses[s]
             on  == <<"unit", old.u>>
  <1>1. old \in SesRec /\ old.pc = "fill"
    BY SessionFacts DEF Fill, At
  <1>2. CASE Abort(s)
    BY <1>2, CloseOrder DEF Abort
  <1>3. CASE ~Abort(s)
    <2>1. PICK w : Go(s, [old EXCEPT !.pc = "quality", !.w = w])
      BY <1>3 DEF Fill
    <2> DEFINE st == [old EXCEPT !.pc = "quality", !.w = w]
    <2>2. st.pc = "quality" /\ st.u = old.u /\ Go(s, st)
      BY <1>1, <2>1 DEF SesRec
    <2>3. Lock(s, on, "update")
      BY <1>3 DEF Fill, UnitLock
    <2> HIDE DEF st
    <2>4. ASSUME NEW l \in locks, l.by = s PROVE LockInOrder(l, st)
      <3>1. LockInOrder(l, old)
        BY <2>4 DEF AllInOrder, InOrder
      <3> QED  BY <1>1, <2>2, <3>1 DEF LockInOrder, SweepPcs, Done, Deciding, Filling, Finalizing
    <2>5. LockInOrder([by |-> s, on |-> on, mode |-> "update"], st)
      BY <2>2, OnRow DEF LockInOrder
    <2>6. Ahead(st)
      BY <2>2 DEF Ahead
    <2> HIDE DEF on
    <2> QED  BY <2>2, <2>3, <2>4, <2>5, <2>6, LockOrder
  <1> QED  BY <1>2, <1>3

\* A request goes on to finalize its unit, or has read the unit's final label.
LEMMA FinalizesOrder ==
  ASSUME Inv, AllInOrder, NEW s \in Sessions, NEW st, Go(s, st), UNCHANGED locks,
         ses[s].pc \in {"quality", "find"}, Finalizing(st), ses[s].todo = {} \/ ses[s].pc = "find",
         st.a = ses[s].a, st.u = ses[s].u, st.todo = ses[s].todo, st.w.final = ses[s].w.final
  PROVE  AllInOrder'
  <1> DEFINE old == ses[s]
  <1>1. old.pc = "quality" => old.a # None
    BY SessionFacts, TransactionsAssumption DEF SesInv, Typed, Filling
  <1>2. (Filling(st) <=> Filling(old)) /\ (Deciding(st) <=> Deciding(old))
    BY <1>1 DEF Filling, Deciding, Finalizing
  <1>3. \A v : Done(old, v) => Done(st, v)
    BY <1>2 DEF Done, Deciding, Finalizing
  <1>4. ASSUME NEW l \in locks, l.by = s PROVE LockInOrder(l, st)
    <2>1. LockInOrder(l, old)
      BY <1>4 DEF AllInOrder, InOrder
    <2> QED  BY <1>2, <1>3, <2>1 DEF LockInOrder, SweepPcs, Finalizing
  <1>5. Ahead(st)
    <2>1. Ahead(old)
      BY DEF AllInOrder, InOrder
    <2> QED  BY <2>1 DEF Ahead
  <1> QED  BY <1>4, <1>5, LockOrder

LEMMA QualityOrder ==
  ASSUME Inv, AllInOrder, NEW s \in Sessions, Quality(s)
  PROVE  AllInOrder'
  <1> DEFINE old == ses[s]
             u    == old.u
             seen == Over(old.w).unit[u]
  <1>1. /\ old \in SesRec /\ old.w \in Writes /\ db \in Tables /\ old.pc = "quality" /\ old.todo = {}
        /\ u \in Units
    BY SessionFacts, SlotUnits DEF Quality, At, SesInv, Typed, Phase, Filling
  <1>2. CASE Commit(s, old.w)
    BY <1>2, CloseOrder DEF Commit
  <1>3. ASSUME UNCHANGED locks, Go(s, ToFinalize(s, u, seen)) PROVE AllInOrder'
    <2>1. seen \in Seen
      <3>1. Over(old.w) \in Tables
        BY <1>1, OverRows
      <3> QED  BY <1>1, <3>1 DEF Tables, Seen
    <2> HIDE DEF seen
    <2>2. PICK st : st = ToFinalize(s, u, seen)
      OBVIOUS
    <2>3. st.pc = "find" /\ st.a = old.a /\ st.u = u /\ st.todo = old.todo /\ st.w = old.w
      BY <1>1, <2>1, <2>2, ToFinalizeFields
    <2> QED  BY <1>1, <1>3, <2>2, <2>3, FinalizesOrder DEF Finalizing
  <1> QED  BY <1>2, <1>3 DEF Quality

LEMMA FindFinalOrder ==
  ASSUME Inv, AllInOrder, NEW s \in Sessions, FindFinal(s)
  PROVE  AllInOrder'
  <1>1. ses[s].pc = "find" /\ UNCHANGED locks
    BY DEF FindFinal, At
  <1>2. PICK st \in SesRec :
          /\ Go(s, st) /\ st.pc \in {"mark", "record"} /\ st.a = ses[s].a /\ st.u = ses[s].u
          /\ st.todo = ses[s].todo /\ IsFinalized(st.w, ses[s].w, st.u)
    BY FindFinalFields
  <1>3. st.w.final = ses[s].w.final
    BY <1>2 DEF IsFinalized
  <1> QED  BY <1>1, <1>2, <1>3, FinalizesOrder DEF Finalizing

LEMMA WriteUnitOrder ==
  ASSUME Inv, AllInOrder, NEW s \in Sessions, WriteUnit(s)
  PROVE  AllInOrder'
  <1> DEFINE old == ses[s]
             on  == <<"unit", old.u>>
  <1>1. old \in SesRec /\ old.pc \in {"mark", "escalate"} /\ (old.pc = "escalate" => old.a = None)
    BY SessionFacts DEF WriteUnit, SesInv, Typed
  <1>2. \A x \in old.todo : old.u < x
    BY <1>1 DEF AllInOrder, InOrder, Ahead
  <1>3. PICK pc : Go(s, [old EXCEPT !.pc = pc]) /\ pc = IF old.pc = "mark" THEN "record" ELSE "route"
    BY DEF WriteUnit
  <1> DEFINE st == [old EXCEPT !.pc = pc]
  <1>4. st.pc = pc /\ st.u = old.u /\ st.a = old.a /\ st.todo = old.todo /\ st.w = old.w /\ Go(s, st)
    BY <1>1, <1>3 DEF SesRec
  <1> HIDE DEF st
  <1>5. Lock(s, on, "write")
    BY DEF WriteUnit
  <1>6. ASSUME NEW l \in locks, l.by = s PROVE LockInOrder(l, st)
    <2>1. LockInOrder(l, old)
      BY <1>6 DEF AllInOrder, InOrder
    <2> QED  BY <1>1, <1>3, <1>4, <2>1 DEF LockInOrder, SweepPcs, Done, Deciding, Filling, Finalizing
  <1>7. LockInOrder([by |-> s, on |-> on, mode |-> "write"], st)
    BY <1>1, <1>2, <1>3, <1>4, OnRow DEF LockInOrder, Done, Deciding, Finalizing
  <1>8. Ahead(st)
    BY <1>2, <1>3, <1>4 DEF Ahead
  <1> HIDE DEF on, old
  <1> QED  BY <1>4, <1>5, <1>6, <1>7, <1>8, LockOrder

\* The units are routed from the first: those left all come after.
LEMMA RouteNextOrder ==
  ASSUME Inv, AllInOrder, NEW s \in Sessions, RouteNext(s)
  PROVE  AllInOrder'
  <1> DEFINE old == ses[s]
  <1>1. old \in SesRec /\ old.pc = "route" /\ old.a = None /\ old.todo \subseteq Units /\ old.w \in Writes
    BY SessionFacts, RecFields DEF RouteNext, At, SesInv, Typed
  <1>2. CASE Commit(s, old.w)
    BY <1>2, CloseOrder DEF Commit
  <1>3. CASE ~Commit(s, old.w)
    <2>1. PICK st \in SesRec, u \in old.todo :
            /\ UNCHANGED locks /\ Go(s, st) /\ st.pc \in {"route", "escalate", "find"} /\ st.a = None
            /\ st.w = old.w /\ st.todo = old.todo \ {u} /\ (st.pc # "route" => st.u = u)
            /\ \A x \in old.todo : u <= x
      BY <1>3, RouteNextFields
    <2>2. ASSUME NEW x \in st.todo PROVE u < x
      <3>1. x \in old.todo /\ x # u /\ u <= x
        BY <2>1, <2>2
      <3>2. x \in Nat /\ u \in Nat
        BY <1>1, <3>1, TransactionsAssumption
      <3> QED  BY <3>1, <3>2
    <2>3. ASSUME NEW l \in locks, l.by = s PROVE LockInOrder(l, st)
      <3>1. LockInOrder(l, old)
        BY <2>3 DEF AllInOrder, InOrder
      <3>2. \A v : Done(old, v) => Done(st, v)
        BY <1>1, <2>1 DEF Done, Deciding, Finalizing
      <3> QED  BY <1>1, <2>1, <3>1, <3>2 DEF LockInOrder, SweepPcs, Filling, Finalizing
    <2>4. Ahead(st)
      BY <2>1, <2>2 DEF Ahead
    <2> QED  BY <2>1, <2>3, <2>4, LockOrder
  <1> QED  BY <1>2, <1>3

LEMMA RecordOrder ==
  ASSUME Inv, LedgerInv, AllInOrder, NEW s \in Sessions, Record(s)
  PROVE  AllInOrder'
  <1> DEFINE old == ses[s]
             on  == <<"final", old.row>>
  <1>1. old \in SesRec /\ old.pc = "record"
    BY SessionFacts DEF Record, At
  <1>2. CASE Abort(s)
    BY <1>2, CloseOrder DEF Abort
  <1>3. ASSUME ~(old.row # None /\ db.final[old.row] = None), NEW w \in Recorded(s), Commit(s, w)
        PROVE  AllInOrder'
    BY <1>3, CloseOrder DEF Commit
  <1>4. ASSUME ~(old.row # None /\ db.final[old.row] = None), NEW w \in Recorded(s), old.todo # {},
               IF old.row = None THEN UNCHANGED locks ELSE Lock(s, on, "update"),
               Go(s, [old EXCEPT !.pc = "route", !.w = w])
        PROVE  AllInOrder'
    <2>2. PICK f \in FinalKeys, r \in FinalRow :
            /\ IsPutFinal(w, old.w, f, r) /\ r.unit = old.u
            /\ old.row # None => f = old.row
            /\ f \in DOMAIN old.w.final => old.w.final[f].unit = old.u
      <3>1. PICK f \in FinalKeys, r \in FinalRow :
              /\ IsPutFinal(w, old.w, f, r) /\ r.unit = old.u
              /\ IF old.row = None THEN f \in Fresh("final")
                 ELSE f = old.row /\ db.final[f] # None /\ RowKept(db.final[f], r)
        BY <1>1, <1>4, RecordedIs DEF Record
      <3>2. FinalsWritten(db, locks, s, old.w)
        BY DEF LedgerInv, Wrote
      <3>3. f \in Fresh("final") => f \notin DOMAIN old.w.final
        BY DEF Fresh
      <3>4. f \in DOMAIN old.w.final => old.w.final[f].unit = old.u
        BY <3>1, <3>2, <3>3 DEF FinalsWritten, RowKept
      <3> QED  BY <3>1, <3>4
    <2> DEFINE st == [old EXCEPT !.pc = "route", !.w = w]
    <2>3. st.pc = "route" /\ st.a = old.a /\ st.todo = old.todo /\ st.w = w /\ Go(s, st)
      BY <1>1, <1>4 DEF SesRec
    <2> HIDE DEF st
    <2>4. /\ DOMAIN w.final = DOMAIN old.w.final \cup {f} /\ w.final[f].unit = old.u
          /\ \A k \in DOMAIN old.w.final : w.final[k].unit = old.w.final[k].unit
      BY <2>2 DEF IsPutFinal
    <2>5. \A x \in old.todo : old.u < x
      BY <1>1 DEF AllInOrder, InOrder, Ahead
    <2>6. ~Filling(old)
      BY <1>1, <1>4, SessionFacts DEF SesInv, Phase
    <2>7. Done(st, old.u) /\ \A v : Done(old, v) => Done(st, v)
      BY <2>3, <2>5 DEF Done, Deciding, Finalizing
    <2>8. ASSUME NEW l \in locks, l.by = s PROVE LockInOrder(l, st)
      <3>1. LockInOrder(l, old)
        BY <2>8 DEF AllInOrder, InOrder
      <3> QED  BY <1>1, <2>3, <2>4, <2>6, <2>7, <3>1 DEF LockInOrder, SweepPcs
    <2>9. old.row # None => LockInOrder([by |-> s, on |-> on, mode |-> "update"], st)
      BY <2>2, <2>3, <2>4, <2>7, OnRow DEF LockInOrder
    <2>10. Ahead(st)
      BY <2>3 DEF Ahead
    <2> HIDE DEF on, old
    <2> QED  BY <1>4, <2>3, <2>8, <2>9, <2>10, LockOrder
  <1> QED  BY <1>2, <1>3, <1>4 DEF Record

LEMMA OrderKeeps ==
  ASSUME NoVoids, Inv, LedgerInv, AllInOrder, [Next]_vars
  PROVE  AllInOrder'
  <1>1. ASSUME NEW s \in Sessions, WorkerStep(s) PROVE AllInOrder'
    BY <1>1, BeginsOrder, SweepsOrder, HandsOutOrder, TakesOrder, FillOrder, QualityOrder, FindFinalOrder,
       RecordOrder
       DEF WorkerStep
  <1>2. ASSUME NEW s \in Sessions, StaffStep(s) PROVE AllInOrder'
    BY <1>2, NoVoidSteps, BeginsOrder, WriteUnitOrder, RouteNextOrder DEF StaffStep
  <1>3. ASSUME NEW s \in Sessions, Rollback(s) PROVE AllInOrder'
    BY <1>3, CloseOrder DEF Rollback, Abort
  <1>4. CASE UNCHANGED <<ses, locks>>
    BY <1>4 DEF AllInOrder, InOrder
  <1> QED  BY <1>1, <1>2, <1>3, <1>4 DEF Next, LeaseRunsOut, vars

LEMMA AlwaysOrder ==
  ASSUME NoVoids
  PROVE  Spec => [](Inv /\ LedgerInv /\ AllInOrder)
  <1>1. Init => AllInOrder
    BY IdleRec DEF Init, AllInOrder, InOrder, Ahead
  <1>2. Inv /\ LedgerInv /\ AllInOrder /\ [Next]_vars => AllInOrder'
    BY OrderKeeps
  <1> QED  BY <1>1, <1>2, AlwaysLedger, PTL DEF Spec

\* What a session may wait for, voids apart.
WantsUnit(s, u) == \E m \in Modes : <<<<"unit", u>>, m>> \in Wanted(s)
WantsFinal(s, u) == ses[s].pc = "record" /\ ses[s].row # None /\ ses[s].u = u

LEMMA Waiting ==
  ASSUME Inv, NoVoids, NEW s \in Sessions, NEW lk \in Wanted(s)
  PROVE  \/ ses[s].pc \in {"submit", "skip"} /\ lk[1] = <<"slot", ses[s].i>>
         \/ /\ ses[s].pc \in {"release", "fill", "swept", "event", "lease", "mark", "escalate"}
            /\ \E u \in Units : lk[1] = <<"unit", u>> /\ WantsUnit(s, u)
         \/ ses[s].pc = "record" /\ ses[s].row # None /\ lk = <<<<"final", ses[s].row>>, "update">>
  <1> DEFINE st == ses[s]
  <1>1. /\ st.pc \notin VoidPcs /\ st.pc \in Pcs
        /\ st.pc \in {"submit", "skip", "release", "fill"} => st.i \in Slots /\ st.u = UnitOf[st.i]
        /\ st.pc \in {"event", "lease", "mark", "escalate", "record"} => st.u \in Units
        /\ st.pc = "swept" => st.todo \subseteq Units
    BY SessionFacts, RecFields DEF SesInv, Typed, NoVoids
  <1>2. CASE st.pc \in {"submit", "skip"}
    BY <1>2 DEF Wanted
  <1>3. CASE st.pc \in {"release", "fill"}
    <2>1. lk = <<<<"unit", st.u>>, "update">> /\ st.u \in Units
      BY <1>1, <1>3, SlotUnits DEF Wanted, UnitLock
    <2> QED  BY <1>3, <2>1 DEF WantsUnit, Modes
  <1>4. CASE st.pc = "swept"
    <2>1. PICK u \in Units : lk = <<<<"unit", u>>, "update">>
      BY <1>1, <1>4 DEF Wanted, UnitLock
    <2> QED  BY <1>4, <2>1 DEF WantsUnit, Modes
  <1>5. CASE st.pc \in {"event", "lease", "mark", "escalate"}
    <2>1. PICK m \in Modes : lk = <<<<"unit", st.u>>, m>>
      BY <1>5 DEF Wanted, Modes
    <2> QED  BY <1>1, <1>5, <2>1 DEF WantsUnit
  <1>6. CASE st.pc = "record"
    BY <1>6 DEF Wanted
  <1>7. CASE st.pc \in {"idle", "sweep", "pick", "look", "quality", "find", "route"}
    BY <1>7 DEF Wanted
  <1> QED  BY <1>1, <1>2, <1>3, <1>4, <1>5, <1>6, <1>7 DEF Pcs

\* Who is done with a unit and waits, waits for a unit further on.
LEMMA Onward ==
  ASSUME Inv, NoVoids, NEW t \in Sessions, NEW u \in Units, Done(ses[t], u), Wanted(t) # {}
  PROVE  \E v \in Units : u < v /\ (WantsUnit(t, v) \/ WantsFinal(t, v))
  <1> DEFINE st == ses[t]
  <1>1. PICK lk \in Wanted(t) : TRUE
    OBVIOUS
  <1>2. CASE st.pc \in {"mark", "escalate"}
    <2>1. u < st.u /\ st.u \in Units
      BY <1>2, SessionFacts DEF Done, SesInv, Typed
    <2>2. <<<<"unit", st.u>>, "write">> \in Wanted(t)
      BY <1>2 DEF Wanted
    <2> QED  BY <2>1, <2>2 DEF WantsUnit, Modes
  <1>3. CASE st.pc = "record"
    <2>1. u < st.u /\ st.u \in Units
      BY <1>3, SessionFacts DEF Done, SesInv, Typed
    <2>2. WantsFinal(t, st.u)
      BY <1>1, <1>3, Waiting DEF WantsFinal
    <2> QED  BY <2>1, <2>2
  <1> QED  BY <1>1, <1>2, <1>3, Waiting DEF Done, Deciding, Finalizing

\* The final label a session waits for is written by one that is done with its unit.
LEMMA FinalHeld ==
  ASSUME LedgerInv, AllInOrder, NEW s \in Sessions, NEW t \in Sessions, s # t, NEW u, WantsFinal(s, u),
         NEW l \in locks, l.by = t, l.on = <<"final", ses[s].row>>
  PROVE  Done(ses[t], u)
  <1> DEFINE f == ses[s].row
  <1>1. LockInOrder(l, ses[t]) /\ l.on[1] = "final" /\ l.on[2] = f
    BY OnRow DEF AllInOrder, InOrder
  <1>2. f \in DOMAIN ses[t].w.final /\ Done(ses[t], ses[t].w.final[f].unit)
    BY <1>1 DEF LockInOrder
  <1>3. RowRead(db, ses[s]) /\ FinalsWritten(db, locks, s, ses[s].w) /\ FinalsWritten(db, locks, t, ses[t].w)
    BY DEF LedgerInv, Wrote
  <1>4. ses[t].w.final[f].unit = u
    <2>1. CASE db.final[f] # None /\ db.final[f].unit = u
      BY <1>2, <1>3, <2>1 DEF FinalsWritten, RowKept
    <2>2. CASE f \in DOMAIN ses[s].w.final /\ ses[s].w.final[f].unit = u
      <3>1. db.final[f] # None
        BY <1>2, <2>2 DEF LedgerInv, FinalsApart
      <3> QED  BY <1>2, <1>3, <2>2, <3>1 DEF FinalsWritten, RowKept
    <2> QED  BY <1>3, <2>1, <2>2 DEF RowRead, WantsFinal
  <1> QED  BY <1>2, <1>4

\* The greatest of finitely many numbers: induction on their count, as the least number
\* that counts a set without a greatest member.
LEMMA LeastNumber ==
  ASSUME NEW T \in SUBSET Nat, T # {}
  PROVE  \E n \in T : \A k \in T : n <= k
  <1>1. \E n \in T : \A k \in T : ~(<<k, n>> \in OpToRel(<, Nat))
    BY WFMin, NatLessThanWellFounded, Zenon
  <1>2. PICK n \in T : \A k \in T : ~(<<k, n>> \in OpToRel(<, Nat))
    BY <1>1, Zenon
  <1>3. \A k \in T : ~(k < n)
    BY <1>2, Zenon DEF OpToRel
  <1> QED  BY <1>3

LEMMA GreatestNumber ==
  ASSUME NEW S \in SUBSET Nat, IsFiniteSet(S), S # {}
  PROVE  \E n \in S : \A k \in S : k <= n
  <1> DEFINE NoGreatest(T) == T # {} /\ \A x \in T : \E k \in T : x < k
             Bad == {n \in Nat : \E T \in SUBSET S : Cardinality(T) = n /\ NoGreatest(T)}
  <1>1. ASSUME Bad # {} PROVE FALSE
    <2>1. PICK n \in Bad : \A k \in Bad : n <= k
      BY <1>1, LeastNumber, Zenon
    <2>2. PICK T \in SUBSET S : Cardinality(T) = n /\ NoGreatest(T)
      BY <2>1
    <2>3. PICK x \in T : TRUE
      BY <2>2
    <2>4. IsFiniteSet(T)
      BY FS_Subset
    <2>5. IsFiniteSet(T \ {x}) /\ Cardinality(T \ {x}) = Cardinality(T) - 1
      BY <2>3, <2>4, FS_RemoveElement
    <2>6. Cardinality(T \ {x}) \in Nat
      BY <2>5, FS_CardinalityType
    <2>7. Cardinality(T \ {x}) \notin Bad
      <3>1. Cardinality(T \ {x}) < n
        BY <2>1, <2>2, <2>5, <2>6
      <3>2. n \in Nat
        BY <2>1
      <3> HIDE DEF Bad
      <3> QED  BY <2>1, <2>6, <3>1, <3>2
    <2>8. ~NoGreatest(T \ {x})
      BY <2>6, <2>7
    <2>9. T \ {x} # {}
      BY <2>2, <2>3
    <2>10. PICK y \in T \ {x} : \A k \in T \ {x} : ~(y < k)
      BY <2>8, <2>9
    <2> QED  BY <2>2, <2>3, <2>10
  <1>2. Cardinality(S) \in Nat
    BY FS_CardinalityType
  <1>3. ~NoGreatest(S)
    BY <1>1, <1>2
  <1> QED  BY <1>3

\* Requests of workers, reviewers and the engine wait on each other in a circle only
\* through a sweep of several units' leases (sweep_expired_leases, engine.py): a submit
\* or skip takes its slot before its unit, and a routing its units in order.
THEOREM NoDeadlockTheorem ==
  ASSUME NoVoids
  PROVE  Spec => []NoDeadlock
  <1>1. ASSUME Inv, LedgerInv, AllInOrder, NEW ss \in SUBSET Sessions, Deadlocked(ss),
               \A s \in ss : ~Straddles(s)
        PROVE  FALSE
    <2> DEFINE Wants(s, u) == WantsUnit(s, u) \/ WantsFinal(s, u)
               W == {u \in Units : \E s \in ss : Wants(s, u)}
    <2>1. ASSUME NEW s \in ss
          PROVE  /\ Wanted(s) # {}
                 /\ \A lk \in Wanted(s) : \E t \in ss \ {s} : \E l \in locks :
                       l.by = t /\ l.on = lk[1] /\ Clash(l.mode, lk[2]) /\ LockInOrder(l, ses[t])
      BY <1>1 DEF Deadlocked, Blockers, AllInOrder, InOrder
    <2>2. ASSUME NEW s \in ss, ses[s].pc \notin {"submit", "skip"}
          PROVE  \E u \in W : Wants(s, u)
      <3>1. PICK lk \in Wanted(s) : TRUE
        BY <2>1
      <3>2. CASE \E u \in Units : WantsUnit(s, u)
        BY <3>2
      <3>3. CASE ses[s].pc = "record" /\ ses[s].row # None
        <4>1. ses[s].u \in Units
          BY <1>1, <3>3, SessionFacts DEF SesInv, Typed
        <4> QED  BY <3>3, <4>1 DEF WantsFinal
      <3> QED  BY <1>1, <2>2, <3>1, <3>2, <3>3, Waiting
    <2>3. W # {}
      <3>1. PICK s \in ss : TRUE
        BY <1>1 DEF Deadlocked
      <3>2. CASE ses[s].pc \in {"submit", "skip"}
        <4>1. PICK lk \in Wanted(s) : lk[1] = <<"slot", ses[s].i>>
          BY <1>1, <2>1, <3>2, Waiting
        <4>2. PICK t \in ss, l \in locks : l.on = lk[1] /\ LockInOrder(l, ses[t])
          BY <2>1
        <4>3. ses[t].pc \notin {"submit", "skip"}
          BY <4>1, <4>2, OnRow DEF LockInOrder, SweepPcs, Filling, Finalizing
        <4> QED  BY <2>2, <4>3
      <3> QED  BY <2>2, <3>2
    <2>4. PICK u \in W : \A v \in W : v <= u
      <3>1. W \in SUBSET Nat /\ IsFiniteSet(W)
        BY TransactionsAssumption, FS_Subset
      <3> HIDE DEF W
      <3> QED  BY <2>3, <3>1, GreatestNumber
    <2>5. ASSUME NEW t \in ss, Done(ses[t], u) PROVE FALSE
      <3>1. PICK v \in Units : u < v /\ Wants(t, v)
        BY <1>1, <2>1, <2>5, Onward
      <3>2. v \in W /\ v <= u /\ u \in Nat /\ v \in Nat
        BY <2>4, <3>1, TransactionsAssumption
      <3> QED  BY <3>1, <3>2
    <2>6. ASSUME NEW s \in ss, WantsFinal(s, u) PROVE FALSE
      <3>1. <<<<"final", ses[s].row>>, "update">> \in Wanted(s)
        BY <2>6 DEF Wanted, WantsFinal
      <3>2. PICK t \in ss \ {s}, l \in locks : l.by = t /\ l.on = <<"final", ses[s].row>>
        BY <2>1, <3>1
      <3> QED  BY <1>1, <2>5, <2>6, <3>2, FinalHeld
    <2>7. ASSUME NEW s \in ss, WantsUnit(s, u) PROVE FALSE
      <3>1. PICK m \in Modes : <<<<"unit", u>>, m>> \in Wanted(s)
        BY <2>7 DEF WantsUnit
      <3>2. PICK t \in ss \ {s}, l \in locks : l.by = t /\ l.on = <<"unit", u>> /\ LockInOrder(l, ses[t])
        BY <2>1, <3>1
      <3>3. l.on[1] = "unit" /\ l.on[2] = u
        BY <3>2, OnRow
      <3>4. CASE ses[t].pc \in SweepPcs
        <4>1. PICK lk \in Wanted(t) : TRUE
          BY <2>1
        <4>2. ses[t].pc \in {"swept", "event", "lease"}
          BY <1>1, <3>4, <4>1, Waiting DEF SweepPcs
        <4>3. lk[1] = <<"unit", u>>
          BY <1>1, <3>2, <3>3, <4>2 DEF Straddles
        <4>4. PICK p \in ss \ {t}, k \in locks : k.by = p /\ k.on = lk[1] /\ LockInOrder(k, ses[p])
          BY <2>1
        <4>5. Clash(l.mode, k.mode)
          BY <3>2, <4>4 DEF LockInOrder, Clash
        <4> QED  BY <1>1, <3>2, <4>3, <4>4, <4>5 DEF Inv, LocksOK
      <3>5. CASE ses[t].pc \in {"quality", "find", "record"} /\ u = ses[t].u
        <4>1. PICK lk \in Wanted(t) : TRUE
          BY <2>1
        <4>2. WantsFinal(t, u)
          BY <1>1, <3>5, <4>1, Waiting DEF WantsFinal
        <4> QED  BY <2>6, <4>2
      <3>6. CASE ses[t].pc = "mark" /\ u = ses[t].u
        <4>1. PICK lk \in Wanted(t) : lk[1] = <<"unit", u>>
          <5>1. <<<<"unit", u>>, "write">> \in Wanted(t)
            BY <3>6 DEF Wanted
          <5>2. <<<<"unit", u>>, "write">>[1] = <<"unit", u>>
            OBVIOUS
          <5> QED  BY <5>1, <5>2
        <4>2. PICK p \in ss \ {t}, k \in locks : k.by = p /\ k.on = <<"unit", u>> /\ LockInOrder(k, ses[p])
          BY <2>1, <4>1
        <4>3. Clash(l.mode, k.mode)
          BY <3>2, <4>2 DEF LockInOrder, Clash
        <4> QED  BY <1>1, <3>2, <4>2, <4>3 DEF Inv, LocksOK
      <3> QED  BY <2>5, <3>2, <3>3, <3>4, <3>5, <3>6 DEF LockInOrder
    <2> QED  BY <2>4, <2>6, <2>7
  <1>2. Inv /\ LedgerInv /\ AllInOrder => NoDeadlock
    BY <1>1 DEF NoDeadlock
  <1> QED  BY <1>2, AlwaysOrder, PTL

===============================================================================
