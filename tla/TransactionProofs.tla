-------------------------- MODULE TransactionProofs --------------------------
(***************************************************************************)
(* Concurrent requests, proved for any number of sessions, annotators,     *)
(* units and slots.                                                        *)
(*                                                                         *)
(* A session's uncommitted rows are described phase by phase: what it has  *)
(* written, what the committed rows underneath still say, and which locks  *)
(* keep them from changing before the commit.  Such a description (SesInv) *)
(* can only be disturbed by the commit of another session, and Stable says *)
(* it is not, because that session would need a lock this one holds.       *)
(***************************************************************************)
EXTENDS Transactions, TLAPS

\* The committed rows, and a session's.
SlotRow    == {r \in [status : {"open", "leased", "filled"}, by : Annotators \cup {None},
                      expired : BOOLEAN] : r.status = "open" <=> r.by = None}
UnitStatus == {"pending", "in_progress", "labeled", "finalized"}
LabelRow   == [slot : Slots, by : Annotators, valid : BOOLEAN]
FinalRow   == [unit : Units, method : {"auto", "human"}]
LabelKeys  == 1..MaxLabelRows
FinalKeys  == 1..MaxFinalRows

Tables == [slot  : [Slots -> SlotRow],
           unit  : [Units -> UnitStatus],
           label : [LabelKeys -> {None} \cup LabelRow],
           final : [FinalKeys -> {None} \cup FinalRow]]

Partial(S, T) == UNION {[D -> T] : D \in SUBSET S}

Writes == [slot  : Partial(Slots, SlotRow),
           unit  : Partial(Units, UnitStatus),
           label : Partial(LabelKeys, LabelRow),
           final : Partial(FinalKeys, {None} \cup FinalRow)]

VoidPcs == {"labels", "occupied", "reopen", "delete", "demote", "stranded", "clear"}
Pcs == VoidPcs \cup {"idle", "sweep", "swept", "event", "pick", "look", "lease", "submit", "skip",
                     "release", "fill", "quality", "find", "record", "mark", "escalate", "route"}

SesRec == [pc : Pcs, a : Annotators \cup {None}, i : Slots \cup {None}, u : Units \cup {None},
           row : FinalKeys \cup {None}, who : {"auto", "human"},
           found : {"auto", "human", None}, forced : BOOLEAN,
           todo : SUBSET (Units \cup Slots), dead : SUBSET LabelKeys,
           seen : [Units -> UnitStatus \cup {None}], w : Writes]

-----------------------------------------------------------------------------
(* What is true of a session in the middle of its request.                 *)

Has(L, s, on, mode) == [by |-> s, on |-> on, mode |-> mode] \in L
UnitLocked(L, s, u) == Has(L, s, <<"unit", u>>, "update") \/ Has(L, s, <<"unit", u>>, "write")

Leased(a) == [status |-> "leased", by |-> a, expired |-> FALSE]
Filled(a) == [status |-> "filled", by |-> a, expired |-> FALSE]
Lapsed(d, i) == d.slot[i].status = "leased" /\ d.slot[i].expired

\* A label row is written where there was none, or its slot stays.
RowsKept(d, w) ==
  \A n \in DOMAIN w.label : d.label[n] = None \/ w.label[n].slot = d.label[n].slot

Clean(w) == DOMAIN w.slot = {} /\ DOMAIN w.unit = {} /\ DOMAIN w.label = {} /\ DOMAIN w.final = {}

\* A submit that has filled its slot; a request that decides.
Finalizing(st) == st.pc \in {"find", "mark", "record"}
Filling(st)  == st.pc = "quality" \/ (Finalizing(st) /\ st.a # None)
Deciding(st) == st.pc \in {"escalate", "route"} \/ (Finalizing(st) /\ st.a = None)

\* The locals a phase reads are set.
Typed(d, st) ==
  /\ st.pc \in {"submit", "skip", "release", "fill"} \/ Filling(st)
       => st.a \in Annotators /\ st.i \in Slots /\ st.u = UnitOf[st.i]
  /\ st.pc \in {"event", "pick", "look", "lease"} => st.a \in Annotators
  /\ st.pc \in {"escalate", "route"} => st.a = None
  /\ st.pc \in {"submit", "skip", "release", "fill"} => st.todo = {}
  /\ st.pc \in VoidPcs \cup {"event", "look", "lease", "find", "mark", "escalate", "record"} => st.u \in Units
  /\ st.pc \in {"swept", "find", "mark", "escalate", "record", "route"} => st.todo \subseteq Units
  /\ st.pc \in {"reopen", "clear"} => st.todo \subseteq SlotsOf(st.u)
  /\ st.pc = "delete" => st.row \in FinalKeys
  /\ st.pc \in VoidPcs => /\ "void" \in Served
                          /\ \A n \in st.dead : /\ d.label[n] \in LabelRow
                                                /\ UnitOf[d.label[n].slot] = st.u

\* The slots a session has written, and what they are in the committed rows.
Swept(d, w, is) == \A i \in is : w.slot[i] = OpenSlot /\ Lapsed(d, i)

Phase(d, L, s, st) ==
  LET is == DOMAIN st.w.slot
      w  == st.w
  IN  /\ st.pc \in {"idle", "sweep", "submit", "skip", "fill", "labels", "occupied"} => Clean(w)
      /\ st.pc \in {"swept", "pick"} => Swept(d, w, is)
      /\ st.pc = "event" =>
           \E i \in is : /\ w.slot[i] = Leased(st.a) /\ Holds(d, st.a, i)
                         /\ UnitOf[i] = st.u /\ Swept(d, w, is \ {i})
      /\ st.pc \in {"look", "lease"} =>
           \E i \in is : /\ w.slot[i] = Leased(st.a) /\ (d.slot[i].status = "open" \/ Lapsed(d, i))
                         /\ UnitOf[i] = st.u /\ Swept(d, w, is \ {i})
      /\ st.pc = "fill" => Holds(d, st.a, st.i) /\ Has(L, s, <<"slot", st.i>>, "update")
      /\ st.pc = "release" => is = {st.i} /\ w.slot[st.i] = OpenSlot /\ Holds(d, st.a, st.i)
      /\ Filling(st) => /\ is = {st.i} /\ w.slot[st.i] = Filled(st.a) /\ Holds(d, st.a, st.i)
                        /\ Has(L, s, <<"unit", st.u>>, "update") /\ st.todo = {}
      /\ Deciding(st) => is = {} /\ \A u \in DOMAIN w.unit : w.unit[u] = "finalized"
      /\ st.pc \in VoidPcs => \A i \in is : w.slot[i] = OpenSlot /\ UnitOf[i] = st.u

\* Whatever is written is locked; the unit at the latest when the session commits.
Waits(st, u) ==
  \/ st.pc = "swept" /\ u \in st.todo
  \/ st.pc \in VoidPcs \cup {"event", "look", "lease", "release", "mark"} /\ u = st.u

Guarded(L, s, w) == \A i \in DOMAIN w.slot : Has(L, s, <<"slot", i>>, "update")

Covered(L, s, st) ==
  /\ \A i \in DOMAIN st.w.slot : UnitLocked(L, s, UnitOf[i]) \/ Waits(st, UnitOf[i])
  /\ \A u \in DOMAIN st.w.unit : UnitLocked(L, s, u) \/ Waits(st, u)

\* After the commit of w no full unit would go unnoticed.
Noticed == {"labeled", "finalized"}
Unfilled(d, w, u) == \E i \in SlotsOf(u) \ DOMAIN w.slot : d.slot[i].status # "filled"

Notice(d, L, s, w) ==
  /\ \A u \in DOMAIN w.unit :
       \/ w.unit[u] \in Noticed
       \/ \E i \in DOMAIN w.slot : UnitOf[i] = u /\ w.slot[i].status # "filled"
       \/ Has(L, s, <<"unit", u>>, "update") /\ Unfilled(d, w, u)
  /\ \A i \in DOMAIN w.slot :
       w.slot[i].status = "filled" =>
         \/ UnitOf[i] \in DOMAIN w.unit
         \/ /\ Has(L, s, <<"unit", UnitOf[i]>>, "update")
            /\ d.unit[UnitOf[i]] \in Noticed \/ Unfilled(d, w, UnitOf[i])

SesInv(d, L, s, st) ==
  /\ \A l \in L : l.by = s => st.pc # "idle"
  /\ Typed(d, st) /\ Phase(d, L, s, st)
  /\ Guarded(L, s, st.w) /\ Covered(L, s, st) /\ Notice(d, L, s, st.w) /\ RowsKept(d, st.w)

\* Two sessions do not insert the same row.
KeysApart ==
  \A s, t \in Sessions : \A n \in DOMAIN ses[s].w.label :
     s # t /\ n \in DOMAIN ses[t].w.label => db.label[n] # None

LocksOK ==
  /\ locks \subseteq [by : Sessions, on : ({"slot"} \X Slots) \cup ({"unit"} \X Units)
                                            \cup ({"final"} \X FinalKeys), mode : Modes]
  /\ \A l, m \in locks : l.on = m.on /\ Clash(l.mode, m.mode) => l.by = m.by

Inv ==
  /\ db \in Tables /\ ses \in [Sessions -> SesRec]
  /\ LocksOK /\ FullUnitNotice /\ KeysApart
  /\ \A s \in Sessions : SesInv(db, locks, s, ses[s])

-----------------------------------------------------------------------------
(* Reading and writing rows.                                               *)

LEMMA PartialIs ==
  ASSUME NEW S, NEW T, NEW f
  PROVE  f \in Partial(S, T) <=> /\ DOMAIN f \subseteq S
                                 /\ f = [x \in DOMAIN f |-> f[x]]
                                 /\ \A x \in DOMAIN f : f[x] \in T
  BY DEF Partial

\* (Names of their own, so that the provers match the hypotheses of lemmas with them.)
SlotSets == SUBSET Slots
Seen     == UnitStatus \cup {None}
FinalWrite == {None} \cup FinalRow

\* p is w after a Put.
IsPutSlot(p, w, is, r) ==
  /\ p \in Writes /\ DOMAIN p.slot = DOMAIN w.slot \cup is /\ (\A i \in is : p.slot[i] = r)
  /\ \A i \in DOMAIN w.slot \ is : p.slot[i] = w.slot[i]
  /\ p.unit = w.unit /\ p.label = w.label /\ p.final = w.final

IsPutUnit(p, w, u, r) ==
  /\ p \in Writes /\ DOMAIN p.unit = DOMAIN w.unit \cup {u} /\ p.unit[u] = r
  /\ \A v \in DOMAIN w.unit \ {u} : p.unit[v] = w.unit[v]
  /\ p.slot = w.slot /\ p.label = w.label /\ p.final = w.final

IsPutLabel(p, w, n, r) ==
  /\ p \in Writes /\ DOMAIN p.label = DOMAIN w.label \cup {n} /\ p.label[n] = r
  /\ \A m \in DOMAIN w.label \ {n} : p.label[m] = w.label[m]
  /\ p.slot = w.slot /\ p.unit = w.unit /\ p.final = w.final

IsPutFinal(p, w, n, r) ==
  /\ p \in Writes /\ DOMAIN p.final = DOMAIN w.final \cup {n} /\ p.final[n] = r
  /\ \A m \in DOMAIN w.final \ {n} : p.final[m] = w.final[m]
  /\ p.slot = w.slot /\ p.unit = w.unit /\ p.label = w.label

LEMMA PutSlot ==
  ASSUME NEW w \in Writes, NEW is \in SlotSets, NEW r \in SlotRow, NEW p, p = Put(w, "slot", is, r)
  PROVE  IsPutSlot(p, w, is, r)
  <1> DEFINE f == [k \in DOMAIN w.slot \cup is |-> IF k \in is THEN r ELSE w.slot[k]]
  <1>1. w.slot \in Partial(Slots, SlotRow)  BY DEF Writes
  <1>2. f \in Partial(Slots, SlotRow)  BY <1>1, PartialIs DEF SlotSets
  <1>3. p = [w EXCEPT !.slot = f]  BY DEF Put
  <1>4. p \in Writes /\ p.slot = f /\ p.unit = w.unit /\ p.label = w.label /\ p.final = w.final
    <2> HIDE DEF f
    <2> QED  BY <1>2, <1>3 DEF Writes
  <1> QED  BY <1>4 DEF IsPutSlot

LEMMA PutUnit ==
  ASSUME NEW w \in Writes, NEW u \in Units, NEW r \in UnitStatus, NEW p, p = Put(w, "unit", {u}, r)
  PROVE  IsPutUnit(p, w, u, r)
  <1> DEFINE f == [k \in DOMAIN w.unit \cup {u} |-> IF k \in {u} THEN r ELSE w.unit[k]]
  <1>1. w.unit \in Partial(Units, UnitStatus)  BY DEF Writes
  <1>2. f \in Partial(Units, UnitStatus)  BY <1>1, PartialIs
  <1>3. p = [w EXCEPT !.unit = f]  BY DEF Put
  <1>4. p \in Writes /\ p.unit = f /\ p.slot = w.slot /\ p.label = w.label /\ p.final = w.final
    <2> HIDE DEF f
    <2> QED  BY <1>2, <1>3 DEF Writes
  <1> QED  BY <1>4 DEF IsPutUnit

LEMMA PutLabel ==
  ASSUME NEW w \in Writes, NEW n \in LabelKeys, NEW r \in LabelRow, NEW p, p = Put(w, "label", {n}, r)
  PROVE  IsPutLabel(p, w, n, r)
  <1> DEFINE f == [k \in DOMAIN w.label \cup {n} |-> IF k \in {n} THEN r ELSE w.label[k]]
  <1>1. w.label \in Partial(LabelKeys, LabelRow)  BY DEF Writes
  <1>2. f \in Partial(LabelKeys, LabelRow)  BY <1>1, PartialIs
  <1>3. p = [w EXCEPT !.label = f]  BY DEF Put
  <1>4. p \in Writes /\ p.label = f /\ p.slot = w.slot /\ p.unit = w.unit /\ p.final = w.final
    <2> HIDE DEF f
    <2> QED  BY <1>2, <1>3 DEF Writes
  <1> QED  BY <1>4 DEF IsPutLabel

LEMMA PutFinal ==
  ASSUME NEW w \in Writes, NEW n \in FinalKeys, NEW r \in FinalWrite, NEW p, p = Put(w, "final", {n}, r)
  PROVE  IsPutFinal(p, w, n, r)
  <1> DEFINE f == [k \in DOMAIN w.final \cup {n} |-> IF k \in {n} THEN r ELSE w.final[k]]
  <1>1. w.final \in Partial(FinalKeys, {None} \cup FinalRow)  BY DEF Writes
  <1>2. f \in Partial(FinalKeys, {None} \cup FinalRow)  BY <1>1, PartialIs DEF FinalWrite
  <1>3. p = [w EXCEPT !.final = f]  BY DEF Put
  <1>4. p \in Writes /\ p.final = f /\ p.slot = w.slot /\ p.unit = w.unit /\ p.label = w.label
    <2> HIDE DEF f
    <2> QED  BY <1>2, <1>3 DEF Writes
  <1> QED  BY <1>4 DEF IsPutFinal

LEMMA SlotUnits == \A i \in Slots : UnitOf[i] \in Units
  BY TransactionsAssumption

LEMMA OverRows ==
  ASSUME db \in Tables, NEW w \in Writes
  PROVE  /\ Over(w) \in Tables
         /\ \A i \in Slots : Over(w).slot[i] = IF i \in DOMAIN w.slot THEN w.slot[i] ELSE db.slot[i]
         /\ \A u \in Units : Over(w).unit[u] = IF u \in DOMAIN w.unit THEN w.unit[u] ELSE db.unit[u]
         /\ \A n \in LabelKeys :
              Over(w).label[n] = IF n \in DOMAIN w.label THEN w.label[n] ELSE db.label[n]
         /\ \A f \in FinalKeys :
              Over(w).final[f] = IF f \in DOMAIN w.final THEN w.final[f] ELSE db.final[f]
  <1> DEFINE o == [slot  |-> [k \in Slots |-> IF k \in DOMAIN w.slot THEN w.slot[k] ELSE db.slot[k]],
                   unit  |-> [k \in Units |-> IF k \in DOMAIN w.unit THEN w.unit[k] ELSE db.unit[k]],
                   label |-> [k \in LabelKeys |-> IF k \in DOMAIN w.label THEN w.label[k]
                                                  ELSE db.label[k]],
                   final |-> [k \in FinalKeys |-> IF k \in DOMAIN w.final THEN w.final[k]
                                                  ELSE db.final[k]]]
  <1>1. /\ DOMAIN db = {"slot", "unit", "label", "final"}
        /\ DOMAIN db.slot = Slots /\ DOMAIN db.unit = Units
        /\ DOMAIN db.label = LabelKeys /\ DOMAIN db.final = FinalKeys
    BY DEF Tables
  <1>2. Over(w) = o
    BY <1>1 DEF Over
  <1>3. /\ \A k \in DOMAIN w.slot : w.slot[k] \in SlotRow
        /\ \A k \in DOMAIN w.unit : w.unit[k] \in UnitStatus
        /\ \A k \in DOMAIN w.label : w.label[k] \in LabelRow
        /\ \A k \in DOMAIN w.final : w.final[k] \in {None} \cup FinalRow
    BY PartialIs DEF Writes
  <1>4. o \in Tables
    <2>1. /\ db.slot \in [Slots -> SlotRow] /\ db.unit \in [Units -> UnitStatus]
          /\ db.label \in [LabelKeys -> {None} \cup LabelRow]
          /\ db.final \in [FinalKeys -> {None} \cup FinalRow]
      BY DEF Tables
    <2> HIDE DEF SlotRow, UnitStatus, LabelRow, FinalRow, LabelKeys, FinalKeys
    <2>2. o.slot \in [Slots -> SlotRow]  BY <2>1, <1>3
    <2>3. o.unit \in [Units -> UnitStatus]  BY <2>1, <1>3
    <2>4. o.label \in [LabelKeys -> {None} \cup LabelRow]  BY <2>1, <1>3
    <2>5. o.final \in [FinalKeys -> {None} \cup FinalRow]  BY <2>1, <1>3
    <2> QED  BY <2>2, <2>3, <2>4, <2>5 DEF Tables
  <1> QED  BY <1>2, <1>4

\* p is w after a Recount of unit u, which the session believes to be in status seen.
Settled(w, u, x) == x \in Noticed \/ \E i \in SlotsOf(u) : Over(w).slot[i].status # "filled"

IsRecount(p, w, u, seen) ==
  /\ p \in Writes /\ p.slot = w.slot /\ p.label = w.label /\ p.final = w.final
  /\ \/ p = w /\ Settled(w, u, seen)
     \/ /\ DOMAIN p.unit = DOMAIN w.unit \cup {u} /\ Settled(w, u, p.unit[u])
        /\ \A v \in DOMAIN w.unit : v # u => p.unit[v] = w.unit[v]

LEMMA RecountCases ==
  ASSUME db \in Tables, NEW w \in Writes, NEW u \in Units, NEW seen \in Seen, NEW forced,
         NEW p, p = Recount(w, u, seen, forced)
  PROVE  IsRecount(p, w, u, seen)
  <1> DEFINE status == Recomputed(Over(w), u, seen, forced)
  <1>1. \E i \in SlotsOf(u) : TRUE
    BY TransactionsAssumption DEF SlotsOf
  <1>2. status \in UnitStatus
    BY DEF Recomputed, UnitStatus, Seen
  <1>3. Settled(w, u, status)
    BY <1>1 DEF Recomputed, UnitStatus, Noticed, Settled
  <1>4. p = IF status = seen THEN w ELSE Put(w, "unit", {u}, status)
    BY DEF Recount
  <1> HIDE DEF status
  <1>5. CASE status = seen
    BY <1>3, <1>4, <1>5 DEF IsRecount
  <1>6. CASE status # seen
    <2>1. p = Put(w, "unit", {u}, status)
      BY <1>4, <1>6
    <2>2. IsPutUnit(p, w, u, status)
      BY <1>2, <2>1, PutUnit
    <2> QED  BY <1>3, <2>2 DEF IsRecount, IsPutUnit
  <1> QED  BY <1>5, <1>6

-----------------------------------------------------------------------------
(* What another session's commit leaves alone.                             *)

LockRecs == [by : Sessions, on : ({"slot"} \X Slots) \cup ({"unit"} \X Units)
                                   \cup ({"final"} \X FinalKeys), mode : Modes]

\* The rows of e agree with those of d wherever a session with the locks L relies on them.
SlotsAgree(d, e, L, s) ==
  \A i \in Slots : Has(L, s, <<"slot", i>>, "update") =>
     /\ e.slot[i].status = d.slot[i].status /\ e.slot[i].by = d.slot[i].by
     /\ d.slot[i].expired => e.slot[i].expired

UnitsAgree(d, e, L, s) ==
  \A u \in Units : Has(L, s, <<"unit", u>>, "update") =>
     /\ e.unit[u] = d.unit[u]
     /\ \A i \in SlotsOf(u) : e.slot[i].status = d.slot[i].status

LabelsAgree(d, e, w) ==
  /\ \A n \in LabelKeys : d.label[n] # None => e.label[n] # None /\ e.label[n].slot = d.label[n].slot
  /\ \A n \in DOMAIN w.label : d.label[n] = None => e.label[n] = None

SameLocks(L, M, s) == \A l \in LockRecs : l.by = s => (l \in L <=> l \in M)

LEMMA RecFields ==
  ASSUME NEW st \in SesRec
  PROVE  /\ st.pc \in Pcs /\ st.a \in Annotators \cup {None} /\ st.i \in Slots \cup {None}
         /\ st.u \in Units \cup {None} /\ st.row \in FinalKeys \cup {None}
         /\ st.who \in {"auto", "human"} /\ st.found \in {"auto", "human", None} /\ st.forced \in BOOLEAN
         /\ st.todo \in SUBSET (Units \cup Slots) /\ st.dead \in SUBSET LabelKeys
         /\ st.seen \in [Units -> UnitStatus \cup {None}] /\ st.w \in Writes
  BY DEF SesRec

LEMMA WriteFields ==
  ASSUME NEW w \in Writes
  PROVE  /\ DOMAIN w.slot \subseteq Slots /\ \A i \in DOMAIN w.slot : w.slot[i] \in SlotRow
         /\ DOMAIN w.unit \subseteq Units /\ \A u \in DOMAIN w.unit : w.unit[u] \in UnitStatus
         /\ DOMAIN w.label \subseteq LabelKeys /\ \A n \in DOMAIN w.label : w.label[n] \in LabelRow
         /\ DOMAIN w.final \subseteq FinalKeys
         /\ \A f \in DOMAIN w.final : w.final[f] \in {None} \cup FinalRow
  BY PartialIs DEF Writes

LEMMA Stable ==
  ASSUME NEW d \in Tables, NEW e \in Tables, NEW L, NEW M, NEW s \in Sessions, NEW st \in SesRec,
         L \subseteq LockRecs, M \subseteq LockRecs,
         SesInv(d, L, s, st), SameLocks(L, M, s),
         SlotsAgree(d, e, L, s), UnitsAgree(d, e, L, s), LabelsAgree(d, e, st.w)
  PROVE  SesInv(e, M, s, st)
  <1> DEFINE w == st.w
  <1> USE TransactionsAssumption
  <1>1. w \in Writes /\ st.dead \subseteq LabelKeys
    BY RecFields
  <1>2. /\ DOMAIN w.slot \subseteq Slots /\ DOMAIN w.unit \subseteq Units
        /\ DOMAIN w.label \subseteq LabelKeys
    BY <1>1, WriteFields
  <1>3. \A on, mode : Has(L, s, on, mode) <=> Has(M, s, on, mode)
    BY DEF Has, SameLocks
  <1>4. \A i \in Slots : Has(L, s, <<"slot", i>>, "update") =>
          /\ e.slot[i].status = d.slot[i].status /\ e.slot[i].by = d.slot[i].by
          /\ d.slot[i].expired => e.slot[i].expired
    BY DEF SlotsAgree
  <1>5. Guarded(L, s, w)  BY DEF SesInv
  <1>6. \A i \in DOMAIN w.slot :
          /\ e.slot[i].status = d.slot[i].status /\ e.slot[i].by = d.slot[i].by
          /\ d.slot[i].expired => e.slot[i].expired
    BY <1>2, <1>4, <1>5 DEF Guarded
  <1>7. \A u : Has(L, s, <<"unit", u>>, "update") /\ u \in Units =>
          /\ e.unit[u] = d.unit[u]
          /\ \A i \in SlotsOf(u) : e.slot[i].status = d.slot[i].status
    BY DEF UnitsAgree
  <1>8. \A l \in M : l.by = s => st.pc # "idle"
    BY DEF SesInv, SameLocks
  <1>9. Typed(e, st)
    <2>1. \A n \in LabelKeys : d.label[n] \in LabelRow => /\ e.label[n] \in LabelRow
                                                          /\ e.label[n].slot = d.label[n].slot
      <3>1. None \notin LabelRow  BY DEF LabelRow
      <3>2. \A n \in LabelKeys : e.label[n] \in {None} \cup LabelRow  BY DEF Tables
      <3> QED  BY <3>1, <3>2 DEF LabelsAgree
    <2>2. Typed(d, st)  BY DEF SesInv
    <2> HIDE DEF w
    <2> QED  BY <1>1, <2>1, <2>2 DEF Typed
  <1>10. Phase(e, M, s, st)
    <2>1. Phase(d, L, s, st) /\ Typed(d, st)  BY DEF SesInv
    <2>2. \A is : is \subseteq DOMAIN w.slot /\ Swept(d, w, is) => Swept(e, w, is)
      BY <1>6 DEF Swept, Lapsed
    <2>3. \A i \in DOMAIN w.slot : \A a : Holds(d, a, i) => Holds(e, a, i)
      BY <1>6 DEF Holds
    <2>4. \A i \in DOMAIN w.slot : (d.slot[i].status = "open" \/ Lapsed(d, i))
                                     => (e.slot[i].status = "open" \/ Lapsed(e, i))
      BY <1>6 DEF Lapsed
    <2>5. st.pc = "fill" => Holds(e, st.a, st.i) /\ Has(M, s, <<"slot", st.i>>, "update")
      BY <2>1, <1>3, <1>4 DEF Phase, Holds, Typed
    <2>6. st.pc = "event" =>
           \E i \in DOMAIN w.slot : /\ w.slot[i] = Leased(st.a) /\ Holds(e, st.a, i)
                         /\ UnitOf[i] = st.u /\ Swept(e, w, DOMAIN w.slot \ {i})
      BY <2>1, <2>2, <2>3 DEF Phase
    <2>7. st.pc \in {"look", "lease"} =>
           \E i \in DOMAIN w.slot :
                         /\ w.slot[i] = Leased(st.a) /\ (e.slot[i].status = "open" \/ Lapsed(e, i))
                         /\ UnitOf[i] = st.u /\ Swept(e, w, DOMAIN w.slot \ {i})
      BY <2>1, <2>2, <2>4 DEF Phase
    <2> QED  BY <2>1, <2>2, <2>3, <2>5, <2>6, <2>7, <1>3 DEF Phase
  <1>11. Guarded(M, s, w) /\ Covered(M, s, st)
    BY <1>3 DEF SesInv, Guarded, Covered, UnitLocked
  <1>12. Notice(e, M, s, w)
    <2>1. Notice(d, L, s, w)  BY DEF SesInv
    <2>2. \A u : Has(L, s, <<"unit", u>>, "update") /\ u \in Units /\ Unfilled(d, w, u)
                   => Unfilled(e, w, u)
      BY <1>7 DEF Unfilled
    <2>3. \A i \in Slots : UnitOf[i] \in Units  OBVIOUS
    <2> QED  BY <2>1, <2>2, <2>3, <1>2, <1>3, <1>7 DEF Notice
  <1>13. RowsKept(e, w)
    BY <1>2 DEF SesInv, RowsKept, LabelsAgree
  <1> QED  BY <1>8, <1>9, <1>10, <1>11, <1>12, <1>13 DEF SesInv

-----------------------------------------------------------------------------
(* The shapes of a step: a session moves on, commits or rolls back.        *)

\* LeaseHonoured, of one step.
Honoured ==
  \A i \in Slots, a, b \in Annotators :
     Holds(db, a, i) /\ ~db.slot[i].expired /\ Holds(db', b, i) => a = b

\* A session whose lock request is granted has no rival for it.
NoRival(L, s, u) == \A t \in Sessions \ {s} : ~Has(L, t, <<"unit", u>>, "update")

\* What a commit of w needs: see Notice, whose locks a session may take with the commit.
CommitNotice(d, w) ==
  /\ \A u \in DOMAIN w.unit :
       \/ w.unit[u] \in Noticed
       \/ \E i \in DOMAIN w.slot : UnitOf[i] = u /\ w.slot[i].status # "filled"
       \/ Unfilled(d, w, u)
  /\ \A i \in DOMAIN w.slot :
       w.slot[i].status = "filled" =>
         \/ UnitOf[i] \in DOMAIN w.unit
         \/ d.unit[UnitOf[i]] \in Noticed
         \/ Unfilled(d, w, UnitOf[i])

HandsOn(d, w) ==
  \A i \in DOMAIN w.slot : w.slot[i].status = "leased" =>
     d.slot[i].status = "open" \/ Lapsed(d, i) \/ w.slot[i].by = d.slot[i].by

LEMMA SessionFacts ==
  ASSUME Inv, NEW s \in Sessions
  PROVE  /\ ses[s] \in SesRec /\ ses[s].w \in Writes /\ SesInv(db, locks, s, ses[s])
         /\ db \in Tables /\ locks \subseteq LockRecs
  <1>1. ses[s] \in SesRec  BY DEF Inv
  <1> QED  BY <1>1, RecFields DEF Inv, LocksOK, LockRecs

LEMMA IdleRec == Idle \in SesRec /\ Clean(Idle.w) /\ Idle.w \in Writes /\ Idle.pc = "idle"
  <1>1. <<>> = [x \in {} |-> x] /\ DOMAIN <<>> = {}  OBVIOUS
  <1>2. \A S, T : <<>> \in Partial(S, T)
    <2> SUFFICES ASSUME NEW S, NEW T PROVE <<>> \in Partial(S, T)
      OBVIOUS
    <2>1. DOMAIN <<>> = {} /\ <<>> = [x \in DOMAIN <<>> |-> <<>>[x]]
      OBVIOUS
    <2>2. <<>> \in [{} -> T] /\ {} \in SUBSET S
      BY <2>1
    <2> QED  BY <2>2 DEF Partial
  <1>3. NoWrites \in Writes
    BY <1>2 DEF NoWrites, Writes
  <1>4. [u \in Units |-> None] \in [Units -> UnitStatus \cup {None}]
    OBVIOUS
  <1>5. Idle.w = NoWrites /\ Idle.pc = "idle"
    BY DEF Idle
  <1>6. Idle \in SesRec
    <2> HIDE DEF Writes, NoWrites, UnitStatus
    <2> QED  BY <1>3, <1>4 DEF Idle, SesRec, Pcs
  <1> QED  BY <1>3, <1>5, <1>6 DEF Clean, NoWrites

LEMMA CleanInv ==
  ASSUME NEW d, NEW L, NEW s, NEW w, Clean(w)
  PROVE  Guarded(L, s, w) /\ Notice(d, L, s, w) /\ RowsKept(d, w)
  BY DEF Clean, Guarded, Notice, RowsKept

LEMMA IdleInv ==
  ASSUME NEW d, NEW L, NEW s, \A l \in L : l.by # s
  PROVE  SesInv(d, L, s, Idle)
  <1>1. Idle.pc = "idle" /\ Clean(Idle.w)  BY IdleRec
  <1>2. Typed(d, Idle)
    BY <1>1 DEF Typed, Finalizing, Filling, VoidPcs
  <1>3. Phase(d, L, s, Idle)
    BY <1>1 DEF Phase, Finalizing, Filling, Deciding, VoidPcs
  <1>4. Covered(L, s, Idle)
    BY <1>1 DEF Covered, Clean
  <1> QED  BY <1>1, <1>2, <1>3, <1>4, CleanInv DEF SesInv

LEMMA FreeNoRival ==
  ASSUME Inv, NEW s \in Sessions, NEW u \in Units, NEW mode \in Modes,
         Free(s, <<"unit", u>>, mode) \/ UnitLocked(locks, s, u)
  PROVE  NoRival(locks, s, u)
  <1>1. CASE Free(s, <<"unit", u>>, mode)
    BY <1>1 DEF Free, Blockers, NoRival, Has, Clash, Modes
  <1>2. CASE UnitLocked(locks, s, u)
    BY <1>2 DEF Inv, LocksOK, UnitLocked, NoRival, Has, Clash
  <1> QED  BY <1>1, <1>2

LEMMA GoKeeps ==
  ASSUME Inv, NEW s \in Sessions, NEW st \in SesRec, NEW N \in SUBSET LockRecs,
         Go(s, st), locks' = locks \cup N,
         \A l \in N : l.by = s /\ Free(s, l.on, l.mode),
         SesInv(db, locks \cup N, s, st),
         \A n \in DOMAIN st.w.label :
            n \in DOMAIN ses[s].w.label \/ db.label[n] # None \/ n \in Fresh("label")
  PROVE  Inv' /\ Honoured
  <1>1. db' = db /\ ses' = [ses EXCEPT ![s] = st]
    BY DEF Go
  <1>2. db \in Tables /\ locks \subseteq LockRecs /\ ses \in [Sessions -> SesRec]
    BY SessionFacts DEF Inv
  <1>3. ses' \in [Sessions -> SesRec]
    BY <1>1, <1>2
  <1>4. LocksOK'
    <2>1. \A l, m \in locks : l.on = m.on /\ Clash(l.mode, m.mode) => l.by = m.by
      BY DEF Inv, LocksOK
    <2>2. \A l \in locks, m \in N : l.on = m.on /\ Clash(l.mode, m.mode) => l.by = m.by
      BY <1>2 DEF Free, Blockers, LockRecs
    <2>3. \A m, n : Clash(m, n) <=> Clash(n, m)
      BY DEF Clash
    <2> QED  BY <1>2, <2>1, <2>2, <2>3 DEF LocksOK, LockRecs
  <1>5. FullUnitNotice'
    BY <1>1 DEF Inv, FullUnitNotice
  <1>6. KeysApart'
    <2> SUFFICES ASSUME NEW p \in Sessions, NEW q \in Sessions, p # q,
                        NEW n, n \in DOMAIN ses'[p].w.label, n \in DOMAIN ses'[q].w.label
                 PROVE  db'.label[n] # None
      BY DEF KeysApart
    <2>1. \A t \in Sessions \ {s} : ses'[t] = ses[t]
      BY <1>1, <1>2
    <2>2. ses'[s] = st
      BY <1>1, <1>2
    <2>3. n \in Fresh("label") => \A t \in Sessions : n \notin DOMAIN ses[t].w.label
      BY DEF Fresh
    <2>4. \A t \in Sessions \ {s} : n \in DOMAIN ses[s].w.label /\ n \in DOMAIN ses[t].w.label
                                      => db.label[n] # None
      BY DEF Inv, KeysApart
    <2>5. CASE p # s /\ q # s
      BY <1>1, <2>1, <2>5 DEF Inv, KeysApart
    <2>6. CASE p = s \/ q = s
      BY <1>1, <2>1, <2>2, <2>3, <2>4, <2>6
    <2> QED  BY <2>5, <2>6
  <1>7. ASSUME NEW t \in Sessions PROVE SesInv(db, locks', t, ses'[t])
    <2>1. CASE t = s
      BY <1>1, <1>2, <2>1
    <2>2. CASE t # s
      <3>1. ses'[t] = ses[t] /\ ses[t] \in SesRec /\ SesInv(db, locks, t, ses[t])
        BY <1>1, <1>2, <2>2, SessionFacts
      <3>2. SameLocks(locks, locks', t) /\ locks' \subseteq LockRecs
        BY <1>2, <2>2 DEF SameLocks
      <3>3. /\ SlotsAgree(db, db, locks, t) /\ UnitsAgree(db, db, locks, t)
            /\ LabelsAgree(db, db, ses[t].w)
        BY DEF SlotsAgree, UnitsAgree, LabelsAgree
      <3> QED  BY <1>2, <3>1, <3>2, <3>3, Stable
    <2> QED  BY <2>1, <2>2
  <1>8. Honoured
    BY <1>1 DEF Honoured, Holds
  <1> QED  BY <1>1, <1>2, <1>3, <1>4, <1>5, <1>6, <1>7, <1>8 DEF Inv

LEMMA CloseKeeps ==
  ASSUME Inv, NEW s \in Sessions, Close(s), db' \in Tables, FullUnitNotice',
         \A t \in Sessions \ {s} : /\ SlotsAgree(db, db', locks, t) /\ UnitsAgree(db, db', locks, t)
                                   /\ LabelsAgree(db, db', ses[t].w),
         \A n \in LabelKeys : db.label[n] # None => db'.label[n] # None
  PROVE  Inv'
  <1>1. locks' \subseteq locks /\ (\A l \in locks' : l.by # s) /\ ses' = [ses EXCEPT ![s] = Idle]
    BY DEF Close
  <1>2. db \in Tables /\ locks \subseteq LockRecs /\ ses \in [Sessions -> SesRec]
    BY SessionFacts DEF Inv
  <1>3. ses' \in [Sessions -> SesRec]
    BY <1>1, <1>2, IdleRec
  <1>4. LocksOK'
    BY <1>1 DEF Inv, LocksOK
  <1>5. \A t \in Sessions \ {s} : ses'[t] = ses[t]
    BY <1>1, <1>2
  <1>6. ses'[s] = Idle
    BY <1>1, <1>2
  <1>7. KeysApart'
    <2>1. DOMAIN Idle.w.label = {}
      BY IdleRec DEF Clean
    <2>2. \A t \in Sessions : DOMAIN ses[t].w.label \subseteq LabelKeys
      BY SessionFacts, WriteFields
    <2> QED  BY <1>5, <1>6, <2>1, <2>2 DEF Inv, KeysApart
  <1>8. ASSUME NEW t \in Sessions PROVE SesInv(db', locks', t, ses'[t])
    <2>1. CASE t = s
      BY <1>1, <1>6, <2>1, IdleInv
    <2>2. CASE t # s
      <3>1. ses'[t] = ses[t] /\ ses[t] \in SesRec /\ SesInv(db, locks, t, ses[t])
        BY <1>2, <1>5, <2>2, SessionFacts
      <3>2. SameLocks(locks, locks', t) /\ locks' \subseteq LockRecs
        BY <1>2, <2>2 DEF SameLocks, Close
      <3> QED  BY <1>2, <2>2, <3>1, <3>2, Stable
    <2> QED  BY <2>1, <2>2
  <1> QED  BY <1>3, <1>4, <1>7, <1>8 DEF Inv

LEMMA AbortKeeps ==
  ASSUME Inv, NEW s \in Sessions, Abort(s)
  PROVE  Inv' /\ Honoured
  <1>1. db' = db /\ Close(s)
    BY DEF Abort
  <1>2. db \in Tables
    BY DEF Inv
  <1>3. FullUnitNotice'
    BY <1>1 DEF Inv, FullUnitNotice
  <1>4. \A t \in Sessions \ {s} : /\ SlotsAgree(db, db', locks, t) /\ UnitsAgree(db, db', locks, t)
                                  /\ LabelsAgree(db, db', ses[t].w)
    BY <1>1 DEF SlotsAgree, UnitsAgree, LabelsAgree
  <1>5. Honoured
    BY <1>1 DEF Honoured, Holds
  <1>6. Inv'
    BY <1>1, <1>2, <1>3, <1>4, CloseKeeps
  <1> QED  BY <1>5, <1>6

LEMMA CommitKeeps ==
  ASSUME Inv, NEW s \in Sessions, NEW w \in Writes, Commit(s, w),
         Guarded(locks, s, w), CommitNotice(db, w), HandsOn(db, w), RowsKept(db, w),
         \A u \in DOMAIN w.unit : NoRival(locks, s, u),
         \A i \in DOMAIN w.slot : NoRival(locks, s, UnitOf[i]),
         DOMAIN w.label \subseteq DOMAIN ses[s].w.label
  PROVE  Inv' /\ Honoured
  <1> USE TransactionsAssumption
  <1>1. db' = Over(w) /\ Close(s)
    BY DEF Commit
  <1>2. db \in Tables /\ ses \in [Sessions -> SesRec]
    BY DEF Inv
  <1>3. /\ DOMAIN w.slot \subseteq Slots /\ \A i \in DOMAIN w.slot : w.slot[i] \in SlotRow
        /\ DOMAIN w.unit \subseteq Units
        /\ DOMAIN w.label \subseteq LabelKeys /\ \A n \in DOMAIN w.label : w.label[n] \in LabelRow
    BY WriteFields
  <1>4. /\ db' \in Tables
        /\ \A i \in Slots : db'.slot[i] = IF i \in DOMAIN w.slot THEN w.slot[i] ELSE db.slot[i]
        /\ \A u \in Units : db'.unit[u] = IF u \in DOMAIN w.unit THEN w.unit[u] ELSE db.unit[u]
        /\ \A n \in LabelKeys :
             db'.label[n] = IF n \in DOMAIN w.label THEN w.label[n] ELSE db.label[n]
    BY <1>1, <1>2, OverRows
  <1>5. FullUnitNotice'
    <2> SUFFICES ASSUME NEW u \in Units, \A i \in SlotsOf(u) : db'.slot[i].status = "filled"
                 PROVE  db'.unit[u] \in Noticed
      BY DEF FullUnitNotice, Noticed
    <2>1. SlotsOf(u) \subseteq Slots /\ \A i \in SlotsOf(u) : UnitOf[i] = u
      BY DEF SlotsOf
    <2>2. ~Unfilled(db, w, u)
      BY <1>4, <2>1 DEF Unfilled
    <2>3. \A i \in DOMAIN w.slot : UnitOf[i] = u => w.slot[i].status = "filled"
      BY <1>3, <1>4 DEF SlotsOf
    <2>4. CASE u \in DOMAIN w.unit
      BY <1>4, <2>2, <2>3, <2>4 DEF CommitNotice
    <2>5. CASE u \notin DOMAIN w.unit
      <3>1. db'.unit[u] = db.unit[u]
        BY <1>4, <2>5
      <3>2. CASE \E i \in DOMAIN w.slot : UnitOf[i] = u
        BY <2>2, <2>3, <2>5, <3>1, <3>2 DEF CommitNotice
      <3>3. CASE \A i \in DOMAIN w.slot : UnitOf[i] # u
        <4>1. \A i \in SlotsOf(u) : db.slot[i].status = "filled"
          BY <1>4, <2>1, <3>3, ZenonT(40)
        <4> QED  BY <3>1, <4>1 DEF Inv, FullUnitNotice, Noticed
      <3> QED  BY <3>2, <3>3
    <2> QED  BY <2>4, <2>5
  <1>6. ASSUME NEW t \in Sessions \ {s}
        PROVE  /\ SlotsAgree(db, db', locks, t) /\ UnitsAgree(db, db', locks, t)
               /\ LabelsAgree(db, db', ses[t].w)
    <2>1. \A i \in DOMAIN w.slot : ~Has(locks, t, <<"slot", i>>, "update")
      <3>1. \A l, m \in locks : l.on = m.on /\ Clash(l.mode, m.mode) => l.by = m.by
        BY DEF Inv, LocksOK
      <3>2. \A on : Has(locks, s, on, "update") => ~Has(locks, t, on, "update")
        BY <3>1 DEF Has, Clash
      <3> QED  BY <3>2 DEF Guarded
    <2>2. SlotsAgree(db, db', locks, t)
      BY <1>4, <2>1 DEF SlotsAgree
    <2>3. UnitsAgree(db, db', locks, t)
      <3> SUFFICES ASSUME NEW u \in Units, Has(locks, t, <<"unit", u>>, "update")
                   PROVE  /\ db'.unit[u] = db.unit[u]
                          /\ \A i \in SlotsOf(u) : db'.slot[i].status = db.slot[i].status
        BY DEF UnitsAgree
      <3>1. u \notin DOMAIN w.unit /\ \A i \in DOMAIN w.slot : UnitOf[i] # u
        BY DEF NoRival
      <3> QED  BY <1>4, <3>1 DEF SlotsOf
    <2>4. LabelsAgree(db, db', ses[t].w)
      <3>1. None \notin LabelRow
        BY DEF LabelRow
      <3>2. \A n \in LabelKeys : db.label[n] # None
                                   => db'.label[n] # None /\ db'.label[n].slot = db.label[n].slot
        BY <1>3, <1>4, <3>1 DEF RowsKept
      <3>3. \A n \in DOMAIN ses[t].w.label : db.label[n] = None => n \notin DOMAIN w.label
        BY DEF Inv, KeysApart
      <3>4. DOMAIN ses[t].w.label \subseteq LabelKeys
        BY SessionFacts, WriteFields
      <3> QED  BY <1>4, <3>2, <3>3, <3>4 DEF LabelsAgree
    <2> QED  BY <2>2, <2>3, <2>4
  <1>7. \A n \in LabelKeys : db.label[n] # None => db'.label[n] # None
    <2>1. None \notin LabelRow
      BY DEF LabelRow
    <2> QED  BY <1>3, <1>4, <2>1
  <1>8. Inv'
    BY <1>1, <1>4, <1>5, <1>6, <1>7, CloseKeeps
  <1>9. Honoured
    <2> SUFFICES ASSUME NEW i \in Slots, NEW a \in Annotators, NEW b \in Annotators,
                        Holds(db, a, i), ~db.slot[i].expired, Holds(db', b, i)
                 PROVE  a = b
      BY DEF Honoured
    <2>1. CASE i \in DOMAIN w.slot
      BY <1>4, <2>1 DEF HandsOn, Holds, Lapsed
    <2>2. CASE i \notin DOMAIN w.slot
      BY <1>4, <2>2 DEF Holds
    <2> QED  BY <2>1, <2>2
  <1> QED  BY <1>8, <1>9

-----------------------------------------------------------------------------
(* The steps of workers.                                                   *)

\* Moving on without new locks, and with the lock of one row.
LEMMA MoveKeeps ==
  ASSUME Inv, NEW s \in Sessions, NEW st \in SesRec, Go(s, st), UNCHANGED locks,
         SesInv(db, locks, s, st), DOMAIN st.w.label \subseteq DOMAIN ses[s].w.label
  PROVE  Inv' /\ Honoured
  <1>1. {} \in SUBSET LockRecs /\ locks' = locks \cup {} /\ locks \cup {} = locks
    OBVIOUS
  <1> QED  BY <1>1, GoKeeps

LEMMA LockKeeps ==
  ASSUME Inv, NEW s \in Sessions, NEW st \in SesRec, NEW on, NEW mode, Go(s, st),
         Free(s, on, mode), Lock(s, on, mode), [by |-> s, on |-> on, mode |-> mode] \in LockRecs,
         SesInv(db, locks \cup {[by |-> s, on |-> on, mode |-> mode]}, s, st),
         \A n \in DOMAIN st.w.label : n \in DOMAIN ses[s].w.label \/ db.label[n] # None
                                       \/ n \in Fresh("label")
  PROVE  Inv' /\ Honoured
  <1> DEFINE N == {[by |-> s, on |-> on, mode |-> mode]}
  <1>1. N \in SUBSET LockRecs /\ locks' = locks \cup N
    BY DEF Lock
  <1>2. \A l \in N : l.by = s /\ Free(s, l.on, l.mode)
    OBVIOUS
  <1> HIDE DEF N
  <1>3. SesInv(db, locks \cup N, s, st)
    BY DEF N
  <1> QED  BY <1>1, <1>2, <1>3, GoKeeps

LEMMA BeginKeeps ==
  ASSUME Inv, NEW s \in Sessions, NEW st \in SesRec, Go(s, st), UNCHANGED locks,
         st.w = Idle.w, Typed(db, st),
         st.pc \in {"sweep", "submit", "skip", "find", "labels", "route"}, st.pc = "find" => st.a = None
  PROVE  Inv' /\ Honoured
  <1>1. Clean(st.w)
    BY IdleRec
  <1>2. Phase(db, locks, s, st)
    BY <1>1 DEF Phase, Clean, Finalizing, Filling, Deciding, VoidPcs
  <1>3. Covered(locks, s, st)
    BY <1>1 DEF Covered, Clean
  <1>4. SesInv(db, locks, s, st)
    BY <1>1, <1>2, <1>3, CleanInv DEF SesInv
  <1> QED  BY <1>1, <1>4, MoveKeeps DEF Clean

LEMMA BeginNextKeeps ==
  ASSUME Inv, NEW s \in Sessions, NEW a \in Annotators, BeginNext(s, a)
  PROVE  Inv' /\ Honoured
  <1> DEFINE st == [Idle EXCEPT !.pc = "sweep", !.a = a]
  <1>1. st \in SesRec /\ st.pc = "sweep" /\ st.w = Idle.w
    BY IdleRec DEF SesRec, Pcs
  <1>2. Go(s, st) /\ UNCHANGED locks
    BY DEF BeginNext
  <1> HIDE DEF st
  <1>3. Typed(db, st)
    BY <1>1 DEF Typed, VoidPcs, Finalizing, Filling
  <1> QED  BY <1>1, <1>2, <1>3, BeginKeeps

LEMMA BeginAvailableKeeps ==
  ASSUME Inv, NEW s \in Sessions, BeginAvailable(s)
  PROVE  Inv' /\ Honoured
  <1> DEFINE st == [Idle EXCEPT !.pc = "sweep"]
  <1>1. st \in SesRec /\ st.pc = "sweep" /\ st.w = Idle.w
    BY IdleRec DEF SesRec, Pcs
  <1>2. Go(s, st) /\ UNCHANGED locks
    BY DEF BeginAvailable
  <1> HIDE DEF st
  <1>3. Typed(db, st)
    BY <1>1 DEF Typed, VoidPcs, Finalizing, Filling
  <1> QED  BY <1>1, <1>2, <1>3, BeginKeeps

LEMMA BeginSlotKeeps ==
  ASSUME Inv, NEW s \in Sessions, NEW a \in Annotators, NEW i \in Slots,
         BeginSubmit(s, a, i) \/ BeginSkip(s, a, i)
  PROVE  Inv' /\ Honoured
  <1> DEFINE st(pc) == [Idle EXCEPT !.pc = pc, !.a = a, !.i = i, !.u = UnitOf[i]]
  <1>1. PICK pc \in {"submit", "skip"} : Go(s, st(pc)) /\ UNCHANGED locks
    BY DEF BeginSubmit, BeginSkip
  <1>2. /\ st(pc) \in SesRec /\ st(pc).pc = pc /\ st(pc).w = Idle.w /\ st(pc).todo = {}
        /\ st(pc).a = a /\ st(pc).i = i /\ st(pc).u = UnitOf[i]
    <2>1. UnitOf[i] \in Units  BY TransactionsAssumption
    <2>2. Idle.todo = {}  BY DEF Idle
    <2> QED  BY <2>1, <2>2, IdleRec DEF SesRec, Pcs
  <1> HIDE DEF st
  <1>3. Typed(db, st(pc))
    BY <1>2 DEF Typed, VoidPcs, Finalizing, Filling
  <1> QED  BY <1>1, <1>2, <1>3, BeginKeeps

\* A slot given away or taken back leaves no full unit behind.
LEMMA NoticeGrows ==
  ASSUME NEW d \in Tables, NEW L, NEW M, NEW s, NEW w \in Writes, NEW v \in Writes,
         L \subseteq M, Notice(d, L, s, w), v.unit = w.unit,
         DOMAIN w.slot \subseteq DOMAIN v.slot, \A i \in DOMAIN v.slot : v.slot[i].status # "filled"
  PROVE  Notice(d, M, s, v)
  <1>1. \A on, mode : Has(L, s, on, mode) => Has(M, s, on, mode)
    BY DEF Has
  <1>2. ASSUME NEW u, Unfilled(d, w, u)
        PROVE  \/ Unfilled(d, v, u)
               \/ \E i \in DOMAIN v.slot : UnitOf[i] = u /\ v.slot[i].status # "filled"
    <2>1. PICK i \in SlotsOf(u) \ DOMAIN w.slot : d.slot[i].status # "filled"
      BY <1>2 DEF Unfilled
    <2> QED  BY <2>1 DEF Unfilled, SlotsOf
  <1>3. ASSUME NEW u \in DOMAIN v.unit
        PROVE  \/ v.unit[u] \in Noticed
               \/ \E i \in DOMAIN v.slot : UnitOf[i] = u /\ v.slot[i].status # "filled"
               \/ Has(M, s, <<"unit", u>>, "update") /\ Unfilled(d, v, u)
    <2>1. \A i \in DOMAIN w.slot : i \in DOMAIN v.slot /\ v.slot[i].status # "filled"
      OBVIOUS
    <2> QED  BY <1>1, <1>2, <2>1 DEF Notice
  <1> QED  BY <1>3 DEF Notice

LEMMA SweepKeeps ==
  ASSUME Inv, NEW s \in Sessions, Sweep(s)
  PROVE  Inv' /\ Honoured
  <1> DEFINE dead == {i \in Slots : Lapsed(db, i) /\ ~Skipped(s, i)}
             old  == ses[s]
             w    == Put(old.w, "slot", dead, OpenSlot)
             st   == [old EXCEPT !.pc = "swept", !.todo = {UnitOf[i] : i \in dead}, !.w = w]
             N    == {[by |-> s, on |-> <<"slot", i>>, mode |-> "update"] : i \in dead}
  <1>1. Go(s, st) /\ locks' = locks \cup N /\ old.pc = "sweep"
    BY DEF Sweep, Lapsed, At
  <1>2. old \in SesRec /\ old.w \in Writes /\ Clean(old.w) /\ SesInv(db, locks, s, old)
    BY <1>1, SessionFacts DEF SesInv, Phase
  <1>3. OpenSlot \in SlotRow
    BY TransactionsAssumption DEF OpenSlot, SlotRow
  <1>4. /\ w \in Writes /\ DOMAIN w.slot = dead /\ (\A i \in dead : w.slot[i] = OpenSlot)
        /\ DOMAIN w.unit = {} /\ DOMAIN w.label = {}
    <2>1. dead \in SlotSets  BY DEF SlotSets
    <2>3. w = Put(old.w, "slot", dead, OpenSlot)
      OBVIOUS
    <2> HIDE DEF dead, old, w
    <2>2. IsPutSlot(w, old.w, dead, OpenSlot)
      BY <1>2, <1>3, <2>1, <2>3, PutSlot
    <2> QED  BY <1>2, <2>2 DEF Clean, IsPutSlot
  <1>5. {UnitOf[i] : i \in dead} \subseteq Units
    BY TransactionsAssumption
  <1>6. /\ st \in SesRec /\ st.pc = "swept" /\ st.todo = {UnitOf[i] : i \in dead} /\ st.w = w
    <2> HIDE DEF w, dead
    <2> QED  BY <1>2, <1>4, <1>5 DEF SesRec, Pcs
  <1>7. N \in SUBSET LockRecs /\ \A l \in N : l.by = s /\ Free(s, l.on, l.mode)
    <2> SUFFICES ASSUME NEW i \in dead
                 PROVE  LET l == [by |-> s, on |-> <<"slot", i>>, mode |-> "update"]
                        IN  l \in LockRecs /\ l.by = s /\ Free(s, l.on, l.mode)
      OBVIOUS
    <2>1. i \in Slots /\ Free(s, <<"slot", i>>, "update")
      BY DEF Skipped, Free
    <2> QED  BY <2>1 DEF LockRecs, Modes
  <1>8. \A i \in dead : Has(locks \cup N, s, <<"slot", i>>, "update")
    BY DEF Has
  <1>9. \A i \in dead : Lapsed(db, i)
    OBVIOUS
  <1> HIDE DEF st, w, N, old, dead
  <1>10. Typed(db, st)
    BY <1>5, <1>6 DEF Typed, VoidPcs, Finalizing, Filling
  <1>11. Phase(db, locks \cup N, s, st)
    BY <1>4, <1>6, <1>9 DEF Phase, VoidPcs, Finalizing, Filling, Deciding, Swept
  <1>12. Guarded(locks \cup N, s, w) /\ Covered(locks \cup N, s, st)
    BY <1>4, <1>6, <1>8 DEF Guarded, Covered, Waits
  <1>13. Notice(db, locks \cup N, s, w) /\ RowsKept(db, w)
    BY <1>4 DEF Notice, RowsKept, OpenSlot
  <1>14. SesInv(db, locks \cup N, s, st)
    BY <1>6, <1>10, <1>11, <1>12, <1>13 DEF SesInv
  <1> QED  BY <1>1, <1>4, <1>6, <1>7, <1>14, GoKeeps

\* What the status recounted says is so.
LEMMA RecountSettles ==
  ASSUME db \in Tables, NEW w \in Writes, NEW u \in Units, NEW x, NEW p,
         p.slot = w.slot, Settled(w, u, x)
  PROVE  \/ x \in Noticed \/ Unfilled(db, p, u)
         \/ \E i \in DOMAIN p.slot : UnitOf[i] = u /\ p.slot[i].status # "filled"
  <1>1. CASE x \in Noticed
    BY <1>1
  <1>2. CASE x \notin Noticed
    <2>1. PICK i \in SlotsOf(u) : Over(w).slot[i].status # "filled"
      BY <1>2 DEF Settled
    <2>2. Over(w).slot[i] = IF i \in DOMAIN w.slot THEN w.slot[i] ELSE db.slot[i]
      BY OverRows DEF SlotsOf
    <2> QED  BY <2>1, <2>2 DEF Unfilled, SlotsOf
  <1> QED  BY <1>1, <1>2

LEMMA RecountNotice ==
  ASSUME db \in Tables, NEW w \in Writes, NEW u \in Units, NEW seen, NEW L, NEW s,
         NEW p, IsRecount(p, w, u, seen), Notice(db, L, s, w), Has(L, s, <<"unit", u>>, "update")
  PROVE  Notice(db, L, s, p)
  <1>1. p.slot = w.slot /\ \A v : Unfilled(db, w, v) <=> Unfilled(db, p, v)
    BY DEF Unfilled, IsRecount
  <1>2. CASE p = w
    BY <1>2
  <1>3. CASE /\ DOMAIN p.unit = DOMAIN w.unit \cup {u} /\ Settled(w, u, p.unit[u])
             /\ \A v \in DOMAIN w.unit : v # u => p.unit[v] = w.unit[v]
    BY <1>1, <1>3, RecountSettles DEF Notice
  <1> QED  BY <1>2, <1>3 DEF IsRecount

LEMMA RecountCommits ==
  ASSUME db \in Tables, NEW w \in Writes, NEW u \in Units, NEW seen,
         NEW p, IsRecount(p, w, u, seen), CommitNotice(db, w)
  PROVE  CommitNotice(db, p)
  <1>1. p.slot = w.slot /\ \A v : Unfilled(db, w, v) <=> Unfilled(db, p, v)
    BY DEF Unfilled, IsRecount
  <1>2. CASE p = w
    BY <1>2
  <1>3. CASE /\ DOMAIN p.unit = DOMAIN w.unit \cup {u} /\ Settled(w, u, p.unit[u])
             /\ \A v \in DOMAIN w.unit : v # u => p.unit[v] = w.unit[v]
    BY <1>1, <1>3, RecountSettles DEF CommitNotice
  <1> QED  BY <1>2, <1>3 DEF IsRecount

LEMMA NoticeCommits ==
  ASSUME NEW d, NEW L, NEW s, NEW w, Notice(d, L, s, w)
  PROVE  CommitNotice(d, w)
  BY DEF Notice, CommitNotice

\* The commit of what a session has written, the units it waited for now its own.
LEMMA CommitOwn ==
  ASSUME Inv, NEW s \in Sessions, Commit(s, ses[s].w), HandsOn(db, ses[s].w),
         \A u \in Units : Waits(ses[s], u) => NoRival(locks, s, u)
  PROVE  Inv' /\ Honoured
  <1> DEFINE w == ses[s].w
  <1>1. ses[s] \in SesRec /\ w \in Writes /\ SesInv(db, locks, s, ses[s])
    BY SessionFacts
  <1>2. DOMAIN w.slot \subseteq Slots /\ DOMAIN w.unit \subseteq Units
    BY <1>1, WriteFields
  <1>3. \A u \in Units : UnitLocked(locks, s, u) \/ Waits(ses[s], u) => NoRival(locks, s, u)
    BY FreeNoRival DEF Modes
  <1>4. (\A u \in DOMAIN w.unit : NoRival(locks, s, u)) /\ \A i \in DOMAIN w.slot : UnitOf[i] \in Units
    BY <1>1, <1>2, <1>3, TransactionsAssumption DEF SesInv, Covered
  <1>5. \A i \in DOMAIN w.slot : NoRival(locks, s, UnitOf[i])
    BY <1>1, <1>3, <1>4 DEF SesInv, Covered
  <1>6. Guarded(locks, s, w) /\ CommitNotice(db, w) /\ RowsKept(db, w)
    BY <1>1, NoticeCommits DEF SesInv
  <1> HIDE DEF w
  <1>7. Commit(s, w) /\ HandsOn(db, w) /\ DOMAIN w.label \subseteq DOMAIN ses[s].w.label
    BY DEF w
  <1> QED  BY <1>1, <1>4, <1>5, <1>6, <1>7, CommitKeeps

LEMMA SweepUnitKeeps ==
  ASSUME Inv, NEW s \in Sessions, NEW u \in Units, SweepUnit(s, u)
  PROVE  Inv' /\ Honoured
  <1> DEFINE old == ses[s]
             w   == Recount(old.w, u, db.unit[u], FALSE)
             st  == [old EXCEPT !.todo = @ \ {u}, !.w = w]
             l   == [by |-> s, on |-> <<"unit", u>>, mode |-> "update"]
             M   == locks \cup {l}
  <1>1. /\ Go(s, st) /\ Free(s, <<"unit", u>>, "update") /\ Lock(s, <<"unit", u>>, "update")
        /\ old.pc = "swept" /\ u \in old.todo
    BY DEF SweepUnit, UnitLock, At
  <1>2. /\ old \in SesRec /\ old.w \in Writes /\ SesInv(db, locks, s, old) /\ db \in Tables
        /\ db.unit[u] \in Seen
    BY SessionFacts DEF Tables, Seen
  <1>3. l \in LockRecs
    BY DEF LockRecs, Modes
  <1>9. IsRecount(w, old.w, u, db.unit[u])
    <2>1. w = Recount(old.w, u, db.unit[u], FALSE)
      OBVIOUS
    <2> HIDE DEF w, old
    <2> QED  BY <1>2, <2>1, RecountCases
  <1>4. /\ w \in Writes /\ w.slot = old.w.slot /\ w.label = old.w.label
        /\ DOMAIN w.unit \subseteq DOMAIN old.w.unit \cup {u}
    BY <1>9 DEF IsRecount
  <1>5. old.todo \subseteq Units
    BY <1>1, <1>2 DEF SesInv, Typed
  <1>6. /\ st \in SesRec /\ st.pc = "swept" /\ st.todo = old.todo \ {u} /\ st.w = w
    <2> HIDE DEF w
    <2> QED  BY <1>1, <1>2, <1>4, <1>5 DEF SesRec, Pcs
  <1>7. \A on, mode : Has(locks, s, on, mode) => Has(M, s, on, mode)
    BY DEF Has
  <1>8. Has(M, s, <<"unit", u>>, "update")
    BY DEF Has
  <1> HIDE DEF st, w, old, M
  <1>10. Typed(db, st)
    BY <1>5, <1>6 DEF Typed, VoidPcs, Finalizing, Filling
  <1>11. Phase(db, M, s, st)
    BY <1>1, <1>2, <1>4, <1>6 DEF SesInv, Phase, VoidPcs, Finalizing, Filling, Deciding, Swept
  <1>12. Guarded(M, s, w)
    BY <1>2, <1>4, <1>7 DEF SesInv, Guarded
  <1>13. Covered(M, s, st)
    BY <1>1, <1>2, <1>4, <1>6, <1>7, <1>8 DEF SesInv, Covered, Waits, UnitLocked, VoidPcs
  <1>14. Notice(db, M, s, w)
    <2>1. Notice(db, M, s, old.w)
      BY <1>2, <1>7 DEF SesInv, Notice
    <2> QED  BY <1>2, <1>8, <1>9, <2>1, RecountNotice
  <1>15. RowsKept(db, w)
    BY <1>2, <1>4 DEF SesInv, RowsKept
  <1>16. SesInv(db, M, s, st)
    BY <1>6, <1>10, <1>11, <1>12, <1>13, <1>14, <1>15 DEF SesInv
  <1>17. DOMAIN st.w.label \subseteq DOMAIN ses[s].w.label
    BY <1>4, <1>6 DEF old
  <1>18. SesInv(db, locks \cup {[by |-> s, on |-> <<"unit", u>>, mode |-> "update"]}, s, st)
    BY <1>16 DEF M
  <1> QED  BY <1>1, <1>3, <1>6, <1>17, <1>18, LockKeeps

LEMMA CountWorkKeeps ==
  ASSUME Inv, NEW s \in Sessions, CountWork(s)
  PROVE  Inv' /\ Honoured
  <1>1. SesInv(db, locks, s, ses[s]) /\ ses[s].pc = "swept" /\ ses[s].todo = {} /\ Commit(s, ses[s].w)
    BY SessionFacts DEF CountWork, At
  <1>2. \A u : ~Waits(ses[s], u)
    BY <1>1 DEF Waits, VoidPcs
  <1>3. HandsOn(db, ses[s].w)
    BY <1>1 DEF SesInv, Phase, Swept, HandsOn, OpenSlot
  <1> QED  BY <1>1, <1>2, <1>3, CommitOwn

\* Handing a slot to the session's annotator: its own again (Resume) or another (Pick).
LEMMA HandOut ==
  ASSUME Inv, NEW s \in Sessions, NEW i \in Slots, NEW st \in SesRec, NEW w, Go(s, st),
         ses[s].pc = "pick" \/ (ses[s].pc = "swept" /\ ses[s].todo = {}),
         Free(s, <<"slot", i>>, "update"), Lock(s, <<"slot", i>>, "update"),
         ses[s].a \in Annotators, w = Put(ses[s].w, "slot", {i}, Leased(ses[s].a)),
         st.a = ses[s].a, st.u = UnitOf[i], st.w = w,
         \/ st.pc = "event" /\ Holds(db, ses[s].a, i) /\ i \notin DOMAIN ses[s].w.slot
         \/ st.pc = "look" /\ (db.slot[i].status = "open" \/ i \in DOMAIN ses[s].w.slot)
  PROVE  Inv' /\ Honoured
  <1> DEFINE old == ses[s]
             M   == locks \cup {[by |-> s, on |-> <<"slot", i>>, mode |-> "update"]}
  <1>1. old.w \in Writes /\ SesInv(db, locks, s, old) /\ db \in Tables
    BY SessionFacts
  <1>2. Leased(old.a) \in SlotRow
    BY TransactionsAssumption DEF Leased, SlotRow
  <1>3. {i} \in SlotSets
    BY DEF SlotSets
  <1> HIDE DEF old
  <1>4. w = Put(old.w, "slot", {i}, Leased(old.a))
    BY DEF old
  <1>5. IsPutSlot(w, old.w, {i}, Leased(old.a))
    BY <1>1, <1>2, <1>3, <1>4, PutSlot
  <1>6. /\ w \in Writes /\ DOMAIN w.slot = DOMAIN old.w.slot \cup {i} /\ w.slot[i] = Leased(old.a)
        /\ \A j \in DOMAIN old.w.slot \ {i} : w.slot[j] = old.w.slot[j]
        /\ w.unit = old.w.unit /\ w.label = old.w.label
    BY <1>5 DEF IsPutSlot
  <1>7. Swept(db, old.w, DOMAIN old.w.slot)
    BY <1>1 DEF SesInv, Phase, old
  <1>8. \A on, mode : Has(locks, s, on, mode) => Has(M, s, on, mode)
    BY DEF Has
  <1>9. Has(M, s, <<"slot", i>>, "update")
    BY DEF Has
  <1> HIDE DEF M
  <1>10. Typed(db, st)
    <2>1. st.u \in Units  BY TransactionsAssumption
    <2> QED  BY <2>1 DEF Typed, VoidPcs, Finalizing, Filling
  <1>11. Phase(db, M, s, st)
    <2>1. Swept(db, w, DOMAIN w.slot \ {i})
      BY <1>6, <1>7 DEF Swept
    <2>2. CASE st.pc = "event"
      BY <1>6, <2>1, <2>2 DEF Phase, VoidPcs, Finalizing, Filling, Deciding, old
    <2>3. CASE st.pc = "look"
      <3>1. db.slot[i].status = "open" \/ Lapsed(db, i)
        BY <1>7, <2>3 DEF Swept, old
      <3> QED  BY <1>6, <2>1, <2>3, <3>1 DEF Phase, VoidPcs, Finalizing, Filling, Deciding, old
    <2> QED  BY <2>2, <2>3
  <1>12. Guarded(M, s, w)
    BY <1>1, <1>6, <1>8, <1>9 DEF SesInv, Guarded
  <1>13. Covered(M, s, st)
    BY <1>1, <1>6, <1>8 DEF SesInv, Covered, Waits, UnitLocked, VoidPcs, old
  <1>14. Notice(db, M, s, w)
    <2>1. Notice(db, locks, s, old.w)
      BY <1>1 DEF SesInv
    <2>2. \A j \in DOMAIN w.slot : w.slot[j].status # "filled"
      <3> TAKE j \in DOMAIN w.slot
      <3>1. CASE j = i
        BY <1>6, <3>1 DEF Leased
      <3>2. CASE j # i
        <4>1. j \in DOMAIN old.w.slot \ {i}  BY <1>6, <3>2
        <4>2. w.slot[j] = old.w.slot[j]  BY <1>6, <4>1
        <4>3. old.w.slot[j] = OpenSlot  BY <1>7, <4>1 DEF Swept
        <4> QED  BY <4>2, <4>3 DEF OpenSlot
      <3> QED  BY <3>1, <3>2
    <2>3. locks \subseteq M
      BY DEF M
    <2>4. DOMAIN old.w.slot \subseteq DOMAIN w.slot /\ w.unit = old.w.unit
      BY <1>6
    <2> QED  BY <1>1, <1>6, <2>1, <2>2, <2>3, <2>4, NoticeGrows
  <1>15. RowsKept(db, w)
    BY <1>1, <1>6 DEF SesInv, RowsKept
  <1>16. SesInv(db, M, s, st)
    BY <1>10, <1>11, <1>12, <1>13, <1>14, <1>15 DEF SesInv
  <1>17. [by |-> s, on |-> <<"slot", i>>, mode |-> "update"] \in LockRecs
    BY DEF LockRecs, Modes
  <1>18. DOMAIN st.w.label \subseteq DOMAIN ses[s].w.label
    BY <1>6 DEF old
  <1>19. SesInv(db, locks \cup {[by |-> s, on |-> <<"slot", i>>, mode |-> "update"]}, s, st)
    BY <1>16 DEF M
  <1> QED  BY <1>17, <1>18, <1>19, LockKeeps

LEMMA RowExcept ==
  ASSUME NEW S, NEW T, NEW U, NEW x \in U, NEW r \in [status : S, by : T, expired : U]
  PROVE  [r EXCEPT !.expired = x] = [status |-> r.status, by |-> r.by, expired |-> x]
  OBVIOUS

LEMMA ResumeKeeps ==
  ASSUME Inv, NEW s \in Sessions, Resume(s)
  PROVE  Inv' /\ Honoured
  <1>1. /\ ses[s].pc = "swept" /\ ses[s].todo = {} /\ ses[s].a # None
    BY DEF Resume, At
  <1>2. /\ ses[s] \in SesRec /\ ses[s].w \in Writes /\ SesInv(db, locks, s, ses[s]) /\ db \in Tables
        /\ ses[s].a \in Annotators
    BY <1>1, SessionFacts, RecFields
  <1>3. CASE Go(s, [ses[s] EXCEPT !.pc = "pick"]) /\ UNCHANGED locks
    <2> DEFINE st == [ses[s] EXCEPT !.pc = "pick"]
    <2>1. /\ st \in SesRec /\ st.pc = "pick" /\ st.w = ses[s].w /\ st.a = ses[s].a
      BY <1>2 DEF SesRec, Pcs
    <2>2. Go(s, st)
      BY <1>3
    <2> HIDE DEF st
    <2>3. Typed(db, st)
      BY <1>2, <2>1 DEF Typed, VoidPcs, Finalizing, Filling
    <2>4. Phase(db, locks, s, st)
      BY <1>1, <1>2, <2>1 DEF SesInv, Phase, VoidPcs, Finalizing, Filling, Deciding
    <2>5. Covered(locks, s, st)
      BY <1>1, <1>2, <2>1 DEF SesInv, Covered, Waits, VoidPcs
    <2>6. SesInv(db, locks, s, st)
      BY <1>2, <2>1, <2>3, <2>4, <2>5 DEF SesInv
    <2> QED  BY <1>3, <2>1, <2>2, <2>6, MoveKeeps
  <1>4. ASSUME NEW i \in Slots, Holds(Over(ses[s].w), ses[s].a, i), ~Skipped(s, i),
               Lock(s, <<"slot", i>>, "update"),
               Go(s, [ses[s] EXCEPT !.pc = "event", !.u = UnitOf[i],
                           !.w = Put(@, "slot", {i}, [db.slot[i] EXCEPT !.expired = FALSE])])
        PROVE  Inv' /\ Honoured
    <2> DEFINE w  == Put(ses[s].w, "slot", {i}, Leased(ses[s].a))
               st == [ses[s] EXCEPT !.pc = "event", !.u = UnitOf[i], !.w = w]
    <2>1. i \notin DOMAIN ses[s].w.slot
      <3>1. Over(ses[s].w).slot[i] = IF i \in DOMAIN ses[s].w.slot THEN ses[s].w.slot[i] ELSE db.slot[i]
        BY <1>2, OverRows
      <3>2. i \in DOMAIN ses[s].w.slot => ses[s].w.slot[i] = OpenSlot
        BY <1>1, <1>2 DEF SesInv, Phase, Swept
      <3> QED  BY <1>4, <3>1, <3>2 DEF Holds, OpenSlot
    <2>2. Holds(db, ses[s].a, i)
      <3>1. Over(ses[s].w).slot[i] = db.slot[i]
        BY <1>2, <2>1, OverRows
      <3> QED  BY <1>4, <3>1 DEF Holds
    <2>3. [db.slot[i] EXCEPT !.expired = FALSE] = Leased(ses[s].a)
      <3> DEFINE row == db.slot[i]
      <3>1. row \in SlotRow /\ row.status = "leased" /\ row.by = ses[s].a
        BY <1>2, <2>2 DEF Tables, Holds
      <3> HIDE DEF row
      <3>2. ASSUME NEW x \in BOOLEAN
            PROVE  [row EXCEPT !.expired = x] = [status |-> row.status, by |-> row.by, expired |-> x]
        BY <3>1, RowExcept DEF SlotRow
      <3>3. [row EXCEPT !.expired = FALSE] = [status |-> row.status, by |-> row.by, expired |-> FALSE]
        BY <3>2, Zenon
      <3> QED  BY <3>1, <3>3 DEF row, Leased
    <2>4. Go(s, st)
      BY <1>4, <2>3
    <2>5. w \in Writes
      <3>1. Leased(ses[s].a) \in SlotRow /\ {i} \in SlotSets
        BY <1>2, TransactionsAssumption DEF Leased, SlotRow, SlotSets
      <3>2. IsPutSlot(w, ses[s].w, {i}, Leased(ses[s].a))
        BY <1>2, <3>1, PutSlot
      <3> HIDE DEF w
      <3> QED  BY <3>2 DEF IsPutSlot
    <2>6. UnitOf[i] \in Units
      BY TransactionsAssumption
    <2>7. st \in SesRec /\ st.pc = "event" /\ st.u = UnitOf[i] /\ st.w = w /\ st.a = ses[s].a
      <3> HIDE DEF w
      <3> QED  BY <1>2, <2>5, <2>6 DEF SesRec, Pcs
    <2>8. w = Put(ses[s].w, "slot", {i}, Leased(ses[s].a)) /\ Free(s, <<"slot", i>>, "update")
      BY <1>4 DEF Skipped, Free
    <2> HIDE DEF w, st
    <2> QED  BY <1>1, <1>2, <1>4, <2>1, <2>2, <2>4, <2>7, <2>8, HandOut
  <1> QED  BY <1>3, <1>4 DEF Resume

LEMMA LogResumedKeeps ==
  ASSUME Inv, NEW s \in Sessions, LogResumed(s)
  PROVE  Inv' /\ Honoured
  <1>1. /\ SesInv(db, locks, s, ses[s]) /\ ses[s].pc = "event" /\ Commit(s, ses[s].w)
        /\ Free(s, <<"unit", ses[s].u>>, "share")
    BY SessionFacts DEF LogResumed, At
  <1>2. \A u \in Units : Waits(ses[s], u) => u = ses[s].u
    BY <1>1 DEF Waits, VoidPcs
  <1>3. \A u \in Units : Waits(ses[s], u) => NoRival(locks, s, u)
    BY <1>1, <1>2, FreeNoRival DEF Modes
  <1>4. HandsOn(db, ses[s].w)
    <2>1. PICK i \in DOMAIN ses[s].w.slot :
            /\ ses[s].w.slot[i] = Leased(ses[s].a) /\ Holds(db, ses[s].a, i)
            /\ Swept(db, ses[s].w, DOMAIN ses[s].w.slot \ {i})
      BY <1>1 DEF SesInv, Phase
    <2> QED  BY <2>1 DEF HandsOn, Swept, Leased, Holds
  <1> QED  BY <1>1, <1>3, <1>4, CommitOwn

LEMMA PickKeeps ==
  ASSUME Inv, NEW s \in Sessions, Pick(s)
  PROVE  Inv' /\ Honoured
  <1>1. /\ ses[s].pc = "pick"
    BY DEF Pick, At
  <1>2. /\ ses[s] \in SesRec /\ ses[s].w \in Writes /\ SesInv(db, locks, s, ses[s]) /\ db \in Tables
        /\ ses[s].a \in Annotators
    BY <1>1, SessionFacts DEF SesInv, Typed
  <1>3. CASE Commit(s, ses[s].w)
    <2>1. \A u : ~Waits(ses[s], u)
      BY <1>1 DEF Waits, VoidPcs
    <2>2. HandsOn(db, ses[s].w)
      BY <1>1, <1>2 DEF SesInv, Phase, Swept, HandsOn, OpenSlot
    <2> QED  BY <1>3, <2>1, <2>2, CommitOwn
  <1>4. ASSUME NEW i \in Candidates(s), Lock(s, <<"slot", i>>, "update"),
               Go(s, [ses[s] EXCEPT !.pc = "look", !.u = UnitOf[i],
                           !.w = Put(@, "slot", {i}, [status |-> "leased", by |-> ses[s].a,
                                                      expired |-> FALSE])])
        PROVE  Inv' /\ Honoured
    <2> DEFINE w  == Put(ses[s].w, "slot", {i}, Leased(ses[s].a))
               st == [ses[s] EXCEPT !.pc = "look", !.u = UnitOf[i], !.w = w]
    <2>1. i \in Slots /\ Over(ses[s].w).slot[i].status = "open" /\ ~Skipped(s, i)
      BY <1>4 DEF Candidates
    <2>2. db.slot[i].status = "open" \/ i \in DOMAIN ses[s].w.slot
      <3>1. Over(ses[s].w).slot[i] = IF i \in DOMAIN ses[s].w.slot THEN ses[s].w.slot[i] ELSE db.slot[i]
        BY <1>2, <2>1, OverRows
      <3> QED  BY <2>1, <3>1
    <2>3. Go(s, st)
      BY <1>4 DEF Leased
    <2>4. w \in Writes
      <3>1. Leased(ses[s].a) \in SlotRow /\ {i} \in SlotSets
        BY <1>2, <2>1, TransactionsAssumption DEF Leased, SlotRow, SlotSets
      <3>2. IsPutSlot(w, ses[s].w, {i}, Leased(ses[s].a))
        BY <1>2, <3>1, PutSlot
      <3> HIDE DEF w
      <3> QED  BY <3>2 DEF IsPutSlot
    <2>5. UnitOf[i] \in Units
      BY <2>1, TransactionsAssumption
    <2>6. st \in SesRec /\ st.pc = "look" /\ st.u = UnitOf[i] /\ st.w = w /\ st.a = ses[s].a
      <3> HIDE DEF w
      <3> QED  BY <1>2, <2>4, <2>5 DEF SesRec, Pcs
    <2>7. w = Put(ses[s].w, "slot", {i}, Leased(ses[s].a)) /\ Free(s, <<"slot", i>>, "update")
      BY <2>1 DEF Skipped, Free
    <2> HIDE DEF w, st
    <2> QED  BY <1>1, <1>2, <1>4, <2>1, <2>2, <2>3, <2>6, <2>7, HandOut
  <1> QED  BY <1>3, <1>4 DEF Pick

LEMMA LookKeeps ==
  ASSUME Inv, NEW s \in Sessions, Look(s)
  PROVE  Inv' /\ Honoured
  <1> DEFINE old == ses[s]
             x   == Over(old.w).unit[old.u]
             st  == [old EXCEPT !.pc = "lease", !.seen[old.u] = x]
  <1>1. Go(s, st) /\ UNCHANGED locks /\ old.pc = "look"
    BY DEF Look, At
  <1>2. /\ old \in SesRec /\ old.w \in Writes /\ SesInv(db, locks, s, old) /\ db \in Tables
        /\ old.u \in Units /\ old.a \in Annotators
    BY <1>1, SessionFacts DEF SesInv, Typed
  <1>3. x \in UnitStatus
    BY <1>2, OverRows DEF Tables
  <1>4. st \in SesRec /\ st.pc = "lease" /\ st.u = old.u /\ st.w = old.w /\ st.a = old.a
    <2> HIDE DEF x
    <2> QED  BY <1>2, <1>3 DEF SesRec, Pcs
  <1> HIDE DEF st, old
  <1>5. Typed(db, st)
    BY <1>2, <1>4 DEF Typed, VoidPcs, Finalizing, Filling
  <1>6. Phase(db, locks, s, st)
    BY <1>1, <1>2, <1>4 DEF SesInv, Phase, VoidPcs, Finalizing, Filling, Deciding
  <1>7. Covered(locks, s, st)
    BY <1>1, <1>2, <1>4 DEF SesInv, Covered, Waits, VoidPcs
  <1>8. SesInv(db, locks, s, st)
    BY <1>2, <1>4, <1>5, <1>6, <1>7 DEF SesInv
  <1>9. DOMAIN st.w.label \subseteq DOMAIN ses[s].w.label
    BY <1>4 DEF old
  <1> QED  BY <1>1, <1>4, <1>8, <1>9, MoveKeeps

LEMMA LeaseKeeps ==
  ASSUME Inv, NEW s \in Sessions, Lease(s)
  PROVE  Inv' /\ Honoured
  <1>1. /\ ses[s].pc = "lease" /\ SesInv(db, locks, s, ses[s]) /\ ses[s].u \in Units
        /\ ses[s].w \in Writes
    BY SessionFacts DEF Lease, At, SesInv, Typed
  <1>2. PICK i \in DOMAIN ses[s].w.slot :
            /\ ses[s].w.slot[i] = Leased(ses[s].a) /\ (db.slot[i].status = "open" \/ Lapsed(db, i))
            /\ UnitOf[i] = ses[s].u /\ Swept(db, ses[s].w, DOMAIN ses[s].w.slot \ {i})
    BY <1>1 DEF SesInv, Phase
  <1>3. NoRival(locks, s, ses[s].u)
    BY <1>1, FreeNoRival DEF Lease, Modes
  <1>4. \A u \in Units : Waits(ses[s], u) => u = ses[s].u
    BY <1>1 DEF Waits, VoidPcs
  <1>5. \A u \in Units : Waits(ses[s], u) => NoRival(locks, s, u)
    BY <1>3, <1>4
  <1>6. HandsOn(db, ses[s].w)
    BY <1>2 DEF HandsOn, Swept, OpenSlot
  <1>7. CASE Commit(s, ses[s].w)
    BY <1>5, <1>6, <1>7, CommitOwn
  <1>8. CASE Commit(s, Put(ses[s].w, "unit", {ses[s].u}, "in_progress"))
    <2> DEFINE old == ses[s].w
               w   == Put(ses[s].w, "unit", {ses[s].u}, "in_progress")
    <2>1. IsPutUnit(w, old, ses[s].u, "in_progress")
      <3>1. "in_progress" \in UnitStatus  BY DEF UnitStatus
      <3> QED  BY <1>1, <3>1, PutUnit
    <2> HIDE DEF w, old
    <2>2. /\ w \in Writes /\ w.slot = old.slot /\ w.label = old.label
          /\ DOMAIN w.unit = DOMAIN old.unit \cup {ses[s].u}
          /\ \A v \in DOMAIN old.unit \ {ses[s].u} : w.unit[v] = old.unit[v]
      BY <2>1 DEF IsPutUnit
    <2>3. \A u \in Units : UnitLocked(locks, s, u) \/ Waits(ses[s], u) => NoRival(locks, s, u)
      BY <1>5, FreeNoRival DEF Modes
    <2>4. /\ \A u \in DOMAIN w.unit : NoRival(locks, s, u)
          /\ \A j \in DOMAIN w.slot : NoRival(locks, s, UnitOf[j])
      <3>1. DOMAIN old.unit \subseteq Units /\ DOMAIN old.slot \subseteq Slots
        BY <1>1, WriteFields DEF old
      <3>2. \A j \in DOMAIN old.slot : UnitOf[j] \in Units
        BY <3>1, TransactionsAssumption
      <3>3. /\ \A u \in DOMAIN old.unit : NoRival(locks, s, u)
            /\ \A j \in DOMAIN old.slot : NoRival(locks, s, UnitOf[j])
        BY <1>1, <2>3, <3>1, <3>2 DEF SesInv, Covered, old
      <3> QED  BY <1>3, <2>2, <3>3
    <2>5. Guarded(locks, s, w) /\ HandsOn(db, w) /\ RowsKept(db, w)
      BY <1>1, <1>6, <2>2 DEF SesInv, Guarded, HandsOn, RowsKept, old
    <2>6. CommitNotice(db, w)
      <3>1. CommitNotice(db, old)
        BY <1>1, NoticeCommits DEF SesInv, old
      <3>2. \A u : Unfilled(db, old, u) <=> Unfilled(db, w, u)
        BY <2>2 DEF Unfilled
      <3>3. i \in DOMAIN w.slot /\ UnitOf[i] = ses[s].u /\ w.slot[i].status # "filled"
        BY <1>2, <2>2 DEF old, Leased
      <3> QED  BY <2>2, <3>1, <3>2, <3>3 DEF CommitNotice
    <2>7. Commit(s, w) /\ DOMAIN w.label \subseteq DOMAIN ses[s].w.label
      BY <1>8, <2>2 DEF w, old
    <2> QED  BY <2>2, <2>4, <2>5, <2>6, <2>7, CommitKeeps
  <1> QED  BY <1>7, <1>8 DEF Lease

LEMMA TakeSlotKeeps ==
  ASSUME Inv, NEW s \in Sessions, TakeSlot(s)
  PROVE  Inv' /\ Honoured
  <1> DEFINE old == ses[s]
             M   == locks \cup {[by |-> s, on |-> <<"slot", old.i>>, mode |-> "update"]}
  <1>1. old.pc \in {"submit", "skip"} /\ Free(s, <<"slot", old.i>>, "update")
    BY DEF TakeSlot
  <1>2. /\ old \in SesRec /\ old.w \in Writes /\ SesInv(db, locks, s, old) /\ db \in Tables
        /\ old.a \in Annotators /\ old.i \in Slots /\ old.u = UnitOf[old.i] /\ old.todo = {}
        /\ Clean(old.w)
    BY <1>1, SessionFacts DEF SesInv, Typed, Phase
  <1>3. [by |-> s, on |-> <<"slot", old.i>>, mode |-> "update"] \in LockRecs
    BY <1>2 DEF LockRecs, Modes
  <1>4. Has(M, s, <<"slot", old.i>>, "update")
    BY DEF Has
  <1>5. CASE Abort(s)
    BY <1>5, AbortKeeps
  <1>6. CASE /\ StillHolds(s) /\ LockSlot(s)
             /\ Go(s, [old EXCEPT !.pc = "fill"])
    <2> DEFINE st == [old EXCEPT !.pc = "fill"]
    <2>1. /\ st \in SesRec /\ st.pc = "fill" /\ st.a = old.a /\ st.i = old.i /\ st.u = old.u
          /\ st.todo = old.todo /\ st.w = old.w
      BY <1>2 DEF SesRec, Pcs
    <2>2. Go(s, st) /\ Lock(s, <<"slot", old.i>>, "update") /\ Holds(db, old.a, old.i)
      BY <1>6 DEF LockSlot, StillHolds
    <2> HIDE DEF st, old, M
    <2>3. Typed(db, st)
      BY <1>2, <2>1 DEF Typed, VoidPcs, Finalizing, Filling
    <2>4. Phase(db, M, s, st)
      BY <1>2, <1>4, <2>1, <2>2 DEF Phase, Clean, VoidPcs, Finalizing, Filling, Deciding
    <2>5. Covered(M, s, st)
      BY <1>2, <2>1 DEF Covered, Clean
    <2>6. SesInv(db, M, s, st)
      BY <1>2, <2>1, <2>3, <2>4, <2>5, CleanInv DEF SesInv
    <2>7. DOMAIN st.w.label = {}
      BY <1>2, <2>1 DEF Clean
    <2>8. SesInv(db, locks \cup {[by |-> s, on |-> <<"slot", old.i>>, mode |-> "update"]}, s, st)
      BY <2>6 DEF M
    <2> QED  BY <1>1, <1>3, <2>1, <2>2, <2>7, <2>8, LockKeeps
  <1>7. CASE /\ StillHolds(s) /\ LockSlot(s)
             /\ Go(s, [old EXCEPT !.pc = "release", !.w = Put(@, "slot", {old.i}, OpenSlot)])
    <2> DEFINE w  == Put(old.w, "slot", {old.i}, OpenSlot)
               st == [old EXCEPT !.pc = "release", !.w = w]
    <2>1. IsPutSlot(w, old.w, {old.i}, OpenSlot)
      <3>1. OpenSlot \in SlotRow /\ {old.i} \in SlotSets
        BY <1>2, TransactionsAssumption DEF OpenSlot, SlotRow, SlotSets
      <3> HIDE DEF old
      <3> QED  BY <1>2, <3>1, PutSlot
    <2>2. Go(s, st) /\ Lock(s, <<"slot", old.i>>, "update") /\ Holds(db, old.a, old.i)
      BY <1>7 DEF LockSlot, StillHolds
    <2> HIDE DEF w
    <2>3. /\ w \in Writes /\ DOMAIN w.slot = {old.i} /\ w.slot[old.i] = OpenSlot
          /\ DOMAIN w.unit = {} /\ DOMAIN w.label = {}
      BY <1>2, <2>1 DEF IsPutSlot, Clean
    <2>4. /\ st \in SesRec /\ st.pc = "release" /\ st.a = old.a /\ st.i = old.i /\ st.u = old.u
          /\ st.todo = old.todo /\ st.w = w
      BY <1>2, <2>3 DEF SesRec, Pcs
    <2> HIDE DEF st, old, M
    <2>5. Typed(db, st)
      BY <1>2, <2>4 DEF Typed, VoidPcs, Finalizing, Filling
    <2>6. Phase(db, M, s, st)
      BY <2>2, <2>3, <2>4 DEF Phase, VoidPcs, Finalizing, Filling, Deciding
    <2>7. Covered(M, s, st)
      BY <1>2, <2>3, <2>4 DEF Covered, Waits
    <2>8. Guarded(M, s, w) /\ Notice(db, M, s, w) /\ RowsKept(db, w)
      BY <1>4, <2>3 DEF Guarded, Notice, RowsKept, OpenSlot
    <2>9. SesInv(db, M, s, st)
      BY <2>4, <2>5, <2>6, <2>7, <2>8 DEF SesInv
    <2>10. DOMAIN st.w.label = {}
      BY <2>3, <2>4
    <2>11. SesInv(db, locks \cup {[by |-> s, on |-> <<"slot", old.i>>, mode |-> "update"]}, s, st)
      BY <2>9 DEF M
    <2> QED  BY <1>1, <1>3, <2>2, <2>4, <2>10, <2>11, LockKeeps
  <1> QED  BY <1>5, <1>6, <1>7 DEF TakeSlot

LEMMA ReleaseKeeps ==
  ASSUME Inv, NEW s \in Sessions, Release(s)
  PROVE  Inv' /\ Honoured
  <1> DEFINE old == ses[s]
             w   == Recount(old.w, old.u, db.unit[old.u], FALSE)
  <1>1. old.pc = "release" /\ Free(s, <<"unit", old.u>>, "update") /\ Commit(s, w)
    BY DEF Release, UnitLock, At
  <1>2. /\ old.w \in Writes /\ SesInv(db, locks, s, old) /\ db \in Tables
        /\ old.i \in Slots /\ old.u = UnitOf[old.i] /\ DOMAIN old.w.slot = {old.i}
        /\ old.w.slot[old.i] = OpenSlot
    BY <1>1, SessionFacts DEF SesInv, Typed, Phase
  <1>3. old.u \in Units /\ db.unit[old.u] \in Seen
    BY <1>2, SlotUnits DEF Tables, Seen
  <1>4. IsRecount(w, old.w, old.u, db.unit[old.u])
    <2> HIDE DEF old
    <2> QED  BY <1>2, <1>3, RecountCases
  <1> HIDE DEF w, old
  <1>5. /\ w \in Writes /\ w.slot = old.w.slot /\ w.label = old.w.label
        /\ DOMAIN w.unit \subseteq DOMAIN old.w.unit \cup {old.u}
    BY <1>4 DEF IsRecount
  <1>6. NoRival(locks, s, old.u)
    BY <1>1, <1>3, FreeNoRival DEF Modes
  <1>7. \A u \in DOMAIN w.unit : NoRival(locks, s, u)
    <2>1. DOMAIN old.w.unit \subseteq Units
      BY <1>2, WriteFields
    <2>2. \A u : Waits(old, u) => u = old.u
      BY <1>1 DEF Waits, VoidPcs
    <2>3. \A u \in Units : UnitLocked(locks, s, u) => NoRival(locks, s, u)
      BY FreeNoRival DEF Modes
    <2>4. \A u \in DOMAIN old.w.unit : UnitLocked(locks, s, u) \/ Waits(old, u)
      BY <1>2 DEF SesInv, Covered
    <2> QED  BY <1>5, <1>6, <2>1, <2>2, <2>3, <2>4
  <1>8. \A i \in DOMAIN w.slot : NoRival(locks, s, UnitOf[i])
    BY <1>2, <1>5, <1>6
  <1>9. CommitNotice(db, w)
    <2>1. CommitNotice(db, old.w)
      BY <1>2, NoticeCommits DEF SesInv
    <2> QED  BY <1>2, <1>3, <1>4, <2>1, RecountCommits
  <1>10. Guarded(locks, s, w) /\ HandsOn(db, w) /\ RowsKept(db, w)
    BY <1>2, <1>5 DEF SesInv, Guarded, HandsOn, RowsKept, OpenSlot
  <1>11. DOMAIN w.label \subseteq DOMAIN ses[s].w.label
    BY <1>5 DEF old
  <1> QED  BY <1>1, <1>5, <1>7, <1>8, <1>9, <1>10, <1>11, CommitKeeps

LEMMA FillKeeps ==
  ASSUME Inv, NEW s \in Sessions, Fill(s)
  PROVE  Inv' /\ Honoured
  <1> DEFINE old == ses[s]
             u   == old.u
             n   == CHOOSE m \in Fresh("label") : TRUE
             row == [slot |-> old.i, by |-> old.a, valid |-> TRUE]
             w1  == Put(old.w, "slot", {old.i}, Filled(old.a))
             w2  == Put(w1, "label", {n}, row)
             w   == Recount(w2, u, db.unit[u], FALSE)
             st  == [old EXCEPT !.pc = "quality", !.w = w]
             l   == [by |-> s, on |-> <<"unit", u>>, mode |-> "update"]
             M   == locks \cup {l}
  <1>1. old.pc = "fill" /\ Free(s, <<"unit", u>>, "update")
    BY DEF Fill, At, UnitLock
  <1>2. CASE Abort(s)
    BY <1>2, AbortKeeps
  <1>3. CASE Fresh("label") # {} /\ Lock(s, <<"unit", u>>, "update") /\ Go(s, st)
    <2>1. /\ old \in SesRec /\ old.w \in Writes /\ SesInv(db, locks, s, old) /\ db \in Tables
          /\ old.a \in Annotators /\ old.i \in Slots /\ u = UnitOf[old.i] /\ old.todo = {}
          /\ Clean(old.w) /\ Holds(db, old.a, old.i) /\ Has(locks, s, <<"slot", old.i>>, "update")
      BY <1>1, SessionFacts DEF SesInv, Typed, Phase
    <2>2. u \in Units /\ db.unit[u] \in Seen
      BY <2>1, SlotUnits DEF Tables, Seen
    <2>3. n \in Fresh("label") /\ n \in LabelKeys /\ db.label[n] = None
      BY <1>3, <2>1 DEF Fresh, Tables
    <2>4. IsPutSlot(w1, old.w, {old.i}, Filled(old.a))
      <3>1. Filled(old.a) \in SlotRow /\ {old.i} \in SlotSets
        BY <2>1, TransactionsAssumption DEF Filled, SlotRow, SlotSets
      <3> HIDE DEF old
      <3> QED  BY <2>1, <3>1, PutSlot
    <2> HIDE DEF w1
    <2>5. IsPutLabel(w2, w1, n, row)
      <3>1. row \in LabelRow  BY <2>1 DEF LabelRow
      <3>2. w1 \in Writes  BY <2>4 DEF IsPutSlot
      <3> HIDE DEF row, n
      <3> QED  BY <2>3, <3>1, <3>2, PutLabel
    <2> HIDE DEF w2
    <2>6. IsRecount(w, w2, u, db.unit[u])
      <3>1. w2 \in Writes  BY <2>5 DEF IsPutLabel
      <3> HIDE DEF u
      <3> QED  BY <2>1, <2>2, <3>1, RecountCases
    <2> HIDE DEF w, n
    <2>7. /\ w2 \in Writes /\ DOMAIN w2.slot = {old.i} /\ w2.slot[old.i] = Filled(old.a)
          /\ DOMAIN w2.unit = {} /\ DOMAIN w2.label = {n}
      BY <2>1, <2>4, <2>5 DEF IsPutSlot, IsPutLabel, Clean
    <2>8. w \in Writes /\ w.slot = w2.slot /\ w.label = w2.label /\ DOMAIN w.unit \subseteq {u}
      BY <2>6, <2>7 DEF IsRecount
    <2>9. /\ st \in SesRec /\ st.pc = "quality" /\ st.a = old.a /\ st.i = old.i /\ st.u = u
          /\ st.todo = {} /\ st.w = w
      BY <2>1, <2>8 DEF SesRec, Pcs
    <2>10. Has(M, s, <<"unit", u>>, "update") /\ Has(M, s, <<"slot", old.i>>, "update")
      BY <2>1 DEF Has
    <2>11. l \in LockRecs
      BY <2>2 DEF LockRecs, Modes
    <2> HIDE DEF st, M, old, u
    <2>12. Typed(db, st)
      BY <2>1, <2>9 DEF Typed, VoidPcs, Finalizing, Filling
    <2>13. Phase(db, M, s, st)
      BY <2>1, <2>7, <2>8, <2>9, <2>10 DEF Phase, VoidPcs, Finalizing, Filling, Deciding
    <2>14. Guarded(M, s, w)
      BY <2>7, <2>8, <2>10 DEF Guarded
    <2>15. Covered(M, s, st)
      BY <2>1, <2>7, <2>8, <2>9, <2>10 DEF Covered, UnitLocked
    <2>16. Notice(db, M, s, w)
      <3>1. CASE w = w2 /\ Settled(w2, u, db.unit[u])
        <4>1. \/ db.unit[u] \in Noticed \/ Unfilled(db, w, u)
              \/ \E i \in DOMAIN w.slot : UnitOf[i] = u /\ w.slot[i].status # "filled"
          BY <2>1, <2>2, <2>7, <2>8, <3>1, RecountSettles
        <4>2. \A i \in DOMAIN w.slot : w.slot[i].status = "filled" /\ UnitOf[i] = u
          BY <2>1, <2>7, <2>8 DEF Filled
        <4>3. DOMAIN w.unit = {}
          BY <2>7, <3>1
        <4> QED  BY <2>10, <4>1, <4>2, <4>3 DEF Notice
      <3>2. CASE DOMAIN w.unit = DOMAIN w2.unit \cup {u} /\ Settled(w2, u, w.unit[u])
        <4>1. \/ w.unit[u] \in Noticed \/ Unfilled(db, w, u)
              \/ \E i \in DOMAIN w.slot : UnitOf[i] = u /\ w.slot[i].status # "filled"
          BY <2>1, <2>2, <2>7, <2>8, <3>2, RecountSettles
        <4>2. \A i \in DOMAIN w.slot : UnitOf[i] = u
          BY <2>1, <2>7, <2>8
        <4>3. DOMAIN w.unit = {u}
          BY <2>7, <3>2
        <4> QED  BY <2>10, <4>1, <4>2, <4>3 DEF Notice
      <3> QED  BY <2>6, <3>1, <3>2 DEF IsRecount
    <2>17. RowsKept(db, w)
      BY <2>3, <2>7, <2>8 DEF RowsKept
    <2>18. SesInv(db, M, s, st)
      BY <2>9, <2>12, <2>13, <2>14, <2>15, <2>16, <2>17 DEF SesInv
    <2>19. \A m \in DOMAIN st.w.label : m \in Fresh("label")
      BY <2>3, <2>7, <2>8, <2>9
    <2>20. SesInv(db, locks \cup {[by |-> s, on |-> <<"unit", u>>, mode |-> "update"]}, s, st)
      BY <2>18 DEF M
    <2> QED  BY <1>1, <1>3, <2>9, <2>11, <2>19, <2>20, LockKeeps
  <1> QED  BY <1>2, <1>3 DEF Fill, Filled, UnitLock

\* p is w with unit u marked finalized, if the session did not believe it to be.
IsFinalized(p, w, u) ==
  /\ p \in Writes /\ p.slot = w.slot /\ p.label = w.label /\ p.final = w.final
  /\ \/ p = w
     \/ /\ DOMAIN p.unit = DOMAIN w.unit \cup {u} /\ p.unit[u] = "finalized"
        /\ \A v \in DOMAIN w.unit \ {u} : p.unit[v] = w.unit[v]

LEMMA FinalizedCases ==
  ASSUME NEW w \in Writes, NEW u \in Units, NEW seen, NEW p, p = Finalized(w, u, seen)
  PROVE  IsFinalized(p, w, u) /\ (seen = "finalized" => p = w)
  <1>1. CASE seen = "finalized"
    BY <1>1 DEF Finalized, IsFinalized
  <1>2. CASE seen # "finalized"
    <2>1. "finalized" \in UnitStatus  BY DEF UnitStatus
    <2>2. p = Put(w, "unit", {u}, "finalized")  BY <1>2 DEF Finalized
    <2>3. IsPutUnit(p, w, u, "finalized")  BY <2>1, <2>2, PutUnit
    <2> QED  BY <1>2, <2>3 DEF IsPutUnit, IsFinalized
  <1> QED  BY <1>1, <1>2

LEMMA FinalizedNotice ==
  ASSUME NEW d, NEW L, NEW s, NEW w, NEW u, NEW p, IsFinalized(p, w, u), Notice(d, L, s, w)
  PROVE  Notice(d, L, s, p)
  <1>1. p.slot = w.slot /\ \A v : Unfilled(d, w, v) <=> Unfilled(d, p, v)
    BY DEF Unfilled, IsFinalized
  <1>2. CASE p = w
    BY <1>2
  <1>3. CASE /\ DOMAIN p.unit = DOMAIN w.unit \cup {u} /\ p.unit[u] = "finalized"
             /\ \A v \in DOMAIN w.unit \ {u} : p.unit[v] = w.unit[v]
    BY <1>1, <1>3 DEF Notice, Noticed
  <1> QED  BY <1>2, <1>3 DEF IsFinalized

\* A submit that has filled its slot, and keeps its unit locked, goes on to finalize it.
LEMMA FillingMoves ==
  ASSUME Inv, NEW s \in Sessions, NEW st \in SesRec, Go(s, st), UNCHANGED locks,
         Filling(ses[s]), Finalizing(st),
         st.a = ses[s].a, st.i = ses[s].i, st.u = ses[s].u, st.todo = ses[s].todo,
         IsFinalized(st.w, ses[s].w, ses[s].u)
  PROVE  Inv' /\ Honoured
  <1> DEFINE old == ses[s]
             u   == old.u
             w   == st.w
  <1>1. /\ old \in SesRec /\ SesInv(db, locks, s, old) /\ old.a \in Annotators /\ old.i \in Slots
        /\ u = UnitOf[old.i] /\ old.todo = {}
        /\ DOMAIN old.w.slot = {old.i} /\ old.w.slot[old.i] = Filled(old.a)
        /\ Holds(db, old.a, old.i) /\ Has(locks, s, <<"unit", u>>, "update")
    BY SessionFacts DEF SesInv, Typed, Phase
  <1>2. u \in Units /\ st.a # None
    BY <1>1, TransactionsAssumption
  <1>3. /\ w \in Writes /\ w.slot = old.w.slot /\ w.label = old.w.label
        /\ DOMAIN w.unit \subseteq DOMAIN old.w.unit \cup {u}
    BY DEF IsFinalized
  <1>4. \A v : Waits(old, v) => v = u
    BY DEF Waits, Filling, Finalizing, VoidPcs
  <1> HIDE DEF old, u, w
  <1>5. Typed(db, st)
    BY <1>1, <1>2 DEF Typed, VoidPcs, Finalizing, Filling, old, u
  <1>6. Phase(db, locks, s, st)
    BY <1>1, <1>2, <1>3 DEF Phase, VoidPcs, Finalizing, Filling, Deciding, old, u, w
  <1>7. Covered(locks, s, st)
    BY <1>1, <1>3, <1>4 DEF SesInv, Covered, UnitLocked, w
  <1>8. Guarded(locks, s, w) /\ RowsKept(db, w)
    BY <1>1, <1>3 DEF SesInv, Guarded, RowsKept
  <1>9. Notice(db, locks, s, w)
    BY <1>1, FinalizedNotice DEF SesInv, old, u, w
  <1>10. SesInv(db, locks, s, st)
    BY <1>5, <1>6, <1>7, <1>8, <1>9 DEF SesInv, Finalizing, w
  <1>11. DOMAIN st.w.label \subseteq DOMAIN ses[s].w.label
    BY <1>3 DEF old, w
  <1> QED  BY <1>10, <1>11, MoveKeeps

\* Routing a unit: what ToFinalize sets.
LEMMA ToFinalizeFields ==
  ASSUME NEW s \in Sessions, ses[s] \in SesRec, NEW u \in Units, NEW seen \in Seen,
         NEW st, st = ToFinalize(s, u, seen)
  PROVE  /\ st \in SesRec /\ st.pc = "find" /\ st.a = ses[s].a /\ st.i = ses[s].i /\ st.u = u
         /\ st.todo = ses[s].todo /\ st.w = ses[s].w
  <1> DEFINE old == ses[s]
             to  == [old.seen EXCEPT ![u] = seen]
  <1>1. to \in [Units -> UnitStatus \cup {None}]
    BY RecFields DEF Seen
  <1>2. st = [old EXCEPT !.pc = "find", !.u = u, !.seen = to]
    BY DEF ToFinalize
  <1> HIDE DEF to, old
  <1>3. old \in SesRec
    BY DEF old
  <1>4. st \in SesRec
    BY <1>1, <1>2, <1>3, ZenonT(60) DEF SesRec, Pcs
  <1>5. st.pc = "find" /\ st.a = old.a /\ st.i = old.i /\ st.u = u /\ st.todo = old.todo /\ st.w = old.w
    BY <1>2, <1>3, ZenonT(60) DEF SesRec
  <1> QED  BY <1>4, <1>5 DEF old

LEMMA QualityKeeps ==
  ASSUME Inv, NEW s \in Sessions, Quality(s)
  PROVE  Inv' /\ Honoured
  <1> DEFINE old == ses[s]
             u   == old.u
             d   == Over(old.w)
  <1>1. old.pc = "quality" /\ Filling(old)
    BY DEF Quality, At, Filling
  <1>2. /\ old \in SesRec /\ old.w \in Writes /\ db \in Tables
        /\ old.i \in Slots /\ u = UnitOf[old.i]
        /\ DOMAIN old.w.slot = {old.i} /\ old.w.slot[old.i] = Filled(old.a)
    BY <1>1, SessionFacts DEF SesInv, Typed, Phase
  <1>3. u \in Units
    BY <1>2, TransactionsAssumption
  <1>4. CASE Commit(s, old.w)
    <2>1. \A v : ~Waits(ses[s], v)
      BY <1>1 DEF Waits, VoidPcs
    <2>2. HandsOn(db, old.w)
      BY <1>2 DEF HandsOn, Filled
    <2> QED  BY <1>4, <2>1, <2>2, CommitOwn
  <1>5. ASSUME UNCHANGED locks, Go(s, ToFinalize(s, u, d.unit[u]))
        PROVE  Inv' /\ Honoured
    <2> DEFINE st == ToFinalize(s, u, d.unit[u])
    <2>1. d.unit[u] \in Seen
      <3>1. d \in Tables
        BY <1>2, OverRows
      <3> QED  BY <1>3, <3>1 DEF Tables, Seen
    <2>3. /\ st \in SesRec /\ st.pc = "find" /\ st.a = old.a /\ st.i = old.i /\ st.u = u
          /\ st.todo = old.todo /\ st.w = old.w
      <3> DEFINE seen == d.unit[u]
      <3>1. st = ToFinalize(s, u, seen) /\ seen \in Seen /\ old = ses[s]
        BY <2>1
      <3> HIDE DEF seen, st, d, u, old
      <3> QED  BY <1>2, <1>3, <3>1, ToFinalizeFields
    <2>4. Go(s, st)
      BY <1>5
    <2> HIDE DEF st
    <2>5. Finalizing(st) /\ IsFinalized(st.w, ses[s].w, ses[s].u)
      BY <1>2, <2>3 DEF Finalizing, IsFinalized
    <2> QED  BY <1>1, <1>5, <2>3, <2>4, <2>5, FillingMoves
  <1> QED  BY <1>4, <1>5 DEF Quality

\* What is recorded is the row written over, or one more.
LEMMA RecordedCases ==
  ASSUME Inv, NEW s \in Sessions, ses[s].u \in Units,
         IF ses[s].row = None THEN Fresh("final") # {} ELSE db.final[ses[s].row] # None,
         NEW w \in Recorded(s)
  PROVE  \E f \in FinalKeys, r \in FinalRow :
            /\ IsPutFinal(w, ses[s].w, f, r) /\ r.unit = ses[s].u
            /\ IF ses[s].row = None THEN f \in Fresh("final") /\ r.method = ses[s].who
               ELSE f = ses[s].row /\ r.method \in Methods(s)
  <1> DEFINE old == ses[s]
  <1>1. old \in SesRec /\ old.w \in Writes /\ db \in Tables
    BY SessionFacts
  <1>2. CASE old.row = None
    <2> DEFINE f == CHOOSE k \in Fresh("final") : TRUE
               r == [unit |-> old.u, method |-> old.who]
    <2>1. f \in FinalKeys /\ f \in Fresh("final")
      BY <1>1, <1>2 DEF Fresh, Tables
    <2>2. r \in FinalRow /\ r.unit = old.u /\ r.method = old.who
      BY <1>1, RecFields DEF FinalRow
    <2>3. w = Put(old.w, "final", {f}, r)
      BY <1>2 DEF Recorded
    <2> HIDE DEF f, r, old
    <2>4. r \in FinalWrite
      BY <2>2 DEF FinalWrite
    <2>5. IsPutFinal(w, old.w, f, r)
      BY <1>1, <2>1, <2>3, <2>4, PutFinal
    <2> QED  BY <1>2, <2>1, <2>2, <2>5 DEF old
  <1>3. CASE old.row # None
    <2>1. PICK m \in Methods(s) : w = Put(old.w, "final", {old.row}, [unit |-> old.u, method |-> m])
      BY <1>3 DEF Recorded
    <2> DEFINE r == [unit |-> old.u, method |-> m]
    <2>2. old.row \in FinalKeys
      BY <1>1, <1>3, RecFields
    <2>3. db.final[old.row] \in FinalRow
      BY <1>1, <1>3, <2>2 DEF Tables
    <2>4. m \in {"auto", "human"}
      BY <1>1, <2>3, RecFields DEF Methods, FinalRow
    <2>5. r \in FinalRow /\ r.unit = old.u /\ r.method = m
      BY <2>4 DEF FinalRow
    <2>6. w = Put(old.w, "final", {old.row}, r)
      BY <2>1
    <2> HIDE DEF r, old
    <2>7. r \in FinalWrite
      BY <2>5 DEF FinalWrite
    <2>8. IsPutFinal(w, old.w, old.row, r)
      BY <1>1, <2>2, <2>6, <2>7, PutFinal
    <2> QED  BY <1>3, <2>1, <2>2, <2>5, <2>8 DEF old
  <1> QED  BY <1>2, <1>3

LEMMA RecordKeeps ==
  ASSUME Inv, NEW s \in Sessions, Record(s)
  PROVE  Inv' /\ Honoured
  <1> DEFINE old == ses[s]
  <1>1. old.pc = "record"
    BY DEF Record, At
  <1>2. /\ old \in SesRec /\ old.w \in Writes /\ SesInv(db, locks, s, old) /\ db \in Tables
        /\ old.u \in Units /\ old.todo \subseteq Units
    BY <1>1, SessionFacts DEF SesInv, Typed
  <1>3. CASE Abort(s)
    BY <1>3, AbortKeeps
  <1>4. ASSUME NEW w \in Recorded(s), ~(old.row # None /\ db.final[old.row] = None),
               IF old.todo = {} THEN Commit(s, w)
               ELSE /\ IF old.row = None THEN UNCHANGED locks
                       ELSE Lock(s, <<"final", old.row>>, "update")
                    /\ Go(s, [old EXCEPT !.pc = "route", !.w = w])
        PROVE  Inv' /\ Honoured
    <2>1. PICK f \in FinalKeys, r \in FinalRow : IsPutFinal(w, old.w, f, r)
      BY <1>2, <1>4, RecordedCases DEF Record
    <2>2. w \in Writes /\ w.slot = old.w.slot /\ w.unit = old.w.unit /\ w.label = old.w.label
      BY <2>1 DEF IsPutFinal
    <2>3. \A u : Unfilled(db, old.w, u) <=> Unfilled(db, w, u)
      BY <2>2 DEF Unfilled
    <2>4. CASE Commit(s, w)
      <3>1. Guarded(locks, s, w) /\ RowsKept(db, w)
        BY <1>2, <2>2 DEF SesInv, Guarded, RowsKept
      <3>2. CommitNotice(db, w)
        <4>1. CommitNotice(db, old.w)
          BY <1>2, NoticeCommits DEF SesInv
        <4> QED  BY <2>2, <2>3, <4>1 DEF CommitNotice
      <3>3. HandsOn(db, w)
        <4>1. CASE old.a # None
          <5>1. DOMAIN w.slot = {old.i} /\ w.slot[old.i] = Filled(old.a)
            BY <1>1, <1>2, <2>2, <4>1 DEF SesInv, Phase, Finalizing, Filling
          <5> QED  BY <5>1 DEF HandsOn, Filled
        <4>2. CASE old.a = None
          <5>1. DOMAIN w.slot = {}
            BY <1>1, <1>2, <2>2, <4>2 DEF SesInv, Phase, Finalizing, Deciding
          <5> QED  BY <5>1 DEF HandsOn
        <4> QED  BY <4>1, <4>2
      <3>4. \A u : ~Waits(old, u)
        BY <1>1 DEF Waits, VoidPcs
      <3>5. \A u \in Units : UnitLocked(locks, s, u) => NoRival(locks, s, u)
        BY FreeNoRival DEF Modes
      <3>6. DOMAIN w.unit \subseteq Units /\ DOMAIN w.slot \subseteq Slots
        BY <2>2, WriteFields
      <3>7. (\A u \in DOMAIN w.unit : NoRival(locks, s, u)) /\ \A i \in DOMAIN w.slot : UnitOf[i] \in Units
        BY <1>2, <2>2, <3>4, <3>5, <3>6, TransactionsAssumption DEF SesInv, Covered
      <3>8. \A i \in DOMAIN w.slot : NoRival(locks, s, UnitOf[i])
        BY <1>2, <2>2, <3>4, <3>5, <3>7 DEF SesInv, Covered
      <3>9. DOMAIN w.label \subseteq DOMAIN ses[s].w.label
        BY <2>2
      <3> HIDE DEF old
      <3> QED  BY <2>2, <2>4, <3>1, <3>2, <3>3, <3>7, <3>8, <3>9, CommitKeeps
    <2>5. CASE /\ old.todo # {}
               /\ IF old.row = None THEN UNCHANGED locks
                  ELSE Lock(s, <<"final", old.row>>, "update")
               /\ Go(s, [old EXCEPT !.pc = "route", !.w = w])
      <3> DEFINE st == [old EXCEPT !.pc = "route", !.w = w]
                 N  == IF old.row = None THEN {}
                       ELSE {[by |-> s, on |-> <<"final", old.row>>, mode |-> "update"]}
      <3>1. old.a = None
        BY <1>1, <1>2, <2>5 DEF SesInv, Phase, Finalizing, Filling
      <3>2. /\ st \in SesRec /\ st.pc = "route" /\ st.a = old.a /\ st.todo = old.todo /\ st.w = w
        BY <1>2, <2>2 DEF SesRec, Pcs
      <3>3. Go(s, st) /\ locks' = locks \cup N
        BY <2>5 DEF Lock
      <3>4. N \in SUBSET LockRecs /\ \A l \in N : l.by = s /\ Free(s, l.on, l.mode)
        <4>1. CASE old.row = None
          BY <4>1
        <4>2. CASE old.row # None
          <5>1. old.row \in FinalKeys
            BY <1>2, <4>2, RecFields
          <5>2. Free(s, <<"final", old.row>>, "update")
            BY <4>2 DEF Record
          <5> QED  BY <4>2, <5>1, <5>2 DEF LockRecs, Modes
        <4> QED  BY <4>1, <4>2
      <3> HIDE DEF st, N, old
      <3>5. \A on, mode : Has(locks, s, on, mode) => Has(locks \cup N, s, on, mode)
        BY DEF Has
      <3>6. Typed(db, st)
        BY <1>2, <3>1, <3>2 DEF Typed, VoidPcs, Finalizing, Filling
      <3>7. Phase(db, locks \cup N, s, st)
        BY <1>1, <1>2, <2>2, <3>1, <3>2 DEF SesInv, Phase, VoidPcs, Finalizing, Filling, Deciding
      <3>8. Covered(locks \cup N, s, st) /\ Guarded(locks \cup N, s, w)
        BY <1>1, <1>2, <2>2, <3>2, <3>5 DEF SesInv, Covered, Guarded, UnitLocked, Waits, VoidPcs
      <3>9. Notice(db, locks \cup N, s, w) /\ RowsKept(db, w)
        BY <1>2, <2>2, <2>3, <3>5 DEF SesInv, Notice, RowsKept
      <3>10. SesInv(db, locks \cup N, s, st)
        BY <3>2, <3>6, <3>7, <3>8, <3>9 DEF SesInv
      <3>11. DOMAIN st.w.label \subseteq DOMAIN ses[s].w.label
        BY <2>2, <3>2 DEF old
      <3> QED  BY <3>2, <3>3, <3>4, <3>10, <3>11, GoKeeps
    <2> QED  BY <1>4, <2>4, <2>5
  <1> QED  BY <1>3, <1>4 DEF Record

-----------------------------------------------------------------------------
(* The steps of reviewers and administrators.                              *)

LEMMA BeginUnitKeeps ==
  ASSUME Inv, NEW s \in Sessions, NEW u \in Units, BeginDecide(s, u) \/ BeginVoid(s, u)
  PROVE  Inv' /\ Honoured
  <1> DEFINE st(pc, who) == [Idle EXCEPT !.pc = pc, !.u = u, !.who = who, !.seen[u] = db.unit[u]]
  <1>1. PICK pc \in {"find", "labels"}, who \in {"auto", "human"} : Go(s, st(pc, who)) /\ UNCHANGED locks
                                            /\ (pc = "labels" => "void" \in Served)
    <2>1. Idle.who = "auto" /\ Idle \in SesRec
      BY IdleRec DEF Idle
    <2>2. [Idle EXCEPT !.pc = "labels", !.u = u, !.seen[u] = db.unit[u]] = st("labels", "auto")
      BY <2>1, ZenonT(60) DEF SesRec
    <2>3. [Idle EXCEPT !.pc = "find", !.u = u, !.who = "human", !.seen[u] = db.unit[u]] = st("find", "human")
      OBVIOUS
    <2>4. CASE BeginDecide(s, u)
      BY <2>3, <2>4 DEF BeginDecide
    <2>5. CASE BeginVoid(s, u)
      BY <2>2, <2>5 DEF BeginVoid
    <2> QED  BY <2>4, <2>5
  <1>2. /\ st(pc, who) \in SesRec /\ st(pc, who).pc = pc /\ st(pc, who).w = Idle.w /\ st(pc, who).u = u
        /\ st(pc, who).todo = {} /\ st(pc, who).a = None /\ st(pc, who).dead = {}
    <2>1. db.unit[u] \in UnitStatus  BY SessionFacts DEF Tables
    <2>2. Idle.todo = {} /\ Idle.a = None /\ Idle.dead = {}  BY DEF Idle
    <2> QED  BY <2>1, <2>2, IdleRec, ZenonT(40) DEF SesRec, Pcs, VoidPcs
  <1> HIDE DEF st
  <1>3. Typed(db, st(pc, who))
    BY <1>1, <1>2 DEF Typed, VoidPcs, Finalizing, Filling
  <1> QED  BY <1>1, <1>2, <1>3, BeginKeeps

LEMMA BeginRouteKeeps ==
  ASSUME Inv, NEW s \in Sessions, BeginRoute(s)
  PROVE  Inv' /\ Honoured
  <1> DEFINE us   == {u \in Units : db.unit[u] \in {"labeled", "finalized"}}
             seen == [u \in Units |-> IF u \in us THEN db.unit[u] ELSE None]
             st   == [Idle EXCEPT !.pc = "route", !.todo = us, !.seen = seen]
  <1>1. Go(s, st) /\ UNCHANGED locks
    BY DEF BeginRoute
  <1>2. us \subseteq Units
    OBVIOUS
  <1>3. seen \in [Units -> UnitStatus \cup {None}]
    BY SessionFacts DEF Tables
  <1> HIDE DEF us, seen
  <1>4. st \in SesRec /\ st.pc = "route" /\ st.w = Idle.w /\ st.todo = us /\ st.a = None
    <2>1. Idle.a = None  BY DEF Idle
    <2> QED  BY <1>2, <1>3, <2>1, IdleRec, ZenonT(40) DEF SesRec, Pcs
  <1> HIDE DEF st
  <1>5. Typed(db, st)
    BY <1>2, <1>4 DEF Typed, VoidPcs, Finalizing, Filling
  <1> QED  BY <1>1, <1>4, <1>5, BeginKeeps

\* A request that decides moves on without a lock, having marked unit u or nothing.
LEMMA DecidingMoves ==
  ASSUME Inv, NEW s \in Sessions, NEW st \in SesRec, Go(s, st), UNCHANGED locks,
         Deciding(ses[s]), ses[s].pc # "mark", st.a = None,
         st.pc \in {"find", "mark", "escalate", "record", "route"},
         st.pc # "route" => st.u \in Units,
         st.todo \subseteq Units,
         IF st.pc = "mark" THEN IsFinalized(st.w, ses[s].w, st.u) ELSE st.w = ses[s].w
  PROVE  Inv' /\ Honoured
  <1> DEFINE old == ses[s]
  <1>1. old \in SesRec /\ old.w \in Writes /\ SesInv(db, locks, s, old)
    BY SessionFacts
  <1>2. /\ DOMAIN old.w.slot = {} /\ \A u \in DOMAIN old.w.unit : old.w.unit[u] = "finalized"
    BY <1>1 DEF SesInv, Phase
  <1>3. \A u : ~Waits(old, u)
    BY DEF Waits, Finalizing, Deciding, VoidPcs
  <1>4. \A u \in DOMAIN old.w.unit : UnitLocked(locks, s, u)
    BY <1>1, <1>3 DEF SesInv, Covered
  <1> HIDE DEF old
  <1>5. /\ st.w.slot = old.w.slot /\ st.w.label = old.w.label
        /\ \A u \in DOMAIN st.w.unit :
              \/ u \in DOMAIN old.w.unit /\ st.w.unit[u] = old.w.unit[u]
              \/ st.pc = "mark" /\ u = st.u /\ st.w.unit[u] = "finalized"
    BY DEF IsFinalized, old
  <1>6. Typed(db, st)
    BY DEF Typed, VoidPcs, Finalizing, Filling
  <1>7. Phase(db, locks, s, st)
    BY <1>2, <1>5 DEF Phase, VoidPcs, Finalizing, Filling, Deciding
  <1>8. Covered(locks, s, st)
    BY <1>2, <1>4, <1>5 DEF Covered, Waits
  <1>9. Guarded(locks, s, st.w) /\ RowsKept(db, st.w)
    BY <1>1, <1>2, <1>5 DEF SesInv, Guarded, RowsKept
  <1>10. Notice(db, locks, s, st.w)
    BY <1>2, <1>5 DEF Notice, Noticed
  <1>11. SesInv(db, locks, s, st)
    BY <1>6, <1>7, <1>8, <1>9, <1>10 DEF SesInv
  <1>12. DOMAIN st.w.label \subseteq DOMAIN ses[s].w.label
    BY <1>5 DEF old
  <1> QED  BY <1>11, <1>12, MoveKeeps

LEMMA SomeFinalKeys ==
  ASSUME NEW d \in Tables, NEW u, NEW f \in SomeFinal(d, u)
  PROVE  f \in FinalKeys \cup {None} /\ (f # None => d.final[f].method \in {"auto", "human"})
  <1>1. f # None => f \in FinalKeys /\ d.final[f] # None
    BY DEF SomeFinal, FinalsOf, Tables
  <1>2. \A k \in FinalKeys : d.final[k] \in {None} \cup FinalRow
    BY DEF Tables
  <1> QED  BY <1>1, <1>2 DEF FinalRow

\* What finalize_unit sets when it has read the final label.
LEMMA FindFinalFields ==
  ASSUME Inv, NEW s \in Sessions, FindFinal(s)
  PROVE  \E st \in SesRec :
           /\ Go(s, st) /\ st.pc = IF ses[s].seen[ses[s].u] = "finalized" THEN "record" ELSE "mark"
           /\ st.a = ses[s].a /\ st.i = ses[s].i /\ st.u = ses[s].u /\ st.todo = ses[s].todo
           /\ st.who = ses[s].who /\ st.seen = ses[s].seen
           /\ st.row \in SomeFinal(Over(ses[s].w), ses[s].u)
           /\ st.found = IF st.row = None THEN None ELSE Over(ses[s].w).final[st.row].method
           /\ st.w = Finalized(ses[s].w, ses[s].u, ses[s].seen[ses[s].u])
           /\ IsFinalized(st.w, ses[s].w, st.u)
           /\ st.pc = "record" => st.w = ses[s].w
           /\ st.pc = "mark" => st.u \in DOMAIN st.w.unit
  <1> DEFINE old == ses[s]
             u   == old.u
             d   == Over(old.w)
             seen == old.seen[u]
             w   == Finalized(old.w, u, seen)
             pc  == IF seen = "finalized" THEN "record" ELSE "mark"
  <1>1. old.pc = "find" /\ UNCHANGED locks
    BY DEF FindFinal, At
  <1>2. old \in SesRec /\ old.w \in Writes /\ db \in Tables /\ u \in Units
    BY <1>1, SessionFacts DEF SesInv, Typed
  <1>3. PICK f \in SomeFinal(d, u) :
          Go(s, [old EXCEPT !.row = f, !.found = IF f = None THEN None ELSE d.final[f].method,
                            !.pc = pc, !.w = Finalized(@, u, seen)])
    BY DEF FindFinal
  <1> DEFINE found == IF f = None THEN None ELSE d.final[f].method
             st == [old EXCEPT !.row = f, !.found = found, !.pc = pc, !.w = w]
  <1>4. Go(s, st)
    BY <1>3
  <1>5. f \in FinalKeys \cup {None} /\ found \in {"auto", "human", None}
    <2>1. d \in Tables
      BY <1>2, OverRows
    <2> HIDE DEF d
    <2> QED  BY <2>1, SomeFinalKeys
  <1>6. IsFinalized(w, old.w, u) /\ (seen = "finalized" => w = old.w)
        /\ (seen # "finalized" => u \in DOMAIN w.unit)
    <2> HIDE DEF old, u, seen
    <2>1. w = Finalized(old.w, u, seen)  OBVIOUS
    <2>2. seen # "finalized" => u \in DOMAIN w.unit
      <3>1. seen # "finalized" => w = Put(old.w, "unit", {u}, "finalized")
        BY DEF Finalized
      <3>2. "finalized" \in UnitStatus  BY DEF UnitStatus
      <3>3. PICK r \in UnitStatus : r = "finalized"
        BY <3>2
      <3> HIDE DEF w
      <3>4. seen # "finalized" => w = Put(old.w, "unit", {u}, r)
        BY <3>1, <3>3
      <3>5. old.w \in Writes /\ u \in Units
        BY <1>2
      <3>6. seen # "finalized" => IsPutUnit(w, old.w, u, r)
        BY <3>4, <3>5, PutUnit
      <3> QED  BY <3>6 DEF IsPutUnit
    <2> HIDE DEF w
    <2> QED  BY <1>2, <2>1, <2>2, FinalizedCases
  <1>7. w \in Writes /\ pc \in Pcs
    BY <1>6 DEF IsFinalized, Pcs
  <1> HIDE DEF w, pc, found, old
  <1>8. /\ st \in SesRec /\ st.pc = pc /\ st.a = old.a /\ st.i = old.i /\ st.u = old.u
        /\ st.todo = old.todo /\ st.who = old.who /\ st.seen = old.seen /\ st.row = f
        /\ st.found = found /\ st.w = w
    BY <1>2, <1>5, <1>7, ZenonT(60) DEF SesRec
  <1> HIDE DEF st, seen, u
  <1>9. pc = IF seen = "finalized" THEN "record" ELSE "mark"
    BY DEF pc
  <1>10. u = ses[s].u /\ seen = ses[s].seen[ses[s].u] /\ old = ses[s] /\ w = Finalized(old.w, u, seen)
    BY DEF old, u, seen, w
  <1>11. found = IF f = None THEN None ELSE d.final[f].method
    BY DEF found
  <1> HIDE DEF d
  <1>12. d = Over(ses[s].w)
    BY DEF d, old
  <1> QED  BY <1>3, <1>4, <1>6, <1>8, <1>9, <1>10, <1>11, <1>12

LEMMA FindFinalKeeps ==
  ASSUME Inv, NEW s \in Sessions, FindFinal(s)
  PROVE  Inv' /\ Honoured
  <1> DEFINE old == ses[s]
  <1>1. PICK st \in SesRec :
          /\ Go(s, st) /\ st.pc \in {"mark", "record"}
          /\ st.a = old.a /\ st.i = old.i /\ st.u = old.u /\ st.todo = old.todo
          /\ IsFinalized(st.w, old.w, st.u) /\ (st.pc = "record" => st.w = old.w)
    BY FindFinalFields
  <1>2. old.pc = "find" /\ UNCHANGED locks
    BY DEF FindFinal, At
  <1>3. old.u \in Units /\ old.todo \subseteq Units
    BY <1>2, SessionFacts DEF SesInv, Typed
  <1>4. CASE old.a # None
    <2>1. Filling(old) /\ Finalizing(st)
      BY <1>1, <1>2, <1>4 DEF Filling, Finalizing
    <2> HIDE DEF Filling, Finalizing
    <2> QED  BY <1>1, <1>2, <2>1, FillingMoves
  <1>5. CASE old.a = None
    <2>1. Deciding(old)
      BY <1>2, <1>5 DEF Deciding, Finalizing
    <2>2. IF st.pc = "mark" THEN IsFinalized(st.w, old.w, st.u) ELSE st.w = old.w
      BY <1>1
    <2> QED  BY <1>1, <1>2, <1>3, <1>5, <2>1, <2>2, DecidingMoves
  <1> QED  BY <1>4, <1>5

LEMMA WriteUnitKeeps ==
  ASSUME Inv, NEW s \in Sessions, WriteUnit(s)
  PROVE  Inv' /\ Honoured
  <1> DEFINE old == ses[s]
             pc  == IF old.pc = "mark" THEN "record" ELSE "route"
             st  == [old EXCEPT !.pc = pc]
             l   == [by |-> s, on |-> <<"unit", old.u>>, mode |-> "write"]
             M   == locks \cup {l}
  <1>1. /\ old.pc \in {"mark", "escalate"} /\ Free(s, <<"unit", old.u>>, "write")
        /\ Lock(s, <<"unit", old.u>>, "write") /\ Go(s, st)
    BY DEF WriteUnit
  <1>2. /\ old \in SesRec /\ old.w \in Writes /\ SesInv(db, locks, s, old)
        /\ old.u \in Units /\ old.todo \subseteq Units
        /\ Typed(db, old) /\ Phase(db, locks, s, old)
    BY <1>1, SessionFacts DEF SesInv, Typed
  <1>3. l \in LockRecs
    BY <1>2 DEF LockRecs, Modes
  <1>4. \A on, mode : Has(locks, s, on, mode) => Has(M, s, on, mode)
    BY DEF Has
  <1>5. Has(M, s, <<"unit", old.u>>, "write")
    BY DEF Has
  <1>6. pc = IF old.pc = "mark" THEN "record" ELSE "route"
    OBVIOUS
  <1> HIDE DEF pc
  <1>7. /\ st \in SesRec /\ st.pc = pc /\ st.a = old.a /\ st.i = old.i /\ st.u = old.u
        /\ st.todo = old.todo /\ st.w = old.w
    BY <1>2, <1>6 DEF SesRec, Pcs
  <1> HIDE DEF st, old, M
  <1>8. Typed(db, st)
    BY <1>1, <1>2, <1>6, <1>7 DEF Typed, VoidPcs, Finalizing, Filling
  <1>9. Phase(db, M, s, st)
    BY <1>1, <1>2, <1>4, <1>6, <1>7 DEF Typed, Phase, VoidPcs, Finalizing, Filling, Deciding
  <1>10. \A u : Waits(old, u) => u = old.u
    BY <1>1 DEF Waits, VoidPcs
  <1>11. Covered(M, s, st)
    BY <1>2, <1>4, <1>5, <1>7, <1>10 DEF SesInv, Covered, UnitLocked
  <1>12. Guarded(M, s, st.w) /\ RowsKept(db, st.w) /\ Notice(db, M, s, st.w)
    BY <1>2, <1>4, <1>7 DEF SesInv, Guarded, RowsKept, Notice
  <1>13. SesInv(db, M, s, st)
    BY <1>6, <1>7, <1>8, <1>9, <1>11, <1>12 DEF SesInv
  <1>14. DOMAIN st.w.label \subseteq DOMAIN ses[s].w.label
    BY <1>7 DEF old
  <1>15. SesInv(db, locks \cup {[by |-> s, on |-> <<"unit", old.u>>, mode |-> "write"]}, s, st)
    BY <1>13 DEF M
  <1> QED  BY <1>1, <1>3, <1>7, <1>14, <1>15, LockKeeps

\* Routing takes the first unit left: it passes over it, sends it to review or goes on to
\* finalize it.
LEMMA RouteNextFields ==
  ASSUME Inv, NEW s \in Sessions, RouteNext(s)
  PROVE  \/ Commit(s, ses[s].w)
         \/ /\ UNCHANGED locks
            /\ \E st \in SesRec, u \in ses[s].todo :
                 /\ Go(s, st) /\ st.pc \in {"route", "escalate", "find"} /\ st.a = None
                 /\ st.i = ses[s].i /\ st.w = ses[s].w /\ st.todo = ses[s].todo \ {u}
                 /\ st.pc # "route" => st.u = u
                 /\ \A x \in ses[s].todo : u <= x
  <1> DEFINE old == ses[s]
  <1>1. old.pc = "route"
    BY DEF RouteNext, At
  <1>2. old \in SesRec /\ old.a = None /\ old.todo \subseteq Units
    BY <1>1, SessionFacts DEF SesInv, Typed
  <1>3. ASSUME NEW u \in old.todo, \A x \in old.todo : u <= x, UNCHANGED locks,
               LET st == [old EXCEPT !.todo = old.todo \ {u}]
               IN  \/ Go(s, st)
                   \/ Go(s, [st EXCEPT !.pc = "escalate", !.u = u])
                   \/ Go(s, [ToFinalize(s, u, old.seen[u]) EXCEPT !.todo = st.todo])
        PROVE  \E st \in SesRec, v \in ses[s].todo :
                 /\ Go(s, st) /\ st.pc \in {"route", "escalate", "find"} /\ st.a = None
                 /\ st.i = ses[s].i /\ st.w = ses[s].w /\ st.todo = ses[s].todo \ {v}
                 /\ st.pc # "route" => st.u = v
                 /\ \A x \in ses[s].todo : v <= x
    <2> DEFINE st == [old EXCEPT !.todo = old.todo \ {u}]
    <2>1. u \in Units
      BY <1>2
    <2> HIDE DEF old
    <2>2. /\ st \in SesRec /\ st.pc = "route" /\ st.a = None /\ st.i = old.i
          /\ st.todo = old.todo \ {u} /\ st.w = old.w
      BY <1>1, <1>2, ZenonT(40) DEF SesRec
    <2>3. CASE Go(s, st)
      BY <1>3, <2>2, <2>3 DEF old
    <2>4. CASE Go(s, [st EXCEPT !.pc = "escalate", !.u = u])
      <3> DEFINE nx == [st EXCEPT !.pc = "escalate", !.u = u]
      <3> HIDE DEF st
      <3>1. /\ nx \in SesRec /\ nx.pc = "escalate" /\ nx.a = None /\ nx.todo = st.todo
            /\ nx.i = st.i /\ nx.w = old.w /\ nx.u = u
        BY <2>1, <2>2, ZenonT(60) DEF SesRec, Pcs
      <3>2. Go(s, nx)
        BY <2>4
      <3> HIDE DEF nx
      <3> QED  BY <1>3, <2>2, <3>1, <3>2 DEF old
    <2>5. CASE Go(s, [ToFinalize(s, u, old.seen[u]) EXCEPT !.todo = st.todo])
      <3> DEFINE seen == old.seen[u]
                 to   == ToFinalize(s, u, seen)
                 todo == st.todo
                 nx   == [to EXCEPT !.todo = todo]
      <3>1. Go(s, nx) /\ seen \in Seen /\ old = ses[s]
        <4>1. old.seen \in [Units -> UnitStatus \cup {None}]
          BY <1>2, RecFields
        <4> QED  BY <2>1, <2>5, <4>1 DEF Seen, old
      <3>2. to \in SesRec /\ to.pc = "find" /\ to.a = old.a /\ to.i = old.i /\ to.u = u /\ to.w = old.w
        <4>1. to = ToFinalize(s, u, seen)
          OBVIOUS
        <4> HIDE DEF to, seen
        <4> QED  BY <1>2, <2>1, <3>1, <4>1, ToFinalizeFields
      <3> HIDE DEF to, seen
      <3>3. todo = old.todo \ {u} /\ todo \subseteq Units
        BY <1>2, <2>2
      <3> HIDE DEF todo
      <3>4. /\ nx \in SesRec /\ nx.pc = "find" /\ nx.a = old.a /\ nx.i = old.i /\ nx.u = u
            /\ nx.todo = todo /\ nx.w = old.w
        BY <3>2, <3>3, ZenonT(60) DEF SesRec
      <3> HIDE DEF nx
      <3> QED  BY <1>2, <1>3, <3>1, <3>3, <3>4
    <2> QED  BY <1>3, <2>3, <2>4, <2>5
  <1> QED  BY <1>3 DEF RouteNext

LEMMA RouteNextKeeps ==
  ASSUME Inv, NEW s \in Sessions, RouteNext(s)
  PROVE  Inv' /\ Honoured
  <1> DEFINE old == ses[s]
  <1>1. old.pc = "route"
    BY DEF RouteNext, At
  <1>2. /\ old \in SesRec /\ old.w \in Writes /\ SesInv(db, locks, s, old) /\ db \in Tables
        /\ old.a = None /\ old.todo \subseteq Units /\ Deciding(old)
    BY <1>1, SessionFacts DEF SesInv, Typed, Finalizing, Deciding
  <1>3. CASE Commit(s, old.w)
    <2>1. \A v : ~Waits(ses[s], v)
      BY <1>1 DEF Waits, VoidPcs
    <2>2. HandsOn(db, old.w)
      BY <1>2 DEF SesInv, Phase, HandsOn
    <2> QED  BY <1>3, <2>1, <2>2, CommitOwn
  <1>4. CASE ~Commit(s, old.w)
    <2>1. PICK st \in SesRec, u \in old.todo :
            /\ UNCHANGED locks /\ Go(s, st)
            /\ st.pc \in {"route", "escalate", "find"} /\ st.a = None
            /\ st.w = old.w /\ st.todo = old.todo \ {u} /\ (st.pc # "route" => st.u = u)
      BY <1>4, RouteNextFields
    <2> QED  BY <1>1, <1>2, <2>1, DecidingMoves
  <1> QED  BY <1>3, <1>4

-----------------------------------------------------------------------------
(* The steps of a void.                                                    *)

\* A void moves on: it opens slots of its unit, recounts it, and invalidates its labels.
LEMMA VoidMoves ==
  ASSUME Inv, NEW s \in Sessions, NEW st \in SesRec, NEW N \in SUBSET LockRecs,
         Go(s, st), locks' = locks \cup N, \A l \in N : l.by = s /\ Free(s, l.on, l.mode),
         ses[s].pc \in VoidPcs, st.pc \in VoidPcs, st.u = ses[s].u,
         \A n \in st.dead : db.label[n] \in LabelRow /\ UnitOf[db.label[n].slot] = st.u,
         st.pc \in {"reopen", "clear"} => st.todo \subseteq SlotsOf(st.u),
         st.pc = "delete" => st.row \in FinalKeys,
         st.pc \in {"labels", "occupied"} => Clean(st.w),
         \A i \in DOMAIN st.w.slot : /\ st.w.slot[i] = OpenSlot /\ UnitOf[i] = st.u
                                     /\ Has(locks \cup N, s, <<"slot", i>>, "update"),
         \A v \in DOMAIN st.w.unit : v \in DOMAIN ses[s].w.unit \/ v = st.u,
         Notice(db, locks \cup N, s, st.w), RowsKept(db, st.w),
         \A n \in DOMAIN st.w.label : n \in DOMAIN ses[s].w.label \/ db.label[n] # None
  PROVE  Inv' /\ Honoured
  <1> DEFINE old == ses[s]
  <1>1. old \in SesRec /\ SesInv(db, locks, s, old)
    BY SessionFacts
  <1>2. old.u \in Units /\ "void" \in Served
    BY <1>1 DEF SesInv, Typed
  <1>3. \A on, mode : Has(locks, s, on, mode) => Has(locks \cup N, s, on, mode)
    BY DEF Has
  <1>4. \A v : Waits(old, v) => v = st.u
    BY DEF Waits, VoidPcs
  <1>5. Waits(st, st.u)
    BY DEF Waits
  <1>6. Typed(db, st)
    BY <1>2 DEF Typed, VoidPcs, Finalizing, Filling
  <1>7. Phase(db, locks \cup N, s, st)
    BY DEF Phase, VoidPcs, Finalizing, Filling, Deciding, Clean
  <1>8. Covered(locks \cup N, s, st)
    <2>1. \A v \in DOMAIN old.w.unit : UnitLocked(locks, s, v) \/ v = st.u
      BY <1>1, <1>4 DEF SesInv, Covered
    <2>2. \A v : UnitLocked(locks, s, v) => UnitLocked(locks \cup N, s, v)
      BY <1>3 DEF UnitLocked
    <2> QED  BY <1>5, <2>1, <2>2 DEF Covered
  <1>9. Guarded(locks \cup N, s, st.w)
    BY DEF Guarded
  <1>10. st.pc # "idle"
    BY DEF VoidPcs
  <1>11. SesInv(db, locks \cup N, s, st)
    BY <1>6, <1>7, <1>8, <1>9, <1>10 DEF SesInv
  <1>12. \A n \in DOMAIN st.w.label :
            n \in DOMAIN ses[s].w.label \/ db.label[n] # None \/ n \in Fresh("label")
    OBVIOUS
  <1> QED  BY <1>11, <1>12, GoKeeps

LEMMA VoidFacts ==
  ASSUME Inv, NEW s \in Sessions, ses[s].pc \in VoidPcs
  PROVE  /\ ses[s] \in SesRec /\ ses[s].w \in Writes /\ db \in Tables /\ ses[s].u \in Units
         /\ \A n \in ses[s].dead : /\ n \in LabelKeys /\ db.label[n] \in LabelRow
                                   /\ UnitOf[db.label[n].slot] = ses[s].u
         /\ ses[s].pc \in {"reopen", "clear"} => ses[s].todo \subseteq SlotsOf(ses[s].u)
         /\ ses[s].pc = "delete" => ses[s].row \in FinalKeys
         /\ ses[s].pc \in {"labels", "occupied"} => Clean(ses[s].w)
         /\ \A i \in DOMAIN ses[s].w.slot : /\ ses[s].w.slot[i] = OpenSlot /\ UnitOf[i] = ses[s].u
                                            /\ Has(locks, s, <<"slot", i>>, "update")
         /\ Notice(db, locks, s, ses[s].w) /\ RowsKept(db, ses[s].w)
  <1>1. /\ ses[s] \in SesRec /\ ses[s].w \in Writes /\ SesInv(db, locks, s, ses[s])
        /\ db \in Tables /\ ses[s].dead \subseteq LabelKeys
    BY SessionFacts, RecFields
  <1>2. Typed(db, ses[s]) /\ Phase(db, locks, s, ses[s]) /\ Guarded(locks, s, ses[s].w)
    BY <1>1 DEF SesInv
  <1>3. /\ ses[s].u \in Units
        /\ \A n \in ses[s].dead : db.label[n] \in LabelRow /\ UnitOf[db.label[n].slot] = ses[s].u
        /\ ses[s].pc \in {"reopen", "clear"} => ses[s].todo \subseteq SlotsOf(ses[s].u)
        /\ ses[s].pc = "delete" => ses[s].row \in FinalKeys
    BY <1>2 DEF Typed
  <1>4. /\ ses[s].pc \in {"labels", "occupied"} => Clean(ses[s].w)
        /\ \A i \in DOMAIN ses[s].w.slot : ses[s].w.slot[i] = OpenSlot /\ UnitOf[i] = ses[s].u
    BY <1>2 DEF Phase
  <1>5. \A i \in DOMAIN ses[s].w.slot : Has(locks, s, <<"slot", i>>, "update")
    BY <1>2 DEF Guarded
  <1>6. Notice(db, locks, s, ses[s].w) /\ RowsKept(db, ses[s].w)
    BY <1>1 DEF SesInv
  <1> QED  BY <1>1, <1>3, <1>4, <1>5, <1>6

\* Without a lock, and the rows written kept.
LEMMA VoidKeeps ==
  ASSUME Inv, NEW s \in Sessions, NEW st \in SesRec, Go(s, st), UNCHANGED locks,
         ses[s].pc \in VoidPcs, st.pc \in VoidPcs, st.u = ses[s].u, st.w = ses[s].w,
         \A n \in st.dead : db.label[n] \in LabelRow /\ UnitOf[db.label[n].slot] = st.u,
         st.pc \in {"reopen", "clear"} => st.todo \subseteq SlotsOf(st.u),
         st.pc = "delete" => st.row \in FinalKeys,
         st.pc \in {"labels", "occupied"} => ses[s].pc \in {"labels", "occupied"}
  PROVE  Inv' /\ Honoured
  <1>1. {} \in SUBSET LockRecs /\ locks' = locks \cup {} /\ locks \cup {} = locks
    OBVIOUS
  <1>2. /\ Clean(st.w) \/ st.pc \notin {"labels", "occupied"}
        /\ \A i \in DOMAIN st.w.slot : /\ st.w.slot[i] = OpenSlot /\ UnitOf[i] = st.u
                                       /\ Has(locks, s, <<"slot", i>>, "update")
        /\ Notice(db, locks, s, st.w) /\ RowsKept(db, st.w)
    BY VoidFacts
  <1> QED  BY <1>1, <1>2, VoidMoves

LEMMA ReadLabelsKeeps ==
  ASSUME Inv, NEW s \in Sessions, ReadLabels(s)
  PROVE  Inv' /\ Honoured
  <1> DEFINE old  == ses[s]
             dead == Votes(db, old.u)
             pc   == IF dead = {} THEN "stranded" ELSE "occupied"
             st   == [old EXCEPT !.dead = dead, !.pc = pc]
  <1>1. old.pc = "labels" /\ old.pc \in VoidPcs /\ UNCHANGED locks /\ Go(s, st)
    BY DEF ReadLabels, At, VoidPcs
  <1>2. old \in SesRec /\ db \in Tables
    BY <1>1, VoidFacts
  <1>3. \A n \in dead : /\ n \in LabelKeys /\ db.label[n] \in LabelRow
                        /\ UnitOf[db.label[n].slot] = old.u
    BY <1>2 DEF Votes, Tables
  <1>4. pc \in {"stranded", "occupied"} /\ pc \in VoidPcs /\ pc \in Pcs
    BY DEF VoidPcs, Pcs
  <1> HIDE DEF dead, pc
  <1>5. st \in SesRec /\ st.pc = pc /\ st.dead = dead /\ st.u = old.u /\ st.w = old.w
    BY <1>2, <1>3, <1>4 DEF SesRec
  <1> HIDE DEF st
  <1> QED  BY <1>1, <1>3, <1>4, <1>5, VoidKeeps

LEMMA FindSlotsKeeps ==
  ASSUME Inv, NEW s \in Sessions, FindSlots(s)
  PROVE  Inv' /\ Honoured
  <1> DEFINE old == ses[s]
  <1>1. old.pc \in {"occupied", "stranded"} /\ old.pc \in VoidPcs /\ UNCHANGED locks
    BY DEF FindSlots, At, VoidPcs
  <1>2. /\ old \in SesRec /\ db \in Tables /\ old.u \in Units
        /\ \A n \in old.dead : db.label[n] \in LabelRow /\ UnitOf[db.label[n].slot] = old.u
    BY <1>1, VoidFacts
  <1>3. ASSUME NEW pc \in {"reopen", "clear"}, NEW is, is \subseteq SlotsOf(old.u),
               Go(s, [old EXCEPT !.pc = pc, !.todo = is])
        PROVE  Inv' /\ Honoured
    <2> DEFINE st == [old EXCEPT !.pc = pc, !.todo = is]
    <2>1. /\ st \in SesRec /\ st.pc = pc /\ st.todo = is /\ st.dead = old.dead /\ st.u = old.u
          /\ st.w = old.w
      BY <1>2, <1>3, ZenonT(40) DEF SesRec, Pcs, VoidPcs, SlotsOf
    <2>2. pc \in VoidPcs
      BY DEF VoidPcs
    <2>3. Go(s, st)
      BY <1>3
    <2> HIDE DEF st
    <2> QED  BY <1>1, <1>2, <1>3, <2>1, <2>2, <2>3, VoidKeeps
  <1>4. CASE /\ old.pc = "occupied"
             /\ Go(s, [old EXCEPT !.pc = "reopen",
                          !.todo = Occupied(db, {db.label[n].slot : n \in old.dead})])
    <2>1. Occupied(db, {db.label[n].slot : n \in old.dead}) \subseteq SlotsOf(old.u)
      BY <1>2 DEF Occupied, SlotsOf, LabelRow
    <2> QED  BY <1>3, <1>4, <2>1
  <1>5. CASE Go(s, [old EXCEPT !.pc = "clear", !.todo = Occupied(Over(old.w), SlotsOf(old.u))])
    <2>1. Occupied(Over(old.w), SlotsOf(old.u)) \subseteq SlotsOf(old.u)
      BY DEF Occupied
    <2> QED  BY <1>3, <1>5, <2>1
  <1> QED  BY <1>4, <1>5 DEF FindSlots, At

LEMMA ReopenSlotKeeps ==
  ASSUME Inv, NEW s \in Sessions, NEW i \in Slots, ReopenSlot(s, i)
  PROVE  Inv' /\ Honoured
  <1> DEFINE old == ses[s]
             is  == Occupied(Over(old.w), {i})
             w   == Put(old.w, "slot", is, OpenSlot)
             st  == [old EXCEPT !.todo = @ \ {i}, !.w = w]
             l   == [by |-> s, on |-> <<"slot", i>>, mode |-> "update"]
  <1>1. /\ old.pc \in {"reopen", "clear"} /\ old.pc \in VoidPcs /\ i \in old.todo
        /\ Free(s, <<"slot", i>>, "update") /\ locks' = locks \cup {l} /\ Go(s, st)
    BY DEF ReopenSlot, VoidPcs, Lock
  <1>2. /\ old \in SesRec /\ old.w \in Writes /\ db \in Tables /\ old.u \in Units
        /\ \A n \in old.dead : db.label[n] \in LabelRow /\ UnitOf[db.label[n].slot] = old.u
        /\ old.todo \subseteq SlotsOf(old.u)
        /\ \A j \in DOMAIN old.w.slot : /\ old.w.slot[j] = OpenSlot /\ UnitOf[j] = old.u
                                        /\ Has(locks, s, <<"slot", j>>, "update")
        /\ Notice(db, locks, s, old.w) /\ RowsKept(db, old.w)
    BY <1>1, VoidFacts
  <1>3. is \subseteq {i} /\ is \in SlotSets
    BY DEF Occupied, SlotSets
  <1>4. OpenSlot \in SlotRow
    BY TransactionsAssumption DEF OpenSlot, SlotRow
  <1>5. IsPutSlot(w, old.w, is, OpenSlot)
    <2>1. w = Put(old.w, "slot", is, OpenSlot)  OBVIOUS
    <2> HIDE DEF w, is, old
    <2> QED  BY <1>2, <1>3, <1>4, <2>1, PutSlot
  <1> HIDE DEF w, is
  <1>6. /\ w \in Writes /\ DOMAIN w.slot = DOMAIN old.w.slot \cup is
        /\ (\A j \in DOMAIN w.slot : w.slot[j] = OpenSlot)
        /\ w.unit = old.w.unit /\ w.label = old.w.label
    BY <1>2, <1>5 DEF IsPutSlot
  <1>7. /\ st \in SesRec /\ st.pc = old.pc /\ st.todo \subseteq old.todo /\ st.dead = old.dead
        /\ st.u = old.u /\ st.w = w
    BY <1>2, <1>6 DEF SesRec
  <1>8. l \in LockRecs
    BY DEF LockRecs, Modes
  <1>9. Has(locks \cup {l}, s, <<"slot", i>>, "update")
        /\ \A on, mode : Has(locks, s, on, mode) => Has(locks \cup {l}, s, on, mode)
    BY DEF Has
  <1>10. UnitOf[i] = old.u
    BY <1>1, <1>2 DEF SlotsOf
  <1>11. \A x \in {l} : x.by = s /\ Free(s, x.on, x.mode)
    BY <1>1
  <1> HIDE DEF st, old, l
  <1>12. \A j \in DOMAIN w.slot : /\ w.slot[j] = OpenSlot /\ UnitOf[j] = st.u
                                  /\ Has(locks \cup {l}, s, <<"slot", j>>, "update")
    BY <1>2, <1>3, <1>6, <1>7, <1>9, <1>10
  <1>13. Notice(db, locks \cup {l}, s, w)
    <2>1. \A j \in DOMAIN w.slot : w.slot[j].status # "filled"
      BY <1>6 DEF OpenSlot
    <2>2. locks \subseteq locks \cup {l} /\ DOMAIN old.w.slot \subseteq DOMAIN w.slot
      BY <1>6
    <2> QED  BY <1>2, <1>6, <2>1, <2>2, NoticeGrows
  <1>14. RowsKept(db, w)
    BY <1>2, <1>6 DEF RowsKept
  <1>15. {l} \in SUBSET LockRecs
    BY <1>8
  <1>16. st.pc \notin {"labels", "occupied", "delete"} /\ st.pc \in VoidPcs
         /\ st.todo \subseteq SlotsOf(st.u)
    BY <1>1, <1>2, <1>7
  <1> QED  BY <1>1, <1>2, <1>6, <1>7, <1>11, <1>12, <1>13, <1>14, <1>15, <1>16, VoidMoves DEF old

LEMMA UnwindKeeps ==
  ASSUME Inv, NEW s \in Sessions, Unwind(s)
  PROVE  Inv' /\ Honoured
  <1> DEFINE old   == ses[s]
             label == [n \in old.dead |-> [db.label[n] EXCEPT !.valid = FALSE]]
             w     == [old.w EXCEPT !.label = label]
  <1>1. old.pc = "reopen" /\ old.pc \in VoidPcs /\ UNCHANGED locks /\ Invalidated(s) = w
    BY DEF Unwind, At, VoidPcs, Invalidated
  <1>2. PICK f \in SomeFinal(db, old.u) :
          Go(s, [old EXCEPT !.w = w, !.row = f,
                    !.pc = IF f # None /\ ~HumanRow(db, f) THEN "delete" ELSE "demote"])
    BY <1>1 DEF Unwind
  <1> DEFINE pc == IF f # None /\ ~HumanRow(db, f) THEN "delete" ELSE "demote"
             st == [old EXCEPT !.w = w, !.row = f, !.pc = pc]
  <1>3. /\ old \in SesRec /\ old.w \in Writes /\ db \in Tables /\ old.u \in Units
        /\ \A n \in old.dead : /\ n \in LabelKeys /\ db.label[n] \in LabelRow
                               /\ UnitOf[db.label[n].slot] = old.u
        /\ \A i \in DOMAIN old.w.slot : /\ old.w.slot[i] = OpenSlot /\ UnitOf[i] = old.u
                                        /\ Has(locks, s, <<"slot", i>>, "update")
        /\ Notice(db, locks, s, old.w) /\ RowsKept(db, old.w)
    BY <1>1, VoidFacts
  <1>4. f \in FinalKeys \cup {None}
    BY <1>3, SomeFinalKeys
  <1>5. /\ DOMAIN label = old.dead
        /\ \A n \in old.dead : label[n] \in LabelRow /\ label[n].slot = db.label[n].slot
    BY <1>3 DEF LabelRow
  <1>6. label \in Partial(LabelKeys, LabelRow)
    <2>1. label = [x \in DOMAIN label |-> label[x]]
      OBVIOUS
    <2>2. DOMAIN label \subseteq LabelKeys
      BY <1>3, <1>5
    <2>3. \A x \in DOMAIN label : label[x] \in LabelRow
      BY <1>5
    <2> HIDE DEF label
    <2> QED  BY <2>1, <2>2, <2>3, PartialIs
  <1> HIDE DEF label
  <1>7. /\ w \in Writes /\ w.label = label /\ w.slot = old.w.slot /\ w.unit = old.w.unit
        /\ w.final = old.w.final
    BY <1>3, <1>6 DEF Writes
  <1>8. pc \in {"delete", "demote"} /\ pc \in VoidPcs /\ pc \in Pcs /\ (pc = "delete" => f # None)
    BY DEF VoidPcs, Pcs
  <1>9. Go(s, st)
    BY <1>2
  <1> HIDE DEF w, pc
  <1>10. st \in SesRec /\ st.pc = pc /\ st.dead = old.dead /\ st.u = old.u /\ st.w = w /\ st.row = f
    BY <1>3, <1>4, <1>7, <1>8 DEF SesRec
  <1>11. Notice(db, locks, s, w)
    <2>1. \A u : Unfilled(db, old.w, u) <=> Unfilled(db, w, u)
      BY <1>7 DEF Unfilled
    <2> QED  BY <1>3, <1>7, <2>1 DEF Notice
  <1>12. None \notin LabelRow
    BY TransactionsAssumption DEF LabelRow
  <1>13. RowsKept(db, w) /\ \A n \in DOMAIN w.label : db.label[n] # None
    BY <1>3, <1>5, <1>7, <1>12 DEF RowsKept
  <1>14. {} \in SUBSET LockRecs /\ locks' = locks \cup {} /\ locks \cup {} = locks
    BY <1>1
  <1> HIDE DEF st, old
  <1> QED  BY <1>1, <1>3, <1>4, <1>7, <1>8, <1>9, <1>10, <1>11, <1>13, <1>14, VoidMoves DEF old

LEMMA DeleteFinalKeeps ==
  ASSUME Inv, NEW s \in Sessions, DeleteFinal(s)
  PROVE  Inv' /\ Honoured
  <1> DEFINE old == ses[s]
             w   == Put(old.w, "final", {old.row}, None)
             st  == [old EXCEPT !.pc = "demote", !.forced = TRUE, !.w = w]
             l   == [by |-> s, on |-> <<"final", old.row>>, mode |-> "update"]
  <1>1. /\ old.pc = "delete" /\ old.pc \in VoidPcs
        /\ Free(s, <<"final", old.row>>, "update") /\ locks' = locks \cup {l} /\ Go(s, st)
    BY DEF DeleteFinal, VoidPcs, Lock, At
  <1>2. /\ old \in SesRec /\ old.w \in Writes /\ db \in Tables /\ old.row \in FinalKeys
        /\ \A n \in old.dead : db.label[n] \in LabelRow /\ UnitOf[db.label[n].slot] = old.u
        /\ \A j \in DOMAIN old.w.slot : /\ old.w.slot[j] = OpenSlot /\ UnitOf[j] = old.u
                                        /\ Has(locks, s, <<"slot", j>>, "update")
        /\ Notice(db, locks, s, old.w) /\ RowsKept(db, old.w)
    BY <1>1, VoidFacts
  <1>3. IsPutFinal(w, old.w, old.row, None)
    <2>1. w = Put(old.w, "final", {old.row}, None) /\ None \in FinalWrite  BY DEF FinalWrite
    <2> HIDE DEF w, old
    <2> QED  BY <1>2, <2>1, PutFinal
  <1> HIDE DEF w
  <1>4. w \in Writes /\ w.slot = old.w.slot /\ w.unit = old.w.unit /\ w.label = old.w.label
    BY <1>3 DEF IsPutFinal
  <1>5. st \in SesRec /\ st.pc = "demote" /\ st.dead = old.dead /\ st.u = old.u /\ st.w = w
    BY <1>2, <1>4 DEF SesRec, Pcs, VoidPcs
  <1>6. {l} \in SUBSET LockRecs
    BY <1>2 DEF LockRecs, Modes
  <1>7. \A on, mode : Has(locks, s, on, mode) => Has(locks \cup {l}, s, on, mode)
    BY DEF Has
  <1>8. \A x \in {l} : x.by = s /\ Free(s, x.on, x.mode)
    BY <1>1
  <1> HIDE DEF st, old, l
  <1>9. Notice(db, locks \cup {l}, s, w) /\ RowsKept(db, w)
    <2>1. \A u : Unfilled(db, old.w, u) <=> Unfilled(db, w, u)
      BY <1>4 DEF Unfilled
    <2> QED  BY <1>2, <1>4, <1>7, <2>1 DEF Notice, RowsKept
  <1>10. "demote" \in VoidPcs
    BY DEF VoidPcs
  <1> QED  BY <1>1, <1>2, <1>4, <1>5, <1>6, <1>7, <1>8, <1>9, <1>10, VoidMoves, ZenonT(40) DEF old

LEMMA DemoteKeeps ==
  ASSUME Inv, NEW s \in Sessions, Demote(s)
  PROVE  Inv' /\ Honoured
  <1> DEFINE old  == ses[s]
             u    == old.u
             seen == old.seen[u]
             w    == Recount(old.w, u, seen, old.forced)
             now  == Recomputed(Over(old.w), u, seen, old.forced)
             st   == [old EXCEPT !.pc = "stranded", !.w = w, !.seen[u] = now]
             l    == [by |-> s, on |-> <<"unit", u>>, mode |-> "update"]
  <1>1. /\ old.pc = "demote" /\ old.pc \in VoidPcs
        /\ Free(s, <<"unit", u>>, "update") /\ locks' = locks \cup {l} /\ Go(s, st)
    BY DEF Demote, VoidPcs, Lock, At, UnitLock
  <1>2. /\ old \in SesRec /\ old.w \in Writes /\ db \in Tables /\ u \in Units
        /\ \A n \in old.dead : db.label[n] \in LabelRow /\ UnitOf[db.label[n].slot] = u
        /\ \A j \in DOMAIN old.w.slot : /\ old.w.slot[j] = OpenSlot /\ UnitOf[j] = u
                                        /\ Has(locks, s, <<"slot", j>>, "update")
        /\ Notice(db, locks, s, old.w) /\ RowsKept(db, old.w)
    BY <1>1, VoidFacts
  <1>3. seen \in Seen
    BY <1>2, RecFields DEF Seen
  <1>4. now \in Seen
    BY <1>3 DEF Recomputed, Seen, UnitStatus
  <1>5. IsRecount(w, old.w, u, seen)
    <2> DEFINE forced == old.forced
    <2>1. w = Recount(old.w, u, seen, forced)  OBVIOUS
    <2> HIDE DEF w, old, u, seen, forced
    <2> QED  BY <1>2, <1>3, <2>1, RecountCases
  <1> HIDE DEF w, now, seen
  <1>6. /\ w \in Writes /\ w.slot = old.w.slot /\ w.label = old.w.label
        /\ \A v \in DOMAIN w.unit : v \in DOMAIN old.w.unit \/ v = u
    BY <1>5 DEF IsRecount
  <1>7. st \in SesRec /\ st.pc = "stranded" /\ st.dead = old.dead /\ st.u = u /\ st.w = w
    BY <1>2, <1>4, <1>6 DEF SesRec, Pcs, VoidPcs, Seen
  <1>8. {l} \in SUBSET LockRecs
    BY <1>2 DEF LockRecs, Modes
  <1>9. Has(locks \cup {l}, s, <<"unit", u>>, "update")
        /\ \A on, mode : Has(locks, s, on, mode) => Has(locks \cup {l}, s, on, mode)
    BY DEF Has
  <1>10. \A x \in {l} : x.by = s /\ Free(s, x.on, x.mode)
    BY <1>1
  <1> HIDE DEF st, l
  <1>11. Notice(db, locks \cup {l}, s, w) /\ RowsKept(db, w)
    <2>1. Notice(db, locks \cup {l}, s, old.w)
      BY <1>2, <1>9 DEF Notice
    <2> HIDE DEF old, u
    <2>2. Notice(db, locks \cup {l}, s, w)
      BY <1>2, <1>5, <1>9, <2>1, RecountNotice
    <2> QED  BY <1>2, <1>6, <2>2 DEF RowsKept
  <1>12. "stranded" \in VoidPcs
    BY DEF VoidPcs
  <1> HIDE DEF old
  <1> QED  BY <1>1, <1>2, <1>6, <1>7, <1>8, <1>9, <1>10, <1>11, <1>12, VoidMoves, ZenonT(40) DEF old

LEMMA SettleKeeps ==
  ASSUME Inv, NEW s \in Sessions, Settle(s)
  PROVE  Inv' /\ Honoured
  <1> DEFINE old  == ses[s]
             u    == old.u
             seen == old.seen[u]
             w    == Recount(old.w, u, seen, FALSE)
  <1>1. /\ old.pc = "clear" /\ old.pc \in VoidPcs
        /\ Free(s, <<"unit", u>>, "update") /\ Commit(s, w)
    BY DEF Settle, VoidPcs, At, UnitLock
  <1>2. /\ old \in SesRec /\ old.w \in Writes /\ db \in Tables /\ u \in Units
        /\ \A j \in DOMAIN old.w.slot : /\ old.w.slot[j] = OpenSlot /\ UnitOf[j] = u
                                        /\ Has(locks, s, <<"slot", j>>, "update")
        /\ Notice(db, locks, s, old.w) /\ RowsKept(db, old.w)
    BY <1>1, VoidFacts
  <1>3. seen \in Seen
    BY <1>2, RecFields DEF Seen
  <1>5. IsRecount(w, old.w, u, seen)
    <2> DEFINE forced == FALSE
    <2>1. w = Recount(old.w, u, seen, forced)  OBVIOUS
    <2> HIDE DEF w, old, u, seen, forced
    <2> QED  BY <1>2, <1>3, <2>1, RecountCases
  <1> HIDE DEF w, seen
  <1>6. /\ w \in Writes /\ w.slot = old.w.slot /\ w.label = old.w.label
        /\ \A v \in DOMAIN w.unit : v \in DOMAIN old.w.unit \/ v = u
    BY <1>5 DEF IsRecount
  <1>7. NoRival(locks, s, u)
    BY <1>1, <1>2, FreeNoRival DEF Modes
  <1>8. \A v \in DOMAIN w.unit : NoRival(locks, s, v)
    <2>1. \A v : Waits(old, v) => v = u
      BY <1>1 DEF Waits, VoidPcs
    <2>2. \A v \in DOMAIN old.w.unit : v \in Units /\ (UnitLocked(locks, s, v) \/ v = u)
      BY <1>2, <2>1, SessionFacts, WriteFields DEF SesInv, Covered
    <2>3. \A v \in Units : UnitLocked(locks, s, v) => NoRival(locks, s, v)
      BY FreeNoRival DEF Modes
    <2> QED  BY <1>6, <1>7, <2>2, <2>3
  <1>9. CommitNotice(db, w)
    <2>1. CommitNotice(db, old.w)
      BY <1>2, NoticeCommits
    <2> HIDE DEF old, u
    <2> QED  BY <1>2, <1>5, <2>1, RecountCommits
  <1>10. /\ Guarded(locks, s, w) /\ HandsOn(db, w) /\ RowsKept(db, w)
         /\ \A i \in DOMAIN w.slot : NoRival(locks, s, UnitOf[i])
    <2>0. OpenSlot.status # "leased"
      BY DEF OpenSlot
    <2>1. \A i \in DOMAIN w.slot : UnitOf[i] = u /\ w.slot[i].status # "leased"
      BY <1>2, <1>6, <2>0
    <2>2. \A i \in DOMAIN w.slot : Has(locks, s, <<"slot", i>>, "update")
      BY <1>2, <1>6
    <2> HIDE DEF old, u
    <2>3. RowsKept(db, w)
      BY <1>2, <1>6 DEF RowsKept
    <2> QED  BY <1>7, <2>1, <2>2, <2>3 DEF Guarded, HandsOn
  <1>11. DOMAIN w.label \subseteq DOMAIN ses[s].w.label
    BY <1>6
  <1> HIDE DEF old
  <1> QED  BY <1>1, <1>6, <1>8, <1>9, <1>10, <1>11, CommitKeeps

-----------------------------------------------------------------------------
(* The invariant.                                                          *)

LEMMA LeaseRunsOutKeeps ==
  ASSUME Inv, NEW i \in Slots, LeaseRunsOut(i)
  PROVE  Inv' /\ Honoured
  <1>1. db' = [db EXCEPT !.slot[i].expired = TRUE] /\ UNCHANGED <<ses, locks>>
    BY DEF LeaseRunsOut
  <1>2. db \in Tables
    BY DEF Inv
  <1> DEFINE r == [db.slot[i] EXCEPT !.expired = TRUE]
             t == [db.slot EXCEPT ![i] = r]
  <1>3. db.slot[i] \in SlotRow /\ db.slot \in [Slots -> SlotRow]
    BY <1>2 DEF Tables
  <1>4. r \in SlotRow /\ r.status = db.slot[i].status /\ r.by = db.slot[i].by /\ r.expired
    BY <1>3 DEF SlotRow
  <1>5. db' = [db EXCEPT !.slot = t]
    BY <1>1, <1>2 DEF Tables
  <1> HIDE DEF r
  <1>6. t \in [Slots -> SlotRow] /\ t[i] = r /\ \A j \in Slots \ {i} : t[j] = db.slot[j]
    BY <1>3, <1>4
  <1> HIDE DEF t
  <1>7. db' \in Tables /\ db'.slot = t /\ db'.unit = db.unit /\ db'.label = db.label /\ db'.final = db.final
    BY <1>2, <1>5, <1>6 DEF Tables
  <1>8. \A j \in Slots : /\ db'.slot[j].status = db.slot[j].status /\ db'.slot[j].by = db.slot[j].by
                         /\ db.slot[j].expired => db'.slot[j].expired
    BY <1>4, <1>6, <1>7
  <1>9. FullUnitNotice'
    BY <1>7, <1>8 DEF Inv, FullUnitNotice, SlotsOf
  <1>10. ASSUME NEW s \in Sessions PROVE SesInv(db', locks, s, ses[s])
    <2>1. /\ SlotsAgree(db, db', locks, s) /\ UnitsAgree(db, db', locks, s)
          /\ LabelsAgree(db, db', ses[s].w)
      BY <1>7, <1>8 DEF SlotsAgree, UnitsAgree, LabelsAgree, SlotsOf
    <2>2. SameLocks(locks, locks, s)
      BY DEF SameLocks
    <2> QED  BY <1>2, <1>7, <2>1, <2>2, SessionFacts, Stable
  <1>11. LocksOK' /\ KeysApart'
    BY <1>1, <1>7 DEF Inv, LocksOK, KeysApart
  <1>12. Honoured
    BY <1>8 DEF Honoured, Holds
  <1> QED  BY <1>1, <1>7, <1>9, <1>10, <1>11, <1>12 DEF Inv

LEMMA InitInv ==
  Init => Inv
  <1> SUFFICES ASSUME Init PROVE Inv
    OBVIOUS
  <1> USE TransactionsAssumption
  <1>1. /\ db = [slot  |-> [i \in Slots |-> OpenSlot], unit  |-> [u \in Units |-> "pending"],
                 label |-> [n \in LabelKeys |-> None], final |-> [f \in FinalKeys |-> None]]
        /\ ses = [s \in Sessions |-> Idle] /\ locks = {}
    BY DEF Init, LabelKeys, FinalKeys
  <1>2. OpenSlot \in SlotRow /\ OpenSlot.status # "filled"
    BY DEF OpenSlot, SlotRow
  <1>3. db \in Tables
    <2> HIDE DEF SlotRow, OpenSlot, LabelRow, FinalRow, LabelKeys, FinalKeys
    <2> QED  BY <1>1, <1>2 DEF Tables, UnitStatus
  <1>4. ses \in [Sessions -> SesRec]
    BY <1>1, IdleRec
  <1>5. LocksOK
    BY <1>1 DEF LocksOK
  <1>6. FullUnitNotice
    <2>1. \A u \in Units : \E i \in SlotsOf(u) : i \in Slots
      BY DEF SlotsOf
    <2>2. \A i \in Slots : db.slot[i].status # "filled"
      BY <1>1, <1>2
    <2> QED  BY <2>1, <2>2 DEF FullUnitNotice
  <1>7. KeysApart
    BY <1>1, IdleRec DEF KeysApart, Clean
  <1>8. \A s \in Sessions : SesInv(db, locks, s, ses[s])
    <2>1. \A s \in Sessions : ses[s] = Idle
      BY <1>1
    <2>2. \A l \in locks : FALSE
      BY <1>1
    <2> QED  BY <2>1, <2>2, IdleInv
  <1> QED  BY <1>3, <1>4, <1>5, <1>6, <1>7, <1>8 DEF Inv

LEMMA NextKeeps ==
  Inv /\ [Next]_vars => Inv' /\ Honoured
  <1> SUFFICES ASSUME Inv, [Next]_vars PROVE Inv' /\ Honoured
    OBVIOUS
  <1>1. ASSUME NEW s \in Sessions, WorkerStep(s)
        PROVE  Inv' /\ Honoured
    <2>1. ASSUME NEW a \in Annotators, BeginNext(s, a) PROVE Inv' /\ Honoured
      BY <2>1, BeginNextKeeps
    <2>2. ASSUME NEW a \in Annotators, NEW i \in Slots, BeginSubmit(s, a, i) \/ BeginSkip(s, a, i)
          PROVE  Inv' /\ Honoured
      BY <2>2, BeginSlotKeeps
    <2>3. ASSUME NEW u \in Units, SweepUnit(s, u) PROVE Inv' /\ Honoured
      BY <2>3, SweepUnitKeeps
    <2>4. CASE BeginAvailable(s) \/ Sweep(s) \/ CountWork(s)
      BY <2>4, BeginAvailableKeeps, SweepKeeps, CountWorkKeeps
    <2>5. CASE Resume(s) \/ LogResumed(s) \/ Pick(s) \/ Look(s) \/ Lease(s)
      BY <2>5, ResumeKeeps, LogResumedKeeps, PickKeeps, LookKeeps, LeaseKeeps
    <2>6. CASE TakeSlot(s) \/ Release(s) \/ Fill(s) \/ Quality(s) \/ FindFinal(s) \/ Record(s)
      BY <2>6, TakeSlotKeeps, ReleaseKeeps, FillKeeps, QualityKeeps, FindFinalKeeps, RecordKeeps
    <2> QED  BY <1>1, <2>1, <2>2, <2>3, <2>4, <2>5, <2>6 DEF WorkerStep
  <1>2. ASSUME NEW s \in Sessions, StaffStep(s)
        PROVE  Inv' /\ Honoured
    <2>1. ASSUME NEW u \in Units, BeginDecide(s, u) \/ BeginVoid(s, u) PROVE Inv' /\ Honoured
      BY <2>1, BeginUnitKeeps
    <2>2. ASSUME NEW i \in Slots, ReopenSlot(s, i) PROVE Inv' /\ Honoured
      BY <2>2, ReopenSlotKeeps
    <2>3. CASE WriteUnit(s) \/ BeginRoute(s) \/ RouteNext(s)
      BY <2>3, WriteUnitKeeps, BeginRouteKeeps, RouteNextKeeps
    <2>4. CASE ReadLabels(s) \/ FindSlots(s) \/ Unwind(s)
      BY <2>4, ReadLabelsKeeps, FindSlotsKeeps, UnwindKeeps
    <2>5. CASE DeleteFinal(s) \/ Demote(s) \/ Settle(s)
      BY <2>5, DeleteFinalKeeps, DemoteKeeps, SettleKeeps
    <2> QED  BY <1>2, <2>1, <2>2, <2>3, <2>4, <2>5 DEF StaffStep
  <1>3. ASSUME NEW s \in Sessions, Rollback(s) PROVE Inv' /\ Honoured
    BY <1>3, AbortKeeps DEF Rollback
  <1>4. ASSUME NEW i \in Slots, LeaseRunsOut(i) PROVE Inv' /\ Honoured
    BY <1>4, LeaseRunsOutKeeps
  <1>5. CASE UNCHANGED vars
    BY <1>5 DEF vars, Inv, LocksOK, FullUnitNotice, KeysApart, Honoured, Holds
  <1> QED  BY <1>1, <1>2, <1>3, <1>4, <1>5 DEF Next

LEMMA AlwaysInv ==
  Spec => []Inv /\ [][Honoured]_vars
  <1>1. Spec => []Inv
    BY InitInv, NextKeeps, PTL DEF Spec
  <1> QED  BY <1>1, NextKeeps, PTL DEF Spec

\* "Never left in_progress when all its slots are actually filled": whatever submits,
\* sweeps, skips, decisions, routings and voids overlap, on any number of connections,
\* the last of the fills to commit counts the others (recompute_unit_status under the
\* unit's lock, slots/lifecycle.py).
THEOREM NoticeTheorem == Spec => []FullUnitNotice
  <1>1. Inv => FullUnitNotice
    BY DEF Inv
  <1> QED  BY <1>1, AlwaysInv, PTL

\* A committed lease that has not run out passes to nobody else: the sweep and
\* _open_slot_query pass over the slots others have locked, and every later statement
\* rechecks under the slot's lock (engine.py, lifecycle.py).
THEOREM HonouredTheorem == Spec => LeaseHonoured
  <1>1. Honoured <=> \A i \in Slots, a, b \in Annotators :
                        Holds(db, a, i) /\ ~db.slot[i].expired /\ Holds(db', b, i) => a = b
    BY DEF Honoured
  <1> QED  BY <1>1, AlwaysInv, PTL DEF LeaseHonoured

=============================================================================
