---------------------------- MODULE Transactions ----------------------------
(***************************************************************************)
(* Concurrent requests, statement by statement.  Platform takes a request  *)
(* as one step; here each is the sequence of SQL statements its session    *)
(* sends to PostgreSQL at READ COMMITTED, with the row locks, the SKIP     *)
(* LOCKED queries, the unlocked reads and the stale identity map of the    *)
(* code (backend/app/services/assignment/engine.py, slots/lifecycle.py,    *)
(* merge/finalize.py, merge/pipeline.py, merge/review.py, app/db.py).      *)
(*                                                                         *)
(* One project without variants or golds, whose units are at their overlap *)
(* cap: a unit that has collected is finalized or sent to review.          *)
(***************************************************************************)
EXTENDS Integers, FiniteSets

CONSTANTS
  Sessions,      \* connections serving requests at one time
  Annotators,
  Units,         \* unit ids, in order of creation
  Slots,         \* slot ids
  UnitOf,        \* slots.unit_id
  Served,        \* the kinds of request that arrive
  MaxLabelRows,  \* bound: rows in labels
  MaxFinalRows,  \* bound: rows in final_labels
  None           \* SQL NULL, or no row

ASSUME TransactionsAssumption ==
  /\ Units \subseteq Nat /\ IsFiniteSet(Units) /\ Slots \subseteq Nat \ {0}
  /\ UnitOf \in [Slots -> Units]
  /\ Served \subseteq {"next", "available", "submit", "skip", "void", "decide", "route"}
  /\ {MaxLabelRows, MaxFinalRows} \subseteq Nat
  /\ \A u \in Units : \E i \in Slots : UnitOf[i] = u     \* labels_per_unit >= 1
  /\ None \notin Annotators \cup Units \cup Slots \cup Nat
  /\ None \notin [slot : Slots, by : Annotators, valid : BOOLEAN]
                \cup [unit : Units, method : {"auto", "human"}]

VARIABLES
  db,     \* the committed rows, a field per table
  ses,    \* per session: its position, its locals, its uncommitted rows w
  locks   \* row locks held

vars == <<db, ses, locks>>

-----------------------------------------------------------------------------
(* Rows, snapshots and locks.                                              *)

OpenSlot  == [status |-> "open", by |-> None, expired |-> FALSE]
NoWrites  == [slot |-> <<>>, unit |-> <<>>, label |-> <<>>, final |-> <<>>]
Idle == [pc |-> "idle", a |-> None, i |-> None, u |-> None, row |-> None,
         who |-> "auto", found |-> None, forced |-> FALSE, todo |-> {}, dead |-> {},
         seen |-> [u \in Units |-> None], w |-> NoWrites]

\* What a statement of a session with the uncommitted rows w reads.
Over(w) == [t \in DOMAIN db |-> [k \in DOMAIN db[t] |->
              IF k \in DOMAIN w[t] THEN w[t][k] ELSE db[t][k]]]

Put(w, t, ks, row) ==
  [w EXCEPT ![t] = [k \in DOMAIN w[t] \cup ks |-> IF k \in ks THEN row ELSE w[t][k]]]

SlotsOf(u) == {i \in Slots : UnitOf[i] = u}
Votes(d, u) == {n \in DOMAIN d.label : d.label[n] # None /\ d.label[n].valid
                                       /\ UnitOf[d.label[n].slot] = u}
FinalsOf(d, u) == {f \in DOMAIN d.final : d.final[f] # None /\ d.final[f].unit = u}
Holds(d, a, i) == d.slot[i].status = "leased" /\ d.slot[i].by = a

\* A primary key no session has used.
Fresh(t) == {k \in DOMAIN db[t] : db[t][k] = None /\ \A s \in Sessions : k \notin DOMAIN ses[s].w[t]}

\* FOR UPDATE is "update", the lock of an UPDATE is "write", and the KEY SHARE a
\* foreign key takes on the row it references is "share".
Clash(m, n) == IF "share" \in {m, n} THEN "update" \in {m, n} ELSE TRUE

Blockers(s, on, mode) ==
  {t \in Sessions \ {s} : \E l \in locks : l.by = t /\ l.on = on /\ Clash(l.mode, mode)}
Free(s, on, mode) == Blockers(s, on, mode) = {}
Lock(s, on, mode) == locks' = locks \cup {[by |-> s, on |-> on, mode |-> mode]}

\* Mutant of Skipped: the SKIP LOCKED queries see every row.
SkippedNone(s, i) == FALSE

\* SKIP LOCKED passes over the slots other sessions have locked.
Skipped(s, i) == Blockers(s, <<"slot", i>>, "update") # {}

-----------------------------------------------------------------------------
(* Session steps.                                                          *)

At(s, pc) == ses[s].pc = pc

Go(s, st) == ses' = [ses EXCEPT ![s] = st] /\ UNCHANGED db

Close(s) == /\ ses' = [ses EXCEPT ![s] = Idle]
            /\ locks' = {l \in locks : l.by # s}

Commit(s, w) == Close(s) /\ db' = Over(w)
Abort(s)     == Close(s) /\ UNCHANGED db

\* Mutant of UnitLock: the unit is read without FOR UPDATE.
UnitLockNone == "share"

\* How recompute_unit_status and submit_label lock the unit.
UnitLock == "update"

\* recompute_unit_status: the status it settles on, from the slots d shows and the
\* status the session believes the unit has.
Recomputed(d, u, seen, forced) ==
  LET statuses == {d.slot[i].status : i \in SlotsOf(u)}
  IN  IF seen = "finalized" /\ ~forced THEN seen
      ELSE IF statuses = {"filled"} THEN "labeled"
      ELSE IF statuses \cap {"leased", "filled"} # {} THEN "in_progress"
      ELSE "pending"

\* An attribute set to the value it was loaded with is not written.
Recount(w, u, seen, forced) ==
  LET status == Recomputed(Over(w), u, seen, forced)
  IN  IF status = seen THEN w ELSE Put(w, "unit", {u}, status)

\* finalize_unit's own assignment of the status.
Finalized(w, u, seen) == IF seen = "finalized" THEN w ELSE Put(w, "unit", {u}, "finalized")

-----------------------------------------------------------------------------
(* next_task and available_work: sweep, resume, pick, lease.               *)

BeginNext(s, a) ==
  /\ "next" \in Served /\ At(s, "idle")
  /\ Go(s, [Idle EXCEPT !.pc = "sweep", !.a = a]) /\ UNCHANGED locks

BeginAvailable(s) ==
  /\ "available" \in Served /\ At(s, "idle")
  /\ Go(s, [Idle EXCEPT !.pc = "sweep"]) /\ UNCHANGED locks

Sweep(s) ==
  LET dead == {i \in Slots : db.slot[i].status = "leased" /\ db.slot[i].expired /\ ~Skipped(s, i)}
  IN  /\ At(s, "sweep")
      /\ locks' = locks \cup {[by |-> s, on |-> <<"slot", i>>, mode |-> "update"] : i \in dead}
      /\ Go(s, [ses[s] EXCEPT !.pc = "swept", !.todo = {UnitOf[i] : i \in dead},
                              !.w = Put(@, "slot", dead, OpenSlot)])

SweepUnit(s, u) ==
  /\ At(s, "swept") /\ u \in ses[s].todo
  /\ Free(s, <<"unit", u>>, UnitLock) /\ Lock(s, <<"unit", u>>, UnitLock)
  /\ Go(s, [ses[s] EXCEPT !.todo = @ \ {u}, !.w = Recount(@, u, db.unit[u], FALSE)])

CountWork(s) == At(s, "swept") /\ ses[s].todo = {} /\ ses[s].a = None /\ Commit(s, ses[s].w)

Resume(s) ==
  LET held == {i \in Slots : Holds(Over(ses[s].w), ses[s].a, i) /\ ~Skipped(s, i)}
  IN  /\ At(s, "swept") /\ ses[s].todo = {} /\ ses[s].a # None
      /\ \/ /\ held = {} /\ Go(s, [ses[s] EXCEPT !.pc = "pick"]) /\ UNCHANGED locks
         \/ \E i \in held :
              /\ Lock(s, <<"slot", i>>, "update")
              /\ Go(s, [ses[s] EXCEPT !.pc = "event", !.u = UnitOf[i],
                           !.w = Put(@, "slot", {i}, [db.slot[i] EXCEPT !.expired = FALSE])])

\* The row in task_events references the unit.
LogResumed(s) == /\ At(s, "event") /\ Free(s, <<"unit", ses[s].u>>, "share")
                 /\ Commit(s, ses[s].w)

\* _open_slot_query
Candidates(s) ==
  LET d == Over(ses[s].w)
      a == ses[s].a
  IN  {i \in Slots : /\ d.slot[i].status = "open" /\ ~Skipped(s, i)
                     /\ d.unit[UnitOf[i]] # "finalized"
                     /\ \A n \in Votes(d, UnitOf[i]) : d.label[n].by # a
                     /\ \A j \in SlotsOf(UnitOf[i]) : ~Holds(d, a, j)}

Pick(s) ==
  LET c == Candidates(s)
  IN  /\ At(s, "pick")
      /\ \/ c = {} /\ Commit(s, ses[s].w)
         \/ \E i \in c :
              /\ \A j \in c : UnitOf[i] < UnitOf[j] \/ (UnitOf[i] = UnitOf[j] /\ i <= j)
              /\ Lock(s, <<"slot", i>>, "update")
              /\ Go(s, [ses[s] EXCEPT !.pc = "look", !.u = UnitOf[i],
                           !.w = Put(@, "slot", {i}, [status |-> "leased", by |-> ses[s].a,
                                                      expired |-> FALSE])])

\* db.get(Unit, ...) takes no lock.
Look(s) == /\ At(s, "look") /\ UNCHANGED locks
           /\ Go(s, [ses[s] EXCEPT !.pc = "lease", !.seen[ses[s].u] = Over(ses[s].w).unit[ses[s].u]])

Pending(s) == ses[s].seen[ses[s].u] = "pending"

Lease(s) ==
  /\ At(s, "lease")
  /\ Free(s, <<"unit", ses[s].u>>, IF Pending(s) THEN "write" ELSE "share")
  /\ Commit(s, IF Pending(s) THEN Put(ses[s].w, "unit", {ses[s].u}, "in_progress") ELSE ses[s].w)

-----------------------------------------------------------------------------
(* submit_label and skip_task.                                             *)

BeginSubmit(s, a, i) ==
  /\ "submit" \in Served /\ At(s, "idle") /\ Holds(db, a, i)
  /\ Go(s, [Idle EXCEPT !.pc = "submit", !.a = a, !.i = i, !.u = UnitOf[i]]) /\ UNCHANGED locks

BeginSkip(s, a, i) ==
  /\ "skip" \in Served /\ At(s, "idle") /\ Holds(db, a, i)
  /\ Go(s, [Idle EXCEPT !.pc = "skip", !.a = a, !.i = i, !.u = UnitOf[i]]) /\ UNCHANGED locks

\* Mutant of StillHolds: the slot is believed leased, as when it was handed out.
StillHoldsAssumed(s) == TRUE

\* The check of both, under the slot lock and on a fresh read.
StillHolds(s) == Holds(db, ses[s].a, ses[s].i)

\* Mutant of LockSlot: the label is inserted before the unit is locked.
LockSlotInsertFirst(s) ==
  /\ locks' = locks \cup {[by |-> s, on |-> <<"slot", ses[s].i>>, mode |-> "update"],
                          [by |-> s, on |-> <<"unit", ses[s].u>>, mode |-> "share"]}

LockSlot(s) == Lock(s, <<"slot", ses[s].i>>, "update")

TakeSlot(s) ==
  /\ ses[s].pc \in {"submit", "skip"} /\ Free(s, <<"slot", ses[s].i>>, "update")
  /\ \/ ~StillHolds(s) /\ Abort(s)
     \/ /\ StillHolds(s) /\ LockSlot(s)
        /\ Go(s, IF At(s, "skip")
                 THEN [ses[s] EXCEPT !.pc = "release", !.w = Put(@, "slot", {ses[s].i}, OpenSlot)]
                 ELSE [ses[s] EXCEPT !.pc = "fill"])

Release(s) ==
  /\ At(s, "release") /\ Free(s, <<"unit", ses[s].u>>, UnitLock)
  /\ Commit(s, Recount(ses[s].w, ses[s].u, db.unit[ses[s].u], FALSE))

\* final_label_for: LIMIT 1, in no order.
SomeFinal(d, u) == IF FinalsOf(d, u) = {} THEN {None} ELSE FinalsOf(d, u)
HumanRow(d, f) == f # None /\ d.final[f].method = "human"

\* Routing goes on to finalize the unit: _is_human_decided found no verdict, and the
\* row it looked at is forgotten.
ToFinalize(s, u, seen) == [ses[s] EXCEPT !.pc = "find", !.u = u, !.seen[u] = seen]

\* The unit lock, then the fill, the label row and the status, not yet committed.  The
\* partial unique index refuses a second valid label of the annotator on the unit.
Fill(s) ==
  LET u == ses[s].u
      n == CHOOSE m \in Fresh("label") : TRUE
      filled == Put(ses[s].w, "slot", {ses[s].i},
                    [status |-> "filled", by |-> ses[s].a, expired |-> FALSE])
      w == Put(filled, "label", {n}, [slot |-> ses[s].i, by |-> ses[s].a, valid |-> TRUE])
  IN  /\ At(s, "fill") /\ Free(s, <<"unit", u>>, UnitLock)
      /\ IF \E m \in Votes(db, u) : db.label[m].by = ses[s].a THEN Abort(s)
         ELSE /\ Fresh("label") # {} /\ Lock(s, <<"unit", u>>, UnitLock)
              /\ Go(s, [ses[s] EXCEPT !.pc = "quality", !.w = Recount(w, u, db.unit[u], FALSE)])

\* on_label_submitted: a unit that has collected is finalized if the merge passes.
Quality(s) ==
  LET u == ses[s].u
      d == Over(ses[s].w)
      complete == /\ \A i \in SlotsOf(u) : d.slot[i].status = "filled"
                  /\ Cardinality(Votes(d, u)) >= Cardinality(SlotsOf(u))
  IN  /\ At(s, "quality")
      /\ \/ Commit(s, ses[s].w)
         \/ \E f \in SomeFinal(d, u) :
              /\ complete /\ ~HumanRow(d, f) /\ UNCHANGED locks
              /\ Go(s, ToFinalize(s, u, d.unit[u]))

-----------------------------------------------------------------------------
(* finalize_unit, shared by submit, decide and route.                      *)

\* It reads the final label, for routing a second time and under no lock of its own.
FindFinal(s) ==
  LET st == ses[s]
      d  == Over(st.w)
  IN  /\ At(s, "find") /\ UNCHANGED locks
      /\ \E f \in SomeFinal(d, st.u) :
           Go(s, [st EXCEPT !.row = f, !.found = IF f = None THEN None ELSE d.final[f].method,
                     !.pc = IF st.seen[st.u] = "finalized" THEN "record" ELSE "mark",
                     !.w = Finalized(@, st.u, st.seen[st.u])])

\* The UPDATE of units, when the session believes the status changes or when a unit is
\* sent to review.
WriteUnit(s) ==
  /\ ses[s].pc \in {"mark", "escalate"} /\ Free(s, <<"unit", ses[s].u>>, "write")
  /\ Lock(s, <<"unit", ses[s].u>>, "write")
  /\ Go(s, [ses[s] EXCEPT !.pc = IF @ = "mark" THEN "record" ELSE "route"])

\* The method of the row afterwards.  A method found as it should be is not written, but
\* "human" is two of them, approved and overridden.
Methods(s) ==
  LET st == ses[s]
  IN  (IF st.found # st.who \/ st.who = "human" THEN {st.who} ELSE {})
        \cup (IF st.found = st.who THEN {db.final[st.row].method} ELSE {})

\* Mutant of Recorded: the row is only updated.
RecordedIfRow(s) ==
  IF ses[s].row = None THEN {ses[s].w}
  ELSE {Put(ses[s].w, "final", {ses[s].row}, [unit |-> ses[s].u, method |-> m]) : m \in Methods(s)}

\* Then the final_labels row: inserted when none was read, else updated in place.  Values
\* and provenance, which are written too, are not kept.
Recorded(s) ==
  IF ses[s].row = None
  THEN {Put(ses[s].w, "final", {CHOOSE f \in Fresh("final") : TRUE},
            [unit |-> ses[s].u, method |-> ses[s].who])}
  ELSE {Put(ses[s].w, "final", {ses[s].row}, [unit |-> ses[s].u, method |-> m]) : m \in Methods(s)}

Record(s) ==
  /\ At(s, "record")
  /\ IF ses[s].row = None THEN Fresh("final") # {} ELSE Free(s, <<"final", ses[s].row>>, "update")
  /\ IF ses[s].row # None /\ db.final[ses[s].row] = None THEN Abort(s)
     ELSE \E w \in Recorded(s) :
       IF ses[s].todo = {} THEN Commit(s, w)
       ELSE /\ IF ses[s].row = None THEN UNCHANGED locks ELSE Lock(s, <<"final", ses[s].row>>, "update")
            /\ Go(s, [ses[s] EXCEPT !.pc = "route", !.w = w])

BeginDecide(s, u) ==
  /\ "decide" \in Served /\ At(s, "idle")
  /\ Go(s, [Idle EXCEPT !.pc = "find", !.u = u, !.who = "human", !.seen[u] = db.unit[u]])
  /\ UNCHANGED locks

\* POST /projects/{id}/route with include_finalized: the units and their statuses are
\* read once, then the units are routed in turn.
BeginRoute(s) ==
  /\ "route" \in Served /\ At(s, "idle") /\ UNCHANGED locks
  /\ LET us == {u \in Units : db.unit[u] \in {"labeled", "finalized"}}
     IN  Go(s, [Idle EXCEPT !.pc = "route", !.todo = us,
                            !.seen = [u \in Units |-> IF u \in us THEN db.unit[u] ELSE None]])

RouteNext(s) ==
  LET todo  == ses[s].todo
      first == {u \in todo : \A x \in todo : u <= x}
      d     == Over(ses[s].w)
  IN  /\ At(s, "route")
      /\ \/ todo = {} /\ Commit(s, ses[s].w)
         \/ \E u \in first : \E f \in SomeFinal(d, u) :
              LET st   == [ses[s] EXCEPT !.todo = todo \ {u}]
                  seen == ses[s].seen[u]
              IN  /\ UNCHANGED locks   \* _is_human_decided; FindFinal reads again
                  /\ \/ HumanRow(d, f) /\ Go(s, st)
                     \/ ~HumanRow(d, f) /\ Go(s, [st EXCEPT !.pc = "escalate", !.u = u])
                     \/ /\ ~HumanRow(d, f) /\ Votes(d, u) # {}
                        /\ Go(s, [ToFinalize(s, u, seen) EXCEPT !.todo = st.todo])

-----------------------------------------------------------------------------
(* void_unit, called by PATCH /units/{id}, which has loaded the unit.      *)

BeginVoid(s, u) ==
  /\ "void" \in Served /\ At(s, "idle")
  /\ Go(s, [Idle EXCEPT !.pc = "labels", !.u = u, !.seen[u] = db.unit[u]]) /\ UNCHANGED locks

ReadLabels(s) ==
  /\ At(s, "labels") /\ UNCHANGED locks
  /\ Go(s, [ses[s] EXCEPT !.dead = Votes(db, ses[s].u),
                          !.pc = IF Votes(db, ses[s].u) = {} THEN "stranded" ELSE "occupied"])

\* The two SELECT ... FOR UPDATE over slots: their snapshots ...
Occupied(d, is) == {i \in is : d.slot[i].status \in {"filled", "leased"}}

FindSlots(s) ==
  /\ UNCHANGED locks
  /\ \/ /\ At(s, "occupied")
        /\ Go(s, [ses[s] EXCEPT !.pc = "reopen",
                     !.todo = Occupied(db, {db.label[n].slot : n \in ses[s].dead})])
     \/ /\ At(s, "stranded")
        /\ Go(s, [ses[s] EXCEPT !.pc = "clear", !.todo = Occupied(Over(ses[s].w), SlotsOf(ses[s].u))])

\* ... and the locks they then take, row by row, waiting, and checking again.
ReopenSlot(s, i) ==
  /\ ses[s].pc \in {"reopen", "clear"} /\ i \in ses[s].todo
  /\ Free(s, <<"slot", i>>, "update") /\ Lock(s, <<"slot", i>>, "update")
  /\ Go(s, [ses[s] EXCEPT !.todo = @ \ {i},
               !.w = Put(@, "slot", Occupied(Over(@), {i}), OpenSlot)])

Invalidated(s) ==
  [ses[s].w EXCEPT !.label = [n \in ses[s].dead |-> [db.label[n] EXCEPT !.valid = FALSE]]]

\* _unwind_auto_finalization reads the final label, then deletes it by its id.
Unwind(s) ==
  /\ At(s, "reopen") /\ ses[s].todo = {} /\ UNCHANGED locks
  /\ \E f \in SomeFinal(db, ses[s].u) :
       Go(s, [ses[s] EXCEPT !.w = Invalidated(s), !.row = f,
                !.pc = IF f # None /\ ~HumanRow(db, f) THEN "delete" ELSE "demote"])

DeleteFinal(s) ==
  LET on == <<"final", ses[s].row>>
  IN  /\ At(s, "delete") /\ Free(s, on, "update") /\ Lock(s, on, "update")
      /\ Go(s, [ses[s] EXCEPT !.pc = "demote", !.forced = TRUE,
                              !.w = Put(@, "final", {ses[s].row}, None)])

\* recompute_unit_status locks the unit but keeps the status loaded at the start.
Demote(s) ==
  LET u == ses[s].u
  IN  /\ At(s, "demote") /\ Free(s, <<"unit", u>>, UnitLock) /\ Lock(s, <<"unit", u>>, UnitLock)
      /\ Go(s, [ses[s] EXCEPT !.pc = "stranded",
                   !.w = Recount(@, u, ses[s].seen[u], ses[s].forced),
                   !.seen[u] = Recomputed(Over(ses[s].w), u, @, ses[s].forced)])

Settle(s) ==
  /\ At(s, "clear") /\ ses[s].todo = {} /\ Free(s, <<"unit", ses[s].u>>, UnitLock)
  /\ Commit(s, Recount(ses[s].w, ses[s].u, ses[s].seen[ses[s].u], FALSE))

-----------------------------------------------------------------------------

Init ==
  /\ db = [slot  |-> [i \in Slots |-> OpenSlot],
           unit  |-> [u \in Units |-> "pending"],
           label |-> [n \in 1..MaxLabelRows |-> None],
           final |-> [f \in 1..MaxFinalRows |-> None]]
  /\ ses = [s \in Sessions |-> Idle]
  /\ locks = {}

WorkerStep(s) ==
  \/ \E a \in Annotators : \/ BeginNext(s, a)
                          \/ \E i \in Slots : BeginSubmit(s, a, i) \/ BeginSkip(s, a, i)
  \/ BeginAvailable(s) \/ Sweep(s) \/ (\E u \in Units : SweepUnit(s, u)) \/ CountWork(s)
  \/ Resume(s) \/ LogResumed(s) \/ Pick(s) \/ Look(s) \/ Lease(s)
  \/ TakeSlot(s) \/ Release(s) \/ Fill(s) \/ Quality(s) \/ FindFinal(s) \/ Record(s)

StaffStep(s) ==
  \/ \E u \in Units : BeginDecide(s, u) \/ BeginVoid(s, u)
  \/ WriteUnit(s) \/ BeginRoute(s) \/ RouteNext(s)
  \/ ReadLabels(s) \/ FindSlots(s) \/ (\E i \in Slots : ReopenSlot(s, i))
  \/ Unwind(s) \/ DeleteFinal(s) \/ Demote(s) \/ Settle(s)

\* The connection drops, or PostgreSQL breaks a deadlock.
Rollback(s) == ~At(s, "idle") /\ Abort(s)

LeaseRunsOut(i) ==
  /\ db.slot[i].status = "leased" /\ ~db.slot[i].expired
  /\ db' = [db EXCEPT !.slot[i].expired = TRUE] /\ UNCHANGED <<ses, locks>>

Next == \/ \E s \in Sessions : WorkerStep(s) \/ StaffStep(s) \/ Rollback(s)
        \/ \E i \in Slots : LeaseRunsOut(i)

Spec == Init /\ [][Next]_vars

-----------------------------------------------------------------------------
(* What the locks do achieve.                                              *)

Modes == {"share", "write", "update"}
Resources == ({"slot"} \X Slots) \cup ({"unit"} \X Units) \cup ({"final"} \X DOMAIN db.final)

\* The committed rows have their types; only a slot that is not open has a holder.
TypeOK ==
  /\ \A i \in Slots : /\ db.slot[i] \in [status : {"open", "leased", "filled"},
                                         by : Annotators \cup {None}, expired : BOOLEAN]
                       /\ db.slot[i].status = "open" <=> db.slot[i].by = None
  /\ db.unit \in [Units -> {"pending", "in_progress", "labeled", "finalized"}]
  /\ \A n \in 1..MaxLabelRows :
       db.label[n] \in {None} \cup [slot : Slots, by : Annotators, valid : BOOLEAN]
  /\ \A f \in 1..MaxFinalRows :
       db.final[f] \in {None} \cup [unit : Units, method : {"auto", "human"}]
  /\ locks \subseteq [by : Sessions, on : Resources, mode : Modes]

\* No two sessions hold locks that clash, none holds one between requests, and a slot
\* is written under its own lock: no lost update on slots.
ExclusiveLocks ==
  /\ \A l, m \in locks : l.on = m.on /\ Clash(l.mode, m.mode) => l.by = m.by
  /\ \A l \in locks : ~At(l.by, "idle")
  /\ \A s \in Sessions : \A i \in DOMAIN ses[s].w.slot :
       [by |-> s, on |-> <<"slot", i>>, mode |-> "update"] \in locks

\* Every filled slot has exactly one valid label and it is its holder's, and no other
\* slot has any, whatever the interleaving of submits, skips and sweeps: the recheck
\* under the slot lock, after the wait, is what keeps a reclaimed lease from writing.
FilledByOneLabel ==
  \A i \in Slots :
     LET occupants == {n \in Votes(db, UnitOf[i]) : db.label[n].slot = i}
     IN  IF db.slot[i].status = "filled"
         THEN \E n \in occupants : occupants = {n} /\ db.label[n].by = db.slot[i].by
         ELSE occupants = {}

\* A finalized unit has a final label, though the row and the status are written by
\* different statements.
FinalizedHasFinalLabel ==
  \A u \in Units : db.unit[u] = "finalized" => FinalsOf(db, u) # {}

\* A unit is "never left in_progress when all its slots are actually filled": of two
\* last fills the second, having waited for the unit, counts the first.
FullUnitNotice ==
  \A u \in Units : (\A i \in SlotsOf(u) : db.slot[i].status = "filled")
                     => db.unit[u] \in {"labeled", "finalized"}

\* The committed rows agree with each other, however requests of workers and reviewers
\* overlap: no lost update, no doubly filled slot, no full unit unnoticed.
RowsAgree == TypeOK /\ ExclusiveLocks /\ FilledByOneLabel /\ FullUnitNotice /\ FinalizedHasFinalLabel

\* Concurrent workers never grab one slot: a committed lease that has not run out
\* passes to nobody else.
LeaseHonoured ==
  [][\A i \in Slots, a, b \in Annotators :
        Holds(db, a, i) /\ ~db.slot[i].expired /\ Holds(db', b, i) => a = b]_vars

\* Overlapping requests of workers amount to requests taken one at a time: the
\* committed slots and labels change as SlotLedger says.
Ledger == INSTANCE SlotLedger WITH slot <- db.slot, label <- db.label

GrantedAtOnce == Ledger!LedgerSpec

\* The lock a session's next statement needs, if it needs one.
Wanted(s) ==
  LET st == ses[s]
      unit == <<"unit", st.u>>
  IN  CASE st.pc \in {"submit", "skip"} -> {<<<<"slot", st.i>>, "update">>}
        [] st.pc \in {"release", "fill", "demote"} -> {<<unit, UnitLock>>}
        [] st.pc \in {"reopen", "clear"} /\ st.todo # {} -> {<<<<"slot", i>>, "update">> : i \in st.todo}
        [] st.pc = "clear" -> {<<unit, UnitLock>>}
        [] st.pc = "swept" -> {<<<<"unit", u>>, UnitLock>> : u \in st.todo}
        [] st.pc = "event" -> {<<unit, "share">>}
        [] st.pc = "lease" -> {<<unit, IF Pending(s) THEN "write" ELSE "share">>}
        [] st.pc \in {"mark", "escalate"} -> {<<unit, "write">>}
        [] st.pc = "delete" \/ (st.pc = "record" /\ st.row # None) -> {<<<<"final", st.row>>, "update">>}
        [] OTHER -> {}

\* Sessions that can only wait for one another.
Deadlocked(ss) ==
  ss # {} /\ \A s \in ss : Wanted(s) # {} /\ \A lk \in Wanted(s) : Blockers(s, lk[1], lk[2]) \cap ss # {}

\* A sweep commits its units together, in no order: it waits for one while it holds another.
Straddles(s) ==
  /\ ses[s].pc \in {"swept", "event", "lease"}
  /\ \E lk \in Wanted(s) : \E l \in locks : l.by = s /\ l.on[1] = "unit" /\ l.on # lk[1]

\* "every fill acquires slot -> unit -> inserts in the same order": requests, voids apart,
\* wait on each other in a circle only through a sweep of the leases of several units.
NoDeadlock == \A ss \in SUBSET Sessions : Deadlocked(ss) => \E s \in ss : Straddles(s)

Verdicts(d) == {f \in DOMAIN d.final : d.final[f] # None /\ d.final[f].method = "human"}

\* A request without an annotator that decides nothing itself: a re-routing.
Reroutes(s) == ses[s].a = None /\ ses[s].who = "auto"

\* "A reviewer's decision must not be undone by a later automatic pass" (pipeline.py:22-25):
\* a row with a verdict keeps it in every step of a submit or a decision, and no submit is
\* about to write its own value into such a row.  A submit reads and decides under the
\* unit's lock; re-routing, which holds none, is why the promise is made of the others.
VerdictKept ==
  [][/\ Verdicts(db) \subseteq Verdicts(db') \/ \E s \in Sessions : Reroutes(s) /\ ses'[s] # ses[s]
     /\ \A s \in Sessions : At(s, "record") /\ ses[s].row \in Verdicts(db)
                             => ses[s].who = "human" \/ Reroutes(s)]_vars

\* The same promise of every request, re-routing included: the row at least stays a verdict.
VerdictStands == [][Verdicts(db) \subseteq Verdicts(db')]_vars

\* "every filled slot has exactly one valid label" (docs/MEASUREMENT.md:191), voids included.
OneLabelEach ==
  \A i \in Slots : db.slot[i].status = "filled" =>
    Cardinality({n \in Votes(db, UnitOf[i]) : db.label[n].slot = i}) = 1
=============================================================================
