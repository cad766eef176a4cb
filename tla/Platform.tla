------------------------------ MODULE Platform ------------------------------
(***************************************************************************)
(* The core of the labeling platform: annotators pull, skip and submit     *)
(* tasks, leases run out, admins void and re-route, reviewers decide       *)
(* (backend/app/services/assignment/engine.py and the endpoints of         *)
(* backend/app/api that call it).  One action is one HTTP request, which   *)
(* is one database transaction; requests are taken one at a time.          *)
(***************************************************************************)
EXTENDS Routing

CONSTANTS
  GoldNum, GoldDen,   \* projects.gold_ratio = GoldNum / GoldDen
  Priorities,         \* values an admin gives units.priority
  MaxLabelRows        \* bound on the labels table, for model checking

ASSUME PlatformAssumption ==
  /\ GoldNum \in Nat /\ GoldDen \in Nat \ {0} /\ GoldNum <= GoldDen
  /\ Priorities \subseteq Int
  /\ MaxLabelRows \in Nat

VARIABLE db

-----------------------------------------------------------------------------
(* Selecting work.                                                         *)

\* Mutant of HeldSlots: a reload does not find the lease in hand.
HeldSlotsForgotten(d, a, p) == {}

HeldSlots(d, a, p) ==
  {s \in UNION {{u} \X InStatus(d, u, "leased") : u \in Units} :
     d.slot[s[1]][s[2]].by = a /\ ProjectOf[s[1]] = p}

Holds(d, a, u, i) ==
  i \in DOMAIN d.slot[u] /\ d.slot[u][i].status = "leased" /\ d.slot[u][i].by = a

\* Mutant of MayTake: the exclusion looks at leases only.
MayTakeTwice(d, a, u) ==
  /\ d.unit[u].status # "finalized"
  /\ \A i \in InStatus(d, u, "leased") : d.slot[u][i].by # a

\* The unit-level exclusion: never one already labeled, never one in hand.
MayTake(d, a, u) ==
  /\ d.unit[u].status # "finalized"
  /\ ~HasValidLabel(d, a, u)
  /\ \A i \in InStatus(d, u, "leased") : d.slot[u][i].by # a

OpenSlots(d, a, p, gold) ==
  {s \in UNION {{u} \X InStatus(d, u, "open") : u \in Units} :
     ProjectOf[s[1]] = p /\ IsGold(s[1]) = gold /\ MayTake(d, a, s[1])}

\* ORDER BY priority DESC, created_at, slots.id
Before(d, s, t) ==
  \/ d.unit[s[1]].priority > d.unit[t[1]].priority
  \/ /\ d.unit[s[1]].priority = d.unit[t[1]].priority
     /\ s[1] < t[1] \/ (s[1] = t[1] /\ s[2] <= t[2])

First(d, ss) == {s \in ss : \A t \in ss : Before(d, s, t)}

\* The deficit rule for gold injection.
ShouldServeGold(served, golds) ==
  GoldNum # 0 /\ (GoldNum = GoldDen \/ golds < ((served + 1) * GoldNum) \div GoldDen)

WantsGold(d, a, p) ==
  LET served == LabelsBy(d, a, p)
  IN  ShouldServeGold(Cardinality(served),
                      Cardinality({l \in served : IsGold(d.label[l].unit)}))

\* The preferred pool, or the other one when it is empty.
NextSlots(d, a, p) ==
  LET want == WantsGold(d, a, p)
      pool == OpenSlots(d, a, p, want)
  IN  First(d, IF pool # {} THEN pool ELSE OpenSlots(d, a, p, ~want))

-----------------------------------------------------------------------------
(* Lease primitives.                                                       *)

Expired(d) ==
  {s \in UNION {{u} \X InStatus(d, u, "leased") : u \in Units} : d.slot[s[1]][s[2]].expired}

\* sweep_expired_leases, over every project.
Sweep(d) == Recompute(Reopen(d, Expired(d)), {s[1] : s \in Expired(d)}, {})

Lease(d, a, u, i) ==
  [d EXCEPT !.slot[u][i] = [@ EXCEPT !.status = "leased", !.by = a, !.expired = FALSE],
            !.unit[u].status = IF @ = "pending" THEN "in_progress" ELSE @]

\* The fill of submit_label: the slot, the label row, the unit status.
Fill(d, a, u, i, value) ==
  LET row == [unit |-> u, slot |-> i, by |-> a, value |-> value,
              valid |-> TRUE, gold |-> Grade(u, value)]
  IN  Recompute([d EXCEPT !.slot[u][i] = [@ EXCEPT !.status = "filled", !.expired = FALSE],
                          !.label = Append(@, row)],
                {u}, {})

-----------------------------------------------------------------------------
(* Requests.                                                               *)

\* GET /tasks/next: sweep, resume the lease in hand, else lease the first slot.
NextTask(a, p) ==
  /\ db.ann[a] = "active"
  /\ LET d    == Sweep(db)
         held == HeldSlots(d, a, p)
     IN  \/ \E s \in held : db' = [d EXCEPT !.slot[s[1]][s[2]].expired = FALSE]
         \/ held = {} /\ \E s \in NextSlots(d, a, p) : db' = Lease(d, a, s[1], s[2])
         \/ held = {} /\ NextSlots(d, a, p) = {} /\ db' = d

\* POST /tasks/{slot}/submit.  The partial unique index on labels refuses a
\* second valid label of the annotator on the unit.
Submit(a, u, i, value) ==
  /\ Len(db.label) < MaxLabelRows
  /\ Holds(db, a, u, i)
  /\ ~HasValidLabel(db, a, u)
  /\ \E plan \in SlotPlans(NumVariants) :
       LET judged  == EnforceGoldThreshold(Fill(db, a, u, i, value), a, u, Grade(u, value))
           settled == ApplyConsensusPolicy(judged, u, plan)
       IN  IF StopsCollecting(judged, u)
           THEN \E merge \in Merges(settled, u) : db' = RouteUnit(settled, u, merge)
           ELSE db' = settled

\* POST /tasks/{slot}/skip, whatever the reason given.
Skip(a, u, i) ==
  /\ Holds(db, a, u, i)
  /\ db' = Recompute(Reopen(db, {<<u, i>>}), {u}, {})

\* GET /tasks/available sweeps before it counts.
AvailableWork == db' = Sweep(db)

\* PATCH /units/{id}: a new priority, a void, or both.
PatchUnit(u, priority, void) ==
  LET d        == [db EXCEPT !.unit[u].priority = priority]
      voided   == VoidLabels(d, ValidLabels(d, u))
      stranded == {u} \X (InStatus(voided, u, "leased") \cup InStatus(voided, u, "filled"))
  IN  db' = IF void THEN Recompute(Reopen(voided, stranded), {u}, {}) ELSE d

\* POST /review/{unit}:decide.  Any unit may be decided, queued or not.
Decide(u) ==
  \E decision \in Decisions(db, u) :
     db' = FinalizeUnit(db, u, decision.method, decision.value)

\* POST /projects/{id}/route
RouteProject(p, includeFinalized) ==
  LET us == Routable(db, p, includeFinalized)
  IN  \E merges \in [us -> UNION {Merges(db, u) : u \in us}] :
         /\ \A u \in us : merges[u] \in Merges(db, u)
         /\ db' = RouteUnits(db, us, merges)

\* POST /annotators/{id}:resume
ResumeAnnotator(a) == db' = [db EXCEPT !.ann[a] = "active"]

\* The clock passes lease_expires_at.
LeaseRunsOut(u, i) ==
  /\ i \in InStatus(db, u, "leased") /\ ~db.slot[u][i].expired
  /\ db' = [db EXCEPT !.slot[u][i].expired = TRUE]

-----------------------------------------------------------------------------

Init ==
  \E layout \in [Units -> SlotPlans(LabelsPerUnit)] :
     db = [slot  |-> [u \in Units |-> NewSlots(layout[u])],
           unit  |-> [u \in Units |-> [status |-> "pending", escalated |-> FALSE,
                                       priority |-> 0]],
           label |-> <<>>,
           final |-> [u \in Units |-> NoDecision],
           ann   |-> [a \in Annotators |-> "active"],
           k     |-> [p \in Projects |-> LabelsPerUnit],
           cap   |-> [p \in Projects |-> MaxLabelsPerUnit]]

AnnotatorStep ==
  \E a \in Annotators :
     \/ \E p \in Projects : NextTask(a, p)
     \/ \E u \in Units : \E i \in InStatus(db, u, "leased") :
           Skip(a, u, i) \/ \E value \in Answers : Submit(a, u, i, value)

StaffStep ==
  \/ \E u \in Units : \/ Decide(u)
                      \/ \E n \in Priorities \cup {db.unit[u].priority}, void \in BOOLEAN :
                              PatchUnit(u, n, void)
  \/ \E p \in Projects, all \in BOOLEAN : RouteProject(p, all)
  \/ \E a \in Annotators : ResumeAnnotator(a)

ClockStep ==
  \/ AvailableWork
  \/ \E u \in Units : \E i \in InStatus(db, u, "leased") : LeaseRunsOut(u, i)

Next == AnnotatorStep \/ StaffStep \/ ClockStep

Spec == Init /\ [][Next]_db

\* The same system while no reviewer decides or re-routes, and no admin sets priorities.
VoidUnit(u) == PatchUnit(u, db.unit[u].priority, TRUE)
CollectNext ==
  \/ AnnotatorStep \/ ClockStep
  \/ \E a \in Annotators : ResumeAnnotator(a)
  \/ \E u \in Units : VoidUnit(u)

CollectSpec == Init /\ [][CollectNext]_db

-----------------------------------------------------------------------------
(* What must be true of the tables.                                        *)

\* Every column holds a value of its type.
TypeOK == db \in Databases

\* The slots and labels tables agree: a slot is filled exactly while one valid
\* label occupies it, and that label is its holder's.  submit_label fills and
\* inserts in one transaction; a skip, a sweep, an admin's void and the void that
\* follows a pause must each take the two apart together.
FilledByOneLabel ==
  \A u \in Units : \A i \in DOMAIN db.slot[u] :
     LET occupants == {l \in ValidLabels(db, u) : db.label[l].slot = i}
     IN  IF db.slot[u][i].status = "filled"
         THEN \E l \in occupants : occupants = {l} /\ db.label[l].by = db.slot[u][i].by
         ELSE occupants = {}

\* next_task "keeps one annotator to one open task at a time" in a project.
OneTaskAtATime ==
  \A a \in Annotators : \A u, w \in Units : \A i \in DOMAIN db.slot[u], j \in DOMAIN db.slot[w] :
     Holds(db, a, u, i) /\ Holds(db, a, w, j) /\ ProjectOf[u] = ProjectOf[w]
       => u = w /\ i = j

\* Whoever holds a lease can submit on it: no lease is ever given or kept on a unit
\* the annotator already labeled, so the partial unique index on labels never
\* refuses an honest submit.
HolderMaySubmit ==
  \A a \in Annotators, u \in Units : \A i \in DOMAIN db.slot[u] :
     Holds(db, a, u, i) => ~HasValidLabel(db, a, u)

\* A unit has equally many slots of every variant value, and never more than
\* max_labels_per_unit, whatever skips, voids and growth rounds it went through.
VariantsBalanced ==
  \A u \in Units :
     /\ Cardinality(Live(db, u)) <= db.cap[ProjectOf[u]]
     /\ \A v, w \in Variants : Cardinality({i \in Live(db, u) : db.slot[u][i].variant = v})
                            = Cardinality({i \in Live(db, u) : db.slot[u][i].variant = w})

\* The stored status of a unit is the one its slots imply, or "finalized" with a
\* final label: no handler forgets to recompute it, recomputes it too early, or
\* drops a decision and leaves the status behind.
StatusFollowsRows ==
  \A u \in Units :
    IF db.unit[u].status = "finalized" THEN db.final[u].method # "none" ELSE db.unit[u].status = DerivedStatus(db, u)

\* An automatic decision always rests on the valid labels of a unit that has
\* collected all it asked for; when evidence is voided the decision goes with it.
AutoDecisionHasEvidence ==
  \A u \in Units : db.final[u].method = "auto_consensus" =>
     /\ db.unit[u].status = "finalized"
     /\ Complete(db, u)
     /\ db.final[u].value \in Votes(db, u)
     /\ ~SplitMayPass => Votes(db, u) = {db.final[u].value}

\* No collected unit is forgotten: it is decided, or queued for a reviewer.
CollectedIsRouted ==
  \A u \in Units :
     db.unit[u].status = "labeled" => db.unit[u].escalated \/ HumanDecided(db, u)

\* Pausing an annotator leaves no task in their hands (in a single project), so
\* the 403 of next_task is enough to keep them from labeling.
PausedHoldsNothing ==
  \A a \in Annotators : db.ann[a] = "paused" =>
     \A u \in Units : \A i \in DOMAIN db.slot[u] : ~Holds(db, a, u, i)

-----------------------------------------------------------------------------
(* What a request may never do.                                            *)

\* A reviewer's verdict is never replaced by an automatic one or dropped with
\* the labels underneath it.
HumanDecisionKept ==
  [][\A u \in Units : HumanDecided(db, u) => HumanDecided(db', u)]_db

\* A slot keeps its variant through every skip, expiry and void.
VariantRetained ==
  [][\A u \in Units : \A i \in DOMAIN db.slot[u] :
        i \in DOMAIN db'.slot[u] /\ db'.slot[u][i].variant = db.slot[u][i].variant]_db

=============================================================================
