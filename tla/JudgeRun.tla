------------------------------ MODULE JudgeRun ------------------------------
(***************************************************************************)
(* POST /projects/{id}/judges:run.  One request is one database            *)
(* transaction: it drives each target judge over the open slots, calling a *)
(* paid provider, and commits labels, cache entries and judge_runs rows    *)
(* only at its end.  Requests overlap; any of them may die.  A run sees    *)
(* committed rows and its own; a slot it touched stays locked, and so does *)
(* the row of every unit it settled.  What next_task, submit_label and     *)
(* skip_task do to one unit in full is modelled in Platform and            *)
(* Transactions; here a unit is its slots and its lock.                    *)
(***************************************************************************)
EXTENDS Naturals, Sequences, FiniteSets, FiniteSetsExt, Functions

CONSTANTS
  Judges,        \* model annotators, one per judge config version
  Enrolled,      \* project.config["judges"], a sequence
  Buildable,     \* judges whose provider can be built
  Budget,        \* the caps of each judge, None where a key is absent
  Runs,          \* requests
  Units, Golds,  \* units; those with an expected answer
  Slots,         \* numbers in the order they are handed out
  UnitOf, VariantOf,
  Limits,        \* values of the request's "limit"
  Attempts,      \* params.retries
  Price, Tokens, \* of one completion
  MaxEvents,     \* bound: what others do to the project meanwhile
  None

CapKinds == {"cost", "daily", "tokens", "labels"}
Prompts == [unit : Units, variant : Range(VariantOf), guidelines : Nat]

ASSUME JudgeAssumption ==
  /\ Attempts \in Nat \ {0} /\ Price \in Nat /\ Tokens \in Nat
  /\ Slots \subseteq Nat /\ IsFiniteSet(Slots) /\ Limits \subseteq Nat
  /\ UnitOf \in [Slots -> Units] /\ DOMAIN VariantOf = Slots /\ IsFiniteSet(Units) /\ Golds \subseteq Units
  /\ Enrolled \in Seq(Judges) /\ \A i, k \in DOMAIN Enrolled : Enrolled[i] = Enrolled[k] => i = k
  /\ Budget \in [Judges -> [CapKinds -> Nat \cup {None}]] /\ None \notin Nat \cup CapKinds
  /\ MaxEvents \in Nat /\ None \notin Judges \cup Runs \cup Slots \cup Prompts

VARIABLES
  slots,      \* committed slot rows: open, leased or filled
  labels,     \* committed label rows of judges
  cache,      \* committed judge_cache rows
  paused,     \* annotators committed as paused
  reports,    \* committed judge_runs rows
  guidelines, \* version of the project's guidelines
  day,
  events,     \* counts what others did, for MaxEvents
  picked,     \* voids under way: a unit and the valid labels read
  run,        \* each request's local state
  draft,      \* slots it locked, as it left them
  mine,       \* labels it inserted
  voided,     \* committed labels it voided
  stored      \* cache entries it wrote

store == <<slots, labels, cache, paused, reports>>
world == <<guidelines, day, events, picked>>
txn == <<draft, mine, voided, stored>>
vars == <<slots, labels, cache, paused, reports, guidelines, day, events, picked, run, draft, mine, voided, stored>>

Keys == Judges \X Units \X Range(VariantOf)
Live == {"begin", "pull", "call", "submit", "release", "commit"}
J(r) == Head(run[r].targets)
U(r) == UnitOf[run[r].slot]
\* The prompt a run assembles for the slot in hand, from the project as it was loaded.
Prompt(r, s) == [unit |-> UnitOf[s], variant |-> VariantOf[s], guidelines |-> run[r].guidelines]
Key(r, s) == <<J(r), UnitOf[s], VariantOf[s]>>

\* f with x set to v.
With(f, x, v) == [y \in DOMAIN f \cup {x} |-> IF y = x THEN v ELSE f[y]]

-----------------------------------------------------------------------------
\* What a run sees: committed rows under its own.
Slot(r, s) == IF s \in DOMAIN draft[r] THEN draft[r][s] ELSE slots[s]
Invalid(l) == [l EXCEPT !.valid = FALSE]
Voided(ls, gone) == {IF l \in gone THEN Invalid(l) ELSE l : l \in ls}
Rows(r) == Voided(labels, voided[r]) \cup mine[r]
Entry(r, k) == IF k \in DOMAIN stored[r] THEN stored[r][k] ELSE cache[k]
\* The row of a unit is locked by the run that settled one of its slots, until that run is over.
UnitsFree(r, us) == \A q \in Runs \ {r} : run[q].held \cap us = {}

\* Every charge is one Price, so a sum of charges is a count of them.
SpendOf(j, rows, today) ==
  LET own == {l \in rows : l.judge = j}
      Cost(ls) == Price * Cardinality({l \in ls : l.cost # 0})
  IN [cost   |-> Cost(own), daily |-> Cost({l \in own : l.day = today}),
      tokens |-> Tokens * Cardinality(own), labels |-> Cardinality(own)]
\* Mutant of Plus: labels that came from the cache do not count.
PlusPaid(spend, l) == IF l.hit THEN spend ELSE
  [spend EXCEPT !.cost = @ + l.cost, !.tokens = @ + l.tokens, !.labels = @ + 1]
Plus(spend, l) ==
  [cost |-> spend.cost + l.cost, daily |-> spend.daily + l.cost,
   tokens |-> spend.tokens + l.tokens, labels |-> spend.labels + 1]

Reached(j, spend, k) == Budget[j][k] # None /\ spend[k] >= Budget[j][k]
\* The first cap reached, in the order check_budget asks.
CapReached(j, spend) ==
  LET order == <<"cost", "daily", "tokens", "labels">>
      hit == {i \in 1..4 : Reached(j, spend, order[i])}
  IN IF hit = {} THEN None ELSE order[Min(hit)]

\* Slots the judge may take: open, locked by nobody else, of units it has neither labeled nor tried.
Takable(r) ==
  {s \in Slots : /\ Slot(r, s) = "open"
                 /\ \A q \in Runs \ {r} : s \notin DOMAIN draft[q]
                 /\ UnitOf[s] \notin run[r].attempted
                 /\ \A l \in Rows(r) : l.judge = J(r) /\ l.valid => UnitOf[l.slot] # UnitOf[s]}

-----------------------------------------------------------------------------
Step(r, rec) == run' = [run EXCEPT ![r] = rec]
\* The slot in hand is settled.
Settled(rec) == [rec EXCEPT !.slot = None, !.attempt = 1, !.hit = FALSE, !.reply = None, !.fatal = FALSE]
Blank(pc) ==
  [pc |-> pc, targets |-> <<>>, limit |-> 0, dry |-> FALSE, guidelines |-> 0, day |-> 0, seen |-> <<>>,
   attempted |-> {}, count |-> 0, labels |-> 0, cost |-> 0, hits |-> 0, spend |-> SpendOf(None, {}, 0),
   active |-> TRUE, suspended |-> {}, slot |-> None, attempt |-> 1, hit |-> FALSE, reply |-> None,
   fatal |-> FALSE, done |-> {}, held |-> {}]
\* Nothing of the transaction remains in the session.
Closed(r, pc) ==
  /\ Step(r, Blank(pc))
  /\ draft' = [draft EXCEPT ![r] = <<>>] /\ stored' = [stored EXCEPT ![r] = <<>>]
  /\ mine' = [mine EXCEPT ![r] = {}] /\ voided' = [voided EXCEPT ![r] = {}]

\* _finish writes the judge_runs row of the judge in hand; the request goes on to the next.
Ended(rec, reason, stopped) ==
  LET row == [judge |-> Head(rec.targets), dry |-> rec.dry, reason |-> reason, stopped |-> stopped,
              attempted |-> rec.count, labels |-> rec.labels, cost |-> rec.cost, hits |-> rec.hits]
      rest == Tail(rec.targets)
  IN [rec EXCEPT !.done = @ \cup {row}, !.targets = rest, !.attempted = {}, !.spend = SpendOf(None, {}, 0), !.active = TRUE,
                 !.count = 0, !.labels = 0, !.cost = 0, !.hits = 0,
                 !.pc = IF rest = <<>> THEN "commit" ELSE "begin"]
\* Goes on pulling, or stops at the first cap reached.
Checked(rec, spend) ==
  LET cap == CapReached(Head(rec.targets), spend)
      next == [Settled(rec) EXCEPT !.spend = spend, !.pc = "pull"]
  IN IF cap = None THEN next ELSE Ended(next, cap, TRUE)
\* Spend is read from the rows, and the caps checked, before anything is called.
Started(r, rec) ==
  LET j == Head(rec.targets)
      fresh == [rec EXCEPT !.active = j \notin paused, !.seen = With(@, j, {q \in Runs : run[q].pc = "done"})]
  IN Checked(fresh, SpendOf(j, Rows(r), rec.day))
Post(r) ==
  /\ run[r].pc = "idle"
  /\ \E targets \in {Enrolled} \cup {<<j>> : j \in Range(Enrolled)}, limit \in Limits, dry \in BOOLEAN :
       /\ targets # <<>> /\ Head(targets) \in Buildable
       /\ Step(r, Started(r, [Blank("begin") EXCEPT !.targets = targets, !.limit = limit, !.dry = dry,
                                !.guidelines = guidelines, !.day = day]))
  /\ UNCHANGED <<store, world, txn>>
Begin(r) ==
  /\ run[r].pc = "begin" /\ J(r) \in Buildable
  /\ Step(r, Started(r, run[r])) /\ UNCHANGED <<store, world, txn>>

\* The request dies: everything it wrote is gone, what the provider charged is not.
Dropped(r) == Closed(r, "failed") /\ UNCHANGED <<store, world>>
\* A provider that cannot be built fails the request, after earlier targets ran too.
Unbuildable(r) == run[r].pc = "begin" /\ J(r) \notin Buildable /\ Dropped(r)
Crash(r) == run[r].pc \in Live /\ Dropped(r)

\* next_task leases the first takable slot of one of the two pools; the cache may
\* have the reply to the very prompt this run would send.  Or the run is over.
\* Each unit is tried once by a run, however it turns out.
\* Mutant of Taken: slots are counted, and units set aside, only once they are labeled.
TakenLater(rec, s) == rec
Taken(rec, s) == [rec EXCEPT !.count = @ + 1, !.attempted = @ \cup {UnitOf[s]}]
\* Mutant of Hit: the prompt hash is not compared.
HitAny(r, s) == Entry(r, Key(r, s)) # None
\* Mutant of Hit: the cache is never asked.
HitNone(r, s) == FALSE
Hit(r, s) == Entry(r, Key(r, s)) = Prompt(r, s)
Pull(r) ==
  /\ run[r].pc = "pull"
  /\ LET over(reason, stopped) == Step(r, Ended(run[r], reason, stopped)) /\ UNCHANGED draft
     IN IF run[r].count >= run[r].limit THEN over("limit", FALSE)
        ELSE IF ~run[r].active THEN over("exhausted", TRUE)
        ELSE IF Takable(r) = {} THEN over("exhausted", FALSE)
        ELSE \E pool \in {Golds, Units \ Golds} :
          LET open == {s \in Takable(r) : UnitOf[s] \in pool}
          IN \E s \in open :
             /\ \A x \in open : s <= x
             /\ draft' = [draft EXCEPT ![r] = With(@, s, "leased")]
             /\ Step(r, [Taken(run[r], s) EXCEPT !.slot = s, !.hit = Hit(r, s), !.hits = IF Hit(r, s) THEN @ + 1 ELSE @,
                   !.reply = IF Hit(r, s) THEN Entry(r, Key(r, s)) ELSE None,
                   !.pc = IF run[r].dry THEN "release" ELSE IF Hit(r, s) THEN "submit" ELSE "call"])
  /\ UNCHANGED <<store, world, mine, voided, stored>>

\* call_with_retries: only a retryable error is tried again, and only so often.
MayRetry(r) == run[r].attempt < Attempts
Fail(r, fatal) == Step(r, [run[r] EXCEPT !.pc = "release", !.fatal = fatal])
Call(r) ==
  /\ run[r].pc = "call"
  /\ \/ Step(r, [run[r] EXCEPT !.pc = "submit", !.reply = Prompt(r, run[r].slot)])
     \/ MayRetry(r) /\ Step(r, [run[r] EXCEPT !.attempt = @ + 1])
     \/ ~MayRetry(r) /\ Fail(r, TRUE)            \* still a transient error
     \/ \E fatal \in BOOLEAN : Fail(r, fatal)    \* a permanent one, or a reply nobody can parse:
                                                \* paid for, and neither a label nor cached
  /\ UNCHANGED <<store, world, txn>>

\* skip_task: the slot goes back to the pool once the unit row can be locked.
\* Mutant of Reopened: a failed unit is not released.
ReopenedNot(r) == draft
Reopened(r) == [draft EXCEPT ![r][run[r].slot] = "open"]
Release(r) ==
  /\ run[r].pc = "release" /\ UnitsFree(r, {U(r)})
  /\ draft' = Reopened(r)
  /\ LET after == [Settled(run[r]) EXCEPT !.held = @ \cup {U(r)}, !.pc = "pull"]
     IN Step(r, IF run[r].fatal THEN Ended(after, "provider_error", TRUE) ELSE after)
  /\ UNCHANGED <<store, world, mine, voided, stored>>

\* Another valid label of the judge on the unit: the unique index refuses the insert.
Clash(r) == \E l \in Rows(r) : l.judge = J(r) /\ l.valid /\ UnitOf[l.slot] = U(r)
Refused(r) == run[r].pc = "submit" /\ UnitsFree(r, {U(r)}) /\ Clash(r) /\ Dropped(r)

\* Mutant of Paid: cache hits are charged like calls.
PaidAlways(r) == Price
Paid(r) == IF run[r].hit THEN 0 ELSE Price
NewLabel(r) ==
  [judge |-> J(r), slot |-> run[r].slot, run |-> r, hit |-> run[r].hit, valid |-> TRUE,
   cost |-> Paid(r), tokens |-> Tokens, day |-> run[r].day,
   reply |-> run[r].reply, asked |-> Prompt(r, run[r].slot)]
Cached(r) == IF run[r].hit THEN stored[r] ELSE With(stored[r], Key(r, run[r].slot), run[r].reply)
\* The labels a failed gold takes with it, all the judge's recent ones, and the slots
\* void_labels reopens for them: those that are not open already.
Reopens(r, gone) == {s \in {x.slot : x \in gone} : Slot(r, s) # "open"}
Recent(r) == {l \in Rows(r) \cup {NewLabel(r)} : l.judge = J(r) /\ l.valid}
Submit(r) ==
  /\ run[r].pc = "submit" /\ UnitsFree(r, {U(r)}) /\ ~Clash(r)
  /\ \E failed \in IF U(r) \in Golds THEN BOOLEAN ELSE {FALSE} :
       LET l == NewLabel(r)
           gone == IF failed THEN Recent(r) ELSE {}
           units == {UnitOf[x.slot] : x \in gone}
           reopened == Reopens(r, gone)
           after == [run[r] EXCEPT !.labels = @ + 1, !.cost = @ + l.cost, !.active = ~failed,
                      !.held = @ \cup units \cup {U(r)},
                      !.suspended = IF failed THEN @ \cup {J(r)} ELSE @]
       IN /\ UnitsFree(r, units)
          /\ draft' = [draft EXCEPT ![r] = [s \in DOMAIN draft[r] \cup reopened |->
                          IF s \in reopened THEN "open" ELSE IF s = run[r].slot THEN "filled" ELSE draft[r][s]]]
          /\ mine' = [mine EXCEPT ![r] = Voided(mine[r] \cup {l}, gone)]
          /\ voided' = [voided EXCEPT ![r] = @ \cup (gone \cap labels)]
          /\ Step(r, Checked(after, Plus(run[r].spend, l)))
  /\ stored' = [stored EXCEPT ![r] = Cached(r)]
  /\ UNCHANGED <<store, world>>

Commit(r) ==
  /\ run[r].pc = "commit"
  /\ slots' = [s \in Slots |-> Slot(r, s)] /\ labels' = Rows(r)
  /\ cache' = [k \in Keys |-> Entry(r, k)] /\ paused' = paused \cup run[r].suspended
  /\ reports' = [reports EXCEPT ![r] = run[r].done]
  /\ Closed(r, "done") /\ UNCHANGED world

\* Two requests that each wait for a unit the other holds: PostgreSQL fails one.
Wants(r) == IF run[r].pc \notin {"release", "submit"} THEN {}
            ELSE IF run[r].pc = "submit" /\ U(r) \in Golds THEN {UnitOf[l.slot] : l \in Recent(r)} ELSE {U(r)}
Deadlocked(r) ==
  /\ \E ring \in SUBSET Runs : /\ r \in ring
       /\ \A q \in ring : \E p \in ring \ {q} : Wants(q) \cap run[p].held # {}
  /\ Dropped(r)

-----------------------------------------------------------------------------
\* Everyone else: people who label, reviewers who void, edits of the project, and days that pass.
Untouched(u) == \A r \in Runs : u \notin run[r].held
Event == events < MaxEvents /\ events' = events + 1 /\ UNCHANGED <<cache, reports, run, txn>>
HumanLabels(s) ==
  /\ slots[s] = "open" /\ Untouched(UnitOf[s]) /\ \A r \in Runs : s \notin DOMAIN draft[r]
  /\ slots' = [slots EXCEPT ![s] = "filled"]
  /\ Event /\ UNCHANGED <<labels, paused, guidelines, day, picked>>
\* void_unit selects the valid labels, then locks: what is written between stays valid,
\* though every slot of the unit is reopened.
ReviewerReads(u) ==
  /\ picked' = picked \cup {[unit |-> u, labels |-> {l \in labels : UnitOf[l.slot] = u /\ l.valid}]}
  /\ Event /\ UNCHANGED <<slots, labels, paused, guidelines, day>>
ReviewerVoids(p) ==
  /\ p \in picked /\ Untouched(p.unit)
  /\ labels' = Voided(labels, p.labels)
  /\ slots' = [s \in Slots |-> IF UnitOf[s] = p.unit THEN "open" ELSE slots[s]]
  /\ picked' = picked \ {p}
  /\ UNCHANGED <<cache, paused, reports, guidelines, day, events, run, txn>>
EditGuidelines == guidelines' = guidelines + 1 /\ Event /\ UNCHANGED <<slots, labels, paused, day, picked>>
DayPasses == day' = day + 1 /\ Event /\ UNCHANGED <<slots, labels, paused, guidelines, picked>>
ResumeJudge(j) ==
  /\ j \in paused /\ paused' = paused \ {j}
  /\ Event /\ UNCHANGED <<slots, labels, guidelines, day, picked>>

Init ==
  /\ slots = [s \in Slots |-> "open"] /\ labels = {} /\ paused = {}
  /\ cache = [k \in Keys |-> None] /\ reports = [r \in Runs |-> {}]
  /\ guidelines = 0 /\ day = 0 /\ events = 0 /\ picked = {}
  /\ run = [r \in Runs |-> Blank("idle")]
  /\ draft = [r \in Runs |-> <<>>] /\ stored = [r \in Runs |-> <<>>]
  /\ mine = [r \in Runs |-> {}] /\ voided = [r \in Runs |-> {}]

\* A step of the thread that serves the request.
Serve(r) ==
  \/ Begin(r) \/ Unbuildable(r) \/ Pull(r) \/ Call(r) \/ Release(r)
  \/ Submit(r) \/ Refused(r) \/ Commit(r) \/ Deadlocked(r)
Environment ==
  \/ \E s \in Slots : HumanLabels(s)
  \/ \E u \in Units : ReviewerReads(u)
  \/ \E p \in picked : ReviewerVoids(p)
  \/ EditGuidelines \/ DayPasses
  \/ \E j \in Judges : ResumeJudge(j)
Next == Environment \/ \E r \in Runs : Post(r) \/ Crash(r) \/ Serve(r)
Spec == Init /\ [][Next]_vars
\* The server goes on serving a request it has taken; nobody else has to act.
FairSpec == Spec /\ \A r \in Runs : WF_vars(Serve(r))

-----------------------------------------------------------------------------
LabelRow == [judge : Judges, slot : Slots, run : Runs, hit : BOOLEAN, valid : BOOLEAN, cost : {0, Price},
             tokens : {Tokens}, day : 0..MaxEvents, reply : Prompts, asked : Prompts]
\* Every variable keeps its type; the slot in hand is leased, and a request that is over locks nothing.
TypeOK ==
  /\ slots \in [Slots -> {"open", "leased", "filled"}]
  /\ \A l \in labels : l \in LabelRow
  /\ paused \subseteq Judges /\ {guidelines, day} \subseteq 0..MaxEvents
  /\ \A r \in Runs :
       /\ run[r].pc \in Live \cup {"idle", "done", "failed"}
       /\ run[r].slot \in Slots \cup {None} /\ run[r].slot # None => draft[r][run[r].slot] = "leased"
       /\ \A l \in mine[r] : l \in LabelRow /\ l.run = r
       /\ voided[r] \subseteq labels
       /\ (run[r].pc \notin Live) => draft[r] = <<>> /\ mine[r] = {} /\ voided[r] = {} /\ run[r].held = {}

\* A hard stop: of the label rows a run read its spend from and its own, the last one
\* was written below every cap, however many caps, retries and cache hits (budget.py).
CapHeld ==
  \A r \in Runs : \A j \in DOMAIN run[r].seen :
    LET rows == {l \in Rows(r) : l.judge = j /\ (l.run = r \/ l.run \in run[r].seen[j])}
        spent == SpendOf(j, rows, run[r].day)
        call == [cost |-> Price, daily |-> Price, tokens |-> Tokens, labels |-> 1]
    IN (\E l \in rows : l.run = r) =>
         \A k \in DOMAIN spent : Budget[j][k] # None => spent[k] < Budget[j][k] + call[k]

\* A label answers the question it was asked for: the run's own guidelines, the
\* unit and the variant of its slot, also when the reply comes from the cache (cache.py).
AnswersItsPrompt ==
  \A l \in labels \cup UNION {mine[r] : r \in Runs} :
    /\ l.reply = l.asked
    /\ l.asked.unit = UnitOf[l.slot] /\ l.asked.variant = VariantOf[l.slot]

\* No lease of a judge outlives its request, whatever failed on the way: a committed slot is
\* open or filled, a request has only the slot in hand leased, and a slot it filled holds a
\* valid label of its own (_release, skip_task, void_labels). TypeOK says what is locked meanwhile.
NoLeaseLeft ==
  /\ TypeOK
  /\ \A s \in Slots : slots[s] # "leased"
  /\ \A r \in Runs : \A s \in DOMAIN draft[r] :
       /\ draft[r][s] = "leased" => s = run[r].slot
       /\ draft[r][s] = "filled" => \E l \in mine[r] : l.slot = s /\ l.valid

\* The judge_runs rows add up to the labels: a committed request reports each label it
\* wrote and what it cost, one that died leaves neither (orchestrator._finish).
ReportsAddUp ==
  \A r \in Runs :
    /\ \A row \in reports[r] :
         LET own == {l \in labels : l.run = r /\ l.judge = row.judge}
         IN /\ row.labels = Cardinality(own) /\ row.cost = Price * Cardinality({l \in own : ~l.hit})
            /\ row.dry => own = {}
            /\ row.labels <= row.attempted /\ row.attempted <= Cardinality(Units)
    /\ \A l \in labels : l.run = r => run[r].pc = "done" /\ \E row \in reports[r] : row.judge = l.judge

\* A reply that became a label of a finished request is not bought again, except after the
\* guidelines were edited: then the one cache entry of the unit holds the reply to another
\* prompt, or did.  Of replies that nobody could parse it says nothing: they are bought again.
\* (judges/cache.py, models/judge_cache.py)
PaidOnce ==
  \A r \in Runs : run[r].pc = "call" =>
    LET asked == Prompt(r, run[r].slot)
        known == {l \in labels : l.judge = J(r) /\ l.reply.unit = asked.unit /\ l.reply.variant = asked.variant}
    IN (\E l \in known : l.run \in run[r].seen[J(r)] /\ l.reply = asked) => \E l \in known : l.reply # asked

\* A request that was taken ends, committed or rolled back, whatever the provider
\* answers and whoever else runs (orchestrator.run_judge, call_with_retries).
RunEnds == \A r \in Runs : run[r].pc \in Live ~> run[r].pc \in {"done", "failed"}
=============================================================================
