# MiniLP, specified in TLA+

MiniLP is a labeling platform. Projects hold *units* of data; every unit is
labeled by several annotators, humans and model judges; disagreement buys more
labels or a reviewer; the decided answer is a *final label*. This directory
specifies the platform's core in TLA+, model-checks it with TLC on small
instances and proves its main invariants with TLAPS for every instance.

Paths below are relative to `src/backend/app/` unless they start with `src/`.

## 1. Inventory

| Component | State it keeps | Operations | Talks to |
|---|---|---|---|
| slots (`services/slots`) | `slots` rows: variant, status, holder, lease expiry; `units.status` | plan balanced slots, reopen, derive status, void labels | called by everything below, in the caller's transaction |
| assignment (`services/assignment/engine.py`) | leases on slots, `labels`, `task_events` | `next_task`, `submit_label`, `skip_task`, `sweep_expired_leases`, `void_unit`, `available_work` | slots; calls the quality pipeline inside `submit_label` |
| quality (`services/quality`) | `labels.gold_passed`, `annotators.status` and reputation, `units.escalated_at`, new slots | canonicalize, grade golds, pause, consensus, grow overlap, agreement statistics | slots; calls routing when a unit stops collecting |
| routing and review (`services/merge`) | `final_labels`, `units.status`, `units.escalated_at` | merge votes, run the pipeline stages and their conditions, review queue, decide | webhooks |
| judges (`services/judges`) | `judge_configs`, `judge_runs`, `judge_cache` | run, dry run, retry, cache, budget, attach, detach | drives assignment as an annotator; webhooks |
| webhooks (`services/webhooks`) | `webhooks`, `webhook_deliveries` | emit with retries | called inside the requests above |
| projects (`services/projects`) | `projects` | create, edit, reshape overlap, rebind to a new schema | slots, templates |
| ingest (`services/ingest`) | `units`, `slots`, `batches` | bulk upload | slots |
| templates (`services/templates`) | `templates` | validate, assign keys, version, clone, delete | projects |
| active learning (`services/active_learning`) | `units.priority`, checkpoints | score, rank, register a checkpoint, iterate | judges' configs and labels |
| marketplace, export, analytics, measure | none of their own | bundles, JSONL export, read-only aggregates, offline studies | read the tables |
| frontend (`src/frontend/src`) | browser state | annotation, review, admin console, template builder | the HTTP API |

A request is one database transaction: `db.py` commits when the endpoint returns
and rolls back when it raises. No process runs in the background: expired leases
are swept only at the head of `next_task` and `available_work`.

What is hard here, and what makes each component correct:

* **Several tables move together.** A submit writes a slot, a label, a unit
  status, perhaps a pause that voids *other* labels and reopens *other* units,
  perhaps new slots, perhaps a final label. A void must take all of that back.
  Correct: slots, labels, status and decision never disagree.
* **People act at any moment.** An admin voids or re-routes and a reviewer decides
  while annotators hold leases and leases run out. Correct: a live lease passes to
  nobody else; a holder can submit; a reviewer's verdict stays.
* **Balance.** Slots of a unit are balanced over presentation variants, and growth,
  skips, expiries and voids must not disturb that.
* **Requests overlap inside the database.** PostgreSQL runs them at READ COMMITTED,
  with row locks, `SKIP LOCKED` and rows the session has cached. Correct: what a
  request decides from rows it read still holds when it writes, and nobody waits
  for ever.
* **Judge runs** make paid calls in one long transaction. Correct: a cap stops the
  run, every label answers its own prompt, no lease and no half-written report
  outlives the request, an answer that was stored is not bought again, and the run ends.
* **Events** are sent from inside the request, before it commits, to receivers that
  may be down, or whose answer may be lost. Correct: the delivery log is true, and
  completion is announced once.
* **Settings change under live work.** Correct: K stays collectable, answers keep
  their meaning, judges stay apart, collected work is kept, a bundle restores its
  project.
* **Algorithms** read what is left of all this: votes in arrival order, sides that
  mean another item in each variant, rules that are not transitive. Correct: what
  they promise, of every input the callers can build.

`PROJECT.json` lists every component with its status, and every hazard at its line.

## 2. Modules

`Store` -> `Quality` -> `Routing` -> `Platform` extend one another, like the
packages they model call one another; `Platform` takes a request as one step.
`Transactions` opens the requests up: it models the same functions statement by
statement, over several connections, and implements `SlotLedger`. `JudgeRun`,
`Completion` and `Settings` each model one kind of long or overlapping request
with its own surroundings. The pure algorithms are operators in seven modules
that `Workbench` composes and feeds.

| Module | Models | How |
|---|---|---|
| `Store` | the tables and `services/slots` | The database is one record `d`, a field per table. A service function that runs in its caller's transaction is an operator from `d` to the new `d`: `Reopen`, `Recompute`, `VoidLabels`, ... |
| `Quality` | `services/quality` as it acts on the tables | `Grade`, `BelowGoldThreshold`, `PauseAnnotator`, `Complete`, `Agreed`, `GrowOverlap`, `Escalate`, `ApplyConsensusPolicy` |
| `Routing` | `services/merge` as it acts on the tables | `Merges` (the outcomes a merge may have), `RouteUnit`, `FinalizeUnit`, `Decisions` |
| `Platform` | `services/assignment/engine.py` and the endpoints of `api/` | `VARIABLE db`; one action per request (`NextTask`, `Submit`, `Skip`, `AvailableWork`, `PatchUnit`, `Decide`, `RouteProject`, `ResumeAnnotator`) and one for the clock (`LeaseRunsOut`) |
| `Transactions` | the requests of `engine.py`, `review.py`, `api/units.py` and `api/review.py` as statements of concurrent sessions | `db` is what is committed; `ses[s]` is a session: its position, what it has read, the rows `w` it wrote but has not committed; `locks` the row locks. One action per statement that waits, reads or commits |
| `SlotLedger` | what the engine promises about `slots` and `labels` | one step per granted request, on the rows of that moment; `Transactions` implements it (`GrantedAtOnce`) |
| `JudgeRun` | `api/judges.py`, `services/judges`: a run request over its judges | `run[r]` is the request's local state, `draft`/`mine`/`voided`/`stored` what it wrote and has not committed. `Pull`, `Call`, `Submit`, `Release`, `Commit` are the loop of `run_judge`; `Crash` and `Deadlocked` end it anywhere; others label, void, edit, resume |
| `Completion` | `merge/finalize.py`, `merge/review.py`, `webhooks/dispatch.py`, `api/webhooks.py` | `req[r]` does `Act` (a submit, a decision, the next unit of a re-routing), `Check` (is an event due), `Send` (one attempt at one receiver), `Flush`, `Commit`; `Crash`, voids and webhook edits happen meanwhile |
| `Settings` | `projects/service.py`, `templates/repository.py`, `judges/configs.py`, `active_learning/checkpoints.py`, `marketplace/bundle.py`, ingest | a request reads (`view`) in one step and writes against the rows of the moment in a second; `Effects(op, v, d)` is what each operation may leave, the empty set if it is refused |
| `Answers` | `quality/canonical.py`, `quality/matching.py` | raw answers made canonical; the match rules |
| `Comparisons` | `judges/prompt.py`, `analytics/bias.py`, preference export | what each side means, per variant; bias, flips, pairs |
| `Ballots` | `quality/consensus.py`, `merge/merge.py`, `merge/weights.py`, peer agreement | consensus, weighted merge, confidence and entropy of one unit's votes; what an export ships |
| `Standing` | `quality/reputation.py` | the reputation score |
| `Conditions` | `merge/condition.py` | the recursive-descent evaluator, a recursive function of the grammar level and the token it is at, and the grammar it reads |
| `Hotkeys` | `templates/validation.py`, `templates/hotkeys.py` | what is refused, and which key means what |
| `Batches` | `active_learning/selection.py` | score, rank, thin out, cut off |
| `Studies` | `quality/agreement.py`, `measure/metrics.py` | kappa, and lease episodes of the event log |
| `Workbench` | their callers | `bench` is one algorithm's input, which grows by one step at a time |
| `MCPlatform`, `MCTransactions`, `MCJudgeRun`, `MCCompletion`, `MCSettings`, `MCWorkbench` | - | constants and symmetry for TLC |
| `PlatformProofs`, `LabelProofs` | - | theorems about `Platform`, section 5 |
| `TransactionProofs`, `LedgerProofs` | - | theorems about `Transactions` and `SlotLedger` |
| `CompletionProofs`, `JudgeProofs` | - | theorems about `Completion` and `JudgeRun` |
| `SettingsProofs` | - | theorems about `Settings` |
| `WorkbenchProofs` | - | theorems about `Standing`, `Hotkeys`, `Batches`, `Comparisons`, `Conditions` and `Studies`, as `Workbench` feeds them |

An action is the whole request. `Submit`, for example, is
`Fill` (slot filled, label stored, status derived), then `EnforceGoldThreshold`
(which may pause the annotator and void the label just stored), then
`ApplyConsensusPolicy` (which may add slots or escalate), then, if the unit
stopped collecting, `RouteUnit`: the order of `quality/pipeline.py`.

### What is abstracted in Store to Platform

* A label carries the answer to one question, compared by the `exact` rule.
  (`Ballots` has several keys and every rule.)
* Reputation moves between any two merges, so `Merges` leaves the winner among
  the cast votes open, and whether a split vote clears the `auto_finalize` gate
  open too when the project's condition can hold of one (`SplitMayPass`). For the same
  reason the `min_reputation` gate of `next_task` (`engine.py:103-124`) is left out: it
  refuses a request and changes nothing, so every behaviour with it is one without it.
* Time is one bit per lease, "has run out", that the clock may set at any moment.
* `labels` is append-only, so a label's position is its id and its age. The overlap of a
  project is fixed there: what lowering K does to slots is in `Settings`. That it also deletes
  the voided labels on them (section 4) is not modelled: no property is about a voided label.
* Latencies, costs and payloads are not kept: nothing modelled there reads them back.
* In `Platform` requests are taken one at a time. `Transactions` says how far that
  is justified: between workers it is (`GrantedAtOnce`), when a void or a second
  request of one annotator takes part it is not (section 4).
* A pipeline is the default one, `ensemble -> auto_finalize -> human_review`.

### How `Transactions` reads the database

* A statement sees the committed rows and its own; `FOR UPDATE` waits, then checks
  the row again; `SKIP LOCKED` passes over locked rows.
* `db.get(..., with_for_update=True)` locks a row, but a row the session has loaded
  keeps its attributes unless `populate_existing` is asked for. The slots ask for
  it, the unit does not. An attribute set to the value it was loaded with is not
  written (`Recount`). Autoflush is off (`db.py`).
* A label and a task event reference their unit, and inserting one takes a key
  share lock on it, which only `FOR UPDATE` excludes.
* Kept from `Platform`: slots, status, labels, who decided. Left out: golds, pauses,
  variants, growth (a full unit is finalized or sent to review), `escalated_at`,
  the values and provenance of decisions, the locks on label rows. The slots of a
  void are locked in any order; `final_label_for` (`LIMIT 1` without an order) may
  return any of the unit's rows.
* `Rollback` may end any session at any time: a dropped connection, an error, or
  the victim PostgreSQL picks in a deadlock.

### How `JudgeRun` reads a run

* What `next_task`, `submit_label` and `skip_task` do to one unit in full is in
  `Platform` and `Transactions`. Here finding a slot, leasing it and looking its
  prompt up in the cache is one step, since nobody else acts on what it reads in
  between; the unit is locked when its slot is settled.
* A lease in hand from before the run cannot occur, since no run commits one. A judge
  paused before the run, or by it, is refused the next slot, and the run stops.
* The project's guidelines and the judge's row are as the session loaded them first
  and go stale when others change them.
* A provider fails for good, fails in a way that is retried, or answers; an answer
  parses or does not; an answer that does not is charged and leaves nothing behind (section 4). A void reads the valid labels in one step
  (`ReviewerReads`) and locks and reopens in another (`ReviewerVoids`), as `void_unit` does. A day is the sliding 24 hours of `judge_spend`: when it passes,
  all earlier spend is outside the window.
* `Deadlocked` ends a request only when it really is in a circle of waits.

### How `Completion` and `Settings` read requests

* `Completion` reads and writes a unit in one step, under its lock; what matters is
  what overlapping requests see of each other, and the sends between the steps.
  Receivers go down and up, and the answer of one that is down may only have been lost
  after it was told (`dispatch.py:155-165`); `got` is what they were told, whether or not
  the request commits. A unit is finalized, labeled or collecting, with a final label or
  without: one that a reviewer decided while leases were out (`late`) gets their labels,
  and may go back to collecting and be escalated with the verdict in place.
* In `Settings` a schema is its shape, the inputs and variants that versions compare
  (`versioning.py:40-48`), and the order of its panels, which they do not compare and
  which says what an A or a B stands for. A slot is filled or open, leases and voided
  labels are left out. Labels, further rounds of slots,
  decisions of both kinds and voids come between the requests of admins; `passed` is a
  history: the last raise of K passed the unit over because it was finalized. Names keep how they were derived (`copies`, `imported`), which is what the
  unique constraint compares. A request may fail at any point between read and write.
  `alone` records that no two transactions have ever overlapped, and the properties
  that the code gives only to requests one after the other say so.

### How the algorithms read their inputs

* What a string reads as when trimmed, parsed or split is a constant function.
  Values are tagged with their kind.
* `Standing` has the weights of the parts of a reputation, the priors and the penalties at
  their defaults (`quality/thresholds.py`), which a project's config may override.
* Quantities are exact: percents and thousandths where the code has floats, halves
  for numbers, a reputation out of 1,008,000, which every denominator the
  runs reach divides (beyond them a division rounds down). The two epsilons of `consensus.py` are in the integer comparisons.
  Entropy uses logarithms to three places, which tell zero from positive; nothing
  is claimed of its other values.
* A row of a query without an order comes in any order within its unit.

## 3. Runs

All runs finish, in under five minutes each.

| Run | Instance | Shows |
|---|---|---|
| `Core` | 1 unit, 3 annotators, K = 2 growing to 3, 2 answers, 3 label rows | slots, labels, status and decision agree in every state; verdicts are kept |
| `Gold` | 2 units, the first gold, 2 variants, K = 2 growing to 4, 2 annotators, half of the tasks gold, split votes may pass the gate, 3 label rows, voids | one task at a time; a holder can submit; a paused annotator holds nothing; a failed gold leaves no slot filled by a voided label; the counterbalance and the cap survive everything |
| `Requests` | 1 unit with 2 slots, 2 connections, 3 annotators, 2 label and 2 final label rows: next, available, submit, skip, decide, route | the committed rows agree (`RowsAgree`), no cycle of waits; slots and labels change as if requests came one at a time; no submit or decision replaces a verdict or is about to write an automatic value into one |
| `Voids` | 2 connections, 2 annotators: next, submit, void | a full unit is noticed and leases are honoured also while a void runs |
| `Judges` | 2 overlapping requests, 2 judges of which one cannot be built, 2 units of 2 slots, one gold, every kind of cap, 2 attempts, 1 event of others | caps, prompts, leases, reports and the cache |
| `JudgeEnds` | 2 requests, 2 judges, 2 units of 1 slot, one gold, 2 attempts, limit 1, fair server | every run ends |
| `Completed` | 2 units, 2 requests, both units open or one decided with a lease out, 3 webhooks, one with a receiver that may be down, threshold 2, 2 attempts, 2 events, fair server | the delivery log is true; completion once; backlog told; requests end |
| `Admin` | 2 sessions, 2 requests, 2 shapes, K of 1, 2 and 4, a lineage of templates; to begin with, a project with two judges and a half collected unit, one without judges and with a finalized unit; 1 more project, 1 event among labels, rounds, decisions and voids | judges stay apart; shapes change by updates only; lineages go whole; a bundle restores its project; units have the slots K asks for; collected work and other projects' units stay |
| `Algorithms` | see below | the eight properties of `Workbench` |
| `Overruled` | 1 unit with 1 slot, 2 connections, 1 annotator: next, submit, decide, route | **violated**: a re-routing replaces a verdict |
| `Strayed` | 1 unit with 1 slot, 2 connections, 2 annotators: next, submit, void | **violated**: a filled slot has two valid labels |
| `Unannounced` | 2 units in review, 2 requests | **violated**: a project completes and nobody announces it |

Why the bounds are enough. Every property of `Platform` relates the rows of one unit,
of one annotator and a unit, or of one annotator and two units; the instances have
one more annotator than any of them names where sharing matters (`Core`), two units
where two are named (`Gold`). K = 2 with a cap of 3 is the smallest overlap with
agreement, a split, one growth round and a full unit. `MaxLabelRows` bounds the
only table that grows; 3 rows are enough to fill a unit, void it and label it
again, or, with two units of which one is gold, to fail the gold with a label outstanding
on the other, so that the pause voids both. It is stated in the guard of `Submit` only. `Gold` serves
what collects labels (`CollectSpec`: tasks, submits, skips, expiry, voids, resumption);
what decides is in `Core`. Both runs check deadlock; the system never stops,
because a sweep is always possible.

The runs of `Transactions` have one unit of two slots: two last fills, the smallest
void that has two rows to lock, and a slot for each of two concurrent leases. Every
lock is on a row of one unit or its slots, so a cycle of waits inside a unit needs
no second unit; cycles over several units are the subject of `NoDeadlockTheorem`. A connection serves any number of requests in turn,
so while one of the two waits or holds what it read, the other can carry through
whatever sequence of requests third parties make; what needs three at once is a
circle of three waits, and a request holds at most the slots and the unit of one
chain. `MaxLabelRows` and `MaxFinalRows` are stated in the guards of `Fill` and
`Record`. TLC's own deadlock check says little here, since a session may always roll
back; `NoDeadlock` states that no sessions wait on each other, unless one of them sweeps the
leases of several units.

`Judges` and `JudgeEnds` have two units, since a run excludes those it tried, and a
gold, since failing one pauses the judge and voids its labels, in other units too.
Two requests overlap in every way three could as far as a property of one run and
the committed rows is concerned. A request that ended is not taken again, so these
runs, those of `Completion` and of `Settings` stop, and say `CHECK_DEADLOCK FALSE`. `MaxEvents`
bounds what others do meanwhile.

`Completed` needs two units, the last two of a project; two sends of one event, to a
receiver registered from the start and one registered later; and two events (a void
and a second decision, or a webhook deleted and added). `Admin` bounds the requests
at two, which may overlap or follow one another; every pair of operations is tried
on a database that already holds two versions of a template and of a judge, a unit with an open and a filled
slot, and a finalized one. So two requests and one event are a raise of K that passes
a unit over, the void of that unit and a lowering of K, or a label that arrives between a
raise and a lowering.

`Algorithms` builds every input up to these lengths: 4 labels of a comparison; 3
votes on two keys under two policies and on one key under a third; 7 golds over a window of 6, with 2 compared
answers, 2 clicks and 6 flags; conditions of 5 tokens; templates of 3 inputs out of
16, which between them have every type, every kind of explicit key and every defect; pools
of 4 units; studies of 2 units, 3 raters and 2 answers; event logs of 5 events over 2
slots, in which leases end as submitted, skipped or expired. 3 votes are the smallest
number with a majority that is not unanimous and with a chain of near-misses; 5
tokens are the shortest input on which `a < b < c` and `!a && b` differ from other
readings; 7 golds are one more than the window; 3 inputs are a first choice input
and two that share the letters. An input does not change once given, so the runs
say `CHECK_DEADLOCK FALSE`.

Annotators, sessions, judge requests and, where no constant names an answer, answers
are symmetric; the two runs that check liveness use no symmetry.

Fairness is assumed of one thing: a request that the server has taken is served,
`WF_vars(Serve(r))` in `JudgeRun` and `Completion`. The endpoints are synchronous
functions run by a thread of the server and every call they make out has a bounded
number of attempts, so nothing but the death of the process stops them, and that is
`Crash`, which ends the request too. Nobody is assumed to send a request, to answer, to
void or to come back. No progress of annotation is claimed; the code would justify little:
an annotator who skips is handed the same slot again, and a unit grown beyond the
number of annotators never completes.

## 4. Where documentation and code differ

Three statements of the documentation do not hold of the code, each shown by a run:

* `merge/finalize.py:15-16`: project.completed "fires once per completion". The
  count of undecided units takes no lock, so two transactions that decide the last
  two units each count the other's as open; neither announces, and nothing later
  does (`Unannounced`). Requests one after the other do announce it, and once
  (`AnnouncedOnce`).
* `merge/pipeline.py:22-25`: "a reviewer's decision must not be undone by a later
  automatic pass". `route_unit` looks for a verdict (`pipeline.py:318`), `finalize_unit`
  reads the final label again (`finalize.py:54`) and updates what it finds, and
  `POST /projects/{id}/route` holds no lock: a decision committed in between is
  overwritten in place (`Overruled`). A submit holds the lock of the unit from its first
  read on, and `VerdictKept` holds of it (`Requests`).
* `docs/MEASUREMENT.md:191`: "every filled slot has exactly one valid label". A void
  picks the labels before it locks the slots (`engine.py:496`); a label committed
  in between stays valid on a slot that is then reopened and filled again (`Strayed`).

Others have no run of their own; the properties that are checked say what does hold
instead. With requests one after the other:

* `merge/weights.py:38-40`: "a unit voted on only by discredited raters still merges
  to *something* with a visibly low confidence". Weights are floored but a confidence
  is a share of the total, so discredited raters who agree, or one alone, have
  confidence 1.0, above the 0.9 of the default `auto_finalize`: `MergeSound` has it that a
  unit whose votes are one answer has full confidence, whoever cast them.
* `judges/cache.py:1`: "identical calls are never paid for twice". A reply that does not
  parse is paid for and neither stored nor cached (`orchestrator.py:282-287`), so the next
  run makes the same call. `PaidOnce` is about replies that became labels.
* `merge/review.py:17-18`: "'depth just became the threshold' is exactly the moment the
  backlog formed". A unit that was decided while a lease was out can be reopened by the
  late label, then escalated; `route_unit` returns at the verdict (`pipeline.py:318-321`)
  before it checks the backlog. `Completed` reaches this; `BacklogTold` is about units not
  decided before.
* `projects/service.py:136`: "Grow or shrink every unit's slot pool to `new_k`". Finalized
  units are passed over, and a void puts one back to collecting with the slots it had.
  `Admin` reaches this; `CollectsK` allows these units (`passed`) and no others.
* `templates/versioning.py:6`: "already-collected labels are never silently re-shaped".
  The display is not compared, so the sources of a panel group can be swapped in place, and
  with them what a stored A and B stand for. `Admin` swaps them; `ShapeKept` is about inputs
  and variants only.
* `slots/lifecycle.py:63`: "Labels are kept (`is_valid=False`) as an audit trail". Lowering
  K deletes open slots, those a void reopened too, and the foreign key of a label cascades
  (`models/label.py:40-42`), so the voided labels go. `WorkKept` is about filled slots.
* `merge/pipeline.py:22-25`: "A unit that is already finalized by a *human* is left
  strictly alone". A lease that was out when the reviewer decided is still
  submitted; the consensus policy then sees a complete, disagreeing unit, grows it
  and sets `in_progress` (`quality/consensus.py:238`). The verdict row survives
  (`HumanDecisionKept`), the unit's status follows its slots again.
* `merge/finalize.py:64-65`: "A finalized unit is out of review". Re-routing with
  `include_finalized` can escalate one.
* `docs/DESIGN.md:703-704`: the paused "stop voting entirely". A pause takes no lease
  back, so one held in another project is still submitted.
* `merge/merge.py:11-12`: consensus and merge "can never disagree". Consensus asks of
  each vote how many match it, the merge puts each vote in the first bucket it
  matches: votes 3, 4, 5 within 1 are a consensus on 4, and a merge whose winner
  depends on which came first; and lists in another order are one answer to `exact`
  in one and not in the other. `MergeSound` states how far they do agree.
* `quality/agreement.py`: Cohen's kappa pairs the votes of a unit in the order of the
  rows, not rater by rater. `KappaTrue` bounds it by Fleiss'.
* `measure/metrics.py:355-358`: an episode closes "at the next terminal event". A void
  reopens leased slots and logs none, so those stay open for good.
* `review.queue_backlog` is told again when a unit is routed again while the queue
  is at the threshold.
* Raising K by a number the variants do not divide, or a second `template_schema` for
  one project, ends in an error of the planner or of the unique constraint;
  a new schema leaves slots in the variants of the old one; lowering K deletes open
  slots in any order, and so may unbalance a unit.

With two requests that overlap:

* `docs/DESIGN.md:335`: "one open task at a time". `next_task` locks nothing that
  belongs to the annotator, so two of their requests lease two slots.
* `docs/DESIGN.md:75`: "Unit status is computed under a unit-row lock". `next_task`
  reads the unit without one (`engine.py:343`): it sees `in_progress`, a skip of the
  last other lease makes it `pending`, and it stays so with a slot leased.
* `slots/lifecycle.py:33-35`: a finalized unit whose evidence is withdrawn "must fall
  back to a collecting state". The void's session loaded the unit before it was
  finalized and the lock does not reload it: the final label goes, the status stays.
* `slots/lifecycle.py:68-70`: "A unit a human decided is left alone". The void reads an
  automatic decision, a reviewer overrides it in place, the void deletes the row.
* `merge/finalize.py:3`: "One row per unit". Two decisions that see no row insert one
  each; `final_labels.unit_id` is indexed, not unique.
* `judges/budget.py:5-7`: a cap "holds across process restarts, concurrent runs and
  manual re-runs". The spend is read once, when a run starts on a judge, so two runs
  together pass the cap by what each spends; `CapHeld` is about what a run read and
  spent itself.
* `judges/cache.py:1` once more: two overlapping runs may both miss and both pay. The one entry of a unit and side is also overwritten
  when the guidelines change, and by an older run that commits later, so a prompt paid
  for may be paid for again; `PaidOnce` is about finished runs and allows the second case,
  where another reply of that unit and side is there to show for it.
* `webhooks/dispatch.py:1`: deliveries are "*always* recorded". The row goes with the
  request when it rolls back; the receiver has been told. `RowsTellTheTruth` is about
  the rows there are, and about requests that committed.
* `judges/configs.py:165-166`: "attaching twice returns the same annotator". Two
  overlapping requests create two raters for one config; `OneOfEach` asks that of
  requests one after the other, and that raters are never shared of all.
* `engine.py:458-459`: rows are locked with SKIP LOCKED "so concurrent sweepers/workers
  never contend". The slots are; the units of the slots are then locked one by one, with
  a wait, in the order of a Python set (`engine.py:477`). Two sweeps that reclaim leases
  of the same two units may each hold the unit the other wants. `NoDeadlock` allows that
  circle and no other.

No run claims a deadlock-free void: `NoDeadlock` is checked of all other requests,
and the comment in `submit_label` promises no more. A void that holds the unit and wants a slot can
wait on a skip that holds the slot and wants the unit.

## 5. Proofs

TLAPS checks these for every set of projects, units, annotators, judges, slots,
sessions, requests and webhooks and every value of the settings.

| Theorem | Module | Says |
|---|---|---|
| `TypeCorrect` | `PlatformProofs` | `Spec => []TypeOK` |
| `OneTaskTheorem` | `PlatformProofs` | `Spec => []OneTaskAtATime` |
| `HolderMaySubmitTheorem` | `PlatformProofs` | `Spec => []HolderMaySubmit` |
| `PausedTheorem` | `PlatformProofs` | `Spec => []PausedHoldsNothing`, if there is one project |
| `HumanDecisionTheorem` | `PlatformProofs` | `Spec => HumanDecisionKept` |
| `VariantTheorem` | `PlatformProofs` | `Spec => VariantRetained` |
| `BalanceTheorem` | `PlatformProofs` | `Spec => []VariantsBalanced` |
| `FilledByOneLabelTheorem` | `LabelProofs` | `Spec => []FilledByOneLabel` |
| `StatusTheorem` | `LabelProofs` | `Spec => []StatusFollowsRows` |
| `EvidenceTheorem` | `LabelProofs` | `Spec => []AutoDecisionHasEvidence` |
| `RoutedTheorem` | `LabelProofs` | `Spec => []CollectedIsRouted` |
| `NoticeTheorem` | `TransactionProofs` | `Spec => []FullUnitNotice`, whatever requests overlap |
| `HonouredTheorem` | `TransactionProofs` | `Spec => LeaseHonoured`, whatever requests overlap |
| `RowsAgreeTheorem` | `LedgerProofs` | `Spec => []RowsAgree`, if no request is a void |
| `VerdictTheorem` | `LedgerProofs` | `Spec => VerdictKept /\ VerdictStands`, if no request is a void or a re-routing |
| `GrantedTheorem` | `LedgerProofs` | `Spec => GrantedAtOnce`, the refinement of `SlotLedger`, if no request is a void |
| `NoDeadlockTheorem` | `LedgerProofs` | `Spec => []NoDeadlock`, if no request is a void |
| `RowsTheorem` | `CompletionProofs` | `Spec => []RowsTellTheTruth`, whatever requests overlap |
| `AnnouncedTheorem` | `CompletionProofs` | `Spec => []AnnouncedOnce` |
| `BacklogTheorem` | `CompletionProofs` | `Spec => BacklogTold` |
| `NoLeaseTheorem` | `JudgeProofs` | `Spec => []NoLeaseLeft`, whatever runs overlap or die |
| `AnswersTheorem` | `JudgeProofs` | `Spec => []AnswersItsPrompt` |
| `ReportsTheorem` | `JudgeProofs` | `Spec => []ReportsAddUp` |
| `PaidTheorem` | `JudgeProofs` | `Spec => []PaidOnce` |
| `CapTheorem` | `JudgeProofs` | `Spec => []CapHeld`, for any caps and any number of overlapping runs |
| `OneOfEachTheorem` | `SettingsProofs` | `Spec => []OneOfEach`, which includes types and references between rows |
| `CollectsKTheorem` | `SettingsProofs` | `Spec => []CollectsK` |
| `ShapeKeptTheorem` | `SettingsProofs` | `Spec => ShapeKept`, whatever requests overlap |
| `LineageWholeTheorem` | `SettingsProofs` | `Spec => LineageWhole`, whatever requests overlap |
| `WorkKeptTheorem` | `SettingsProofs` | `Spec => WorkKept` |
| `BundleRestoresTheorem` | `SettingsProofs` | `Spec => BundleRestores`, whatever requests overlap |
| `ReputationTheorem` | `WorkbenchProofs` | `Spec => []ReputationHonest`, for records of any length, if the window and the samples a pause needs are at least five |
| `HotkeysTheorem` | `WorkbenchProofs` | `Spec => []HotkeysUnambiguous`, for templates of any length and any pools of keys |
| `BatchTheorem` | `WorkbenchProofs` | `Spec => []BatchRight`, for pools of any size, any scores and any relation of near duplicates |
| `SidesTheorem` | `WorkbenchProofs` | `Spec => []SidesTold`, for any labels on two panels shown in both orders |
| `ConditionTheorem` | `WorkbenchProofs` | `Spec => []ConditionRead`, for conditions of any length and any metrics |
| `EpisodesTheorem` | `WorkbenchProofs` | `Spec => []EpisodesTrue`, for logs of any length, any slots and any raters |

### Assumed of the constants

`Store`, `Quality`, `Routing` and `Platform` state what `create_project` validates, and
that gold ratio and thresholds are numbers in range. `Transactions` assumes that
every unit has a slot (`labels_per_unit >= 1`), that units are finitely many, that units and
slots are numbered, as rows are, and that `None` is none of the rows. `Completion` assumes a finite set of
units, thresholds and attempts of at least one, and that the project is not complete
to begin with. `JudgeRun` assumes finite sets of units and slots, slots numbered in the
order in which they are handed out, a list of enrolled judges that names none twice
(`attach_judge` adds a config that is not yet there), at least one attempt
per call, prices and caps that are whole numbers of the millionth of a dollar to which
`budget.py` rounds, each cap a number or absent, and that `None` is none of the rows. `Settings` assumes that every schema
has at least one variant, and of the rows there are at first (`GenesisAssumption`) that they are
what requests one after the other would have left. That an installation starts so is the
lemma `FreshIsSound`: any templates, and nothing else yet; that requests keep it so is
what `SettingsProofs` shows, so any later day of an installation may be taken for the
first. `Standing` assumes that the window and the samples are numbers, `Hotkeys` that keys
are strings, `Batches` that the size asked for is a number, `Comparisons` that there are two
panels and that both orders of them are presented (`PanelsAssumption`), `Workbench` that the inputs
of a template and the units of a pool are of the form the schema validator and the
scorer let through, that tokens are strings, that a lease ends in one of the terminal
events, and that no slot and no rater is named like the marks of a free or filled slot
(`LogAssumption`). TLC evaluates all of these on every run.

Six theorems have a hypothesis besides. Each is needed. TLC shows it of five: a pause
takes back the leases of the project it is about and no other (section 4), so
`PausedHoldsNothing` needs `SingleProject`; a void picks labels and slots before it
locks them, and holds a unit while it waits for slots (section 4), so `RowsAgree`,
`VerdictKept`, `GrantedAtOnce` and `NoDeadlock` need `NoVoids`, `"void" \notin Served`;
and a re-routing holds no lock between looking for a verdict and writing (`Overruled`), so
`VerdictStands` needs `NoRouting`, `"route" \notin Served`, too; `VerdictKept` alone, which is
about the steps of submits and decisions, is checked with re-routings by `Requests`. What does hold with voids is in `NoticeTheorem` and
`HonouredTheorem`. `ReputationTheorem` supposes that `gold_window` and `gold_min_samples` are at
least 5, as by default they are (20 and 5, `quality/thresholds.py:25-29`). With four golds
the prior weighs more: who failed all of them scores 2/6 and may stand at 1/2 by agreeing with
every peer; who passed all of them, agrees with none, clicks one side only and is
flagged as too fast stands at 3/4 less a quarter, at 1/2 too. The demo data is set up with a window of 4 and 3
samples, and there `reputation.py`'s "dominant" is not true of every rater.

### Arguments about `Platform`

*Types.* One lemma per operator, "a database goes to a database"; each request
chains the lemmas in the order in which it chains the operators.

*Leases.* `HolderMaySubmit` is not inductive: a submit gives its annotator a
valid label on the unit, which would strand a second lease of theirs on it.
Together with `OneTaskAtATime` it is (`LeaseInv`). Only `Lease` and `Fill` give an
annotator anything; for every other operator the relation `Shrinks` (no lease and
no valid label gained) is proved, and `Shrinks` keeps `LeaseInv`. So only two
operators need an argument about the invariant itself. `PausedHoldsNothing` follows
with one more fact: a submit pauses only its caller, whose one lease it has just
filled, and `next_task` hands nothing to the paused.

*History.* `Keeps(d, e)` says that verdicts and variants of `d` survive in `e`, and that
`e` is balanced if `d` is. It is transitive and holds of every operator; `VoidLabels` is the one that
needs the order of the code: what it unwinds is computed before anything changes,
and holds no human decision. Balance needs no more than that variants are kept and
that growth appends a slot plan, which is balanced and a multiple of the variants.

*Labels.* `FilledByOneLabel` counts labels; `Match` says the same without a count: a
valid label names a slot its author fills, no two valid labels name one slot, and a
filled slot is named by one. Two kinds of step touch a filled slot or a valid label:
`Fill`, which adds one of each, and a void, which takes both back in `VoidLabels`.
Every other operator leaves filled slots and valid labels as they were
(`SameFilled`), and `SameFilled` keeps `Match`.

*Decisions.* `Sound(d, u)` is the invariant, of one unit: its status is the derived
one or "finalized" with a final label; an automatic decision has its votes; a
collected unit is queued or decided. Inside a submit it fails for the unit submitted
to, between the fill and the routing; that unit is then `Pending`, which says that it
has no automatic decision, and `RouteUnit` turns a pending unit into a sound one.
Everything else leaves what `Sound` reads alone (`SameView`) or reopens the unit.
Evidence is the hard part: a pause inside a submit voids labels of *other* units, and
those must lose their automatic decision in that same step.

### Arguments about overlapping requests

*`Transactions`.* What is committed says little by itself, since a session in the
middle of a request has rows of its own. `SesInv(db, locks, s, st)` describes one
session phase by phase: what it wrote, what the committed rows underneath still say,
and which locks keep them so. A step of `s` must establish its own next phase; the
only thing that can disturb another session `t` is the commit of `s`, and `Stable`
shows it does not, because a commit writes rows that `s` has locked against `t`.
`FullUnitNotice` is carried by that: who fills a slot counts the unit's slots
after it has locked the unit, so what it counts is committed or its own. Voids are
included: they write what they lock, too, and merely choose it by stale rows.

*`LedgerProofs`* adds the rows of `labels` and `final_labels` (`Wrote`) under
`NoVoids`: a submit inserts one label, for the slot it fills; a decision updates a row
it has locked; a unit marked finalized comes with a final
label. From these each commit changes slots and labels as one step of `SlotLedger`,
and every other step stutters. `VerdictKept` is about requests of which none re-routes,
and rests on `VerdictInv`: the slots of a unit with an automatic final label are all
filled, so a submit, which fills one more, settles a unit without a final label and
inserts its own; what a decision overwrites it writes as "human". With a re-routing the
first half is no help, since that fills no slot: section 4.

*`NoDeadlock`* is about circles of any number of sessions over any number of units.
`AllInOrder` is inductive: a session that holds a slot only goes on to its unit and the final
label, and a session that decides holds nothing but units and final labels it is done
with, all before the unit it is at, because routing goes through the units in order.
Take a set of sessions that wait for one another and the greatest unit one of them
waits for, itself or its final label. Whoever holds that final label is done with the
unit and waits for a greater one; whoever holds that unit is done with it too, or waits
for its final label, or sweeps and waits for another unit. Only the last can be. That a
finite set of numbers has a greatest is by induction on its size, which the prover can
do as the least number without the property (`LeastNumber`).

*`Completion`.* `LogInv` says where each request stands: whom it has told, of which
units, which rows it has flushed. It is inductive under every overlap, and gives
`RowsTellTheTruth`. The other two properties are of requests one after the other, and
`OneByOne` speaks of the history so far (of the backlog only
while units are decided, not reopened): while completion has not been told,
no committed row says so; once the last unit is decided the request at
work is the one to tell; and a queue at the threshold has been told by the request
that brought it there.

*`JudgeRun`.* A run commits once, after many steps, so nearly all of `JudgeInv` is about
what a request holds uncommitted. `Sound`: of the slots it touched only the one in
hand is leased, every slot it filled has a valid label of its own, its counters are the
sizes of its sets of labels, judge by judge. `Apart`: what it voids and what it took
from the cache fit the committed rows. `Separate`: no two requests touched one slot.
The hard step is a failed gold, which voids the judge's recent labels of *earlier*
runs and reopens their slots: those slots are in no other draft, because a draft with
a voided or fresh label holds its unit's lock (`held`), and the void waits for that
lock. The reports count labels, the proof counts slots, one label each (`Distinct`). A reviewer's void is two steps, and the labels picked by
the first may be stale at the second: it reopens slots, and leaves whatever label
came in between.
For `PaidOnce`, the cache entry of a unit this run has not tried is the committed one,
and every committed label's key has an entry (`CacheTrue`); so when the lookup misses,
the entry holds another reply, which some label shows. Of replies that became no label this says
nothing, and could not: section 4.

`CapHeld` takes a second invariant, `SpendInv`: what a run in its loop takes for its
spend is the total of the rows it counts, and below every cap. The run only adds, so
the rows have to stand still meanwhile. Voids keep a row's run, slot, cost and day and
so mirror the rows (`Mirrors`), and a run that commits in between was not finished when
this one read. Then the one label written after the last check is the only one that can
pass a cap (`PlusWithin`). A total is a price times a count of pairs of run and slot,
because every charge is one price; nothing is summed row by row.

*`Settings`.* A request writes rows (`d`) it has not read: it read `v`, and others have
committed since. All it may count on is `Later(v, d)`: tables only grow, and of the rows
it read neither the name, version and shape of a template (its panels may be), nor the project of a unit,
nor a config or a rater is another now. `SettingsInv` says that the committed rows are
`Whole` (rows refer to rows that exist, nobody is enrolled twice), that what each
session was asked made sense of the rows it read, and that these were whole and the
committed rows are `Later`. For every operation one lemma (`EditEvolves`,
`UpdateEvolves`, `AttachEvolves`, ..., collected in `EffectsEvolve`) says, under `Later`
alone, that it leaves whole rows that are `Later` again; `Later` is transitive, so no
session's view is upset by the commit of another. The lemmas have a second half for the
case `v = d`, which is what requests one after the other see: judges are told apart, K is
collectable, filled slots are kept, a unit no raise of K passed over has its slots
(`Covered`), and a request other than an update of its own project leaves
units and bindings as they are (`Reach`). That needs `alone` in the invariant: while it holds,
at most one session is at work and its view is the committed rows.

The hard operation is `UpdateProject`, which may at once bind the project to a copy
of its schema, change K and remake every undecided unit: `ReshapedRefits` counts
the slots of a unit before and after, by the size of a union of two plans that share no
id (`Plan` numbers on from `next`), and by the size of a set less the surplus. The ids
are why `Sound` has to say that an id names one slot of its unit. `ImportBundle` gives
configs the versions that follow those there are, also when one name occurs twice in a
bundle. `Without`, the list of judges without one, is a recursive function, and that it
takes its entries from that list, none of them twice, is by induction on the length of the
list: the shortest prefix on which it fails cannot be.

### Arguments about the algorithms

Nothing that is computed of a standing, a template, a pool or a condition depends on how
it was built, so of these `BenchInv` only says that the input at hand is one: a record of
flags and counts, with no more agreements than comparisons; a list of inputs, units or
tokens. A log does depend on it, and there `BenchInv` holds `LogInv`.

*Reputation.* A score is a chain of rounded quotients whose denominators change with
the input, and the prover has no arithmetic for that. `QuotientOrder` compares two
quotients by cross-multiplying, and everything after it is about sums. One more gold adds
an index to the window and drops the oldest one once the window is full (`GradedWindow`), so a pass
adds one to passes and trials, or swaps one gold for another (`PassedWindow`, `FailedWindow`).
Dominance compares two bounds: the composite of who passed n golds is at least 3/4 of
(n + 2)/(n + 2), less at most a quarter of penalties; of who failed them all it is at most
3/4 of 2/(n + 2) and a quarter for agreement: a half against 13/28, for n = 5.

*Hotkeys.* `NoProblems` turns "no error was collected" into what each check ruled out.
An option's key is then one of the claimed ones (`KeyIsClaimed`), and claims have
different keys, so two options with one key are one option: a template that lists an option
twice, where `KeyMap` keeps the last key, is refused before keys matter. Inputs at the end move nothing because
an input draws from the letters left by those before it (`PrefixDraws`) and the checks
of the shorter list are among those of the longer one (`PrefixFlawless`).

*Batches.* What is kept is a recursive function down the ranking; `KeptFacts` says of each
rank what is in it, by the least rank at which that fails. A place in the ranking counts the
units before a unit, and no two units have the same (`PlaceFacts`), so at most as many as
the batch is asked for have a place in it, and exactly that many if there are enough
(`FirstPlaces`). A unit that is left out although nothing like it ranks before it meets a
full batch that way. Scores enter only through the order
`Before`, so the theorem holds of any rounding of `Informativeness`.

*Comparisons.* The labels under one order are as many as under the other (`HalfUnder`), so there are
some under both. A rater faithful to an item clicks first just where the item is first: the
clicks on either side are the labels under either order, and cancel. One faithful
to a side gives the items the votes of either order, and ties (`FaithfulToItem`,
`FaithfulToSide`). All values under one order are then the
same, and the only one is the most common (`OneValue`).

*Conditions.* The parser is a function of the grammar level and the token, defined by calls of
itself; that such a function exists is shown by iterating the calls often enough
(`ParserExists`), since each goes to a later token or, on one token, to a lower level.
The grammar is a function of the level and of both ends, which gives the set of values the
tokens between may have; it exists for the same reason (`ValuesExist`), fewer tokens or a
lower level being asked. What the parser reads is among the values the grammar gives, from the
last token to the first (`ParserDerives`). Conversely it stops nowhere too early: from
few tokens to many, what has a value in the grammar is read to its end and with that value,
if no operator follows that would carry the reading on (`ParserCompletes`). That clause is what
makes the induction go through: a cut at an operator ends the left side just there, and
the operators of a level are none its left operands go on over. So no condition has two values,
and `&&` binds tighter than `||` whatever the length.
Two environments with the same names make it read equally far from everywhere
(`ParsedAlike`): whether an operator is met is a matter of tokens, both sides of "and" and
"or" are evaluated whatever the first is worth, and a comparison of numbers does not
raise. The sentinel of the check and the metrics of a unit have the same names, and this is
what would fail if a unit without votes lacked those of the merge.

*Episodes.* One more event is one more turn of the loop (`FlowAppend`), so `LogInv` may say
of the log so far what the loop has computed: the counts (`Counted`), and that the open
episodes are the leases held and some that were voided (`OpenAre`). That
skips are served again as counted is not inductive, because the count changes with a
later lease. `Remembered` is what it needs: the skip a rater has not followed with a lease is one at
most, it is the slot in `last_skipped`, and its rater holds nothing. For this `OneEach`,
that nobody holds two slots, has to be part of the invariant: a rater with two leases
who skipped both would leave two skips waiting, and the loop remembers one.

### Model-checked only

`MergeSound` and `KappaTrue` of `Workbench`, and the properties under fairness (`RunEnds`,
`RequestEnds`). Liveness and ENABLED are beyond the prover. The other two speak of the entropy
of a vote, in thousandths from a table of logarithms up to five votes (`Log`), so they mean
nothing beyond that size; and what they compute is folded, sorted or compared with a second
recursion: sums of weights, buckets grown vote by vote, statistics over pairs of rows.
`TypeOK` of the platform and `VariantRetained` are proved and no run repeats them.

## 6. Not modelled, and the plan

Next, in order of importance:

1. `Transactions` further: growth and gold pauses inside a submit, several units.
2. The annotation and review views of the frontend as clients of `Platform`.
3. Bulk approval of the review queue, and pipelines with other stage orders.

Left out: prompt text and HTTP clients of model vendors, the text of replies,
signatures and payloads of webhooks, validation of uploaded rows, panels and preview
of templates, presentation (widgets, themes), read-only counts (`distribution`,
`progress`, `roster`, `unit_detail`) and the report of the measurement harness, the
demo data script, roles and migrations: text, input and output, or projections of the
tables with no state of their own.
