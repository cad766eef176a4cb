----------------------------- MODULE Completion -----------------------------
(***************************************************************************)
(* Who is told what about a project: project.completed, and                *)
(* review.queue_backlog.  Both are sent from inside the request that       *)
(* submits, decides or re-routes, before it commits; the delivery rows it  *)
(* writes are also how project.completed knows it was sent already.  A     *)
(* request sees committed rows and its own, and keeps every unit it wrote  *)
(* locked to its end.  Two requests on one unit are the subject of         *)
(* Transactions: here a unit is read and written in one step, under its    *)
(* lock, and what matters is what overlapping requests see of each other.  *)
(***************************************************************************)
EXTENDS Naturals, FiniteSets

CONSTANTS
  Units,            \* unit ids, in order of creation
  Starts,           \* what the units may look like at first
  Requests,
  Hooks, EventOf,   \* webhooks registered now or later, the event of each
  Registered,       \* those registered now
  Threshold,        \* config review.backlog_threshold
  Attempts,         \* of one delivery
  Flaky,            \* webhooks whose receiver may be down
  MaxEvents,        \* bound
  None

Unit(status, escalated, final, late) ==
  [status |-> status, escalated |-> escalated, final |-> final, late |-> late]
Statuses == {"collecting", "labeled", "finalized"}
\* A finalized unit has a final label, and leases may still be out on it: their labels come late.
UnitRow == {row \in [status : Statuses, escalated : BOOLEAN, final : {"none", "auto", "human"}, late : BOOLEAN] :
              /\ row.status = "finalized" => row.final # "none"
              /\ row.late => row.status = "finalized"}

ASSUME CompletionAssumption ==
  /\ EventOf \in [Hooks -> {"completed", "backlog"}] /\ Registered \subseteq Hooks
  /\ Flaky \subseteq Hooks /\ None \notin Units \cup Hooks
  /\ {Threshold, Attempts} \subseteq Nat \ {0} /\ MaxEvents \in Nat
  /\ Units \subseteq Nat /\ IsFiniteSet(Units)
  /\ Starts \subseteq [Units -> UnitRow]
  /\ \A start \in Starts : \E u \in Units : start[u].status # "finalized"   \* not complete yet

VARIABLES
  unit,     \* committed units with their final labels
  webhooks, \* committed webhooks
  rows,     \* committed webhook_deliveries
  down,     \* receivers whose answer is an error, or does not arrive
  got,      \* what receivers were told, ever
  req,      \* each request's local state
  draft,    \* units it wrote
  log,      \* delivery rows it flushed
  events,   \* counts voids and edits of webhooks, for MaxEvents
  alone     \* history: no two transactions have ever overlapped

store == <<unit, webhooks, rows>>
world == <<down, got, events, alone>>
vars == <<unit, webhooks, rows, down, got, req, draft, log, events, alone>>

Live(r) == req[r].pc \notin {"idle", "done", "failed"}
Quiet == \A r \in Requests : ~Live(r)
Unlocked(r, u) == \A q \in Requests \ {r} : u \notin DOMAIN draft[q]
See(r, u) == IF u \in DOMAIN draft[r] THEN draft[r][u] ELSE unit[u]

\* Mutant of Depth: counted before the escalation is flushed.
DepthBefore(r) == Cardinality({u \in Units : unit[u].escalated /\ unit[u].status # "finalized"})
Depth(r) == Cardinality({u \in Units : See(r, u).escalated /\ See(r, u).status # "finalized"})
Unfinalized(r) == {u \in Units : See(r, u).status # "finalized"}
\* Mutant of AlreadyAnnounced: a delivery that failed does not count.
AlreadyDelivered(r) == \E d \in rows \cup log[r] : d.event = "completed" /\ d.status = "delivered"
AlreadyAnnounced(r) == \E d \in rows \cup log[r] : d.event = "completed"
Subscribers(event) == {h \in Hooks : webhooks[h] = "active" /\ EventOf[h] = event}

-----------------------------------------------------------------------------
Blank(pc) == [pc |-> pc, kind |-> "none", todo |-> {}, event |-> "none", on |-> None, queue |-> {},
              hook |-> None, attempt |-> 1, sent |-> {}]
Step(r, rec) == req' = [req EXCEPT ![r] = rec]
Closed(r, pc) ==
  Step(r, Blank(pc)) /\ draft' = [draft EXCEPT ![r] = <<>>] /\ log' = [log EXCEPT ![r] = {}]
Dropped(r) == Closed(r, "failed") /\ UNCHANGED <<store, world>>

\* The units POST /projects/{id}/route considers.
Routable(included) ==
  {u \in Units : unit[u].status = "labeled" \/ (included /\ unit[u].status = "finalized")}
Begin(r, kind, units) ==
  /\ req[r].pc = "idle"
  /\ Step(r, [Blank("act") EXCEPT !.kind = kind, !.todo = units])
  /\ alone' = (alone /\ Quiet)
  /\ UNCHANGED <<store, down, got, events, draft, log>>
\* Whether a label can come for the unit.
Open(s) == s.status = "collecting" \/ s.late
\* The label that fills the last slot of a unit, or one that comes late; a decision; a re-routing.
Submit(r) == \E u \in Units : Open(unit[u]) /\ Begin(r, "submit", {u})
Decide(r) == \E u \in Units : Begin(r, "decide", {u})
Route(r) == \E included \in BOOLEAN : Begin(r, "route", Routable(included))

\* finalize_unit: whoever holds a lease keeps it.
Finalized(s, method) ==
  {Unit("finalized", FALSE, method, late) : late \in IF s.status = "collecting" THEN BOOLEAN ELSE {s.late}}
Escalated(s) == [s EXCEPT !.escalated = TRUE]
\* What comes of a unit, and the event that is then checked for.
Came(ss, event) == {[unit |-> s, event |-> event] : s \in ss}
\* route_unit: nothing, if a reviewer decided; else the last stages of the default pipeline.
Routed(s) ==
  IF s.final = "human" THEN Came({s}, "none")
  ELSE Came({Escalated(s)}, "backlog") \cup Came(Finalized(s, "auto"), "completed")
\* A late label that is not the last, or opens another round of slots.
Belated(s) ==
  IF ~s.late THEN {}
  ELSE Came({s, [s EXCEPT !.late = FALSE], [s EXCEPT !.status = "collecting", !.late = FALSE]}, "none")
\* apply_consensus_policy once every slot is filled: the raters agree, or the unit is escalated.
Labeled(s) ==
  LET full == [s EXCEPT !.status = IF s.late THEN @ ELSE "labeled", !.late = FALSE]
  IN Routed(full) \cup Routed(Escalated(full)) \cup Belated(s)
Outcomes(kind, s) ==
  CASE kind = "decide" -> Came(Finalized(s, "human"), "completed")
    [] kind = "submit" -> Labeled(s)
    [] OTHER -> Routed(s)
\* Units are handled in the order of their ids.
Turn(r) == {u \in req[r].todo : \A x \in req[r].todo : u <= x}
Act(r) ==
  /\ req[r].pc = "act"
  /\ \E u \in Turn(r) :
       LET kind == req[r].kind
       IN /\ Unlocked(r, u) /\ (kind = "submit" => Open(See(r, u)))
          /\ \E came \in Outcomes(kind, See(r, u)) :
               /\ draft' = [draft EXCEPT ![r] = [v \in DOMAIN draft[r] \cup {u} |->
                                                   IF v = u THEN came.unit ELSE draft[r][v]]]
               /\ Step(r, [req[r] EXCEPT !.todo = @ \ {u}, !.event = came.event, !.on = u,
                                         !.pc = IF came.event = "none" THEN "act" ELSE "check"])
  /\ UNCHANGED <<store, world, log>>
\* Someone else's label was the last one: the slot is taken, 409.
Late(r) ==
  /\ req[r].pc = "act" /\ req[r].kind = "submit"
  /\ \E u \in Turn(r) : Unlocked(r, u) /\ ~Open(unit[u])
  /\ Dropped(r)

\* check_project_completed and check_backlog, up to the list of receivers.
Due(r) ==
  CASE req[r].event = "completed" -> Unfinalized(r) = {} /\ ~AlreadyAnnounced(r)
    [] OTHER -> Depth(r) = Threshold
Check(r) ==
  /\ req[r].pc = "check"
  /\ LET hooks == IF Due(r) THEN Subscribers(req[r].event) ELSE {}
     IN Step(r, [req[r] EXCEPT !.queue = hooks, !.pc = IF hooks = {} THEN "act" ELSE "send"])
  /\ UNCHANGED <<store, world, draft, log>>

\* One attempt at one receiver; the query that lists them orders nothing.
Delivery(r, h, status) ==
  [hook |-> h, event |-> req[r].event, by |-> r, on |-> req[r].on, status |-> status, attempts |-> req[r].attempt]
\* Mutant of GivesUp: a receiver that is down is tried for ever.
NeverGivesUp(r) == FALSE
GivesUp(r) == req[r].attempt >= Attempts
\* Mutant of Verdict: whoever was tried to the end counts as told.
VerdictTried(r, ok) == IF ok \/ req[r].attempt = Attempts THEN "delivered" ELSE "failed"
Verdict(r, ok) == IF ok THEN "delivered" ELSE "failed"
Send(r) ==
  /\ req[r].pc = "send"
  /\ \E h \in IF req[r].hook = None THEN req[r].queue ELSE {req[r].hook} :
     LET ok == h \notin down
         rest == req[r].queue \ {h}
     IN /\ \E told \in {TRUE, ok} :   \* an answer may be lost on the way back
             got' = IF told THEN got \cup {[hook |-> h, by |-> r, on |-> req[r].on]} ELSE got
        /\ Step(r, IF ok \/ GivesUp(r)
                   THEN [req[r] EXCEPT !.queue = rest, !.hook = None, !.attempt = 1,
                                       !.pc = IF rest = {} THEN "flush" ELSE "send",
                                       !.sent = @ \cup {Delivery(r, h, Verdict(r, ok))}]
                   ELSE [req[r] EXCEPT !.hook = h, !.attempt = IF @ < Attempts THEN @ + 1 ELSE @])
  /\ UNCHANGED <<store, down, events, alone, draft, log>>
\* emit's flush: a webhook deleted meanwhile fails the foreign key, and with it the request.
Orphaned(r) == \E d \in req[r].sent : webhooks[d.hook] # "active"
Flush(r) ==
  /\ req[r].pc = "flush" /\ ~Orphaned(r)
  /\ log' = [log EXCEPT ![r] = @ \cup req[r].sent]
  /\ Step(r, [req[r] EXCEPT !.pc = "act", !.sent = {}])
  /\ UNCHANGED <<store, world, draft>>
Refused(r) == req[r].pc = "flush" /\ Orphaned(r) /\ Dropped(r)

Commit(r) ==
  /\ req[r].pc = "act" /\ req[r].todo = {}
  /\ unit' = [u \in Units |-> See(r, u)] /\ rows' = rows \cup log[r]
  /\ Closed(r, "done") /\ UNCHANGED <<webhooks, world>>
Crash(r) == Live(r) /\ Dropped(r)
-----------------------------------------------------------------------------
\* Transactions of one statement each: a void, and the webhooks of an admin.
Short ==
  /\ events < MaxEvents /\ events' = events + 1
  /\ alone' = (alone /\ Quiet)
  /\ UNCHANGED <<down, got, req, draft, log>>
\* Voided evidence takes an automatic decision with it, but no reviewer's, and leaves escalated_at.
Voided(s) ==
  IF s.final = "human" THEN [s EXCEPT !.status = IF @ = "labeled" THEN "collecting" ELSE @, !.late = FALSE]
  ELSE Unit("collecting", s.escalated, "none", FALSE)
Void(u) ==
  /\ \A r \in Requests : u \notin DOMAIN draft[r]
  /\ unit' = [unit EXCEPT ![u] = Voided(@)]
  /\ Short /\ UNCHANGED <<webhooks, rows>>
PostHook(h) ==
  /\ webhooks[h] = "absent" /\ webhooks' = [webhooks EXCEPT ![h] = "active"]
  /\ Short /\ UNCHANGED <<unit, rows>>
\* Its deliveries go with it; rows another request flushed keep it until that one ends.
DeleteHook(h) ==
  /\ webhooks[h] = "active" /\ \A r \in Requests : \A d \in log[r] : d.hook # h
  /\ webhooks' = [webhooks EXCEPT ![h] = "deleted"]
  /\ rows' = {d \in rows : d.hook # h}
  /\ Short /\ UNCHANGED unit
Toggle(h) ==
  /\ down' = IF h \in down THEN down \ {h} ELSE down \cup {h}
  /\ UNCHANGED <<store, req, draft, log, got, events, alone>>

Init ==
  /\ unit \in Starts
  /\ webhooks = [h \in Hooks |-> IF h \in Registered THEN "active" ELSE "absent"]
  /\ rows = {} /\ down = {} /\ got = {} /\ events = 0 /\ alone = TRUE
  /\ req = [r \in Requests |-> Blank("idle")]
  /\ draft = [r \in Requests |-> <<>>] /\ log = [r \in Requests |-> {}]

Serve(r) == Act(r) \/ Late(r) \/ Check(r) \/ Send(r) \/ Flush(r) \/ Refused(r) \/ Commit(r)
Next ==
  \/ \E r \in Requests : Submit(r) \/ Decide(r) \/ Route(r) \/ Serve(r) \/ Crash(r)
  \/ \E u \in Units : Void(u)
  \/ \E h \in Hooks : PostHook(h) \/ DeleteHook(h)
  \/ \E h \in Flaky : Toggle(h)
Spec == Init /\ [][Next]_vars
\* The server goes on serving a request it has taken.
FairSpec == Spec /\ \A r \in Requests : WF_vars(Serve(r))

-----------------------------------------------------------------------------
\* Every variable keeps its type: a finalized unit has a final label, and no two
\* requests hold one unit.
TypeOK ==
  /\ \A u \in Units : unit[u] \in UnitRow
  /\ webhooks \in [Hooks -> {"absent", "active", "deleted"}] /\ down \subseteq Flaky
  /\ \A r, q \in Requests : r # q => DOMAIN draft[r] \cap DOMAIN draft[q] = {}
  /\ \A r \in Requests : ~Live(r) => draft[r] = <<>> /\ log[r] = {}

Reports(d, told) == d.hook = told.hook /\ d.by = told.by /\ d.on = told.on
\* The delivery log tells what happened, though answers get lost: each row is of a webhook
\* that exists and a request that committed, it says delivered only if the receiver was
\* told, and failed only after every attempt; and of all that a committed request told a
\* webhook which still exists there is a row (dispatch.emit).
RowsTellTheTruth ==
  /\ TypeOK
  /\ \A d \in rows :
       /\ webhooks[d.hook] = "active" /\ req[d.by].pc = "done" /\ d.event = EventOf[d.hook]
       /\ d.status = "delivered" => \E told \in got : Reports(d, told)
       /\ d.status = "failed" => d.attempts = Attempts
  /\ \A told \in got :
       webhooks[told.hook] = "active" /\ req[told.by].pc = "done" => \E d \in rows : Reports(d, told)

Announcements(h) == {d \in rows : d.hook = h /\ d.event = "completed"}
\* Requests one after the other announce completion, and once: whenever nothing is
\* under way and every unit is finalized, by whatever mix of submits, decisions and
\* re-routings, with receivers down, requests dying, voids and webhooks deleted in
\* between, each webhook registered from the start has its row; and no later decision,
\* void or re-completion adds another (finalize.check_project_completed, _already_announced).
AnnouncedOnce ==
  alone =>
    /\ Quiet /\ (\A u \in Units : unit[u].status = "finalized") =>
         \A h \in Registered : webhooks[h] = "active" /\ EventOf[h] = "completed" => Announcements(h) # {}
    /\ \A h \in Hooks : Cardinality(Announcements(h)) <= 1

InQueue(u) == unit[u].escalated /\ unit[u].status # "finalized"
QueueDepth == Cardinality({u \in Units : InQueue(u)})
Joins(u) == ~InQueue(u) /\ InQueue(u)'
\* Requests one after the other: a submit, decision or re-routing that takes the review queue
\* to its threshold, by units not decided before, one or several at a time, tells every
\* backlog webhook there was (review.check_backlog).
BacklogTold ==
  [][alone /\ QueueDepth < Threshold /\ (\A u \in Units : Joins(u) => unit[u].final = "none")
      => \A r \in Requests :
           Commit(r) /\ QueueDepth' >= Threshold =>
             \A h \in Subscribers("backlog") : \E d \in rows' : d.hook = h /\ d.by = r]_vars

\* Every request ends, receivers down or not: sending is tried so often and no more,
\* and no two requests wait for each other, since a re-routing takes units in the order
\* of their ids (dispatch.emit, review.post_route).
RequestEnds == \A r \in Requests : Live(r) ~> ~Live(r)

\* "It fires once per completion" (finalize.py:15): also when the last two decisions overlap.
CompletionAnnounced ==
  Quiet /\ (\A u \in Units : unit[u].status = "finalized") =>
    \A h \in Registered : webhooks[h] = "active" /\ EventOf[h] = "completed" => Announcements(h) # {}
=============================================================================
