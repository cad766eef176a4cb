--------------------------- MODULE CompletionProofs ---------------------------
(***************************************************************************)
(* What receivers are told, proved for any number of units, requests and   *)
(* webhooks: the delivery rows are true however requests overlap; and of   *)
(* requests one after the other, completion is announced once and a review *)
(* queue that reaches its threshold always.                                *)
(***************************************************************************)
EXTENDS Completion, FiniteSetTheorems, TLAPS

Events == {"completed", "backlog"}
Sending == {"check", "send", "flush"}
Pcs == Sending \cup {"idle", "act", "done", "failed"}

DeliveryRow == [hook : Hooks, event : Events, by : Requests, on : Units,
                status : {"delivered", "failed"}, attempts : 1..Attempts]
Notices == [hook : Hooks, by : Requests, on : Units]
Drafts == UNION {[us -> UnitRow] : us \in SUBSET Units}
Request == [pc : Pcs, kind : {"none", "submit", "decide", "route"}, todo : SUBSET Units,
            event : Events \cup {"none"}, on : Units \cup {None}, queue : SUBSET Hooks,
            hook : Hooks \cup {None}, attempt : 1..Attempts, sent : SUBSET DeliveryRow]

Types ==
  /\ unit \in [Units -> UnitRow] /\ webhooks \in [Hooks -> {"absent", "active", "deleted"}]
  /\ rows \subseteq DeliveryRow /\ got \subseteq Notices /\ down \subseteq Flaky
  /\ req \in [Requests -> Request] /\ draft \in [Requests -> Drafts]
  /\ log \in [Requests -> SUBSET DeliveryRow] /\ alone \in BOOLEAN /\ events \in Nat

-----------------------------------------------------------------------------
(* The delivery rows are true.                                             *)

Notice(d) == [hook |-> d.hook, by |-> d.by, on |-> d.on]

\* A row says delivered only if its receiver was told.
Honest(d) ==
  /\ d.event = EventOf[d.hook]
  /\ d.status = "delivered" => Notice(d) \in got
  /\ d.status = "failed" => d.attempts = Attempts

\* Where a request stands in telling its receivers.
Placed(r) ==
  LET q == req[r]
  IN  /\ Live(r) => q.kind # "none"
      /\ ~Live(r) => q.todo = {} /\ draft[r] = <<>> /\ log[r] = {}
      /\ q.pc \in Sending => q.on \in Units /\ q.on \notin q.todo /\ q.event \in Events
      /\ q.pc \notin {"send", "flush"} => q.sent = {}
      /\ q.pc = "send" <=> q.queue # {}
      /\ q.hook \in q.queue \cup {None}
      /\ \A h \in q.queue : EventOf[h] = q.event /\ webhooks[h] # "absent"
      /\ DOMAIN draft[r] \cap q.todo = {}

\* What a request told is in its delivery rows, or is being told still.
Accounted(r) ==
  LET q == req[r]
  IN  \A g \in got : g.by = r =>
         /\ q.pc # "idle" /\ webhooks[g.hook] # "absent"
         /\ Live(r) => \/ \E d \in log[r] \cup q.sent : Notice(d) = g
                       \/ q.pc = "send" /\ g.on = q.on /\ g.hook = q.hook
         /\ q.pc = "done" /\ webhooks[g.hook] = "active" => \E d \in rows : Notice(d) = g

\* Its delivery rows, flushed and not.
Logged(r) ==
  LET q == req[r]
  IN  /\ \A d \in log[r] : Honest(d) /\ d.by = r /\ webhooks[d.hook] = "active"
      /\ \A d \in q.sent :
           /\ Honest(d) /\ d.by = r /\ d.on = q.on /\ d.event = q.event /\ d.hook \notin q.queue

Committed == \A d \in rows : Honest(d) /\ webhooks[d.hook] = "active" /\ req[d.by].pc = "done"

DraftsApart == \A r, q \in Requests : r # q => DOMAIN draft[r] \cap DOMAIN draft[q] = {}

LogInv == /\ Types /\ DraftsApart /\ Committed
          /\ \A r \in Requests : Placed(r) /\ Accounted(r) /\ Logged(r)

-----------------------------------------------------------------------------
(* Requests one after the other.                                           *)

Complete(d) == d.event = "completed"
Final(row) == row.status = "finalized"
Waiting(row) == row.escalated /\ ~Final(row)

\* Who has to hear of completion, and has.
Announced(ds) ==
  \A h \in Registered : webhooks[h] = "active" /\ EventOf[h] = "completed"
                          => \E d \in ds : d.hook = h /\ Complete(d)
AtMostOnce(ds) == \A d, e \in ds : d.hook = e.hook /\ Complete(d) /\ Complete(e) => d = e
AllOrNone(ds) == (\E d \in ds : Complete(d)) => Announced(ds)

\* The committed rows and those of r.
Rows(r) == rows \cup log[r]

\* Every subscriber has a delivery row made or to come.
Addressed(r) ==
  /\ \A d, e \in req[r].sent : d.hook = e.hook => d = e
  /\ Subscribers(req[r].event) = req[r].queue \cup {d.hook : d \in req[r].sent}
  /\ req[r].event = "completed" => \A d \in Rows(r) : ~Complete(d)

\* No unit that was decided before has joined the queue by what r did.
Calm(r) == \A u \in Units : Waiting(See(r, u)) => Waiting(unit[u]) \/ unit[u].final = "none"
BacklogKnown(r) == \A h \in Subscribers("backlog") : \E d \in log[r] : d.hook = h

Backlogged == {u \in Units : InQueue(u)}

\* What a live request owes its receivers.
Owes(r) ==
  LET q == req[r]
      settling(event) == q.pc \in Sending /\ q.event = event
  IN  /\ AtMostOnce(Rows(r)) /\ AllOrNone(Rows(r))
      /\ ~settling("completed") /\ (\A u \in Units : Final(See(r, u))) => Announced(Rows(r))
      /\ q.pc \in {"send", "flush"} => Addressed(r)
      /\ Calm(r) /\ Cardinality(Backlogged) < Threshold /\ Depth(r) >= Threshold =>
           \/ BacklogKnown(r)
           \/ settling("backlog") /\ (q.pc = "check" => Depth(r) = Threshold)

OneByOne ==
  /\ \A h \in Registered : webhooks[h] # "absent"
  /\ alone =>
       /\ \A r, q \in Requests : Live(r) /\ Live(q) => r = q
       /\ AtMostOnce(rows) /\ AllOrNone(rows)
       /\ (\A u \in Units : Final(unit[u])) => Announced(rows)
       /\ \A r \in Requests : Live(r) => Owes(r)

-----------------------------------------------------------------------------
(* Facts about one request.                                                *)

LEMMA Facts ==
  ASSUME Types, NEW r \in Requests
  PROVE  /\ req[r] \in Request /\ draft[r] \in Drafts /\ log[r] \in SUBSET DeliveryRow
         /\ req[r].pc \in Pcs /\ req[r].todo \in SUBSET Units /\ req[r].queue \in SUBSET Hooks
         /\ req[r].sent \in SUBSET DeliveryRow /\ req[r].on \in Units \cup {None}
         /\ req[r].hook \in Hooks \cup {None} /\ req[r].attempt \in 1..Attempts
         /\ req[r].event \in Events \cup {"none"}
         /\ req[r].kind \in {"none", "submit", "decide", "route"}
  BY DEF Types, Request

LEMMA DraftFacts ==
  ASSUME NEW f \in Drafts
  PROVE  DOMAIN f \subseteq Units /\ \A u \in DOMAIN f : f[u] \in UnitRow
  BY DEF Drafts

LEMMA SeeType ==
  ASSUME Types, NEW r \in Requests, NEW u \in Units
  PROVE  See(r, u) \in UnitRow
  BY Facts, DraftFacts DEF See, Types

LEMMA BlankType ==
  ASSUME NEW pc \in Pcs
  PROVE  /\ Blank(pc) \in Request /\ Blank(pc).pc = pc /\ Blank(pc).todo = {} /\ Blank(pc).sent = {}
         /\ Blank(pc).queue = {} /\ Blank(pc).hook = None
  <1>1. 1 \in 1..Attempts
    BY CompletionAssumption
  <1> QED  BY <1>1 DEF Blank, Request, Pcs, Sending, Events

LEMMA NoDraft == <<>> \in Drafts /\ DOMAIN <<>> = {}
  <1>1. DOMAIN <<>> = {} /\ <<>> \in [{} -> UnitRow]
    OBVIOUS
  <1> QED  BY <1>1 DEF Drafts

\* A step of r, not its commit: what the others have, and the committed rows, stay.
Own(r) ==
  /\ UNCHANGED store /\ req[r].pc # "done"
  /\ \A q \in Requests \ {r} : req'[q] = req[q] /\ draft'[q] = draft[q] /\ log'[q] = log[q]
  /\ \A g : g.by # r => (g \in got' <=> g \in got)

LEMMA OthersKeep ==
  ASSUME LogInv, NEW r \in Requests, Own(r)
  PROVE  Committed' /\ \A q \in Requests \ {r} : Placed(q)' /\ Accounted(q)' /\ Logged(q)'
  <1>1. \A d : d.by # r => (Honest(d) <=> Honest(d)')
    BY DEF Own, Honest, Notice
  <1>2. Committed'
    <2> SUFFICES ASSUME NEW d \in rows
                 PROVE  Honest(d)' /\ webhooks'[d.hook] = "active" /\ req'[d.by].pc = "done"
      BY DEF Own, store, Committed
    <2>1. Honest(d) /\ webhooks[d.hook] = "active" /\ req[d.by].pc = "done" /\ d.by \in Requests
      BY DEF LogInv, Committed, Types, DeliveryRow
    <2>2. d.by # r
      BY <2>1 DEF Own
    <2> QED  BY <1>1, <2>1, <2>2 DEF Own, store
  <1>3. ASSUME NEW q \in Requests \ {r} PROVE Placed(q)' /\ Accounted(q)' /\ Logged(q)'
    <2>1. req'[q] = req[q] /\ draft'[q] = draft[q] /\ log'[q] = log[q] /\ webhooks' = webhooks
      BY DEF Own, store
    <2>2. Placed(q) /\ Accounted(q) /\ Logged(q)
      BY DEF LogInv
    <2>3. Placed(q)'
      BY <2>1, <2>2 DEF Placed, Live
    <2>4. Accounted(q)'
      BY <2>1, <2>2 DEF Accounted, Own, Live, store
    <2>5. Logged(q)'
      BY <1>1, <2>1, <2>2 DEF Logged
    <2> QED  BY <2>3, <2>4, <2>5
  <1> QED  BY <1>2, <1>3

\* r goes on as rec, with its drafts and rows; receivers may have heard of it.
Moves(r, rec, f, ds) ==
  /\ req' = [req EXCEPT ![r] = rec] /\ draft' = [draft EXCEPT ![r] = f] /\ log' = [log EXCEPT ![r] = ds]
  /\ rec \in Request /\ f \in Drafts /\ ds \in SUBSET DeliveryRow
  /\ UNCHANGED <<store, down, events>> /\ alone' \in BOOLEAN /\ got' \subseteq Notices

LEMMA OwnStep ==
  ASSUME LogInv, NEW r \in Requests, req[r].pc # "done",
         NEW rec, NEW f, NEW ds, Moves(r, rec, f, ds),
         \A g : g.by # r => (g \in got' <=> g \in got),
         \A q \in Requests \ {r} : DOMAIN f \cap DOMAIN draft[q] = {}
  PROVE  /\ Types' /\ Own(r) /\ DraftsApart'
         /\ req'[r] = rec /\ draft'[r] = f /\ log'[r] = ds
  <1> USE DEF Moves
  <1>1. /\ req' \in [Requests -> Request] /\ draft' \in [Requests -> Drafts]
        /\ log' \in [Requests -> SUBSET DeliveryRow]
        /\ req'[r] = rec /\ draft'[r] = f /\ log'[r] = ds
        /\ \A q \in Requests \ {r} : req'[q] = req[q] /\ draft'[q] = draft[q] /\ log'[q] = log[q]
    BY DEF LogInv, Types
  <1>2. UNCHANGED <<unit, webhooks, rows, down, events>>
    BY DEF store
  <1>3. Types'
    BY <1>1, <1>2 DEF LogInv, Types
  <1>4. DraftsApart'
    BY <1>1 DEF LogInv, DraftsApart
  <1>5. Own(r)
    BY <1>1 DEF Own
  <1> QED  BY <1>1, <1>3, <1>4, <1>5

\* A step of the only live request.
LEMMA OneStep ==
  ASSUME LogInv, OneByOne, NEW r \in Requests, Own(r), Live(r), alone' = alone,
         alone /\ Owes(r) /\ Live(r)' => Owes(r)'
  PROVE  OneByOne'
  <1>1. unit' = unit /\ webhooks' = webhooks /\ rows' = rows
    BY DEF Own, store
  <1>2. \A h \in Registered : webhooks'[h] # "absent"
    BY <1>1 DEF OneByOne
  <1>3. SUFFICES ASSUME alone
                 PROVE  /\ \A p, q \in Requests : Live(p)' /\ Live(q)' => p = q
                        /\ AtMostOnce(rows') /\ AllOrNone(rows)'
                        /\ (\A u \in Units : Final(unit'[u])) => Announced(rows)'
                        /\ \A q \in Requests : Live(q)' => Owes(q)'
    BY <1>2 DEF OneByOne
  <1>4. \A q \in Requests \ {r} : ~Live(q) /\ ~Live(q)'
    BY <1>3 DEF OneByOne, Own, Live
  <1>5. Live(r)' => Owes(r)'
    BY <1>3 DEF OneByOne
  <1>6. AtMostOnce(rows) /\ AllOrNone(rows) /\ ((\A u \in Units : Final(unit[u])) => Announced(rows))
    BY <1>3 DEF OneByOne
  <1>7. AtMostOnce(rows') /\ AllOrNone(rows)' /\ ((\A u \in Units : Final(unit'[u])) => Announced(rows)')
    BY <1>1, <1>6 DEF AllOrNone, Announced
  <1> QED  BY <1>4, <1>5, <1>7

Keeps == LogInv' /\ OneByOne'

\* A request that dies or is refused leaves nothing but what it told.
LEMMA DroppedKeeps ==
  ASSUME LogInv, OneByOne, NEW r \in Requests, Live(r), Dropped(r)
  PROVE  Keeps
  <1>1. Blank("failed") \in Request /\ Blank("failed").pc = "failed" /\ Blank("failed").todo = {}
        /\ Blank("failed").sent = {} /\ Blank("failed").queue = {} /\ Blank("failed").hook = None
    BY BlankType DEF Pcs
  <1>2. Types /\ got \in SUBSET Notices /\ alone \in BOOLEAN
    BY DEF LogInv, Types
  <1>3. /\ req' = [req EXCEPT ![r] = Blank("failed")] /\ draft' = [draft EXCEPT ![r] = <<>>]
        /\ log' = [log EXCEPT ![r] = {}] /\ UNCHANGED <<store, world>>
    BY DEF Dropped, Closed, Step
  <1>4. UNCHANGED <<store, down, events>> /\ got' = got /\ alone' = alone
    BY <1>3 DEF world
  <1>5. /\ Types' /\ Own(r) /\ DraftsApart'
        /\ req'[r] = Blank("failed") /\ draft'[r] = <<>> /\ log'[r] = {}
    <2>1. Moves(r, Blank("failed"), <<>>, {})
      BY <1>1, <1>2, <1>3, <1>4, NoDraft DEF Moves
    <2>2. req[r].pc # "done"
      BY DEF Live
    <2> QED  BY <1>4, <2>1, <2>2, NoDraft, OwnStep
  <1>6. Placed(r)' /\ Accounted(r)' /\ Logged(r)'
    <2>1. ~Live(r)'
      BY <1>1, <1>5 DEF Live
    <2>2. Placed(r)'
      BY <1>1, <1>5, <2>1 DEF Placed, Sending
    <2>3. Logged(r)'
      BY <1>1, <1>5 DEF Logged
    <2>4. Accounted(r)'
      <3>1. Accounted(r) /\ webhooks' = webhooks /\ got' = got
        BY <1>3, <1>4 DEF LogInv, store
      <3> QED  BY <1>1, <1>5, <2>1, <3>1 DEF Accounted
    <2> QED  BY <2>2, <2>3, <2>4
  <1>7. ~Live(r)'
    BY <1>1, <1>5 DEF Live
  <1>8. OneByOne'
    BY <1>4, <1>5, <1>7, OneStep
  <1> QED  BY <1>5, <1>6, <1>8, OthersKeep DEF LogInv, Keeps

-----------------------------------------------------------------------------
(* A request begins.                                                       *)

Queue(r) == {u \in Units : Waiting(See(r, u))}

LEMMA DepthIs ==
  ASSUME NEW r \in Requests
  PROVE  Depth(r) = Cardinality(Queue(r)) /\ IsFiniteSet(Queue(r)) /\ Depth(r) \in Nat
  <1>1. Depth(r) = Cardinality(Queue(r))
    BY DEF Depth, Queue, Waiting, Final
  <1>2. IsFiniteSet(Queue(r))
    BY CompletionAssumption, FS_Subset DEF Queue
  <1> QED  BY <1>1, <1>2, FS_CardinalityType

LEMMA BeginKeeps ==
  ASSUME LogInv, OneByOne, NEW r \in Requests, NEW kind \in {"submit", "decide", "route"},
         NEW us \in SUBSET Units, Begin(r, kind, us)
  PROVE  Keeps
  <1> DEFINE rec == [Blank("act") EXCEPT !.kind = kind, !.todo = us]
  <1>1. /\ req[r].pc = "idle" /\ req' = [req EXCEPT ![r] = rec] /\ alone' = (alone /\ Quiet)
        /\ UNCHANGED <<store, down, got, events, draft, log>>
    BY DEF Begin, Step
  <1>2. /\ rec \in Request /\ rec.pc = "act" /\ rec.kind = kind /\ rec.todo = us /\ rec.sent = {}
        /\ rec.queue = {} /\ rec.hook = None
    <2>1. Blank("act") \in Request
      BY BlankType DEF Pcs
    <2>2. Blank("act").pc = "act" /\ Blank("act").sent = {} /\ Blank("act").queue = {} /\ Blank("act").hook = None
      BY DEF Blank
    <2> HIDE DEF Blank
    <2> QED  BY <2>1, <2>2 DEF Request
  <1> HIDE DEF rec
  <1>3. Moves(r, rec, draft[r], log[r])
    BY <1>1, <1>2, Facts DEF LogInv, Types, Moves
  <1>4. /\ Types' /\ Own(r) /\ DraftsApart' /\ req'[r] = rec /\ draft'[r] = draft[r] /\ log'[r] = log[r]
    <2>1. \A q \in Requests \ {r} : DOMAIN draft[r] \cap DOMAIN draft[q] = {}
      BY DEF LogInv, DraftsApart
    <2> QED  BY <1>1, <1>3, <2>1, OwnStep
  <1>5. ~Live(r) /\ draft[r] = <<>> /\ log[r] = {}
    BY <1>1 DEF LogInv, Placed, Live
  <1>6. Placed(r)' /\ Accounted(r)' /\ Logged(r)'
    <2>1. Placed(r)'
      BY <1>1, <1>2, <1>4, <1>5, NoDraft DEF Placed, Live, Sending, store
    <2>2. Accounted(r)'
      BY <1>1 DEF LogInv, Accounted
    <2>3. Logged(r)'
      BY <1>2, <1>4, <1>5 DEF Logged
    <2> QED  BY <2>1, <2>2, <2>3
  <1>7. LogInv'
    BY <1>4, <1>6, OthersKeep DEF LogInv
  <1>8. OneByOne'
    <2>1. UNCHANGED <<unit, webhooks, rows>>
      BY <1>1 DEF store
    <2>2. \A h \in Registered : webhooks'[h] # "absent"
      BY <2>1 DEF OneByOne
    <2>3. ASSUME alone'
          PROVE  /\ \A p, q \in Requests : Live(p)' /\ Live(q)' => p = q
                 /\ AtMostOnce(rows)' /\ AllOrNone(rows)'
                 /\ (\A u \in Units : Final(unit[u])') => Announced(rows)'
                 /\ \A q \in Requests : Live(q)' => Owes(q)'
      <3>1. alone /\ Quiet
        BY <1>1, <2>3
      <3>2. \A q \in Requests \ {r} : ~Live(q)'
        BY <1>4, <3>1 DEF Quiet, Own, Live
      <3>3. AtMostOnce(rows) /\ AllOrNone(rows) /\ ((\A u \in Units : Final(unit[u])) => Announced(rows))
        BY <3>1 DEF OneByOne
      <3>4. AtMostOnce(rows)' /\ AllOrNone(rows)' /\ ((\A u \in Units : Final(unit[u])') => Announced(rows)')
        BY <2>1, <3>3 DEF AtMostOnce, AllOrNone, Announced
      <3>5. Rows(r)' = rows'
        BY <1>4, <1>5 DEF Rows
      <3>6. \A u \in Units : See(r, u)' = unit[u]'
        BY <1>4, <1>5, NoDraft DEF See
      <3>7. Queue(r)' = Backlogged'
        BY <3>6 DEF Queue, Backlogged, InQueue, Waiting, Final
      <3>8. Depth(r)' = Cardinality(Backlogged)'
        BY <3>7 DEF Depth, Queue, Waiting, Final
      <3>9. ~(Cardinality(Backlogged)' < Threshold /\ Depth(r)' >= Threshold)
        <4>1. Depth(r)' \in Nat /\ Threshold \in Nat
          <5>1. Queue(r)' \subseteq Units
            BY DEF Queue
          <5>2. IsFiniteSet(Queue(r)')
            BY <5>1, CompletionAssumption, FS_Subset
          <5> QED  BY <3>7, <3>8, <5>2, FS_CardinalityType, CompletionAssumption
        <4> QED  BY <3>8, <4>1
      <3>10. Owes(r)'
        BY <1>2, <1>4, <3>4, <3>5, <3>6, <3>9 DEF Owes, AtMostOnce, AllOrNone, Announced, Sending
      <3> QED  BY <3>2, <3>4, <3>10
    <2> QED  BY <2>2, <2>3 DEF OneByOne
  <1> QED  BY <1>7, <1>8 DEF Keeps

-----------------------------------------------------------------------------
(* A unit is handled.                                                      *)

\* One unit more or less in the queue.
LEMMA QueueMoves ==
  ASSUME NEW Q, IsFiniteSet(Q), NEW P, NEW u, P \subseteq Q \cup {u}
  PROVE  /\ Cardinality(P) \in Nat /\ Cardinality(Q) \in Nat /\ Cardinality(P) <= Cardinality(Q) + 1
         /\ P \subseteq Q => Cardinality(P) <= Cardinality(Q)
  <1>1. /\ IsFiniteSet(Q \cup {u})
        /\ Cardinality(Q \cup {u}) = IF u \in Q THEN Cardinality(Q) ELSE Cardinality(Q) + 1
    BY FS_AddElement
  <1>2. IsFiniteSet(P) /\ Cardinality(P) <= Cardinality(Q \cup {u})
    BY <1>1, FS_Subset
  <1>3. P \subseteq Q => Cardinality(P) <= Cardinality(Q)
    BY FS_Subset
  <1>4. Cardinality(P) \in Nat /\ Cardinality(Q) \in Nat
    BY <1>2, FS_CardinalityType
  <1> QED  BY <1>1, <1>2, <1>3, <1>4

LEMMA UnitFields ==
  ASSUME NEW x \in UnitRow
  PROVE  /\ x.status \in Statuses /\ x.escalated \in BOOLEAN /\ x.final \in {"none", "auto", "human"}
         /\ x.late \in BOOLEAN /\ (x.status = "finalized" => x.final # "none")
         /\ x.late => x.status = "finalized"
  BY DEF UnitRow

LEMMA FinalizedFacts ==
  ASSUME NEW x \in UnitRow, NEW m \in {"auto", "human"}, NEW s \in Finalized(x, m)
  PROVE  s \in UnitRow /\ ~s.escalated /\ s.status = "finalized"
  <1>1. PICK late \in BOOLEAN : s = Unit("finalized", FALSE, m, late)
    BY UnitFields DEF Finalized
  <1> QED  BY <1>1 DEF Unit, UnitRow, Statuses

\* What routing makes of a unit, and whom it concerns.
LEMMA RoutedFacts ==
  ASSUME NEW x \in UnitRow, NEW c \in Routed(x)
  PROVE  /\ c.unit \in UnitRow /\ c.event \in Events \cup {"none"}
         /\ c.event = "completed" => ~Waiting(c.unit)
         /\ c.event # "completed" => c.unit.status = x.status
         /\ c.event = "none" => x.final # "none"
  <1>1. CASE x.final = "human"
    <2>1. c = [unit |-> x, event |-> "none"]
      BY <1>1 DEF Routed, Came
    <2> QED  BY <1>1, <2>1
  <1>2. CASE c \in Came({Escalated(x)}, "backlog")
    <2>1. c = [unit |-> Escalated(x), event |-> "backlog"]
      BY <1>2 DEF Came
    <2>2. Escalated(x) \in UnitRow /\ Escalated(x).status = x.status
      BY DEF Escalated, UnitRow
    <2> QED  BY <2>1, <2>2 DEF Events
  <1>3. CASE c \in Came(Finalized(x, "auto"), "completed")
    <2>1. PICK s \in Finalized(x, "auto") : c = [unit |-> s, event |-> "completed"]
      BY <1>3 DEF Came
    <2>2. s \in UnitRow /\ ~s.escalated /\ s.status = "finalized"
      BY FinalizedFacts
    <2> QED  BY <2>1, <2>2 DEF Events, Waiting
  <1> QED  BY <1>1, <1>2, <1>3 DEF Routed

\* What handling a unit makes of it.
LEMMA OutcomeFacts ==
  ASSUME NEW x \in UnitRow, NEW k \in {"submit", "decide", "route"}, NEW c \in Outcomes(k, x)
  PROVE  /\ c.unit \in UnitRow /\ c.event \in Events \cup {"none"}
         /\ c.event = "completed" => ~Waiting(c.unit)
         /\ c.event # "completed" => (Final(c.unit) => Final(x))
         /\ c.event = "none" => x.final # "none"
  <1>1. CASE k = "decide"
    <2>1. PICK s \in Finalized(x, "human") : c = [unit |-> s, event |-> "completed"]
      BY <1>1 DEF Outcomes, Came
    <2>2. s \in UnitRow /\ ~s.escalated /\ s.status = "finalized"
      BY FinalizedFacts
    <2> QED  BY <2>1, <2>2 DEF Events, Waiting
  <1>2. CASE k = "route"
    <2>1. c \in Routed(x)
      BY <1>2 DEF Outcomes
    <2> QED  BY <2>1, RoutedFacts DEF Final
  <1>3. CASE k = "submit"
    <2>1. PICK y : y = [x EXCEPT !.status = IF x.late THEN x.status ELSE "labeled", !.late = FALSE]
      OBVIOUS
    <2>2. y \in UnitRow /\ y.final = x.final /\ (y.status = "finalized" => x.status = "finalized")
      BY <2>1 DEF UnitRow, Statuses
    <2>3. Escalated(y) \in UnitRow /\ Escalated(y).status = y.status /\ Escalated(y).final = y.final
      BY <2>2 DEF Escalated, UnitRow
    <2>4. c \in Routed(y) \cup Routed(Escalated(y)) \cup Belated(x)
      BY <1>3, <2>1 DEF Outcomes, Labeled
    <2>5. CASE c \in Routed(y)
      BY <2>2, <2>5, RoutedFacts DEF Final
    <2>6. CASE c \in Routed(Escalated(y))
      BY <2>2, <2>3, <2>6, RoutedFacts DEF Final
    <2>7. CASE c \in Belated(x)
      <3>1. x.late /\ x.status = "finalized" /\ x.final # "none"
        BY <2>7, UnitFields DEF Belated
      <3>2. PICK s \in {x, [x EXCEPT !.late = FALSE], [x EXCEPT !.status = "collecting", !.late = FALSE]} :
              c = [unit |-> s, event |-> "none"]
        BY <2>7, <3>1 DEF Belated, Came
      <3>3. s \in UnitRow
        BY <3>1, <3>2 DEF UnitRow, Statuses
      <3> QED  BY <3>1, <3>2, <3>3 DEF Final
    <2> QED  BY <2>4, <2>5, <2>6, <2>7
  <1> QED  BY <1>1, <1>2, <1>3

LEMMA ActKeeps ==
  ASSUME LogInv, OneByOne, NEW r \in Requests, Act(r)
  PROVE  Keeps
  <1> DEFINE k == req[r].kind
  <1>0. PICK u \in Turn(r) : Unlocked(r, u) /\ \E c \in Outcomes(k, See(r, u)) :
          /\ draft' = [draft EXCEPT ![r] = [v \in DOMAIN draft[r] \cup {u} |->
                                                  IF v = u THEN c.unit ELSE draft[r][v]]]
          /\ Step(r, [req[r] EXCEPT !.todo = @ \ {u}, !.event = c.event, !.on = u,
                                    !.pc = IF c.event = "none" THEN "act" ELSE "check"])
    BY DEF Act
  <1>1. PICK c \in Outcomes(k, See(r, u)) :
          /\ draft' = [draft EXCEPT ![r] = [v \in DOMAIN draft[r] \cup {u} |->
                                                  IF v = u THEN c.unit ELSE draft[r][v]]]
          /\ Step(r, [req[r] EXCEPT !.todo = @ \ {u}, !.event = c.event, !.on = u,
                                    !.pc = IF c.event = "none" THEN "act" ELSE "check"])
    BY <1>0
  <1>2. PICK s, e : s = c.unit /\ e = c.event
    OBVIOUS
  <1> DEFINE pc  == IF e = "none" THEN "act" ELSE "check"
             rec == [req[r] EXCEPT !.todo = @ \ {u}, !.event = e, !.on = u, !.pc = pc]
             f   == [v \in DOMAIN draft[r] \cup {u} |-> IF v = u THEN s ELSE draft[r][v]]
  <1>3. req[r].pc = "act" /\ Live(r) /\ UNCHANGED <<store, world, log>>
    BY DEF Act, Live
  <1>4. /\ Types /\ Placed(r) /\ Accounted(r) /\ Logged(r) /\ req[r] \in Request /\ u \in req[r].todo
        /\ u \in Units /\ req[r].todo \in SUBSET Units /\ draft[r] \in Drafts
    BY Facts DEF LogInv, Turn
  <1>5. k \in {"submit", "decide", "route"} /\ See(r, u) \in UnitRow
    BY <1>3, <1>4, Facts, SeeType DEF Placed
  <1>6. /\ s \in UnitRow /\ e \in Events \cup {"none"} /\ (e = "completed" => ~Waiting(s))
        /\ e # "completed" => (Final(s) => Final(See(r, u)))
        /\ e = "none" => See(r, u).final # "none"
    <2> HIDE DEF k
    <2> QED  BY <1>1, <1>2, <1>5, OutcomeFacts
  <1>7. f \in Drafts /\ DOMAIN f = DOMAIN draft[r] \cup {u}
    <2>1. DOMAIN draft[r] \subseteq Units /\ \A v \in DOMAIN draft[r] : draft[r][v] \in UnitRow
      BY <1>4, DraftFacts
    <2>2. f \in [DOMAIN draft[r] \cup {u} -> UnitRow]
      BY <1>6, <2>1
    <2>3. DOMAIN draft[r] \cup {u} \in SUBSET Units
      BY <1>4, <2>1
    <2> QED  BY <2>2, <2>3 DEF Drafts
  <1>8. /\ rec \in Request /\ rec.pc = pc /\ rec.todo = req[r].todo \ {u} /\ rec.event = e /\ rec.on = u
        /\ rec.sent = req[r].sent /\ rec.queue = req[r].queue /\ rec.hook = req[r].hook /\ rec.kind = k
    BY <1>4, <1>6 DEF Request, Pcs, Sending
  <1>9. \A v \in Units : (IF v \in DOMAIN f THEN f[v] ELSE unit[v]) = IF v = u THEN s ELSE See(r, v)
    BY DEF See
  <1>10. req' = [req EXCEPT ![r] = rec] /\ draft' = [draft EXCEPT ![r] = f]
    BY <1>1, <1>2 DEF Step
  <1> HIDE DEF rec, f
  <1>11. Moves(r, rec, f, log[r])
    BY <1>3, <1>4, <1>7, <1>8, <1>10 DEF Moves, world, Types
  <1>12. /\ Types' /\ Own(r) /\ DraftsApart' /\ req'[r] = rec /\ draft'[r] = f /\ log'[r] = log[r]
    <2>1. \A q \in Requests \ {r} : DOMAIN f \cap DOMAIN draft[q] = {}
      BY <1>0, <1>7 DEF LogInv, DraftsApart, Unlocked
    <2>2. got' = got
      BY <1>3 DEF world
    <2> QED  BY <1>3, <1>11, <2>1, <2>2, OwnStep
  <1>13. Placed(r)' /\ Accounted(r)' /\ Logged(r)'
    <2>1. Placed(r)'
      BY <1>3, <1>4, <1>5, <1>6, <1>7, <1>8, <1>12 DEF Placed, Live, Sending, store
    <2>2. Accounted(r)'
      BY <1>3, <1>4, <1>8, <1>12 DEF Accounted, world, store, Live
    <2>3. Logged(r)'
      <3>1. \A d : Honest(d) => Honest(d)'
        BY <1>3 DEF Honest, world
      <3>2. webhooks' = webhooks
        BY <1>3 DEF store
      <3> QED  BY <1>3, <1>4, <1>8, <1>12, <3>1, <3>2 DEF Logged, Sending, Placed
    <2> QED  BY <2>1, <2>2, <2>3
  <1>14. LogInv'
    BY <1>12, <1>13, OthersKeep DEF LogInv
  <1>15. ASSUME Owes(r) PROVE Owes(r)'
    <2>1. UNCHANGED <<unit, webhooks, rows>>
      BY <1>3 DEF store
    <2>2. Rows(r)' = Rows(r) /\ Backlogged' = Backlogged /\ Subscribers("backlog")' = Subscribers("backlog")
      BY <1>12, <2>1 DEF Rows, Backlogged, InQueue, Subscribers
    <2>3. AtMostOnce(Rows(r))' /\ AllOrNone(Rows(r))' /\ (Announced(Rows(r)) => Announced(Rows(r))')
      BY <2>1, <2>2, <1>15 DEF Owes, AtMostOnce, AllOrNone, Announced
    <2>4. \A v \in Units : See(r, v)' = IF v = u THEN s ELSE See(r, v)
      BY <1>9, <1>12, <2>1 DEF See
    <2>5. e # "completed" /\ (\A v \in Units : Final(See(r, v))') => Announced(Rows(r))'
      <3> SUFFICES ASSUME e # "completed", \A v \in Units : Final(See(r, v)') PROVE Announced(Rows(r))'
        BY DEF Final
      <3>1. \A v \in Units : Final(See(r, v))
        BY <1>6, <2>4
      <3> QED  BY <1>3, <1>15, <2>3, <3>1 DEF Owes, Sending
    <2>6. (BacklogKnown(r) => BacklogKnown(r)')
      BY <1>12, <2>2 DEF BacklogKnown
    <2>10. See(r, u) = unit[u]
      BY <1>3, <1>4 DEF Placed, See
    <2>11. Calm(r)' => Calm(r) /\ (e = "none" /\ Waiting(s) => Waiting(unit[u]))
      <3> SUFFICES ASSUME Calm(r)' PROVE Calm(r) /\ (e = "none" /\ Waiting(s) => Waiting(unit[u]))
        OBVIOUS
      <3>1. \A v \in Units : Waiting(IF v = u THEN s ELSE See(r, v)) => Waiting(unit[v]) \/ unit[v].final = "none"
        BY <2>1, <2>4 DEF Calm, Waiting, Final
      <3>2. \A v \in Units : v # u => (Waiting(See(r, v)) => Waiting(unit[v]) \/ unit[v].final = "none")
        BY <3>1
      <3>3. Waiting(s) => Waiting(unit[u]) \/ unit[u].final = "none"
        BY <1>4, <3>1
      <3>4. Calm(r)
        BY <2>10, <3>2 DEF Calm
      <3> QED  BY <1>6, <2>10, <3>3, <3>4
    <2>7. Depth(r) \in Nat /\ Depth(r)' \in Nat /\ Depth(r)' <= Depth(r) + 1 /\ Threshold \in Nat
          /\ (e # "backlog" /\ Calm(r)' => Depth(r)' <= Depth(r))
      <3>1. Queue(r)' = {v \in Units : Waiting(IF v = u THEN s ELSE See(r, v))}
        BY <2>4 DEF Queue, Waiting, Final
      <3>2. Queue(r)' \subseteq Queue(r) \cup {u}
        BY <3>1 DEF Queue
      <3>3. e # "backlog" /\ Calm(r)' => Queue(r)' \subseteq Queue(r)
        <4> SUFFICES ASSUME e # "backlog", Calm(r)', NEW v \in Queue(r)' PROVE v \in Queue(r)
          OBVIOUS
        <4>1. e = "none" \/ e = "completed"
          BY <1>6 DEF Events
        <4>2. v \in Units /\ Waiting(IF v = u THEN s ELSE See(r, v))
          BY <3>1
        <4>3. CASE v = u
          <5>1. Waiting(s)
            BY <4>2, <4>3
          <5> QED  BY <1>6, <2>10, <2>11, <4>1, <4>2, <4>3, <5>1 DEF Queue
        <4>4. CASE v # u
          BY <4>2, <4>4 DEF Queue
        <4> QED  BY <4>3, <4>4
      <3>4. Depth(r) = Cardinality(Queue(r)) /\ IsFiniteSet(Queue(r))
        BY DepthIs
      <3>5. Depth(r)' = Cardinality(Queue(r)')
        BY DEF Depth, Queue, Waiting, Final
      <3> HIDE DEF Queue
      <3> QED  BY <3>2, <3>3, <3>4, <3>5, QueueMoves, CompletionAssumption
    <2>8. Calm(r)' /\ Cardinality(Backlogged) < Threshold /\ Depth(r)' >= Threshold =>
            BacklogKnown(r)' \/ (e = "backlog" /\ Depth(r)' = Threshold)
      <3>1. Calm(r) /\ Cardinality(Backlogged) < Threshold /\ Depth(r) >= Threshold => BacklogKnown(r)
        BY <1>3, <1>15 DEF Owes, Sending
      <3> QED  BY <2>6, <2>7, <2>11, <3>1
    <2>9. Live(r)' /\ (e = "none" => rec.pc = "act") /\ (e # "none" => rec.pc = "check")
      BY <1>8, <1>12 DEF Live
    <2> QED  BY <1>6, <1>8, <1>12, <2>2, <2>3, <2>5, <2>8, <2>9 DEF Owes, Sending, Events
  <1>16. OneByOne'
    BY <1>3, <1>12, <1>15, OneStep DEF world
  <1> QED  BY <1>14, <1>16 DEF Keeps

-----------------------------------------------------------------------------
(* Receivers are listed, told, and their rows flushed.                     *)

LEMMA CheckKeeps ==
  ASSUME LogInv, OneByOne, NEW r \in Requests, Check(r)
  PROVE  Keeps
  <1> DEFINE hooks == IF Due(r) THEN Subscribers(req[r].event) ELSE {}
             pc    == IF hooks = {} THEN "act" ELSE "send"
             rec   == [req[r] EXCEPT !.queue = hooks, !.pc = pc]
  <1>1. req[r].pc = "check" /\ Live(r) /\ req' = [req EXCEPT ![r] = rec] /\ UNCHANGED <<store, world, draft, log>>
    BY DEF Check, Live, Step
  <1>2. /\ Types /\ Placed(r) /\ Accounted(r) /\ Logged(r) /\ req[r] \in Request /\ draft[r] \in Drafts
        /\ req[r].queue = {} /\ req[r].sent = {} /\ req[r].event \in Events
    BY <1>1, Facts DEF LogInv, Placed, Sending
  <1>3. hooks \in SUBSET Hooks /\ \A h \in hooks : EventOf[h] = req[r].event /\ webhooks[h] # "absent"
    BY DEF Subscribers
  <1> HIDE DEF hooks
  <1>4. /\ rec \in Request /\ rec.pc = pc /\ rec.queue = hooks /\ rec.todo = req[r].todo /\ rec.event = req[r].event
        /\ rec.on = req[r].on /\ rec.sent = {} /\ rec.hook = req[r].hook /\ rec.kind = req[r].kind
    BY <1>2, <1>3 DEF Request, Pcs, Sending
  <1> HIDE DEF rec
  <1>5. Moves(r, rec, draft[r], log[r])
    BY <1>1, <1>2, <1>4 DEF Moves, world, Types
  <1>6. /\ Types' /\ Own(r) /\ DraftsApart' /\ req'[r] = rec /\ draft'[r] = draft[r] /\ log'[r] = log[r]
    <2>1. \A q \in Requests \ {r} : DOMAIN draft[r] \cap DOMAIN draft[q] = {}
      BY DEF LogInv, DraftsApart
    <2>2. got' = got
      BY <1>1 DEF world
    <2> QED  BY <1>1, <1>5, <2>1, <2>2, OwnStep
  <1>7. Placed(r)' /\ Accounted(r)' /\ Logged(r)'
    <2>1. Placed(r)'
      BY <1>1, <1>2, <1>3, <1>4, <1>6 DEF Placed, Live, Sending, store
    <2>2. Accounted(r)'
      BY <1>1, <1>2, <1>4, <1>6 DEF Accounted, world, store, Live
    <2>3. Logged(r)'
      <3>1. \A d : Honest(d) => Honest(d)'
        BY <1>1 DEF Honest, world
      <3>2. webhooks' = webhooks
        BY <1>1 DEF store
      <3> QED  BY <1>1, <1>2, <1>4, <1>6, <3>1, <3>2 DEF Logged, Sending
    <2> QED  BY <2>1, <2>2, <2>3
  <1>8. LogInv'
    BY <1>6, <1>7, OthersKeep DEF LogInv
  <1>9. ASSUME Owes(r) PROVE Owes(r)'
    <2>1. UNCHANGED <<unit, webhooks, rows>>
      BY <1>1 DEF store
    <2>2. /\ Rows(r)' = Rows(r) /\ Backlogged' = Backlogged /\ \A u \in Units : See(r, u)' = See(r, u)
          /\ \A event : Subscribers(event)' = Subscribers(event)
      BY <1>6, <2>1 DEF Rows, Backlogged, InQueue, Subscribers, See
    <2>3. AtMostOnce(Rows(r))' /\ AllOrNone(Rows(r))' /\ (Announced(Rows(r)) <=> Announced(Rows(r))')
          /\ Depth(r)' = Depth(r) /\ (BacklogKnown(r) <=> BacklogKnown(r)') /\ (Calm(r)' <=> Calm(r))
      <3>1. AtMostOnce(Rows(r))' /\ AllOrNone(Rows(r))' /\ (Announced(Rows(r)) <=> Announced(Rows(r))')
        BY <2>1, <2>2, <1>9 DEF Owes, AtMostOnce, AllOrNone, Announced
      <3>2. Depth(r)' = Depth(r)
        BY <2>2 DEF Depth
      <3>3. Calm(r)' <=> Calm(r)
        BY <2>1, <2>2 DEF Calm, Waiting, Final
      <3> QED  BY <1>6, <2>2, <3>1, <3>2, <3>3 DEF BacklogKnown
    <2>4. ASSUME pc = "act", \A u \in Units : Final(See(r, u)) PROVE Announced(Rows(r))
      <3>1. CASE req[r].event = "completed"
        <4>1. CASE AlreadyAnnounced(r)
          BY <1>9, <4>1 DEF Owes, AllOrNone, AlreadyAnnounced, Rows, Complete
        <4>2. CASE ~AlreadyAnnounced(r)
          <5>1. Due(r)
            BY <2>4, <3>1, <4>2 DEF Due, Unfinalized, Final
          <5>2. Subscribers("completed") = {}
            BY <2>4, <3>1, <5>1 DEF hooks
          <5> QED  BY <5>2, CompletionAssumption DEF Announced, Subscribers
        <4> QED  BY <4>1, <4>2
      <3>2. CASE req[r].event = "backlog"
        BY <1>9, <2>4, <3>2 DEF Owes
      <3> QED  BY <1>2, <3>1, <3>2 DEF Events
    <2>5. ASSUME pc = "send" PROVE Addressed(r)'
      <3>1. Due(r) /\ hooks = Subscribers(req[r].event)
        BY <2>5 DEF hooks
      <3>2. req[r].event = "completed" => \A d \in Rows(r) : ~Complete(d)
        BY <3>1 DEF Due, AlreadyAnnounced, Rows, Complete
      <3> QED  BY <1>4, <1>6, <2>2, <3>1, <3>2 DEF Addressed, Complete
    <2>6. ASSUME Calm(r), Cardinality(Backlogged) < Threshold, Depth(r) >= Threshold
          PROVE  BacklogKnown(r) \/ (pc = "send" /\ req[r].event = "backlog")
      <3>1. BacklogKnown(r) \/ (req[r].event = "backlog" /\ Depth(r) = Threshold)
        BY <1>1, <1>9, <2>6 DEF Owes
      <3>2. CASE req[r].event = "backlog" /\ Depth(r) = Threshold /\ pc = "act"
        <4>1. Due(r)
          BY <3>2 DEF Due
        <4>2. Subscribers("backlog") = {}
          BY <3>2, <4>1 DEF hooks
        <4> QED  BY <4>2 DEF BacklogKnown
      <3> QED  BY <3>1, <3>2
    <2> QED  BY <1>1, <1>4, <1>6, <1>9, <2>2, <2>3, <2>4, <2>5, <2>6 DEF Owes, Sending, Final
  <1>10. OneByOne'
    BY <1>1, <1>6, <1>9, OneStep DEF world
  <1> QED  BY <1>8, <1>10 DEF Keeps

LEMMA SendKeeps ==
  ASSUME LogInv, OneByOne, NEW r \in Requests, Send(r)
  PROVE  Keeps
  <1>1. PICK h \in IF req[r].hook = None THEN req[r].queue ELSE {req[r].hook} :
          /\ \E told \in {TRUE, h \notin down} :
               got' = IF told THEN got \cup {[hook |-> h, by |-> r, on |-> req[r].on]} ELSE got
          /\ Step(r, IF h \notin down \/ GivesUp(r)
                     THEN [req[r] EXCEPT !.queue = req[r].queue \ {h}, !.hook = None, !.attempt = 1,
                                         !.pc = IF req[r].queue \ {h} = {} THEN "flush" ELSE "send",
                                         !.sent = @ \cup {Delivery(r, h, Verdict(r, h \notin down))}]
                     ELSE [req[r] EXCEPT !.hook = h, !.attempt = IF @ < Attempts THEN @ + 1 ELSE @])
    BY DEF Send
  <1> DEFINE on == req[r].on
             n  == [hook |-> h, by |-> r, on |-> on]
  <1>2. req[r].pc = "send" /\ Live(r) /\ UNCHANGED <<store, down, events, alone, draft, log>>
    BY DEF Send, Live
  <1>3. /\ Types /\ Placed(r) /\ Accounted(r) /\ Logged(r) /\ req[r] \in Request /\ draft[r] \in Drafts
        /\ log[r] \in SUBSET DeliveryRow /\ req[r].attempt \in 1..Attempts
        /\ req[r].sent \in SUBSET DeliveryRow /\ req[r].queue \in SUBSET Hooks
    BY Facts DEF LogInv
  <1>4. on \in Units /\ req[r].event \in Events /\ req[r].kind # "none" /\ on \notin req[r].todo
    BY <1>2, <1>3 DEF Placed, Sending
  <1>5. /\ h \in req[r].queue /\ h \in Hooks /\ EventOf[h] = req[r].event /\ webhooks[h] # "absent"
        /\ \A x \in Hooks : req[r].hook = x => x = h
    BY <1>1, <1>3, CompletionAssumption DEF Placed
  <1>6. /\ got' \in SUBSET Notices /\ \A g : g.by # r => (g \in got' <=> g \in got)
        /\ \A g \in got' : g \in got \/ g = n
        /\ \A g \in got : g \in got'
        /\ h \notin down => n \in got'
    <2>1. n \in Notices /\ n.by = r /\ n.on = on /\ n.hook = h
      BY <1>4, <1>5 DEF Notices
    <2> HIDE DEF n
    <2>2. /\ got' = got \/ got' = got \cup {n}
          /\ h \notin down => got' = got \cup {n}
      BY <1>1 DEF n
    <2>3. got \subseteq Notices
      BY <1>3 DEF Types
    <2> QED  BY <2>1, <2>2, <2>3
  <1>7. \A d \in log[r] \cup req[r].sent : Honest(d) => Honest(d)'
    BY <1>6 DEF Honest
  <1>8. \A q \in Requests \ {r} : DOMAIN draft[r] \cap DOMAIN draft[q] = {}
    BY DEF LogInv, DraftsApart
  <1>9. ASSUME NEW rec, rec \in Request, req' = [req EXCEPT ![r] = rec]
        PROVE  /\ Types' /\ Own(r) /\ DraftsApart' /\ req'[r] = rec /\ draft'[r] = draft[r] /\ log'[r] = log[r]
               /\ Accounted(r) => (Placed(r)' /\ Accounted(r)' /\ Logged(r)' /\ (Owes(r) => Owes(r)') => Keeps)
    <2>1. Moves(r, rec, draft[r], log[r])
      BY <1>2, <1>3, <1>6, <1>9 DEF Moves, Types
    <2>2. /\ Types' /\ Own(r) /\ DraftsApart' /\ req'[r] = rec /\ draft'[r] = draft[r] /\ log'[r] = log[r]
      BY <1>2, <1>6, <1>8, <2>1, OwnStep
    <2>3. ASSUME Placed(r)', Accounted(r)', Logged(r)' PROVE LogInv'
      BY <2>2, <2>3, OthersKeep DEF LogInv
    <2>4. ASSUME Owes(r) => Owes(r)' PROVE OneByOne'
      BY <1>2, <2>2, <2>4, OneStep
    <2> QED  BY <2>2, <2>3, <2>4 DEF Keeps
  <1>10. ASSUME req'[r].event = req[r].event, req'[r].pc \in {"send", "flush"}, Own(r), log'[r] = log[r],
                draft'[r] = draft[r], Addressed(r) => Addressed(r)', Owes(r)
         PROVE  Owes(r)'
    <2>1. UNCHANGED <<unit, webhooks, rows>>
      BY <1>2 DEF store
    <2>2. /\ Rows(r)' = Rows(r) /\ Backlogged' = Backlogged /\ \A u \in Units : See(r, u)' = See(r, u)
          /\ Subscribers("backlog")' = Subscribers("backlog")
      BY <1>10, <2>1 DEF Rows, Backlogged, InQueue, Subscribers, See
    <2>3. AtMostOnce(Rows(r))' /\ AllOrNone(Rows(r))' /\ (Announced(Rows(r)) <=> Announced(Rows(r))')
      BY <2>1, <2>2, <1>10 DEF Owes, AtMostOnce, AllOrNone, Announced
    <2>4. Depth(r)' = Depth(r) /\ (Calm(r)' <=> Calm(r))
      <3>1. Depth(r)' = Depth(r)
        BY <2>2 DEF Depth
      <3>2. Calm(r)' <=> Calm(r)
        BY <2>1, <2>2 DEF Calm, Waiting, Final
      <3> QED  BY <3>1, <3>2
    <2>5. BacklogKnown(r) <=> BacklogKnown(r)'
      BY <1>10, <2>2 DEF BacklogKnown
    <2>6. Addressed(r)'
      BY <1>2, <1>10 DEF Owes
    <2> QED  BY <1>2, <1>10, <2>2, <2>3, <2>4, <2>5, <2>6 DEF Owes, Sending, Final
  <1>11. CASE h \notin down \/ GivesUp(r)
    <2>0. PICK d : d = Delivery(r, h, Verdict(r, h \notin down))
      OBVIOUS
    <2> DEFINE rest == req[r].queue \ {h}
               pc   == IF rest = {} THEN "flush" ELSE "send"
               rec  == [req[r] EXCEPT !.queue = rest, !.hook = None, !.attempt = 1, !.pc = pc,
                                      !.sent = @ \cup {d}]
    <2>1. req' = [req EXCEPT ![r] = rec]
      BY <1>1, <1>11, <2>0 DEF Step
    <2>2. /\ d.hook = h /\ d.event = req[r].event /\ d.by = r /\ d.on = on
          /\ d.status = (IF h \notin down THEN "delivered" ELSE "failed") /\ d.attempts = req[r].attempt
      BY <2>0 DEF Delivery, Verdict
    <2>3. d \in DeliveryRow
      BY <1>3, <1>4, <1>5, <2>0 DEF Delivery, Verdict, DeliveryRow
    <2>4. /\ rec \in Request /\ rec.pc = pc /\ rec.queue = rest /\ rec.todo = req[r].todo /\ rec.event = req[r].event
          /\ rec.on = on /\ rec.sent = req[r].sent \cup {d} /\ rec.hook = None /\ rec.kind = req[r].kind
      <3>1. 1 \in 1..Attempts
        BY CompletionAssumption
      <3> QED  BY <1>3, <2>3, <3>1 DEF Request, Pcs, Sending
    <2> HIDE DEF rec
    <2>5. /\ Own(r) /\ req'[r] = rec /\ draft'[r] = draft[r] /\ log'[r] = log[r]
          /\ (Placed(r)' /\ Accounted(r)' /\ Logged(r)' /\ (Owes(r) => Owes(r)') => Keeps)
      BY <1>3, <1>9, <2>1, <2>4
    <2>6. Honest(d)'
      <3>1. Notice(d) = n
        BY <2>2 DEF Notice
      <3>2. h \notin down => n \in got'
        BY <1>6
      <3>3. h \in down => req[r].attempt = Attempts
        BY <1>3, <1>11, CompletionAssumption DEF GivesUp
      <3> HIDE DEF n
      <3> QED  BY <1>5, <2>2, <3>1, <3>2, <3>3 DEF Honest
    <2>7. Placed(r)'
      BY <1>2, <1>3, <1>4, <2>4, <2>5 DEF Placed, Live, Sending, store
    <2>8. Accounted(r)'
      <3> SUFFICES ASSUME NEW g \in got', g.by = r
                   PROVE  webhooks[g.hook] # "absent" /\ \E x \in log[r] \cup rec.sent : Notice(x) = g
        BY <1>2, <2>4, <2>5 DEF Accounted, store, Live
      <3>1. Notice(d) = n
        BY <2>2 DEF Notice
      <3>2. CASE g = n
        BY <1>5, <2>4, <3>1, <3>2
      <3>3. CASE g \in got
        <4>1. /\ webhooks[g.hook] # "absent" /\ g \in Notices
              /\ \/ \E x \in log[r] \cup req[r].sent : Notice(x) = g
                 \/ g.on = on /\ g.hook = req[r].hook
          BY <1>2, <1>3, <3>3 DEF Accounted, Types
        <4>2. g.on = on /\ g.hook = req[r].hook => g = n
          BY <1>5, <4>1 DEF Notices
        <4> QED  BY <2>4, <3>1, <4>1, <4>2
      <3> QED  BY <1>6, <3>2, <3>3
    <2>9. Logged(r)'
      <3>1. webhooks' = webhooks
        BY <1>2 DEF store
      <3> QED  BY <1>2, <1>3, <1>7, <2>2, <2>4, <2>5, <2>6, <3>1 DEF Logged, Sending
    <2>10. Addressed(r) => Addressed(r)'
      <3>1. \A event : Subscribers(event)' = Subscribers(event)
        BY <1>2 DEF store, Subscribers
      <3>2. Rows(r)' = Rows(r)
        BY <1>2, <2>5 DEF Rows, store
      <3>3. \A x \in req[r].sent : x.hook \notin req[r].queue
        BY <1>3 DEF Logged
      <3>4. rest \cup {x.hook : x \in req[r].sent \cup {d}} = req[r].queue \cup {x.hook : x \in req[r].sent}
        BY <1>5, <2>2
      <3> QED  BY <1>5, <2>2, <2>4, <2>5, <3>1, <3>2, <3>3, <3>4 DEF Addressed, Complete
    <2>11. Owes(r) => Owes(r)'
      BY <1>10, <2>4, <2>5, <2>10
    <2> QED  BY <2>5, <2>7, <2>8, <2>9, <2>11
  <1>12. CASE h \in down /\ ~GivesUp(r)
    <2> DEFINE m   == IF req[r].attempt < Attempts THEN req[r].attempt + 1 ELSE req[r].attempt
               rec == [req[r] EXCEPT !.hook = h, !.attempt = m]
    <2>1. req' = [req EXCEPT ![r] = rec]
      BY <1>1, <1>12 DEF Step
    <2>2. m \in 1..Attempts
      BY <1>3, CompletionAssumption
    <2> HIDE DEF m
    <2>3. /\ rec \in Request /\ rec.pc = "send" /\ rec.queue = req[r].queue /\ rec.todo = req[r].todo
          /\ rec.event = req[r].event /\ rec.on = on /\ rec.sent = req[r].sent /\ rec.hook = h
          /\ rec.kind = req[r].kind
      BY <1>2, <1>3, <1>5, <2>2 DEF Request
    <2> HIDE DEF rec
    <2>4. /\ Own(r) /\ req'[r] = rec /\ draft'[r] = draft[r] /\ log'[r] = log[r]
          /\ (Placed(r)' /\ Accounted(r)' /\ Logged(r)' /\ (Owes(r) => Owes(r)') => Keeps)
      BY <1>3, <1>9, <2>1, <2>3
    <2>5. Placed(r)'
      BY <1>2, <1>3, <1>5, <2>3, <2>4 DEF Placed, Live, Sending, store
    <2>6. Accounted(r)'
      <3> SUFFICES ASSUME NEW g \in got', g.by = r
                   PROVE  /\ webhooks[g.hook] # "absent"
                          /\ (\E x \in log[r] \cup req[r].sent : Notice(x) = g) \/ (g.on = on /\ g.hook = h)
        BY <1>2, <2>3, <2>4 DEF Accounted, store, Live
      <3>1. CASE g = n
        BY <1>5, <3>1
      <3>2. CASE g \in got
        <4>1. /\ webhooks[g.hook] # "absent" /\ g \in Notices
              /\ \/ \E x \in log[r] \cup req[r].sent : Notice(x) = g
                 \/ g.on = on /\ g.hook = req[r].hook
          BY <1>2, <1>3, <3>2 DEF Accounted, Types
        <4>2. g.hook = req[r].hook => g.hook = h
          BY <1>5, <4>1 DEF Notices
        <4> QED  BY <4>1, <4>2
      <3> QED  BY <1>6, <3>1, <3>2
    <2>7. Logged(r)'
      <3>1. webhooks' = webhooks
        BY <1>2 DEF store
      <3> QED  BY <1>2, <1>3, <1>7, <2>3, <2>4, <3>1 DEF Logged, Sending
    <2>8. Addressed(r) => Addressed(r)'
      <3>1. \A event : Subscribers(event)' = Subscribers(event)
        BY <1>2 DEF store, Subscribers
      <3>2. Rows(r)' = Rows(r)
        BY <1>2, <2>4 DEF Rows, store
      <3> QED  BY <2>3, <2>4, <3>1, <3>2 DEF Addressed, Complete
    <2>9. Owes(r) => Owes(r)'
      BY <1>10, <2>3, <2>4, <2>8
    <2> QED  BY <2>4, <2>5, <2>6, <2>7, <2>9
  <1> QED  BY <1>11, <1>12


LEMMA FlushKeeps ==
  ASSUME LogInv, OneByOne, NEW r \in Requests, Flush(r)
  PROVE  Keeps
  <1> DEFINE rec == [req[r] EXCEPT !.pc = "act", !.sent = {}]
             ds  == log[r] \cup req[r].sent
  <1>1. /\ req[r].pc = "flush" /\ Live(r) /\ ~Orphaned(r) /\ UNCHANGED <<store, world, draft>>
        /\ req' = [req EXCEPT ![r] = rec] /\ log' = [log EXCEPT ![r] = ds]
    BY DEF Flush, Live, Step
  <1>2. /\ Types /\ Placed(r) /\ Accounted(r) /\ Logged(r) /\ req[r] \in Request /\ draft[r] \in Drafts
        /\ log[r] \in SUBSET DeliveryRow /\ req[r].sent \in SUBSET DeliveryRow
    BY Facts DEF LogInv
  <1>3. /\ req[r].queue = {} /\ req[r].hook = None /\ req[r].kind # "none" /\ req[r].on \in Units
        /\ req[r].on \notin req[r].todo /\ req[r].event \in Events
    BY <1>1, <1>2 DEF Placed, Sending
  <1>4. /\ rec \in Request /\ rec.pc = "act" /\ rec.sent = {} /\ rec.queue = {} /\ rec.hook = None
        /\ rec.todo = req[r].todo /\ rec.kind = req[r].kind
    BY <1>2, <1>3 DEF Request, Pcs
  <1> HIDE DEF rec
  <1>5. Moves(r, rec, draft[r], ds)
    BY <1>1, <1>2, <1>4 DEF Moves, world, Types
  <1> HIDE DEF ds
  <1>6. /\ Types' /\ Own(r) /\ DraftsApart' /\ req'[r] = rec /\ draft'[r] = draft[r] /\ log'[r] = ds
    <2>1. \A q \in Requests \ {r} : DOMAIN draft[r] \cap DOMAIN draft[q] = {}
      BY DEF LogInv, DraftsApart
    <2>2. got' = got
      BY <1>1 DEF world
    <2> QED  BY <1>1, <1>5, <2>1, <2>2, OwnStep
  <1>7. webhooks' = webhooks /\ rows' = rows /\ unit' = unit /\ got' = got
    BY <1>1 DEF store, world
  <1>8. \A d \in req[r].sent : webhooks[d.hook] = "active" /\ d.on = req[r].on /\ d.event = req[r].event
    BY <1>1, <1>2 DEF Orphaned, Logged
  <1>9. Placed(r)' /\ Accounted(r)' /\ Logged(r)'
    <2>1. Placed(r)'
      BY <1>2, <1>3, <1>4, <1>6, <1>7 DEF Placed, Live, Sending
    <2>2. Accounted(r)'
      BY <1>1, <1>2, <1>4, <1>6, <1>7 DEF Accounted, Live, ds
    <2>3. Logged(r)'
      <3>1. \A d : Honest(d) => Honest(d)'
        BY <1>7 DEF Honest
      <3>2. ASSUME NEW d \in ds
            PROVE  Honest(d)' /\ d.by = r /\ webhooks'[d.hook] = "active"
        BY <1>2, <1>3, <1>7, <1>8, <3>1, <3>2 DEF Logged, ds
      <3> QED  BY <1>4, <1>6, <3>2 DEF Logged, Sending
    <2> QED  BY <2>1, <2>2, <2>3
  <1>10. LogInv'
    BY <1>6, <1>9, OthersKeep DEF LogInv
  <1>11. ASSUME Owes(r) PROVE Owes(r)'
    <2>1. /\ Rows(r)' = Rows(r) \cup req[r].sent /\ Backlogged' = Backlogged
          /\ \A u \in Units : See(r, u)' = See(r, u)
          /\ \A event : Subscribers(event)' = Subscribers(event)
      BY <1>6, <1>7 DEF Rows, Backlogged, InQueue, Subscribers, See, ds
    <2>2. Depth(r)' = Depth(r) /\ (Calm(r)' <=> Calm(r))
      <3>1. Depth(r)' = Depth(r)
        BY <2>1 DEF Depth
      <3>2. Calm(r)' <=> Calm(r)
        BY <1>7, <2>1 DEF Calm, Waiting, Final
      <3> QED  BY <3>1, <3>2
    <2>3. /\ AtMostOnce(Rows(r)) /\ AllOrNone(Rows(r)) /\ Addressed(r)
      BY <1>1, <1>11 DEF Owes
    <2>4. /\ \A d, x \in req[r].sent : d.hook = x.hook => d = x
          /\ Subscribers(req[r].event) = {d.hook : d \in req[r].sent}
          /\ req[r].event = "completed" => \A d \in Rows(r) : ~Complete(d)
      BY <1>3, <2>3 DEF Addressed
    <2>5. ASSUME req[r].event = "completed"
          PROVE  AtMostOnce(Rows(r))' /\ Announced(Rows(r))'
      <3>1. AtMostOnce(Rows(r) \cup req[r].sent)
        BY <2>4, <2>5 DEF AtMostOnce
      <3>2. \A h \in Subscribers("completed") : \E d \in req[r].sent : d.hook = h /\ Complete(d)
        BY <1>8, <2>4, <2>5 DEF Complete
      <3>3. Announced(Rows(r) \cup req[r].sent)
        BY <3>2, CompletionAssumption DEF Announced, Subscribers
      <3> QED  BY <1>7, <2>1, <3>1, <3>3 DEF Announced
    <2>6. ASSUME req[r].event = "backlog"
          PROVE  AtMostOnce(Rows(r))' /\ AllOrNone(Rows(r))' /\ (Announced(Rows(r)) => Announced(Rows(r))')
      <3>1. \A d \in req[r].sent : ~Complete(d)
        BY <1>8, <2>6 DEF Complete
      <3>2. AtMostOnce(Rows(r) \cup req[r].sent)
        BY <2>3, <3>1 DEF AtMostOnce
      <3>3. Announced(Rows(r)) => Announced(Rows(r))'
        BY <1>7, <2>1 DEF Announced
      <3>4. AllOrNone(Rows(r))'
        BY <2>1, <2>3, <3>1, <3>3 DEF AllOrNone
      <3> QED  BY <2>1, <3>2, <3>3, <3>4
    <2>7. AtMostOnce(Rows(r))' /\ AllOrNone(Rows(r))'
      BY <1>3, <2>5, <2>6 DEF Events, AllOrNone
    <2>8. ASSUME \A u \in Units : Final(See(r, u)) PROVE Announced(Rows(r))'
      <3>1. req[r].event = "backlog" => Announced(Rows(r))
        BY <1>11, <2>8 DEF Owes
      <3> QED  BY <1>3, <2>5, <2>6, <3>1 DEF Events
    <2>9. ASSUME Calm(r), Cardinality(Backlogged) < Threshold, Depth(r) >= Threshold PROVE BacklogKnown(r)'
      <3>1. CASE req[r].event = "completed"
        <4>1. BacklogKnown(r)
          BY <1>11, <2>9, <3>1 DEF Owes
        <4> QED  BY <1>6, <2>1, <4>1 DEF BacklogKnown, ds
      <3>2. CASE req[r].event = "backlog"
        <4>1. \A h \in Subscribers("backlog") : \E d \in req[r].sent : d.hook = h
          BY <2>4, <3>2
        <4> QED  BY <1>6, <2>1, <4>1 DEF BacklogKnown, ds
      <3> QED  BY <1>3, <3>1, <3>2 DEF Events
    <2> QED  BY <1>4, <1>6, <2>1, <2>2, <2>7, <2>8, <2>9 DEF Owes, Sending, Final
  <1>12. OneByOne'
    BY <1>1, <1>6, <1>11, OneStep DEF world
  <1> QED  BY <1>10, <1>12 DEF Keeps

-----------------------------------------------------------------------------
(* A request commits.                                                      *)

LEMMA CommitKeeps ==
  ASSUME LogInv, OneByOne, NEW r \in Requests, Commit(r)
  PROVE  Keeps
  <1>1. /\ req[r].pc = "act" /\ req[r].todo = {} /\ Live(r)
        /\ unit' = [u \in Units |-> See(r, u)] /\ rows' = rows \cup log[r]
        /\ req' = [req EXCEPT ![r] = Blank("done")] /\ draft' = [draft EXCEPT ![r] = <<>>]
        /\ log' = [log EXCEPT ![r] = {}] /\ UNCHANGED <<webhooks, world>>
    BY DEF Commit, Closed, Step, Live
  <1>2. webhooks' = webhooks /\ down' = down /\ got' = got /\ events' = events /\ alone' = alone
    BY <1>1 DEF world
  <1>3. /\ Blank("done") \in Request /\ Blank("done").pc = "done" /\ Blank("done").todo = {}
        /\ Blank("done").sent = {} /\ Blank("done").queue = {} /\ Blank("done").hook = None
    BY BlankType DEF Pcs
  <1>4. /\ Types /\ DraftsApart /\ Committed /\ Placed(r) /\ Accounted(r) /\ Logged(r)
        /\ log[r] \in SUBSET DeliveryRow
    BY Facts DEF LogInv
  <1>5. /\ req'[r] = Blank("done") /\ draft'[r] = <<>> /\ log'[r] = {}
        /\ \A q \in Requests \ {r} : req'[q] = req[q] /\ draft'[q] = draft[q] /\ log'[q] = log[q]
        /\ req' \in [Requests -> Request] /\ draft' \in [Requests -> Drafts]
        /\ log' \in [Requests -> SUBSET DeliveryRow]
    BY <1>1, <1>3, <1>4, NoDraft DEF Types
  <1>6. Types'
    <2>1. unit' \in [Units -> UnitRow]
      BY <1>1, <1>4, SeeType
    <2>2. rows' \subseteq DeliveryRow
      BY <1>1, <1>4 DEF Types
    <2> QED  BY <1>2, <1>4, <1>5, <2>1, <2>2 DEF Types
  <1>7. DraftsApart'
    BY <1>4, <1>5, NoDraft DEF DraftsApart
  <1>8. \A d : Honest(d) <=> Honest(d)'
    BY <1>2 DEF Honest
  <1>9. Committed'
    <2> SUFFICES ASSUME NEW d \in rows'
                 PROVE  Honest(d)' /\ webhooks'[d.hook] = "active" /\ req'[d.by].pc = "done"
      BY DEF Committed
    <2>1. CASE d \in rows
      <3>1. Honest(d) /\ webhooks[d.hook] = "active" /\ req[d.by].pc = "done" /\ d.by \in Requests
        BY <1>4, <2>1 DEF Committed, Types, DeliveryRow
      <3>2. d.by # r
        BY <1>1, <3>1
      <3> QED  BY <1>2, <1>5, <1>8, <3>1, <3>2
    <2>2. CASE d \in log[r]
      <3>1. Honest(d) /\ webhooks[d.hook] = "active" /\ d.by = r
        BY <1>4, <2>2 DEF Logged
      <3> QED  BY <1>2, <1>3, <1>5, <1>8, <3>1
    <2> QED  BY <1>1, <2>1, <2>2
  <1>10. ASSUME NEW q \in Requests PROVE Placed(q)' /\ Accounted(q)' /\ Logged(q)'
    <2>1. CASE q = r
      <3>1. ~Live(r)'
        BY <1>3, <1>5 DEF Live
      <3>2. Placed(r)'
        BY <1>3, <1>5, <3>1 DEF Placed, Sending
      <3>3. Logged(r)'
        BY <1>3, <1>5 DEF Logged
      <3>4. Accounted(r)'
        <4>1. req[r].sent = {}
          BY <1>1, <1>4 DEF Placed
        <4> QED  BY <1>1, <1>2, <1>3, <1>4, <1>5, <3>1, <4>1 DEF Accounted
      <3> QED  BY <2>1, <3>2, <3>3, <3>4
    <2>2. CASE q # r
      <3>1. Placed(q) /\ Accounted(q) /\ Logged(q)
        BY DEF LogInv
      <3>2. req'[q] = req[q] /\ draft'[q] = draft[q] /\ log'[q] = log[q]
        BY <1>5, <2>2
      <3>3. Placed(q)'
        BY <1>2, <3>1, <3>2 DEF Placed, Live
      <3>4. Accounted(q)'
        BY <1>1, <1>2, <3>1, <3>2 DEF Accounted, Live
      <3>5. Logged(q)'
        BY <1>2, <1>8, <3>1, <3>2 DEF Logged
      <3> QED  BY <3>3, <3>4, <3>5
    <2> QED  BY <2>1, <2>2
  <1>11. OneByOne'
    <2>1. \A h \in Registered : webhooks'[h] # "absent"
      BY <1>2 DEF OneByOne
    <2>2. ASSUME alone
          PROVE  /\ \A q \in Requests : ~Live(q)'
                 /\ AtMostOnce(rows)' /\ AllOrNone(rows)'
                 /\ (\A u \in Units : Final(unit[u])') => Announced(rows)'
      <3>1. Owes(r)
        BY <1>1, <2>2 DEF OneByOne
      <3>2. \A q \in Requests : ~Live(q)'
        BY <1>1, <1>3, <1>5, <2>2 DEF OneByOne, Live
      <3>3. rows' = Rows(r)
        BY <1>1 DEF Rows
      <3>4. AtMostOnce(rows)' /\ AllOrNone(rows)'
        BY <1>2, <3>1, <3>3 DEF Owes, AtMostOnce, AllOrNone, Announced
      <3>5. \A u \in Units : unit'[u] = See(r, u)
        BY <1>1
      <3>6. (\A u \in Units : Final(See(r, u))) => Announced(Rows(r))
        BY <1>1, <3>1 DEF Owes, Sending
      <3>7. (\A u \in Units : Final(unit[u])') => Announced(rows)'
        BY <1>2, <3>3, <3>5, <3>6 DEF Final, Announced
      <3> QED  BY <3>2, <3>4, <3>7
    <2> QED  BY <1>2, <2>1, <2>2 DEF OneByOne
  <1> QED  BY <1>6, <1>7, <1>9, <1>10, <1>11 DEF LogInv, Keeps

-----------------------------------------------------------------------------
(* Voids, webhooks, receivers.                                             *)

LEMMA ShortKeeps ==
  ASSUME LogInv, OneByOne, Short,
         unit' \in [Units -> UnitRow], webhooks' \in [Hooks -> {"absent", "active", "deleted"}],
         rows' \subseteq rows,
         \A d \in rows' : webhooks'[d.hook] = "active",
         \A r \in Requests : \A d \in log[r] : webhooks'[d.hook] = "active",
         \A h \in Registered : webhooks'[h] # "absent",
         \A h \in Hooks : webhooks[h] # "absent" =>
           webhooks'[h] # "absent" /\ (webhooks'[h] = "active" => webhooks[h] = "active" /\ \A d \in rows : d.hook = h => d \in rows'),
         Announced(rows) => Announced(rows)',
         (\A u \in Units : Final(unit[u])') => \A u \in Units : Final(unit[u])
  PROVE  Keeps
  <1>1. UNCHANGED <<down, got, req, draft, log>> /\ events' = events + 1 /\ alone' = (alone /\ Quiet)
    BY DEF Short
  <1>2. Types /\ DraftsApart /\ Committed
    BY DEF LogInv
  <1>3. Types'
    BY <1>1, <1>2 DEF Types
  <1>4. DraftsApart'
    BY <1>1, <1>2 DEF DraftsApart
  <1>5. \A d : Honest(d) <=> Honest(d)'
    BY <1>1 DEF Honest
  <1>6. Committed'
    BY <1>1, <1>2, <1>5 DEF Committed
  <1>7. ASSUME NEW q \in Requests PROVE Placed(q)' /\ Accounted(q)' /\ Logged(q)'
    <2>1. Placed(q) /\ Accounted(q) /\ Logged(q)
      BY DEF LogInv
    <2>2. Placed(q)'
      <3>1. req[q].queue \subseteq Hooks
        BY <1>2, Facts
      <3> QED  BY <1>1, <2>1, <3>1 DEF Placed, Live
    <2>3. Accounted(q)'
      <3>1. \A g \in got : g.hook \in Hooks
        BY <1>2 DEF Types, Notices
      <3>2. \A d \in rows : Notice(d).hook = d.hook
        BY DEF Notice
      <3> QED  BY <1>1, <2>1, <3>1, <3>2 DEF Accounted, Live
    <2>4. Logged(q)'
      BY <1>1, <1>5, <2>1 DEF Logged
    <2> QED  BY <2>2, <2>3, <2>4
  <1>8. ASSUME alone'
        PROVE  /\ \A q \in Requests : ~Live(q)'
               /\ AtMostOnce(rows)' /\ AllOrNone(rows)'
               /\ (\A u \in Units : Final(unit[u])') => Announced(rows)'
    <2>1. AtMostOnce(rows) /\ AllOrNone(rows) /\ ((\A u \in Units : Final(unit[u])) => Announced(rows))
      BY <1>1, <1>8 DEF OneByOne
    <2>2. \A q \in Requests : ~Live(q)'
      BY <1>1, <1>8 DEF Quiet, Live
    <2>3. AtMostOnce(rows)'
      BY <2>1 DEF AtMostOnce
    <2>4. AllOrNone(rows)'
      BY <2>1 DEF AllOrNone
    <2> QED  BY <2>1, <2>2, <2>3, <2>4
  <1>9. OneByOne'
    BY <1>8 DEF OneByOne
  <1> QED  BY <1>3, <1>4, <1>6, <1>7, <1>9 DEF LogInv, Keeps

LEMMA VoidKeeps ==
  ASSUME LogInv, OneByOne, NEW u \in Units, Void(u)
  PROVE  Keeps
  <1>1. /\ Short /\ webhooks' = webhooks /\ rows' = rows
        /\ unit' = [unit EXCEPT ![u] = Voided(unit[u])]
    BY DEF Void
  <1>2. Types
    BY DEF LogInv
  <1>3. Voided(unit[u]) \in UnitRow /\ (Final(Voided(unit[u])) => Final(unit[u]))
    <2>1. unit[u] \in UnitRow
      BY <1>2 DEF Types
    <2>2. CASE unit[u].final = "human"
      BY <2>1, <2>2 DEF Voided, UnitRow, Statuses, Final
    <2>3. CASE unit[u].final # "human"
      <3>1. Voided(unit[u]) = Unit("collecting", unit[u].escalated, "none", FALSE) /\ unit[u].escalated \in BOOLEAN
        BY <2>1, <2>3, UnitFields DEF Voided
      <3> QED  BY <3>1 DEF Unit, UnitRow, Statuses, Final
    <2> QED  BY <2>2, <2>3
  <1>4. /\ unit' \in [Units -> UnitRow]
        /\ (\A v \in Units : Final(unit[v])') => \A v \in Units : Final(unit[v])
    BY <1>1, <1>2, <1>3 DEF Types, Final
  <1>5. Announced(rows) => Announced(rows)'
    BY <1>1 DEF Announced
  <1>6. /\ webhooks' \in [Hooks -> {"absent", "active", "deleted"}]
        /\ \A d \in rows' : webhooks'[d.hook] = "active"
        /\ \A r \in Requests : \A d \in log[r] : webhooks'[d.hook] = "active"
        /\ \A h \in Registered : webhooks'[h] # "absent"
    BY <1>1 DEF LogInv, Types, Committed, Logged, OneByOne
  <1> QED  BY <1>1, <1>4, <1>5, <1>6, ShortKeeps

LEMMA PostHookKeeps ==
  ASSUME LogInv, OneByOne, NEW h \in Hooks, PostHook(h)
  PROVE  Keeps
  <1>1. /\ Short /\ webhooks[h] = "absent" /\ webhooks' = [webhooks EXCEPT ![h] = "active"]
        /\ unit' = unit /\ rows' = rows
    BY DEF PostHook
  <1>2. Types
    BY DEF LogInv
  <1>3. /\ webhooks' \in [Hooks -> {"absent", "active", "deleted"}]
        /\ \A x \in Hooks \ {h} : webhooks'[x] = webhooks[x]
    BY <1>1, <1>2 DEF Types
  <1>4. h \notin Registered
    BY <1>1 DEF OneByOne
  <1>5. Announced(rows) => Announced(rows)'
    BY <1>1, <1>3, <1>4, CompletionAssumption DEF Announced
  <1>6. \A x \in Hooks : webhooks[x] = "active" => webhooks'[x] = "active"
    BY <1>1, <1>3
  <1>7. \A d \in DeliveryRow : d.hook \in Hooks
    BY DEF DeliveryRow
  <1>8. /\ \A d \in rows' : webhooks'[d.hook] = "active"
        /\ \A r \in Requests : \A d \in log[r] : webhooks'[d.hook] = "active"
    BY <1>1, <1>2, <1>6, <1>7 DEF LogInv, Types, Committed, Logged
  <1>9. \A x \in Registered : webhooks'[x] # "absent"
    BY <1>3, <1>4, CompletionAssumption DEF OneByOne
  <1>10. unit' \in [Units -> UnitRow] /\ ((\A u \in Units : Final(unit[u])') => \A u \in Units : Final(unit[u]))
    BY <1>1, <1>2 DEF Types, Final
  <1> QED  BY <1>1, <1>3, <1>5, <1>8, <1>9, <1>10, ShortKeeps

LEMMA DeleteHookKeeps ==
  ASSUME LogInv, OneByOne, NEW h \in Hooks, DeleteHook(h)
  PROVE  Keeps
  <1>1. /\ Short /\ \A r \in Requests : \A d \in log[r] : d.hook # h
        /\ webhooks' = [webhooks EXCEPT ![h] = "deleted"]
        /\ unit' = unit /\ rows' = {d \in rows : d.hook # h}
    BY DEF DeleteHook
  <1>2. Types
    BY DEF LogInv
  <1>3. /\ webhooks' \in [Hooks -> {"absent", "active", "deleted"}]
        /\ \A x \in Hooks \ {h} : webhooks'[x] = webhooks[x]
        /\ webhooks'[h] = "deleted"
    BY <1>1, <1>2 DEF Types
  <1>4. Announced(rows) => Announced(rows)'
    <2> SUFFICES ASSUME Announced(rows), NEW x \in Registered, webhooks'[x] = "active", EventOf[x] = "completed"
                 PROVE  \E d \in rows' : d.hook = x /\ Complete(d)
      BY DEF Announced
    <2>1. x \in Hooks /\ x # h /\ webhooks[x] = "active"
      BY <1>3, CompletionAssumption
    <2> QED  BY <1>1, <2>1 DEF Announced
  <1>5. \A d \in DeliveryRow : d.hook \in Hooks
    BY DEF DeliveryRow
  <1>6. /\ \A d \in rows' : webhooks'[d.hook] = "active"
        /\ \A r \in Requests : \A d \in log[r] : webhooks'[d.hook] = "active"
    BY <1>1, <1>2, <1>3, <1>5 DEF LogInv, Types, Committed, Logged
  <1>7. \A x \in Registered : webhooks'[x] # "absent"
    BY <1>3, CompletionAssumption DEF OneByOne
  <1>8. unit' \in [Units -> UnitRow] /\ ((\A u \in Units : Final(unit[u])') => \A u \in Units : Final(unit[u]))
    BY <1>1, <1>2 DEF Types, Final
  <1> QED  BY <1>1, <1>3, <1>4, <1>6, <1>7, <1>8, ShortKeeps

\* Nothing but the receivers, or nothing at all.
LEMMA SameKeeps ==
  ASSUME LogInv, OneByOne, UNCHANGED <<store, req, draft, log, got, events, alone>>, down' \subseteq Flaky
  PROVE  Keeps
  <1>1. UNCHANGED <<unit, webhooks, rows, req, draft, log, got, events, alone>>
    BY DEF store
  <1>2. LogInv'
    <2>1. Types' /\ DraftsApart'
      BY <1>1 DEF LogInv, Types, DraftsApart
    <2>2. \A d : Honest(d) <=> Honest(d)'
      BY <1>1 DEF Honest
    <2>3. Committed'
      BY <1>1, <2>2 DEF LogInv, Committed
    <2>4. ASSUME NEW q \in Requests PROVE Placed(q)' /\ Accounted(q)' /\ Logged(q)'
      <3>1. Placed(q) /\ Accounted(q) /\ Logged(q)
        BY DEF LogInv
      <3>2. Placed(q)'
        BY <1>1, <3>1 DEF Placed, Live
      <3>3. Accounted(q)' /\ Logged(q)'
        BY <1>1, <2>2, <3>1 DEF Accounted, Logged, Live
      <3> QED  BY <3>2, <3>3
    <2> QED  BY <2>1, <2>3, <2>4 DEF LogInv
  <1>3. ASSUME NEW q \in Requests, Owes(q) PROVE Owes(q)'
    <2>1. /\ Rows(q)' = Rows(q) /\ Backlogged' = Backlogged /\ \A u \in Units : See(q, u)' = See(q, u)
          /\ \A event : Subscribers(event)' = Subscribers(event)
      BY <1>1 DEF Rows, Backlogged, InQueue, Subscribers, See
    <2>2. Depth(q)' = Depth(q) /\ (Calm(q)' <=> Calm(q))
      <3>1. Depth(q)' = Depth(q)
        BY <2>1 DEF Depth
      <3>2. Calm(q)' <=> Calm(q)
        BY <1>1, <2>1 DEF Calm, Waiting, Final
      <3> QED  BY <3>1, <3>2
    <2>3. Addressed(q) => Addressed(q)'
      BY <1>1, <2>1 DEF Addressed, Complete
    <2>4. /\ AtMostOnce(Rows(q))' /\ AllOrNone(Rows(q))' /\ (Announced(Rows(q)) => Announced(Rows(q))')
          /\ (BacklogKnown(q) => BacklogKnown(q)')
      BY <1>1, <1>3, <2>1 DEF Owes, AtMostOnce, AllOrNone, Announced, BacklogKnown
    <2> QED  BY <1>1, <1>3, <2>1, <2>2, <2>3, <2>4 DEF Owes, Sending, Final
  <1>4. \A q \in Requests : Live(q)' <=> Live(q)
    BY <1>1 DEF Live
  <1>5. /\ AtMostOnce(rows) => AtMostOnce(rows)'
        /\ AllOrNone(rows) => AllOrNone(rows)'
        /\ ((\A u \in Units : Final(unit[u])) => Announced(rows)) =>
             ((\A u \in Units : Final(unit[u])') => Announced(rows)')
    BY <1>1 DEF AtMostOnce, AllOrNone, Announced, Final
  <1>6. OneByOne'
    BY <1>1, <1>3, <1>4, <1>5 DEF OneByOne
  <1> QED  BY <1>2, <1>6 DEF Keeps

-----------------------------------------------------------------------------
(* Every step.                                                             *)

LEMMA InitHolds ==
  ASSUME Init
  PROVE  LogInv /\ OneByOne
  <1>1. /\ unit \in [Units -> UnitRow] /\ ~(\A u \in Units : Final(unit[u]))
        /\ rows = {} /\ down = {} /\ got = {} /\ events = 0 /\ alone = TRUE
        /\ webhooks = [h \in Hooks |-> IF h \in Registered THEN "active" ELSE "absent"]
        /\ req = [r \in Requests |-> Blank("idle")]
        /\ draft = [r \in Requests |-> <<>>] /\ log = [r \in Requests |-> {}]
    BY CompletionAssumption DEF Init, Final
  <1>2. /\ Blank("idle") \in Request /\ Blank("idle").pc = "idle" /\ Blank("idle").todo = {}
        /\ Blank("idle").sent = {} /\ Blank("idle").queue = {} /\ Blank("idle").hook = None
    BY BlankType DEF Pcs
  <1>3. Types
    <2>1. req \in [Requests -> Request] /\ draft \in [Requests -> Drafts] /\ log \in [Requests -> SUBSET DeliveryRow]
      BY <1>1, <1>2, NoDraft
    <2> QED  BY <1>1, <2>1 DEF Types
  <1>4. DraftsApart /\ Committed
    BY <1>1, NoDraft DEF DraftsApart, Committed
  <1>5. ASSUME NEW r \in Requests PROVE ~Live(r) /\ Placed(r) /\ Accounted(r) /\ Logged(r)
    <2>1. req[r] = Blank("idle") /\ draft[r] = <<>> /\ log[r] = {}
      BY <1>1
    <2>2. ~Live(r)
      BY <1>2, <2>1 DEF Live
    <2> QED  BY <1>1, <1>2, <2>1, <2>2, NoDraft DEF Placed, Accounted, Logged, Sending
  <1>6. LogInv
    BY <1>3, <1>4, <1>5 DEF LogInv
  <1>7. AtMostOnce(rows) /\ AllOrNone(rows)
    BY <1>1 DEF AtMostOnce, AllOrNone
  <1>8. \A h \in Registered : webhooks[h] # "absent"
    BY <1>1, CompletionAssumption
  <1>9. OneByOne
    BY <1>1, <1>5, <1>7, <1>8 DEF OneByOne
  <1> QED  BY <1>6, <1>9

LEMMA NextKeeps ==
  ASSUME LogInv, OneByOne, [Next]_vars
  PROVE  Keeps
  <1>1. ASSUME NEW r \in Requests, Submit(r) PROVE Keeps
    BY <1>1, BeginKeeps DEF Submit
  <1>2. ASSUME NEW r \in Requests, Decide(r) PROVE Keeps
    BY <1>2, BeginKeeps DEF Decide
  <1>3. ASSUME NEW r \in Requests, Route(r) PROVE Keeps
    <2>1. PICK included \in BOOLEAN : Begin(r, "route", Routable(included))
      BY <1>3 DEF Route
    <2>2. Routable(included) \in SUBSET Units
      BY DEF Routable
    <2> QED  BY <2>1, <2>2, BeginKeeps
  <1>4. ASSUME NEW r \in Requests, Late(r) PROVE Keeps
    <2>1. Live(r) /\ Dropped(r)
      BY <1>4 DEF Late, Live
    <2> QED  BY <2>1, DroppedKeeps
  <1>5. ASSUME NEW r \in Requests, Refused(r) PROVE Keeps
    <2>1. Live(r) /\ Dropped(r)
      BY <1>5 DEF Refused, Live
    <2> QED  BY <2>1, DroppedKeeps
  <1>6. ASSUME NEW r \in Requests, Serve(r) PROVE Keeps
    BY <1>4, <1>5, <1>6, ActKeeps, CheckKeeps, SendKeeps, FlushKeeps, CommitKeeps DEF Serve
  <1>7. ASSUME NEW r \in Requests, Crash(r) PROVE Keeps
    BY <1>7, DroppedKeeps DEF Crash
  <1>8. ASSUME NEW h \in Flaky, Toggle(h) PROVE Keeps
    <2>1. UNCHANGED <<store, req, draft, log, got, events, alone>>
      BY <1>8 DEF Toggle
    <2>2. down \subseteq Flaky
      BY DEF LogInv, Types
    <2>3. down' \subseteq Flaky
      BY <1>8, <2>2 DEF Toggle
    <2> QED  BY <2>1, <2>3, SameKeeps
  <1>9. ASSUME UNCHANGED vars PROVE Keeps
    <2>1. UNCHANGED <<unit, webhooks, rows, down, req, draft, log, got, events, alone>>
      BY <1>9 DEF vars
    <2>2. UNCHANGED <<store, req, draft, log, got, events, alone>> /\ down' = down
      BY <2>1 DEF store
    <2>3. down \subseteq Flaky
      BY DEF LogInv, Types
    <2> QED  BY <2>2, <2>3, SameKeeps
  <1> QED  BY <1>1, <1>2, <1>3, <1>6, <1>7, <1>8, <1>9, VoidKeeps, PostHookKeeps, DeleteHookKeeps DEF Next

LEMMA Invariance == Spec => [](LogInv /\ OneByOne)
  <1>1. Init => LogInv /\ OneByOne
    BY InitHolds
  <1>2. LogInv /\ OneByOne /\ [Next]_vars => (LogInv /\ OneByOne)'
    BY NextKeeps DEF Keeps
  <1> QED  BY <1>1, <1>2, PTL DEF Spec

LEMMA RowsTrue == ASSUME LogInv PROVE RowsTellTheTruth
  <1>1. Types /\ DraftsApart /\ Committed /\ \A r \in Requests : Placed(r)
    BY DEF LogInv
  <1>2. TypeOK
    <2>1. \A u \in Units : unit[u] \in UnitRow
      BY <1>1 DEF Types
    <2>2. \A r \in Requests : ~Live(r) => draft[r] = <<>> /\ log[r] = {}
      BY <1>1 DEF Placed
    <2> QED  BY <1>1, <2>1, <2>2 DEF TypeOK, Types, DraftsApart
  <1>3. ASSUME NEW d \in rows
        PROVE  /\ webhooks[d.hook] = "active" /\ req[d.by].pc = "done" /\ d.event = EventOf[d.hook]
               /\ d.status = "delivered" => \E told \in got : Reports(d, told)
               /\ d.status = "failed" => d.attempts = Attempts
    <2>1. Honest(d) /\ webhooks[d.hook] = "active" /\ req[d.by].pc = "done"
      BY <1>1 DEF Committed
    <2>2. Reports(d, Notice(d))
      BY DEF Reports, Notice
    <2> QED  BY <2>1, <2>2 DEF Honest
  <1>4. ASSUME NEW told \in got, webhooks[told.hook] = "active", req[told.by].pc = "done"
        PROVE  \E d \in rows : Reports(d, told)
    <2>1. told.by \in Requests
      BY <1>1 DEF Types, Notices
    <2>2. PICK d \in rows : Notice(d) = told
      BY <1>4, <2>1 DEF LogInv, Accounted
    <2> QED  BY <2>2 DEF Reports, Notice
  <1> QED  BY <1>2, <1>3, <1>4 DEF RowsTellTheTruth

LEMMA OnceTrue == ASSUME LogInv, OneByOne PROVE AnnouncedOnce
  <1> SUFFICES ASSUME alone
               PROVE  /\ Quiet /\ (\A u \in Units : unit[u].status = "finalized") =>
                           \A h \in Registered : webhooks[h] = "active" /\ EventOf[h] = "completed"
                                                   => Announcements(h) # {}
                      /\ \A h \in Hooks : Cardinality(Announcements(h)) <= 1
    BY DEF AnnouncedOnce
  <1>1. AtMostOnce(rows) /\ ((\A u \in Units : Final(unit[u])) => Announced(rows))
    BY DEF OneByOne
  <1>2. (\A u \in Units : unit[u].status = "finalized") =>
          \A h \in Registered : webhooks[h] = "active" /\ EventOf[h] = "completed" => Announcements(h) # {}
    BY <1>1 DEF Final, Announced, Announcements, Complete
  <1>3. ASSUME NEW h \in Hooks PROVE Cardinality(Announcements(h)) <= 1
    <2>1. \A d, x \in Announcements(h) : d = x
      BY <1>1 DEF AtMostOnce, Announcements, Complete
    <2>2. CASE Announcements(h) = {}
      BY <2>2, FS_EmptySet
    <2>3. CASE Announcements(h) # {}
      <3>1. PICK d : d \in Announcements(h)
        BY <2>3
      <3>2. Announcements(h) = {d}
        BY <2>1, <3>1
      <3> QED  BY <3>2, FS_Singleton
    <2> QED  BY <2>2, <2>3
  <1> QED  BY <1>2, <1>3

LEMMA BacklogStep ==
  ASSUME LogInv, OneByOne, alone, QueueDepth < Threshold,
         \A u \in Units : Joins(u) => unit[u].final = "none",
         NEW r \in Requests, Commit(r), QueueDepth' >= Threshold,
         NEW h \in Subscribers("backlog")
  PROVE  \E d \in rows' : d.hook = h /\ d.by = r
  <1>1. req[r].pc = "act" /\ Live(r) /\ unit' = [u \in Units |-> See(r, u)] /\ rows' = rows \cup log[r]
    BY DEF Commit, Live
  <1>2. Owes(r) /\ Logged(r)
    BY <1>1 DEF OneByOne, LogInv
  <1>3. {u \in Units : InQueue(u)'} = {u \in Units : See(r, u).escalated /\ See(r, u).status # "finalized"}
    BY <1>1 DEF InQueue
  <1>4. Depth(r) >= Threshold /\ Cardinality(Backlogged) < Threshold
    BY <1>3 DEF Depth, Backlogged, QueueDepth
  <1>7. Calm(r)
    BY <1>1 DEF Calm, Joins, InQueue, Waiting, Final
  <1>5. BacklogKnown(r)
    BY <1>1, <1>2, <1>4, <1>7 DEF Owes, Sending
  <1>6. PICK d \in log[r] : d.hook = h
    BY <1>5 DEF BacklogKnown
  <1> QED  BY <1>1, <1>2, <1>6 DEF Logged

-----------------------------------------------------------------------------
\* Every committed delivery row is of a webhook that exists, of a request that committed;
\* it says delivered only if its receiver was told, and failed only after the last attempt;
\* and what a committed request told has its row: however many requests overlap, die, lose
\* an answer, or find a webhook deleted (dispatch.emit).
THEOREM RowsTheorem == Spec => []RowsTellTheTruth
  <1>1. LogInv => RowsTellTheTruth
    BY RowsTrue
  <1> QED  BY <1>1, Invariance, PTL

\* Requests one after the other announce completion to every webhook there from the
\* start, and to none twice (finalize.check_project_completed, _already_announced).
THEOREM AnnouncedTheorem == Spec => []AnnouncedOnce
  <1>1. LogInv /\ OneByOne => AnnouncedOnce
    BY OnceTrue
  <1> QED  BY <1>1, Invariance, PTL

\* Of requests one after the other, the one that takes the review queue to its
\* threshold or past it, by units not decided before, leaves a delivery row for every
\* backlog webhook: it handles several units, and meets the threshold itself on the way
\* (review.check_backlog).
THEOREM BacklogTheorem == Spec => BacklogTold
  <1>1. LogInv /\ OneByOne =>
          (alone /\ QueueDepth < Threshold /\ (\A u \in Units : Joins(u) => unit[u].final = "none")
             => \A r \in Requests :
                  Commit(r) /\ QueueDepth' >= Threshold =>
                    \A h \in Subscribers("backlog") : \E d \in rows' : d.hook = h /\ d.by = r)
    BY BacklogStep
  <1> QED  BY <1>1, Invariance, PTL DEF BacklogTold
=============================================================================
