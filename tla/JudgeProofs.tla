----------------------------- MODULE JudgeProofs -----------------------------
(***************************************************************************)
(* Judge runs, proved for any number of overlapping requests, judges,      *)
(* units and caps: every label answers its own prompt, no lease outlives   *)
(* its request, reports add up, no label is paid for twice, and caps hold.  *)
(*                                                                         *)
(* The inductive invariant (JudgeInv) says of each request what it holds   *)
(* and has not committed: its own counters add up to its own labels        *)
(* (Sound), and they fit the committed rows (Apart).  No two requests      *)
(* touched one slot (Separate), so a commit disturbs no other request.     *)
(* SpendInv, further down, adds that a run knows what it has spent.        *)
(***************************************************************************)
EXTENDS JudgeRun, FiniteSetTheorems, TLAPS

Working == {"begin", "pull", "call", "submit", "release"}
Handling == {"call", "submit", "release"}
Pcs == Live \cup {"idle", "done", "failed"}
SlotStatus == {"open", "leased", "filled"}
Drafts == UNION {[ss -> SlotStatus] : ss \in SUBSET Slots}
Fields == {"pc", "targets", "limit", "dry", "guidelines", "day", "seen", "attempted", "count", "labels",
           "cost", "hits", "spend", "active", "suspended", "slot", "attempt", "hit", "reply", "fatal",
           "done", "held"}

\* The prompt of a request whose local state is q.
PromptOf(q, s) == [unit |-> UnitOf[s], variant |-> VariantOf[s], guidelines |-> q.guidelines]
KeyOf(l) == <<l.judge, UnitOf[l.slot], VariantOf[l.slot]>>

\* A label answers what it was asked, about the slot it fills.
Answers(l) == l.reply = l.asked /\ l.asked.unit = UnitOf[l.slot] /\ l.asked.variant = VariantOf[l.slot]

-----------------------------------------------------------------------------
(* One request: its local state q, its slots f, its labels ms, and the     *)
(* committed labels vs it voids.                                           *)

Formed(q) ==
  /\ DOMAIN q = Fields /\ q.pc \in Pcs
  /\ q.targets \in Seq(Judges)
  /\ \A i, k \in 1..Len(q.targets) : q.targets[i] = q.targets[k] => i = k
  /\ q.pc \in Working <=> q.targets # <<>>
  /\ q.guidelines \in Nat /\ q.day \in 0..MaxEvents /\ q.hit \in BOOLEAN /\ q.dry \in BOOLEAN
  /\ q.attempted \subseteq Units /\ q.suspended \subseteq Judges /\ q.held \subseteq Units
  /\ q.slot \in Slots \cup {None} /\ (q.slot # None <=> q.pc \in Handling)
  /\ q.pc = "submit" => q.reply = PromptOf(q, q.slot)
  /\ q.dry => q.pc \notin {"call", "submit"}

\* Only the slot in hand is leased; a slot the run filled holds a valid label of its own.
Hands(q, f) ==
  /\ f \in Drafts
  /\ \A s \in DOMAIN f : f[s] = "leased" <=> s = q.slot
  /\ q.slot # None => q.slot \in DOMAIN f
Votes(r, q, f, ms) ==
  /\ \A l \in ms : /\ l \in LabelRow /\ l.run = r /\ Answers(l)
                   /\ l.slot \in DOMAIN f /\ UnitOf[l.slot] \in q.held
  /\ \A s \in DOMAIN f : f[s] = "filled" => \E l \in ms : l.slot = s /\ l.valid
\* What it voids is valid, and of units it holds.
Voids(q, ls, vs) == \A l \in vs : l \in ls /\ l.valid /\ UnitOf[l.slot] \in q.held
\* A slot it touched was open, or is of a unit it holds.
Touched(q, f, ss) == \A s \in DOMAIN f : ss[s] = "filled" => UnitOf[s] \in q.held

\* The slots one judge labeled, and those it paid for.
Labeled(ms, j) == {l.slot : l \in {m \in ms : m.judge = j}}
Charged(ms, j) == {l.slot : l \in {m \in ms : m.judge = j /\ ~m.hit}}
Adds(n, c, ms, j) == n = Cardinality(Labeled(ms, j)) /\ c = Price * Cardinality(Charged(ms, j))
\* No judge labels a slot twice in a request.
Distinct(ms) == \A l, m \in ms : l.run = m.run /\ l.judge = m.judge /\ l.slot = m.slot => l = m
Reported(row, ms) ==
  /\ Adds(row.labels, row.cost, ms, row.judge) /\ (row.dry => Labeled(ms, row.judge) = {})
  /\ row.labels <= row.attempted /\ row.attempted <= Cardinality(Units)

\* The counters of the judge in hand, and the rows of those before it.
Tally(q, ms) ==
  /\ Distinct(ms)
  /\ \A l \in ms : \A i \in 1..Len(q.targets) : l.judge = q.targets[i] =>
       i = 1 /\ UnitOf[l.slot] \in q.attempted /\ (q.slot # None => UnitOf[l.slot] # UnitOf[q.slot])
  /\ \A l \in ms : (q.targets # <<>> /\ l.judge = Head(q.targets)) \/ \E row \in q.done : row.judge = l.judge
  /\ q.count = Cardinality(q.attempted) /\ q.labels <= q.count
  /\ q.slot # None => q.labels < q.count /\ UnitOf[q.slot] \in q.attempted
  /\ q.targets # <<>> => Adds(q.labels, q.cost, ms, Head(q.targets))
  /\ q.dry => ms = {}
  /\ \A row \in q.done : Reported(row, ms) /\ \A i \in 1..Len(q.targets) : q.targets[i] # row.judge

\* What a run knows of the cache, and a finished run's calls in labels ls.
Others(j, p, ls) == {l \in ls : l.judge = j /\ l.reply.unit = p.unit /\ l.reply.variant = p.variant}
Unpaid(q, ls) ==
  LET known == Others(Head(q.targets), PromptOf(q, q.slot), ls)
  IN (\E l \in known : l.run \in q.seen[Head(q.targets)] /\ l.reply = PromptOf(q, q.slot))
       => \E l \in known : l.reply # PromptOf(q, q.slot)
Replies(q, ms, st, ls, cs) ==
  /\ \A k \in DOMAIN st : \E m \in ms : KeyOf(m) = k /\ st[k] = m.reply
  /\ \A l \in ms : KeyOf(l) \in DOMAIN st \/ cs[KeyOf(l)] # None
  /\ q.slot # None /\ q.hit => cs[<<Head(q.targets), UnitOf[q.slot], VariantOf[q.slot]>>] # None
  /\ q.pc = "call" => Unpaid(q, ls)
SeenDone(q) ==
  /\ \A j \in DOMAIN q.seen : \A p \in q.seen[j] : p \in Runs /\ run[p].pc = "done"
  /\ q.pc = "pull" \/ q.slot # None => Head(q.targets) \in DOMAIN q.seen

Idle(r) == run[r].pc \notin Live =>
             draft[r] = <<>> /\ mine[r] = {} /\ voided[r] = {} /\ stored[r] = <<>> /\ run[r].held = {}

Sound(r) ==
  /\ Formed(run[r]) /\ Hands(run[r], draft[r]) /\ Votes(r, run[r], draft[r], mine[r])
  /\ Tally(run[r], mine[r]) /\ Idle(r)
Apart(r) ==
  /\ Voids(run[r], labels, voided[r]) /\ Touched(run[r], draft[r], slots)
  /\ Replies(run[r], mine[r], stored[r], labels, cache) /\ SeenDone(run[r])

-----------------------------------------------------------------------------
(* The committed rows.                                                     *)

Written(r) == {l \in labels : l.run = r}

Domains ==
  /\ slots \in [Slots -> SlotStatus] /\ labels \subseteq LabelRow /\ paused \subseteq Judges
  /\ DOMAIN cache = Keys /\ DOMAIN reports = Runs
  /\ guidelines \in Nat /\ day \in Nat /\ events \in Nat
  /\ guidelines <= events /\ day <= events /\ events <= MaxEvents
  /\ DOMAIN run = Runs /\ DOMAIN draft = Runs /\ DOMAIN mine = Runs /\ DOMAIN voided = Runs
  /\ DOMAIN stored = Runs
  /\ \A p \in picked : \A l \in p.labels : UnitOf[l.slot] = p.unit

Settings == \A s \in Slots : slots[s] # "leased"
Standing == \A l \in labels : Answers(l)
Accounts ==
  /\ Distinct(labels)
  /\ \A l \in labels : run[l.run].pc = "done" /\ \E row \in reports[l.run] : row.judge = l.judge
  /\ \A r \in Runs : \A row \in reports[r] : Reported(row, Written(r))
CacheTrue ==
  /\ \A k \in Keys : cache[k] # None => \E m \in labels : KeyOf(m) = k /\ cache[k] = m.reply
  /\ \A l \in labels : cache[KeyOf(l)] # None

\* What a run touched and holds is nobody else's.
Alone(r, f, hs) ==
  \A p \in Runs \ {r} : DOMAIN f \cap DOMAIN draft[p] = {} /\ hs \cap run[p].held = {}
Separate ==
  \A r, q \in Runs : r # q => DOMAIN draft[r] \cap DOMAIN draft[q] = {} /\ run[r].held \cap run[q].held = {}

JudgeInv ==
  /\ Domains /\ Settings /\ Standing /\ Accounts /\ CacheTrue /\ Separate
  /\ \A r \in Runs : Sound(r) /\ Apart(r)

-----------------------------------------------------------------------------
(* A step of one request that is not its commit.                           *)

Whole(r, q, f, ms, vs, st) ==
  /\ Formed(q) /\ Hands(q, f) /\ Votes(r, q, f, ms) /\ Tally(q, ms)
  /\ Voids(q, labels, vs) /\ Touched(q, f, slots) /\ Replies(q, ms, st, labels, cache) /\ SeenDone(q)

Moves(r, q, f, ms, vs, st) ==
  /\ UNCHANGED <<store, world>>
  /\ DOMAIN run' = Runs /\ DOMAIN draft' = Runs /\ DOMAIN mine' = Runs /\ DOMAIN voided' = Runs
  /\ DOMAIN stored' = Runs
  /\ run'[r] = q /\ draft'[r] = f /\ mine'[r] = ms /\ voided'[r] = vs /\ stored'[r] = st
  /\ \A p \in Runs \ {r} : /\ run'[p] = run[p] /\ draft'[p] = draft[p] /\ mine'[p] = mine[p]
                           /\ voided'[p] = voided[p] /\ stored'[p] = stored[p]

LEMMA IsWhole ==
  ASSUME JudgeInv, NEW r \in Runs
  PROVE  Whole(r, run[r], draft[r], mine[r], voided[r], stored[r])
  BY DEF JudgeInv, Sound, Apart, Whole

\* What the others have and the committed rows stay.
LEMMA OthersKeep ==
  ASSUME JudgeInv, NEW r \in Runs, run[r].pc # "done", UNCHANGED <<store, world>>,
         DOMAIN run' = Runs, DOMAIN draft' = Runs, DOMAIN mine' = Runs, DOMAIN voided' = Runs,
         DOMAIN stored' = Runs,
         \A q \in Runs \ {r} : /\ run'[q] = run[q] /\ draft'[q] = draft[q] /\ mine'[q] = mine[q]
                               /\ voided'[q] = voided[q] /\ stored'[q] = stored[q]
  PROVE  /\ Domains' /\ Settings' /\ Standing' /\ Accounts' /\ CacheTrue'
         /\ \A q \in Runs \ {r} : Sound(q)' /\ Apart(q)'
  <1>1. UNCHANGED <<slots, labels, cache, paused, reports, guidelines, day, events, picked>>
    BY DEF store, world
  <1>2. Domains' /\ Settings' /\ Standing' /\ CacheTrue'
    BY <1>1 DEF JudgeInv, Domains, Settings, Standing, CacheTrue
  <1>3. \A p \in Runs : run[p].pc = "done" => run'[p].pc = "done"
    OBVIOUS
  <1>4. Accounts'
    <2>1. Accounts /\ \A l \in labels : l.run \in Runs
      BY DEF JudgeInv, Domains, LabelRow
    <2>2. \A p : Written(p)' = Written(p)
      BY <1>1 DEF Written
    <2> QED  BY <1>1, <1>3, <2>1, <2>2 DEF Accounts
  <1>5. ASSUME NEW q \in Runs \ {r} PROVE Sound(q)' /\ Apart(q)'
    <2>1. Sound(q) /\ Apart(q)
      BY DEF JudgeInv
    <2>2. Sound(q)'
      BY <2>1 DEF Sound, Idle
    <2>3. SeenDone(run[q])'
      BY <1>3, <2>1 DEF Apart, SeenDone
    <2>4. Apart(q)'
      BY <1>1, <2>1, <2>3 DEF Apart
    <2> QED  BY <2>2, <2>4
  <1> QED  BY <1>2, <1>4, <1>5

LEMMA MoveKeeps ==
  ASSUME JudgeInv, NEW r \in Runs, run[r].pc # "done",
         NEW q, NEW f, NEW ms, NEW vs, NEW st, Moves(r, q, f, ms, vs, st),
         Whole(r, q, f, ms, vs, st),
         q.pc \notin Live => f = <<>> /\ ms = {} /\ vs = {} /\ st = <<>> /\ q.held = {},
         Alone(r, f, q.held)
  PROVE  JudgeInv'
  <1>1. Domains
    BY DEF JudgeInv
  <1>2. /\ UNCHANGED <<store, world>>
        /\ DOMAIN run' = Runs /\ DOMAIN draft' = Runs /\ DOMAIN mine' = Runs /\ DOMAIN voided' = Runs
        /\ DOMAIN stored' = Runs
        /\ run'[r] = q /\ draft'[r] = f /\ mine'[r] = ms /\ voided'[r] = vs /\ stored'[r] = st
        /\ \A p \in Runs \ {r} : /\ run'[p] = run[p] /\ draft'[p] = draft[p] /\ mine'[p] = mine[p]
                                 /\ voided'[p] = voided[p] /\ stored'[p] = stored[p]
    BY <1>1 DEF Moves, Domains
  <1>3. /\ Domains' /\ Settings' /\ Standing' /\ Accounts' /\ CacheTrue'
        /\ \A p \in Runs \ {r} : Sound(p)' /\ Apart(p)'
    BY <1>2, OthersKeep
  <1>4. Sound(r)'
    BY <1>2 DEF Whole, Sound, Idle
  <1>5. Apart(r)'
    <2>1. labels' = labels /\ cache' = cache /\ slots' = slots
      BY <1>2 DEF store
    <2>2. SeenDone(q)'
      BY <1>2 DEF Whole, SeenDone
    <2> QED  BY <1>2, <2>1, <2>2 DEF Whole, Apart
  <1>6. Separate'
    BY <1>2 DEF JudgeInv, Separate, Alone
  <1> QED  BY <1>3, <1>4, <1>5, <1>6 DEF JudgeInv

\* A request that is over has nothing in hand.
LEMMA BlankWhole ==
  ASSUME NEW r \in Runs, NEW pc \in {"idle", "done", "failed"}
  PROVE  Whole(r, Blank(pc), <<>>, {}, {}, <<>>) /\ Blank(pc).held = {} /\ Blank(pc).pc = pc
  <1> DEFINE q == Blank(pc)
  <1>1. /\ DOMAIN q = Fields /\ q.pc = pc /\ q.targets = <<>> /\ q.attempted = {} /\ q.held = {}
        /\ q.suspended = {} /\ q.done = {} /\ q.count = 0 /\ q.labels = 0 /\ q.slot = None
        /\ q.hit \in BOOLEAN /\ q.dry \in BOOLEAN /\ q.guidelines = 0 /\ q.day = 0 /\ q.seen = <<>>
    BY DEF Blank, Fields
  <1> HIDE DEF q
  <1>2. /\ <<>> \in Seq(Judges) /\ Len(<<>>) = 0 /\ DOMAIN <<>> = {} /\ Cardinality({}) = 0
        /\ <<>> \in [{} -> SlotStatus]
    BY FS_EmptySet
  <1>3. q.day \in 0..MaxEvents /\ None \notin Slots
    BY <1>1, JudgeAssumption
  <1>4. q.pc \in Pcs \ Working /\ q.pc \notin Handling /\ q.pc \notin {"call", "submit"}
    BY <1>1 DEF Pcs, Working, Handling
  <1>5. q.targets \in Seq(Judges) /\ \A i, k \in 1..Len(q.targets) : FALSE
    BY <1>1, <1>2
  <1>6. Formed(q)
    BY <1>1, <1>3, <1>4, <1>5 DEF Formed
  <1>7. Hands(q, <<>>) /\ Votes(r, q, <<>>, {}) /\ Voids(q, labels, {}) /\ Touched(q, <<>>, slots)
    BY <1>1, <1>2 DEF Hands, Votes, Voids, Touched, Drafts
  <1>8. Tally(q, {})
    BY <1>1, <1>2 DEF Tally, Distinct
  <1>9. Replies(q, {}, <<>>, labels, cache) /\ SeenDone(q)
    BY <1>1, <1>2 DEF Replies, SeenDone
  <1> QED  BY <1>1, <1>6, <1>7, <1>8, <1>9 DEF Whole, q

\* A request that dies leaves nothing.
LEMMA DroppedKeeps ==
  ASSUME JudgeInv, NEW r \in Runs, run[r].pc \in Live, Dropped(r)
  PROVE  JudgeInv'
  <1>1. Moves(r, Blank("failed"), <<>>, {}, {}, <<>>)
    BY DEF Dropped, Closed, Step, Moves, JudgeInv, Domains
  <1>2. Whole(r, Blank("failed"), <<>>, {}, {}, <<>>) /\ Blank("failed").held = {}
    BY BlankWhole
  <1>3. run[r].pc # "done" /\ Alone(r, <<>>, {})
    BY DEF Live, Alone
  <1> QED  BY <1>1, <1>2, <1>3, MoveKeeps

-----------------------------------------------------------------------------
(* A judge is done with, a run goes on, a run starts.                      *)

LEMMA TailFacts ==
  ASSUME NEW s \in Seq(Judges), s # <<>>
  PROVE  /\ Head(s) = s[1] /\ s[1] \in Judges /\ 1 \in 1..Len(s) /\ Tail(s) \in Seq(Judges)
         /\ Len(Tail(s)) \in Nat /\ Len(s) \in Nat
         /\ \A i \in 1..Len(Tail(s)) : Tail(s)[i] = s[i + 1] /\ i + 1 \in 1..Len(s) /\ i + 1 # 1
         /\ Tail(s) # <<>> => Head(Tail(s)) = s[2] /\ 2 \in 1..Len(s)
  OBVIOUS

LEMMA NothingAdded ==
  ASSUME NEW ms, NEW j, \A l \in ms : l.judge # j
  PROVE  Adds(0, 0, ms, j)
  <1>1. Labeled(ms, j) = {} /\ Charged(ms, j) = {}
    BY DEF Labeled, Charged
  <1>2. Price * 0 = 0
    BY JudgeAssumption
  <1> QED  BY <1>1, <1>2, FS_EmptySet DEF Adds

LEMMA EndedWhole ==
  ASSUME NEW r \in Runs, NEW q, NEW f, NEW ms, NEW vs, NEW st, Whole(r, q, f, ms, vs, st),
         q.pc = "pull", NEW reason, NEW stopped
  PROVE  /\ Whole(r, Ended(q, reason, stopped), f, ms, vs, st)
         /\ Ended(q, reason, stopped).pc \in {"commit", "begin"}
  <1> DEFINE e    == Ended(q, reason, stopped)
             rest == Tail(q.targets)
             row  == [judge |-> Head(q.targets), dry |-> q.dry, reason |-> reason, stopped |-> stopped,
                      attempted |-> q.count, labels |-> q.labels, cost |-> q.cost, hits |-> q.hits]
  <1>1. DOMAIN q = Fields /\ Formed(q) /\ Tally(q, ms) /\ q.targets # <<>> /\ q.slot = None /\ q.targets \in Seq(Judges)
    BY DEF Whole, Formed, Working, Handling
  <1>2. /\ DOMAIN e = Fields /\ e.done = q.done \cup {row} /\ e.targets = rest /\ e.attempted = {}
        /\ e.count = 0 /\ e.labels = 0 /\ e.cost = 0
        /\ e.pc = (IF rest = <<>> THEN "commit" ELSE "begin")
        /\ e.slot = q.slot /\ e.held = q.held /\ e.guidelines = q.guidelines /\ e.day = q.day
        /\ e.hit = q.hit /\ e.dry = q.dry /\ e.suspended = q.suspended /\ e.seen = q.seen
    BY <1>1, ZenonT(60) DEF Ended, Fields
  <1>3. /\ row.judge = Head(q.targets) /\ row.dry = q.dry /\ row.attempted = q.count
        /\ row.labels = q.labels /\ row.cost = q.cost
    OBVIOUS
  <1> HIDE DEF e, row, rest
  <1>4. /\ Head(q.targets) = q.targets[1] /\ 1 \in 1..Len(q.targets) /\ rest \in Seq(Judges)
        /\ \A i \in 1..Len(rest) : rest[i] = q.targets[i + 1] /\ i + 1 \in 1..Len(q.targets) /\ i + 1 # 1
        /\ rest # <<>> => Head(rest) = q.targets[2] /\ 2 \in 1..Len(q.targets)
    BY <1>1, TailFacts DEF rest
  <1>5. \A i, k \in 1..Len(q.targets) : q.targets[i] = q.targets[k] => i = k
    BY <1>1 DEF Formed
  <1>6. \A i \in 1..Len(rest) : rest[i] # Head(q.targets) /\ \A l \in ms : l.judge # rest[i]
    BY <1>1, <1>4, <1>5 DEF Tally
  <1>7. Formed(e)
    <2>1. \A i, k \in 1..Len(rest) : rest[i] = rest[k] => i = k
      <3>1. Len(rest) \in Nat
        BY <1>1, TailFacts DEF rest
      <3> QED  BY <1>4, <1>5, <3>1
    <2>2. e.pc \in Pcs /\ e.pc \notin Handling /\ (e.pc \in Working <=> e.targets # <<>>)
          /\ e.pc \notin {"call", "submit"}
      BY <1>2 DEF Pcs, Live, Working, Handling
    <2>3. e.slot = None
      BY <1>1, <1>2
    <2> QED  BY <1>1, <1>2, <1>4, <2>1, <2>2, <2>3 DEF Formed
  <1>8. Hands(e, f) /\ Votes(r, e, f, ms) /\ Voids(e, labels, vs) /\ Touched(e, f, slots)
    BY <1>2 DEF Whole, Hands, Votes, Voids, Touched
  <1>9. Replies(e, ms, st, labels, cache)
    BY <1>1, <1>2 DEF Whole, Replies
  <1>10. SeenDone(e)
    BY <1>1, <1>2 DEF Whole, SeenDone
  <1>11. Tally(e, ms)
    <2>1. Distinct(ms)
      BY <1>1 DEF Tally
    <2>2. \A l \in ms : \E x \in e.done : x.judge = l.judge
      BY <1>1, <1>2, <1>3 DEF Tally
    <2>3. rest # <<>> => Adds(0, 0, ms, Head(rest))
      BY <1>1, <1>4, NothingAdded DEF Tally
    <2>4. Reported(row, ms)
      <3>1. Adds(q.labels, q.cost, ms, Head(q.targets)) /\ q.labels <= q.count /\ q.count = Cardinality(q.attempted)
            /\ (q.dry => ms = {})
        BY <1>1 DEF Tally
      <3>2. Cardinality(q.attempted) <= Cardinality(Units)
        BY <1>1, FS_Subset, JudgeAssumption DEF Formed
      <3>3. ms = {} => Labeled(ms, row.judge) = {}
        BY DEF Labeled
      <3> QED  BY <1>3, <3>1, <3>2, <3>3 DEF Reported
    <2>5. \A x \in e.done : Reported(x, ms) /\ \A i \in 1..Len(rest) : rest[i] # x.judge
      <3>1. \A x \in q.done : Reported(x, ms) /\ \A i \in 1..Len(q.targets) : q.targets[i] # x.judge
        BY <1>1 DEF Tally
      <3>2. \A x \in q.done : \A i \in 1..Len(rest) : rest[i] # x.judge
        BY <1>4, <3>1
      <3> QED  BY <1>2, <1>3, <1>6, <2>4, <3>1, <3>2
    <2>6. q.dry => ms = {}
      BY <1>1 DEF Tally
    <2>7. e.count = Cardinality(e.attempted) /\ e.labels <= e.count /\ e.slot = None
      BY <1>1, <1>2, FS_EmptySet
    <2> QED  BY <1>2, <1>6, <2>1, <2>2, <2>3, <2>5, <2>6, <2>7 DEF Tally
  <1> QED  BY <1>2, <1>7, <1>8, <1>9, <1>10, <1>11 DEF Whole, e

LEMMA CheckedWhole ==
  ASSUME NEW r \in Runs, NEW q, NEW spend, NEW n, n = [Settled(q) EXCEPT !.spend = spend, !.pc = "pull"],
         NEW f, NEW ms, NEW vs, NEW st, Whole(r, n, f, ms, vs, st), n.pc = "pull"
  PROVE  /\ Whole(r, Checked(q, spend), f, ms, vs, st) /\ Checked(q, spend).pc \in Live
         /\ Checked(q, spend).held = n.held
  <1>1. Checked(q, spend) = n \/ \E cap : Checked(q, spend) = Ended(n, cap, TRUE)
    BY DEF Checked
  <1>2. CASE Checked(q, spend) = n
    BY <1>2 DEF Live
  <1>3. ASSUME NEW cap, Checked(q, spend) = Ended(n, cap, TRUE)
        PROVE  /\ Whole(r, Checked(q, spend), f, ms, vs, st) /\ Checked(q, spend).pc \in Live
               /\ Checked(q, spend).held = n.held
    <2>1. Whole(r, Ended(n, cap, TRUE), f, ms, vs, st) /\ Ended(n, cap, TRUE).pc \in {"commit", "begin"}
      BY EndedWhole
    <2>2. DOMAIN n = Fields
      BY DEF Whole, Formed
    <2>3. Ended(n, cap, TRUE).held = n.held
      BY <2>2, ZenonT(60) DEF Ended, Fields
    <2> QED  BY <1>3, <2>1, <2>3 DEF Live
  <1> QED  BY <1>1, <1>2, <1>3

\* A run between two slots may forget what is of no account between slots.
LEMMA QuietWhole ==
  ASSUME NEW r \in Runs, NEW q, NEW n, NEW f, NEW ms, NEW vs, NEW st, Whole(r, q, f, ms, vs, st),
         q.pc = "begin", DOMAIN n = Fields, n.pc = "pull", n.slot = None, n.hit \in BOOLEAN, SeenDone(n),
         n.targets = q.targets, n.dry = q.dry, n.guidelines = q.guidelines, n.day = q.day,
         n.attempted = q.attempted, n.count = q.count, n.labels = q.labels, n.cost = q.cost,
         n.suspended = q.suspended, n.done = q.done, n.held = q.held
  PROVE  Whole(r, n, f, ms, vs, st)
  <1>1. Formed(q) /\ q.slot = None /\ q.targets # <<>>
    BY DEF Whole, Formed, Working, Handling
  <1>2. Formed(n)
    <2>1. n.pc \in Pcs /\ n.pc \in Working /\ n.pc \notin Handling /\ n.pc \notin {"call", "submit"}
      BY DEF Pcs, Live, Working, Handling
    <2> QED  BY <1>1, <2>1 DEF Formed
  <1>3. Hands(n, f) /\ Votes(r, n, f, ms) /\ Voids(n, labels, vs) /\ Touched(n, f, slots)
    BY <1>1 DEF Whole, Hands, Votes, Voids, Touched
  <1>4. Tally(n, ms)
    BY <1>1 DEF Whole, Tally
  <1>5. Replies(n, ms, st, labels, cache)
    BY DEF Whole, Replies
  <1> QED  BY <1>2, <1>3, <1>4, <1>5 DEF Whole

LEMMA StartedWhole ==
  ASSUME NEW r \in Runs, NEW q, NEW f, NEW ms, NEW vs, NEW st, Whole(r, q, f, ms, vs, st), q.pc = "begin"
  PROVE  Whole(r, Started(r, q), f, ms, vs, st) /\ Started(r, q).pc \in Live /\ Started(r, q).held = q.held
  <1> DEFINE j     == Head(q.targets)
             over  == {p \in Runs : run[p].pc = "done"}
             fresh == [q EXCEPT !.active = j \notin paused, !.seen = With(@, j, over)]
             spend == SpendOf(j, Rows(r), q.day)
             n     == [Settled(fresh) EXCEPT !.spend = spend, !.pc = "pull"]
  <1>1. DOMAIN q = Fields /\ SeenDone(q)
    BY DEF Whole, Formed
  <1>2. Started(r, q) = Checked(fresh, spend)
    BY DEF Started
  <1> HIDE DEF spend, j, over
  <1>3. /\ DOMAIN n = Fields /\ n.pc = "pull" /\ n.slot = None /\ n.hit \in BOOLEAN
        /\ n.seen = With(q.seen, j, over)
        /\ n.targets = q.targets /\ n.dry = q.dry /\ n.guidelines = q.guidelines /\ n.day = q.day
        /\ n.attempted = q.attempted /\ n.count = q.count /\ n.labels = q.labels /\ n.cost = q.cost
        /\ n.suspended = q.suspended /\ n.done = q.done /\ n.held = q.held
    BY <1>1, ZenonT(60) DEF Settled, Fields
  <1>4. PICK m : m = n
    OBVIOUS
  <1>5. SeenDone(m)
    <2>1. m.seen = With(q.seen, j, over) /\ Head(m.targets) = j
      BY <1>3, <1>4 DEF j
    <2> HIDE DEF n
    <2> QED  BY <1>1, <2>1 DEF SeenDone, With, over
  <1>6. Whole(r, m, f, ms, vs, st) /\ m.pc = "pull" /\ m.held = q.held
    <2>1. /\ DOMAIN m = Fields /\ m.pc = "pull" /\ m.slot = None /\ m.hit \in BOOLEAN
          /\ m.targets = q.targets /\ m.dry = q.dry /\ m.guidelines = q.guidelines /\ m.day = q.day
          /\ m.attempted = q.attempted /\ m.count = q.count /\ m.labels = q.labels /\ m.cost = q.cost
          /\ m.suspended = q.suspended /\ m.done = q.done /\ m.held = q.held
      BY <1>3, <1>4
    <2> HIDE DEF n
    <2> QED  BY <1>5, <2>1, QuietWhole
  <1>7. m = [Settled(fresh) EXCEPT !.spend = spend, !.pc = "pull"]
    BY <1>4
  <1> HIDE DEF n, fresh
  <1>8. /\ Whole(r, Checked(fresh, spend), f, ms, vs, st) /\ Checked(fresh, spend).pc \in Live
        /\ Checked(fresh, spend).held = m.held
    BY <1>6, <1>7, CheckedWhole, ZenonT(60)
  <1> QED  BY <1>2, <1>6, <1>8, ZenonT(60)

LEMMA StillAlone ==
  ASSUME JudgeInv, NEW r \in Runs
  PROVE  Alone(r, draft[r], run[r].held)
  BY DEF JudgeInv, Separate, Alone

LEMMA BeginKeeps ==
  ASSUME JudgeInv, NEW r \in Runs, Begin(r)
  PROVE  JudgeInv'
  <1>1. Whole(r, run[r], draft[r], mine[r], voided[r], stored[r]) /\ run[r].pc = "begin"
    BY IsWhole DEF Begin
  <1>2. /\ Whole(r, Started(r, run[r]), draft[r], mine[r], voided[r], stored[r])
        /\ Started(r, run[r]).pc \in Live /\ Started(r, run[r]).held = run[r].held
    BY <1>1, StartedWhole
  <1>3. Moves(r, Started(r, run[r]), draft[r], mine[r], voided[r], stored[r])
    BY DEF Begin, Step, Moves, txn, JudgeInv, Domains
  <1>4. Alone(r, draft[r], run[r].held)
    BY StillAlone
  <1> QED  BY <1>1, <1>2, <1>3, <1>4, MoveKeeps

\* A request just posted has done nothing.
Posted(targets, limit, dry) ==
  [Blank("begin") EXCEPT !.targets = targets, !.limit = limit, !.dry = dry, !.guidelines = guidelines, !.day = day]

LEMMA PostedWhole ==
  ASSUME JudgeInv, NEW r \in Runs, run[r].pc = "idle", NEW targets \in {Enrolled} \cup {<<j>> : j \in Range(Enrolled)},
         targets # <<>>, NEW limit, NEW dry \in BOOLEAN, NEW q,
         q = Posted(targets, limit, dry)
  PROVE  Whole(r, q, draft[r], mine[r], voided[r], stored[r]) /\ q.held = run[r].held
  <1>1. /\ DOMAIN q = Fields /\ q.pc = "begin" /\ q.targets = targets /\ q.attempted = {} /\ q.held = {}
        /\ q.suspended = {} /\ q.done = {} /\ q.count = 0 /\ q.labels = 0 /\ q.cost = 0 /\ q.slot = None
        /\ q.hit \in BOOLEAN /\ q.dry \in BOOLEAN /\ q.guidelines = guidelines /\ q.day = day /\ q.seen = <<>>
    BY DEF Posted, Blank, Fields
  <1>2. /\ draft[r] = <<>> /\ mine[r] = {} /\ voided[r] = {} /\ stored[r] = <<>> /\ run[r].pc # "done"
        /\ run[r].held = {} /\ Domains
    BY DEF JudgeInv, Sound, Idle, Live
  <1>3. /\ targets \in Seq(Judges) /\ Head(targets) \in Judges
        /\ \A i, k \in 1..Len(targets) : targets[i] = targets[k] => i = k
    <2>1. CASE targets = Enrolled
      <3>1. targets \in Seq(Judges) /\ \A i, k \in DOMAIN targets : targets[i] = targets[k] => i = k
        BY <2>1, JudgeAssumption
      <3> QED  BY <3>1
    <2>2. ASSUME NEW j \in Range(Enrolled), targets = <<j>>
          PROVE  targets \in Seq(Judges) /\ \A i, k \in 1..Len(targets) : targets[i] = targets[k] => i = k
      <3>1. j \in Judges
        <4>1. Enrolled \in Seq(Judges)
          BY JudgeAssumption
        <4> QED  BY <4>1 DEF Range
      <3> QED  BY <2>2, <3>1
    <2>3. targets \in Seq(Judges) /\ \A i, k \in 1..Len(targets) : targets[i] = targets[k] => i = k
      BY <2>1, <2>2
    <2> QED  BY <2>3
  <1>4. Whole(r, q, <<>>, {}, {}, <<>>)
    <2>1. /\ DOMAIN <<>> = {} /\ Cardinality({}) = 0 /\ <<>> \in [{} -> SlotStatus]
      BY FS_EmptySet
    <2>2. q.guidelines \in Nat /\ q.day \in 0..MaxEvents /\ None \notin Slots
      BY <1>1, <1>2, JudgeAssumption DEF Domains
    <2>3. q.pc \in Pcs /\ q.pc \in Working /\ q.pc \notin Handling /\ q.pc \notin {"call", "submit"}
      BY <1>1 DEF Pcs, Live, Working, Handling
    <2>4. Formed(q)
      BY <1>1, <1>3, <2>2, <2>3 DEF Formed
    <2>5. Hands(q, <<>>) /\ Votes(r, q, <<>>, {}) /\ Voids(q, labels, {}) /\ Touched(q, <<>>, slots)
      BY <1>1, <2>1, <2>2 DEF Hands, Votes, Voids, Touched, Drafts
    <2>6. Adds(0, 0, {}, Head(targets))
      BY NothingAdded
    <2>7. Tally(q, {})
      BY <1>1, <2>1, <2>6 DEF Tally, Distinct
    <2>8. Replies(q, {}, <<>>, labels, cache) /\ SeenDone(q)
      BY <1>1, <2>1 DEF Replies, SeenDone
    <2> QED  BY <2>4, <2>5, <2>7, <2>8 DEF Whole
  <1> QED  BY <1>1, <1>2, <1>4

LEMMA PostKeeps ==
  ASSUME JudgeInv, NEW r \in Runs, Post(r)
  PROVE  JudgeInv'
  <1>1. PICK targets \in {Enrolled} \cup {<<j>> : j \in Range(Enrolled)}, limit \in Limits, dry \in BOOLEAN :
          /\ targets # <<>>
          /\ run' = [run EXCEPT ![r] = Started(r, Posted(targets, limit, dry))]
    BY ZenonT(60) DEF Post, Step, Posted
  <1>2. PICK q : q = Posted(targets, limit, dry)
    OBVIOUS
  <1>3. q.pc = "begin"
    BY <1>2 DEF Posted, Blank
  <1>4. run[r].pc # "done" /\ Domains
    BY DEF Post, JudgeInv
  <1>5. Whole(r, q, draft[r], mine[r], voided[r], stored[r]) /\ q.held = run[r].held
    BY <1>1, <1>2, PostedWhole DEF Post
  <1>6. /\ Whole(r, Started(r, q), draft[r], mine[r], voided[r], stored[r]) /\ Started(r, q).pc \in Live
        /\ Started(r, q).held = run[r].held
    BY <1>3, <1>5, StartedWhole
  <1>7. Moves(r, Started(r, q), draft[r], mine[r], voided[r], stored[r])
    <2>1. run' = [run EXCEPT ![r] = Started(r, q)]
      BY <1>1, <1>2
    <2>2. UNCHANGED <<store, world, draft, mine, voided, stored>>
      BY DEF Post, txn
    <2> QED  BY <1>4, <2>1, <2>2 DEF Moves, Domains
  <1>8. Alone(r, draft[r], run[r].held)
    BY StillAlone
  <1> QED  BY <1>4, <1>6, <1>7, <1>8, MoveKeeps

-----------------------------------------------------------------------------
(* Calls and releases.                                                     *)

\* A run with a slot in hand.
LEMMA HandFacts ==
  ASSUME JudgeInv, NEW r \in Runs, run[r].pc \in Handling
  PROVE  /\ Formed(run[r]) /\ run[r].slot \in Slots /\ run[r].slot \in DOMAIN draft[r]
         /\ draft[r][run[r].slot] = "leased" /\ draft[r] \in Drafts /\ U(r) \in Units
         /\ run[r].targets # <<>> /\ J(r) = run[r].targets[1] /\ J(r) \in Judges
         /\ 1 \in 1..Len(run[r].targets) /\ run[r].pc # "done"
         /\ Prompt(r, run[r].slot) = PromptOf(run[r], run[r].slot)
         /\ None \notin Slots
  <1>1. Formed(run[r]) /\ Hands(run[r], draft[r])
    BY DEF JudgeInv, Sound
  <1>2. run[r].pc \in Working /\ run[r].pc # "done"
    BY DEF Handling, Working
  <1>3. None \notin Slots /\ \A s \in Slots : UnitOf[s] \in Units
    BY JudgeAssumption
  <1>4. run[r].slot \in Slots /\ run[r].targets # <<>> /\ run[r].targets \in Seq(Judges)
    BY <1>1, <1>2, <1>3 DEF Formed
  <1>5. J(r) = run[r].targets[1] /\ J(r) \in Judges /\ 1 \in 1..Len(run[r].targets)
    BY <1>4, TailFacts DEF J
  <1>6. run[r].slot \in DOMAIN draft[r] /\ draft[r][run[r].slot] = "leased" /\ draft[r] \in Drafts
    BY <1>1, <1>3, <1>4 DEF Hands
  <1>7. Prompt(r, run[r].slot) = PromptOf(run[r], run[r].slot)
    BY DEF Prompt, PromptOf
  <1> QED  BY <1>1, <1>2, <1>3, <1>4, <1>5, <1>6, <1>7 DEF U

\* While a slot is in hand only the reply and the outcome of the call change.
LEMMA HandWhole ==
  ASSUME NEW r \in Runs, NEW q, NEW n, NEW f, NEW ms, NEW vs, NEW st, Whole(r, q, f, ms, vs, st),
         q.pc = "call", n.pc \in Handling, DOMAIN n = Fields,
         n.pc = "submit" => n.reply = PromptOf(q, q.slot), n.hit = q.hit,
         n.targets = q.targets, n.dry = q.dry, n.guidelines = q.guidelines, n.day = q.day,
         n.attempted = q.attempted, n.count = q.count, n.labels = q.labels, n.cost = q.cost,
         n.suspended = q.suspended, n.done = q.done, n.held = q.held, n.slot = q.slot, n.seen = q.seen
  PROVE  Whole(r, n, f, ms, vs, st)
  <1>1. Formed(q) /\ q.targets # <<>> /\ n.pc \in Pcs /\ n.pc \in Working /\ q.pc \in Handling /\ ~q.dry
    BY DEF Whole, Formed, Working, Handling, Pcs, Live
  <1>2. PromptOf(n, n.slot) = PromptOf(q, q.slot)
    BY DEF PromptOf
  <1>3. Formed(n)
    BY <1>1, <1>2 DEF Formed
  <1>4. Hands(n, f) /\ Votes(r, n, f, ms) /\ Voids(n, labels, vs) /\ Touched(n, f, slots)
    BY DEF Whole, Hands, Votes, Voids, Touched
  <1>5. Tally(n, ms)
    BY DEF Whole, Tally
  <1>6. Replies(n, ms, st, labels, cache)
    BY <1>2 DEF Whole, Replies, Unpaid
  <1>7. SeenDone(n)
    BY <1>1 DEF Whole, SeenDone, Formed
  <1> QED  BY <1>3, <1>4, <1>5, <1>6, <1>7 DEF Whole

LEMMA CallKeeps ==
  ASSUME JudgeInv, NEW r \in Runs, Call(r)
  PROVE  JudgeInv'
  <1> DEFINE q == run[r]
  <1>1. Whole(r, q, draft[r], mine[r], voided[r], stored[r]) /\ q.pc = "call" /\ DOMAIN q = Fields
    BY IsWhole DEF Call, Whole, Formed
  <1>2. Prompt(r, q.slot) = PromptOf(q, q.slot) /\ q.hit \in BOOLEAN /\ q.pc # "done"
    BY <1>1, HandFacts DEF Handling, Formed
  <1>3. PICK n : /\ run' = [run EXCEPT ![r] = n]
                 /\ \/ n = [q EXCEPT !.pc = "submit", !.reply = Prompt(r, q.slot)]
                    \/ n = [q EXCEPT !.attempt = @ + 1]
                    \/ \E fatal \in BOOLEAN : n = [q EXCEPT !.pc = "release", !.fatal = fatal]
    BY ZenonT(60) DEF Call, Step, Fail
  <1> HIDE DEF q
  <1>4. /\ n.pc \in {"submit", "call", "release"} /\ (n.pc = "submit" => n.reply = Prompt(r, q.slot))
        /\ DOMAIN n = Fields /\ n.hit = q.hit
        /\ n.targets = q.targets /\ n.dry = q.dry /\ n.guidelines = q.guidelines /\ n.day = q.day
        /\ n.attempted = q.attempted /\ n.count = q.count /\ n.labels = q.labels /\ n.cost = q.cost
        /\ n.suspended = q.suspended /\ n.done = q.done /\ n.held = q.held /\ n.slot = q.slot /\ n.seen = q.seen
    BY <1>1, <1>3, ZenonT(60) DEF Fields
  <1>5. Whole(r, n, draft[r], mine[r], voided[r], stored[r])
    BY <1>1, <1>2, <1>4, HandWhole DEF Handling
  <1>6. Moves(r, n, draft[r], mine[r], voided[r], stored[r])
    <2>1. UNCHANGED <<store, world, draft, mine, voided, stored>>
      BY DEF Call, txn
    <2> QED  BY <1>3, <2>1, ZenonT(60) DEF Moves, JudgeInv, Domains
  <1>7. Alone(r, draft[r], n.held) /\ n.pc \in Live
    BY <1>4, StillAlone DEF Live, q
  <1> QED  BY <1>2, <1>5, <1>6, <1>7, MoveKeeps DEF q

Freed(q, u) == [Settled(q) EXCEPT !.held = @ \cup {u}, !.pc = "pull"]
Opened(f, s) == [f EXCEPT ![s] = "open"]

LEMMA ReleasedWhole ==
  ASSUME NEW r \in Runs, NEW q, NEW f, NEW ms, NEW vs, NEW st, Whole(r, q, f, ms, vs, st),
         q.pc = "release", NEW u \in Units
  PROVE  /\ Whole(r, Freed(q, u), Opened(f, q.slot), ms, vs, st) /\ Freed(q, u).pc = "pull"
         /\ DOMAIN Opened(f, q.slot) = DOMAIN f /\ Freed(q, u).held = q.held \cup {u}
  <1> DEFINE n == Freed(q, u)
             g == Opened(f, q.slot)
  <1>1. Formed(q) /\ DOMAIN q = Fields /\ q.slot # None /\ q.targets # <<>> /\ q.pc \in Handling
    BY DEF Whole, Formed, Working, Handling
  <1>2. /\ DOMAIN n = Fields /\ n.pc = "pull" /\ n.slot = None /\ n.hit \in BOOLEAN /\ n.held = q.held \cup {u}
        /\ n.targets = q.targets /\ n.dry = q.dry /\ n.guidelines = q.guidelines /\ n.day = q.day
        /\ n.attempted = q.attempted /\ n.count = q.count /\ n.labels = q.labels /\ n.cost = q.cost
        /\ n.suspended = q.suspended /\ n.done = q.done /\ n.seen = q.seen
    BY <1>1 DEF Freed, Settled, Fields
  <1>3. Hands(q, f) /\ Votes(r, q, f, ms) /\ Voids(q, labels, vs) /\ Tally(q, ms) /\ Touched(q, f, slots)
        /\ Replies(q, ms, st, labels, cache) /\ SeenDone(q)
    BY DEF Whole
  <1>4. /\ DOMAIN g = DOMAIN f /\ g[q.slot] = "open" /\ f[q.slot] = "leased" /\ g \in Drafts
        /\ \A s \in DOMAIN f : s # q.slot => g[s] = f[s]
    <2>1. f \in Drafts /\ q.slot \in DOMAIN f /\ f[q.slot] = "leased"
      BY <1>1, <1>3 DEF Hands
    <2> QED  BY <2>1 DEF Opened, Drafts, SlotStatus
  <1> HIDE DEF n, g
  <1>5. Formed(n)
    <2>1. n.pc \in Pcs /\ n.pc \in Working /\ n.pc \notin Handling /\ n.pc \notin {"call", "submit"}
      BY <1>2 DEF Pcs, Live, Working, Handling
    <2> QED  BY <1>1, <1>2, <2>1 DEF Formed
  <1>6. Hands(n, g)
    <2>1. \A s \in DOMAIN g : g[s] # "leased" /\ s # None
      <3>1. \A s \in DOMAIN f : s \in Slots
        BY <1>3 DEF Hands, Drafts
      <3>2. None \notin Slots
        BY JudgeAssumption
      <3> QED  BY <1>3, <1>4, <3>1, <3>2 DEF Hands
    <2> QED  BY <1>2, <1>4, <2>1 DEF Hands
  <1>7. Votes(r, n, g, ms)
    BY <1>2, <1>3, <1>4 DEF Votes
  <1>8. Voids(n, labels, vs) /\ Touched(n, g, slots)
    BY <1>2, <1>3, <1>4 DEF Voids, Touched
  <1>9. Tally(n, ms)
    BY <1>1, <1>2, <1>3 DEF Tally
  <1>10. Replies(n, ms, st, labels, cache) /\ SeenDone(n)
    BY <1>1, <1>2, <1>3 DEF Replies, SeenDone
  <1> QED  BY <1>2, <1>4, <1>5, <1>6, <1>7, <1>8, <1>9, <1>10 DEF Whole, n, g

LEMMA ReleaseKeeps ==
  ASSUME JudgeInv, NEW r \in Runs, Release(r)
  PROVE  JudgeInv'
  <1> DEFINE q == run[r]
  <1>1. Whole(r, q, draft[r], mine[r], voided[r], stored[r]) /\ q.pc = "release" /\ U(r) \in Units
        /\ q.pc # "done"
    BY IsWhole, HandFacts DEF Release, Handling
  <1>2. PICK after : after = Freed(q, U(r))
    OBVIOUS
  <1>3. PICK g : g = Opened(draft[r], q.slot)
    OBVIOUS
  <1>4. /\ run' = [run EXCEPT ![r] = IF q.fatal THEN Ended(after, "provider_error", TRUE) ELSE after]
        /\ draft' = [draft EXCEPT ![r][q.slot] = "open"]
        /\ UNCHANGED <<store, world, mine, voided, stored>>
    BY <1>2 DEF Release, Step, Reopened, Freed
  <1> HIDE DEF q
  <1>5. /\ Whole(r, after, g, mine[r], voided[r], stored[r]) /\ after.pc = "pull" /\ DOMAIN g = DOMAIN draft[r]
        /\ after.held = q.held \cup {U(r)}
    BY <1>1, <1>2, <1>3, ReleasedWhole
  <1>6. PICK n : n = IF q.fatal THEN Ended(after, "provider_error", TRUE) ELSE after
    OBVIOUS
  <1>7. Whole(r, n, g, mine[r], voided[r], stored[r]) /\ n.pc \in Live /\ n.held = q.held \cup {U(r)}
    <2>1. /\ Whole(r, Ended(after, "provider_error", TRUE), g, mine[r], voided[r], stored[r])
          /\ Ended(after, "provider_error", TRUE).pc \in {"commit", "begin"}
      BY <1>5, EndedWhole
    <2>2. DOMAIN after = Fields
      BY <1>5 DEF Whole, Formed
    <2>3. Ended(after, "provider_error", TRUE).held = after.held
      BY <2>2, ZenonT(60) DEF Ended, Fields
    <2> QED  BY <1>5, <1>6, <2>1, <2>3 DEF Live
  <1>8. Moves(r, n, g, mine[r], voided[r], stored[r])
    BY <1>4, <1>6, <1>3 DEF Opened, Moves, JudgeInv, Domains
  <1>9. Alone(r, g, n.held)
    <2>1. Alone(r, draft[r], q.held) /\ UnitsFree(r, {U(r)})
      BY StillAlone DEF Release, q
    <2> QED  BY <1>5, <1>7, <2>1 DEF Alone, UnitsFree
  <1> QED  BY <1>1, <1>7, <1>8, <1>9, MoveKeeps DEF q

-----------------------------------------------------------------------------
(* A slot is taken.                                                        *)

\* What a run has in hand once it has taken s.
Took(q, s, hit, reply, pc) ==
  [Taken(q, s) EXCEPT !.slot = s, !.hit = hit, !.hits = IF hit THEN @ + 1 ELSE @, !.reply = reply, !.pc = pc]

LEMMA TookFacts ==
  ASSUME NEW q, DOMAIN q = Fields, NEW s, NEW hit, NEW reply, NEW pc
  PROVE  LET n == Took(q, s, hit, reply, pc)
         IN  /\ DOMAIN n = Fields /\ n.pc = pc /\ n.slot = s /\ n.hit = hit /\ n.reply = reply
             /\ n.count = q.count + 1 /\ n.attempted = q.attempted \cup {UnitOf[s]}
             /\ n.targets = q.targets /\ n.dry = q.dry /\ n.guidelines = q.guidelines /\ n.day = q.day
             /\ n.labels = q.labels /\ n.cost = q.cost /\ n.held = q.held
             /\ n.suspended = q.suspended /\ n.done = q.done /\ n.seen = q.seen
  BY DEF Took, Taken, Fields

\* The cache holds nothing for the key of a unit the run has not tried but what is
\* committed; and a committed call of another run left a label there.
LEMMA FreshKey ==
  ASSUME JudgeInv, NEW r \in Runs, run[r].pc = "pull", NEW s \in Slots, UnitOf[s] \notin run[r].attempted
  PROVE  /\ Key(r, s) \in Keys /\ Entry(r, Key(r, s)) = cache[Key(r, s)]
         /\ \A l \in labels : KeyOf(l) = Key(r, s) <=> l \in Others(J(r), Prompt(r, s), labels)
  <1>1. /\ Formed(run[r]) /\ Tally(run[r], mine[r]) /\ Replies(run[r], mine[r], stored[r], labels, cache)
    BY DEF JudgeInv, Sound, Apart
  <1>2. run[r].targets \in Seq(Judges) /\ run[r].targets # <<>>
    BY <1>1 DEF Formed, Working
  <1>3. J(r) = run[r].targets[1] /\ J(r) \in Judges /\ 1 \in 1..Len(run[r].targets)
    BY <1>2, TailFacts DEF J
  <1>4. UnitOf[s] \in Units /\ VariantOf[s] \in Range(VariantOf)
    BY JudgeAssumption DEF Range
  <1>5. Key(r, s) \in Keys
    BY <1>3, <1>4 DEF Key, Keys
  <1>6. \A m \in mine[r] : KeyOf(m) # Key(r, s)
    BY <1>1, <1>3 DEF Tally, KeyOf, Key
  <1>7. Key(r, s) \notin DOMAIN stored[r]
    BY <1>1, <1>6 DEF Replies
  <1>8. \A l \in labels : KeyOf(l) = Key(r, s) <=> l \in Others(J(r), Prompt(r, s), labels)
    <2>1. \A l \in labels : l.reply.unit = UnitOf[l.slot] /\ l.reply.variant = VariantOf[l.slot]
      BY DEF JudgeInv, Standing, Answers
    <2> QED  BY <2>1 DEF KeyOf, Key, Others, Prompt
  <1> QED  BY <1>5, <1>7, <1>8 DEF Entry

LEMMA TookWhole ==
  ASSUME JudgeInv, NEW r \in Runs, run[r].pc = "pull", NEW s \in Takable(r), NEW hit \in BOOLEAN,
         NEW reply, NEW pc \in Handling,
         hit = (Entry(r, Key(r, s)) = Prompt(r, s)), hit => reply = Prompt(r, s),
         pc = "submit" => hit, pc = "call" => ~hit, run[r].dry => pc = "release"
  PROVE  /\ Whole(r, Took(run[r], s, hit, reply, pc), With(draft[r], s, "leased"),
                  mine[r], voided[r], stored[r])
         /\ Alone(r, With(draft[r], s, "leased"), Took(run[r], s, hit, reply, pc).held)
         /\ Took(run[r], s, hit, reply, pc).pc \in Live
  <1> DEFINE q  == run[r]
             f  == draft[r]
             ms == mine[r]
             n  == Took(q, s, hit, reply, pc)
             g  == With(f, s, "leased")
  <1>1. /\ Formed(q) /\ Hands(q, f) /\ Votes(r, q, f, ms) /\ Tally(q, ms) /\ SeenDone(q)
        /\ Voids(q, labels, voided[r]) /\ Touched(q, f, slots) /\ Replies(q, ms, stored[r], labels, cache)
    BY DEF JudgeInv, Sound, Apart
  <1>2. q.pc = "pull" /\ q.slot = None /\ DOMAIN q = Fields /\ q.targets # <<>> /\ q.targets \in Seq(Judges)
        /\ None \notin Slots
    BY <1>1, JudgeAssumption DEF Formed, Working, Handling
  <1>3. /\ s \in Slots /\ Slot(r, s) = "open" /\ UnitOf[s] \notin q.attempted /\ UnitOf[s] \in Units
        /\ \A p \in Runs \ {r} : s \notin DOMAIN draft[p]
    BY JudgeAssumption DEF Takable
  <1>4. /\ DOMAIN n = Fields /\ n.pc = pc /\ n.slot = s /\ n.hit = hit /\ n.reply = reply
        /\ n.count = q.count + 1 /\ n.attempted = q.attempted \cup {UnitOf[s]}
        /\ n.targets = q.targets /\ n.dry = q.dry /\ n.guidelines = q.guidelines /\ n.day = q.day
        /\ n.labels = q.labels /\ n.cost = q.cost /\ n.held = q.held
        /\ n.suspended = q.suspended /\ n.done = q.done /\ n.seen = q.seen
    BY <1>2, TookFacts
  <1>5. /\ DOMAIN g = DOMAIN f \cup {s} /\ g[s] = "leased" /\ \A x \in DOMAIN f : x # s => g[x] = f[x]
        /\ s \in DOMAIN f => f[s] = "open"
        /\ f \in Drafts /\ \A x \in DOMAIN f : f[x] # "leased" /\ x \in Slots
    BY <1>1, <1>2, <1>3 DEF With, Slot, Hands, Drafts
  <1>6. g \in Drafts
    BY <1>3, <1>5 DEF With, Drafts, SlotStatus
  <1>7. J(r) = q.targets[1] /\ J(r) \in Judges /\ 1 \in 1..Len(q.targets) /\ Head(q.targets) = J(r)
    BY <1>2, TailFacts DEF J
  <1>8. PromptOf(n, n.slot) = Prompt(r, s) /\ Prompt(r, s) # None
    <2>1. Prompt(r, s) \in Prompts
      BY <1>1, <1>3, JudgeAssumption DEF Prompt, Prompts, Range, Formed
    <2> QED  BY <1>4, <2>1, JudgeAssumption DEF PromptOf, Prompt
  <1>9. /\ Key(r, s) \in Keys /\ Entry(r, Key(r, s)) = cache[Key(r, s)]
        /\ \A l \in labels : KeyOf(l) = Key(r, s) <=> l \in Others(J(r), Prompt(r, s), labels)
    BY <1>2, <1>3, FreshKey
  <1>10. Key(r, s) = <<Head(n.targets), UnitOf[n.slot], VariantOf[n.slot]>>
    BY <1>4, <1>7 DEF Key
  <1> HIDE DEF n, g
  <1>11. Formed(n)
    <2>1. n.pc \in Pcs /\ n.pc \in Working /\ n.pc \in Handling
      BY <1>4 DEF Pcs, Live, Working, Handling
    <2>2. n.pc = "submit" => n.reply = PromptOf(n, n.slot)
      BY <1>4, <1>8
    <2>3. n.dry => n.pc \notin {"call", "submit"}
      BY <1>4
    <2>4. n.attempted \subseteq Units /\ n.slot \in Slots \cup {None} /\ n.slot # None
      BY <1>1, <1>2, <1>3, <1>4 DEF Formed
    <2> QED  BY <1>1, <1>2, <1>4, <2>1, <2>2, <2>3, <2>4 DEF Formed
  <1>12. Hands(n, g)
    BY <1>2, <1>3, <1>4, <1>5, <1>6 DEF Hands
  <1>13. Votes(r, n, g, ms)
    BY <1>1, <1>4, <1>5 DEF Votes
  <1>14. Voids(n, labels, voided[r]) /\ Touched(n, g, slots)
    <2>1. s \notin DOMAIN f => slots[s] = "open"
      BY <1>3 DEF Slot
    <2> QED  BY <1>1, <1>4, <1>5, <2>1 DEF Voids, Touched
  <1>15. Tally(n, ms)
    <2>1. IsFiniteSet(q.attempted)
      BY <1>1, FS_Subset, JudgeAssumption DEF Formed
    <2>2. n.count = Cardinality(n.attempted) /\ q.count \in Nat
      BY <1>1, <1>3, <1>4, <2>1, FS_AddElement, FS_CardinalityType DEF Tally
    <2>3. q.labels \in Nat
      <3>1. Adds(q.labels, q.cost, ms, J(r))
        BY <1>1, <1>2, <1>7 DEF Tally
      <3>2. Labeled(ms, J(r)) \subseteq Slots
        BY <1>1 DEF Labeled, Votes, LabelRow
      <3> QED  BY <3>1, <3>2, FS_Subset, FS_CardinalityType, JudgeAssumption DEF Adds
    <2>4. n.labels <= n.count /\ n.labels < n.count
      BY <1>1, <1>4, <2>2, <2>3 DEF Tally
    <2>5. \A l \in ms : \A i \in 1..Len(n.targets) : l.judge = n.targets[i] =>
            i = 1 /\ UnitOf[l.slot] \in n.attempted /\ UnitOf[l.slot] # UnitOf[n.slot]
      BY <1>1, <1>3, <1>4 DEF Tally
    <2>6. UnitOf[n.slot] \in n.attempted
      BY <1>4
    <2> QED  BY <1>1, <1>4, <2>2, <2>4, <2>5, <2>6 DEF Tally
  <1>16. Replies(n, ms, stored[r], labels, cache)
    <2>1. n.hit => cache[Key(r, s)] # None
      BY <1>4, <1>8, <1>9
    <2>2. n.pc = "call" => Unpaid(n, labels)
      <3> SUFFICES ASSUME n.pc = "call", NEW l \in Others(J(r), Prompt(r, s), labels), l.reply = Prompt(r, s)
                   PROVE  \E m \in Others(J(r), Prompt(r, s), labels) : m.reply # Prompt(r, s)
        BY <1>4, <1>7, <1>8 DEF Unpaid
      <3>1. l \in labels /\ cache[Key(r, s)] # Prompt(r, s)
        BY <1>4, <1>9 DEF Others
      <3>2. cache[Key(r, s)] # None
        BY <1>9, <3>1 DEF JudgeInv, CacheTrue
      <3>3. PICK m \in labels : KeyOf(m) = Key(r, s) /\ cache[Key(r, s)] = m.reply
        BY <1>9, <3>2 DEF JudgeInv, CacheTrue
      <3> QED  BY <1>9, <3>1, <3>3
    <2> QED  BY <1>1, <1>10, <2>1, <2>2 DEF Replies
  <1>17. SeenDone(n)
    BY <1>1, <1>4 DEF SeenDone
  <1>18. Alone(r, g, n.held)
    <2>1. Alone(r, f, q.held)
      BY StillAlone
    <2> QED  BY <1>3, <1>4, <1>5, <2>1 DEF Alone
  <1>19. n.pc \in Live
    BY <1>4 DEF Live, Handling
  <1> QED  BY <1>11, <1>12, <1>13, <1>14, <1>15, <1>16, <1>17, <1>18, <1>19 DEF Whole, n, g

LEMMA PullKeeps ==
  ASSUME JudgeInv, NEW r \in Runs, Pull(r)
  PROVE  JudgeInv'
  <1>1. run[r].pc = "pull" /\ run[r].pc # "done" /\ UNCHANGED <<store, world, mine, voided, stored>>
    BY ZenonT(60) DEF Pull
  <1>2. Whole(r, run[r], draft[r], mine[r], voided[r], stored[r])
    BY IsWhole
  <1>3. \/ \E reason, stopped : run' = [run EXCEPT ![r] = Ended(run[r], reason, stopped)] /\ draft' = draft
        \/ \E s \in Takable(r) :
             /\ draft' = [draft EXCEPT ![r] = With(@, s, "leased")]
             /\ run' = [run EXCEPT ![r] =
                   Took(run[r], s, Hit(r, s), IF Hit(r, s) THEN Entry(r, Key(r, s)) ELSE None,
                        IF run[r].dry THEN "release" ELSE IF Hit(r, s) THEN "submit" ELSE "call")]
    BY ZenonT(60) DEF Pull, Step, Took
  <1>4. ASSUME NEW reason, NEW stopped,
               run' = [run EXCEPT ![r] = Ended(run[r], reason, stopped)], draft' = draft
        PROVE  JudgeInv'
    <2>1. PICK n : n = Ended(run[r], reason, stopped)
      OBVIOUS
    <2>2. Whole(r, n, draft[r], mine[r], voided[r], stored[r]) /\ n.pc \in {"commit", "begin"}
      BY <1>1, <1>2, <2>1, EndedWhole
    <2>3. Moves(r, n, draft[r], mine[r], voided[r], stored[r])
      BY <1>1, <1>4, <2>1 DEF Moves, JudgeInv, Domains
    <2>4. n.held = run[r].held
      <3>1. DOMAIN run[r] = Fields
        BY <1>2 DEF Whole, Formed
      <3> QED  BY <2>1, <3>1, ZenonT(60) DEF Ended, Fields
    <2>5. n.pc \in Live /\ Alone(r, draft[r], n.held)
      BY <2>2, <2>4, StillAlone DEF Live
    <2> QED  BY <1>1, <2>2, <2>3, <2>5, MoveKeeps
  <1>5. ASSUME NEW s \in Takable(r),
               draft' = [draft EXCEPT ![r] = With(@, s, "leased")],
               run' = [run EXCEPT ![r] =
                   Took(run[r], s, Hit(r, s), IF Hit(r, s) THEN Entry(r, Key(r, s)) ELSE None,
                        IF run[r].dry THEN "release" ELSE IF Hit(r, s) THEN "submit" ELSE "call")]
        PROVE  JudgeInv'
    <2>1. PICK reply : reply = IF Hit(r, s) THEN Entry(r, Key(r, s)) ELSE None
      OBVIOUS
    <2>2. PICK pc : pc = IF run[r].dry THEN "release" ELSE IF Hit(r, s) THEN "submit" ELSE "call"
      OBVIOUS
    <2>3. PICK hit : hit = Hit(r, s)
      OBVIOUS
    <2>4. hit \in BOOLEAN /\ hit = (Entry(r, Key(r, s)) = Prompt(r, s))
      BY <2>3 DEF Hit
    <2>5. /\ pc \in Handling /\ (hit => reply = Prompt(r, s)) /\ (pc = "submit" => hit)
          /\ (pc = "call" => ~hit) /\ (run[r].dry => pc = "release")
      BY <2>1, <2>2, <2>3, <2>4 DEF Handling
    <2>6. PICK n : n = Took(run[r], s, hit, reply, pc)
      OBVIOUS
    <2>7. PICK g : g = With(draft[r], s, "leased")
      OBVIOUS
    <2>8. /\ Whole(r, n, g, mine[r], voided[r], stored[r]) /\ n.pc \in Live
          /\ Alone(r, g, n.held)
      BY <1>1, <2>4, <2>5, <2>6, <2>7, TookWhole
    <2>9. Moves(r, n, g, mine[r], voided[r], stored[r])
      <3>1. run' = [run EXCEPT ![r] = n] /\ draft' = [draft EXCEPT ![r] = g]
        BY <1>5, <2>1, <2>2, <2>3, <2>6, <2>7
      <3> QED  BY <1>1, <3>1 DEF Moves, JudgeInv, Domains
    <2> QED  BY <1>1, <2>8, <2>9, MoveKeeps
  <1> QED  BY <1>3, <1>4, <1>5

-----------------------------------------------------------------------------
(* Labels are written, and some are made invalid.                          *)

SameRow(l, n) == /\ n.judge = l.judge /\ n.slot = l.slot /\ n.run = l.run /\ n.hit = l.hit
                 /\ n.reply = l.reply /\ n.asked = l.asked /\ n.cost = l.cost /\ n.day = l.day

\* Rows ls, those in gone made invalid.
Faded(ls, gone, vs) ==
  /\ vs \subseteq LabelRow
  /\ \A n \in vs : \E l \in ls : SameRow(l, n) /\ (n.valid => n = l /\ l \notin gone)
  /\ \A l \in ls : \E n \in vs : SameRow(l, n)
  /\ \A l \in ls : l \notin gone => l \in vs
  /\ Distinct(ls) => Distinct(vs)
  /\ \A j : Labeled(vs, j) = Labeled(ls, j) /\ Charged(vs, j) = Charged(ls, j)

LEMMA FadeFacts ==
  ASSUME NEW ls, ls \subseteq LabelRow, NEW gone
  PROVE  Faded(ls, gone, Voided(ls, gone))
  <1> DEFINE vs == Voided(ls, gone)
  <1>1. \A l \in ls : Invalid(l) \in LabelRow /\ SameRow(l, Invalid(l)) /\ ~Invalid(l).valid
    BY DEF Invalid, LabelRow, SameRow
  <1>2. \A n \in vs : \E l \in ls : n = IF l \in gone THEN Invalid(l) ELSE l
    BY DEF Voided
  <1>3. \A l \in ls : (IF l \in gone THEN Invalid(l) ELSE l) \in vs
    BY DEF Voided
  <1> HIDE DEF vs
  <1>4. vs \subseteq LabelRow
    BY <1>1, <1>2
  <1>5. \A l : SameRow(l, l)
    BY DEF SameRow
  <1>6. \A n \in vs : \E l \in ls : /\ n = IF l \in gone THEN Invalid(l) ELSE l
                                    /\ SameRow(l, n) /\ (n.valid => n = l /\ l \notin gone)
    <2> SUFFICES ASSUME NEW n \in vs
                 PROVE  \E l \in ls : /\ n = IF l \in gone THEN Invalid(l) ELSE l
                                      /\ SameRow(l, n) /\ (n.valid => n = l /\ l \notin gone)
      OBVIOUS
    <2>1. PICK l \in ls : n = IF l \in gone THEN Invalid(l) ELSE l
      BY <1>2
    <2>2. CASE l \in gone
      BY <1>1, <2>1, <2>2
    <2>3. CASE l \notin gone
      BY <1>5, <2>1, <2>3
    <2> QED  BY <2>2, <2>3
  <1>7. \A l \in ls : \E n \in vs : SameRow(l, n)
    BY <1>1, <1>3, <1>5
  <1>8. \A l \in ls : l \notin gone => l \in vs
    BY <1>3
  <1>9. ASSUME Distinct(ls) PROVE Distinct(vs)
    <2> SUFFICES ASSUME NEW n \in vs, NEW m \in vs, n.run = m.run, n.judge = m.judge, n.slot = m.slot
                 PROVE  n = m
      BY DEF Distinct
    <2>1. PICK k \in ls : SameRow(k, n) /\ n = IF k \in gone THEN Invalid(k) ELSE k
      BY <1>6
    <2>2. PICK l \in ls : SameRow(l, m) /\ m = IF l \in gone THEN Invalid(l) ELSE l
      BY <1>6
    <2>3. k = l
      BY <1>9, <2>1, <2>2 DEF Distinct, SameRow
    <2> QED  BY <2>1, <2>2, <2>3
  <1>10. ASSUME NEW j PROVE Labeled(vs, j) = Labeled(ls, j) /\ Charged(vs, j) = Charged(ls, j)
    <2>1. \A n \in vs : \E l \in ls : SameRow(l, n)
      BY <1>6
    <2>2. Labeled(vs, j) = Labeled(ls, j)
      BY <1>7, <2>1 DEF Labeled, SameRow
    <2>3. Charged(vs, j) = Charged(ls, j)
      BY <1>7, <2>1 DEF Charged, SameRow
    <2> QED  BY <2>2, <2>3
  <1> QED  BY <1>4, <1>6, <1>7, <1>8, <1>9, <1>10 DEF vs, Faded

LEMMA NewLabelFacts ==
  ASSUME JudgeInv, NEW r \in Runs, run[r].pc = "submit"
  PROVE  LET l == NewLabel(r)
         IN  /\ l \in LabelRow /\ l.judge = J(r) /\ l.slot = run[r].slot /\ l.run = r /\ l.valid
             /\ l.hit = run[r].hit /\ l.reply = run[r].reply /\ Answers(l)
             /\ l.cost = (IF run[r].hit THEN 0 ELSE Price)
             /\ KeyOf(l) = Key(r, run[r].slot)
  <1>1. /\ Formed(run[r]) /\ run[r].slot \in Slots /\ J(r) \in Judges /\ U(r) \in Units
        /\ Prompt(r, run[r].slot) = PromptOf(run[r], run[r].slot)
    BY HandFacts DEF Handling
  <1>2. run[r].hit \in BOOLEAN /\ run[r].day \in 0..MaxEvents /\ run[r].reply = Prompt(r, run[r].slot)
        /\ run[r].guidelines \in Nat
    BY <1>1 DEF Formed
  <1>3. Prompt(r, run[r].slot) \in Prompts
    BY <1>1, <1>2, JudgeAssumption DEF Prompt, Prompts, Range
  <1> DEFINE l == NewLabel(r)
  <1>4. /\ l.judge = J(r) /\ l.slot = run[r].slot /\ l.run = r /\ l.valid = TRUE
        /\ l.hit = run[r].hit /\ l.reply = run[r].reply /\ l.asked = Prompt(r, run[r].slot)
        /\ l.cost = (IF run[r].hit THEN 0 ELSE Price)
    BY DEF NewLabel, Paid
  <1>5. l \in LabelRow
    BY <1>1, <1>2, <1>3 DEF NewLabel, Paid, LabelRow
  <1>6. Answers(l)
    BY <1>2, <1>4 DEF Answers, Prompt
  <1>7. KeyOf(l) = Key(r, run[r].slot)
    BY <1>4 DEF KeyOf, Key
  <1> QED  BY <1>4, <1>5, <1>6, <1>7

\* What a failed gold takes with it: valid rows of the judge, committed and not yet
\* voided, or the run's own.
LEMMA RecentFacts ==
  ASSUME JudgeInv, NEW r \in Runs, run[r].pc = "submit", NEW x \in Recent(r)
  PROVE  /\ x.valid /\ x.slot \in Slots
         /\ x = NewLabel(r) \/ x \in mine[r] \/ x \in labels
  <1>1. x.valid /\ (x = NewLabel(r) \/ x \in mine[r] \/ x \in Voided(labels, voided[r]))
    BY DEF Recent, Rows
  <1>2. labels \subseteq LabelRow /\ Votes(r, run[r], draft[r], mine[r])
    BY DEF JudgeInv, Domains, Sound
  <1>3. CASE x \in Voided(labels, voided[r])
    <2>1. Faded(labels, voided[r], Voided(labels, voided[r]))
      BY <1>2, FadeFacts
    <2>2. x \in labels
      BY <1>1, <1>3, <2>1 DEF Faded
    <2> QED  BY <1>1, <1>2, <2>2 DEF LabelRow
  <1>4. CASE x = NewLabel(r)
    BY <1>1, <1>4, NewLabelFacts DEF LabelRow
  <1>5. CASE x \in mine[r]
    BY <1>1, <1>2, <1>5 DEF Votes, LabelRow
  <1> QED  BY <1>1, <1>3, <1>4, <1>5

\* The slots of a run once it has labeled s and given those in back up.
Refilled(f, back, s) ==
  [x \in DOMAIN f \cup back |-> IF x \in back THEN "open" ELSE IF x = s THEN "filled" ELSE f[x]]

Back(gone) == {x.slot : x \in gone}
UnitsOf(ss) == {UnitOf[s] : s \in ss}

\* Slots taken back are the run's, the one in hand, or nobody's.
LEMMA BackFacts ==
  ASSUME JudgeInv, NEW r \in Runs, run[r].pc = "submit", NEW gone, gone = {} \/ gone = Recent(r),
         UnitsFree(r, UnitsOf(Back(gone)))
  PROVE  LET back == Reopens(r, gone)
         IN  /\ back \subseteq Slots /\ back \subseteq Back(gone)
             /\ \A l \in gone : l.valid /\ (Slot(r, l.slot) # "open" => l.slot \in back)
             /\ \A p \in Runs \ {r} : back \cap DOMAIN draft[p] = {}
  <1>1. \A x \in gone : x.valid /\ x.slot \in Slots
    BY RecentFacts
  <1>2. Reopens(r, gone) = {s \in Back(gone) : Slot(r, s) # "open"}
    BY DEF Reopens, Back
  <1>3. \A x \in gone : x.slot \in Back(gone)
    BY DEF Back
  <1>4. \A s \in Back(gone) : s \in Slots
    BY <1>1 DEF Back
  <1>5. ASSUME NEW p \in Runs \ {r}, NEW s \in Reopens(r, gone) PROVE s \notin DOMAIN draft[p]
    <2>1. DOMAIN draft[r] \cap DOMAIN draft[p] = {} /\ Touched(run[p], draft[p], slots)
      BY DEF JudgeInv, Separate, Apart
    <2>2. CASE s \in DOMAIN draft[r]
      BY <2>1, <2>2
    <2>3. CASE s \notin DOMAIN draft[r]
      <3>1. s \in Slots /\ slots[s] # "open" /\ slots[s] # "leased" /\ slots[s] \in SlotStatus
        BY <1>2, <1>4, <1>5, <2>3 DEF Slot, JudgeInv, Settings, Domains
      <3>2. slots[s] = "filled"
        BY <3>1 DEF SlotStatus
      <3>3. UnitOf[s] \notin run[p].held
        BY <1>2, <1>5 DEF UnitsFree, UnitsOf
      <3> QED  BY <2>1, <3>2, <3>3 DEF Touched
    <2> QED  BY <2>2, <2>3
  <1> QED  BY <1>1, <1>2, <1>3, <1>4, <1>5

Due(l) == IF l.hit THEN 0 ELSE Price

\* One more label of the judge in hand, on a slot it had not labeled.
LEMMA OneMore ==
  ASSUME NEW ms, ms \subseteq LabelRow, NEW l \in LabelRow, NEW n, NEW c, Adds(n, c, ms, l.judge),
         \A m \in ms : m.judge = l.judge => m.slot # l.slot
  PROVE  /\ Adds(n + 1, c + Due(l), ms \cup {l}, l.judge)
         /\ \A j : j # l.judge => Labeled(ms \cup {l}, j) = Labeled(ms, j)
                                  /\ Charged(ms \cup {l}, j) = Charged(ms, j)
  <1> DEFINE A == Labeled(ms, l.judge)
             B == Charged(ms, l.judge)
  <1>1. \A j : j # l.judge => Labeled(ms \cup {l}, j) = Labeled(ms, j) /\ Charged(ms \cup {l}, j) = Charged(ms, j)
    BY DEF Labeled, Charged
  <1>2. Labeled(ms \cup {l}, l.judge) = A \cup {l.slot} /\ l.slot \notin A
    BY DEF Labeled
  <1>3. Charged(ms \cup {l}, l.judge) = (IF l.hit THEN B ELSE B \cup {l.slot}) /\ l.slot \notin B
    BY DEF Charged
  <1>4. IsFiniteSet(A) /\ IsFiniteSet(B)
    <2>1. A \subseteq Slots /\ B \subseteq Slots
      BY DEF Labeled, Charged, LabelRow
    <2> QED  BY <2>1, FS_Subset, JudgeAssumption
  <1>5. n = Cardinality(A) /\ c = Price * Cardinality(B)
    BY DEF Adds
  <1> HIDE DEF A, B
  <1>6. Cardinality(A \cup {l.slot}) = Cardinality(A) + 1 /\ Cardinality(B \cup {l.slot}) = Cardinality(B) + 1
    BY <1>2, <1>3, <1>4, FS_AddElement
  <1>7. Cardinality(A) \in Nat /\ Cardinality(B) \in Nat /\ Price \in Nat
    BY <1>4, FS_CardinalityType, JudgeAssumption
  <1>8. Price * (Cardinality(B) + 1) = Price * Cardinality(B) + Price
    BY <1>7
  <1>9. Price * Cardinality(B) \in Nat
    BY <1>7
  <1>10. c + Due(l) = Price * Cardinality(Charged(ms \cup {l}, l.judge))
    BY <1>3, <1>5, <1>6, <1>8, <1>9 DEF Due
  <1>11. n + 1 = Cardinality(Labeled(ms \cup {l}, l.judge))
    BY <1>2, <1>5, <1>6
  <1> QED  BY <1>1, <1>10, <1>11 DEF Adds

LEMMA SubmitWhole ==
  ASSUME JudgeInv, NEW r \in Runs, run[r].pc = "submit", NEW gone, gone = {} \/ gone = Recent(r),
         UnitsFree(r, UnitsOf(Back(gone))),
         NEW n, DOMAIN n = Fields, n.pc = "pull", n.slot = None, n.hit \in BOOLEAN,
         n.labels = run[r].labels + 1, n.cost = run[r].cost + NewLabel(r).cost,
         n.held = run[r].held \cup UnitsOf(Back(gone)) \cup {U(r)}, n.suspended \subseteq Judges,
         n.targets = run[r].targets, n.dry = run[r].dry, n.guidelines = run[r].guidelines,
         n.day = run[r].day, n.attempted = run[r].attempted, n.count = run[r].count,
         n.done = run[r].done, n.seen = run[r].seen
  PROVE  Whole(r, n, Refilled(draft[r], Reopens(r, gone), run[r].slot), Voided(mine[r] \cup {NewLabel(r)}, gone),
               voided[r] \cup (gone \cap labels), Cached(r))
  <1> DEFINE q  == run[r]
             f  == draft[r]
             ms == mine[r]
             s  == q.slot
             l  == NewLabel(r)
             back == Reopens(r, gone)
             us == UnitsOf(Back(gone))
             g  == Refilled(f, back, s)
             ns == Voided(ms \cup {l}, gone)
             vs == voided[r] \cup (gone \cap labels)
  <1>1. /\ Formed(q) /\ Hands(q, f) /\ Votes(r, q, f, ms) /\ Tally(q, ms) /\ SeenDone(q)
        /\ Voids(q, labels, voided[r]) /\ Touched(q, f, slots) /\ Replies(q, ms, stored[r], labels, cache)
    BY DEF JudgeInv, Sound, Apart
  <1>2. /\ s \in Slots /\ s \in DOMAIN f /\ f[s] = "leased" /\ f \in Drafts /\ q.targets # <<>> /\ ~q.dry
        /\ J(r) = q.targets[1] /\ J(r) \in Judges /\ 1 \in 1..Len(q.targets) /\ q.pc \in Handling /\ None \notin Slots
    BY <1>1, HandFacts DEF Handling, Formed
  <1>3. /\ l \in LabelRow /\ l.judge = J(r) /\ l.slot = s /\ l.run = r /\ l.valid /\ l.hit = q.hit
        /\ l.reply = q.reply /\ Answers(l) /\ KeyOf(l) = Key(r, s)
        /\ l.cost = (IF q.hit THEN 0 ELSE Price)
    BY NewLabelFacts
  <1>4. back \subseteq Slots /\ \A m \in gone : m.valid /\ (Slot(r, m.slot) # "open" => m.slot \in back)
    BY BackFacts
  <1>5. /\ us \subseteq Units /\ U(r) = UnitOf[s]
        /\ \A m \in gone : UnitOf[m.slot] \in us
        /\ \A x \in back : UnitOf[x] \in us
    <2>1. back \subseteq Back(gone) /\ \A x \in Back(gone) : x \in Slots
      BY BackFacts, RecentFacts DEF Back
    <2>2. \A x \in Slots : UnitOf[x] \in Units
      BY JudgeAssumption
    <2>3. U(r) = UnitOf[s]
      BY DEF U, s, q
    <2> QED  BY <2>1, <2>2, <2>3 DEF UnitsOf, Back
  <1> HIDE DEF q, f, ms, s, l, back, us
  <1>6. ms \subseteq LabelRow /\ ms \cup {l} \subseteq LabelRow
    BY <1>1, <1>3 DEF Votes
  <1>7. Faded(ms \cup {l}, gone, ns)
    BY <1>6, FadeFacts
  <1>8. /\ DOMAIN g = DOMAIN f \cup back /\ \A x \in back : g[x] = "open"
        /\ \A x \in DOMAIN f : x \notin back => g[x] = IF x = s THEN "filled" ELSE f[x]
    BY <1>2 DEF Refilled
  <1>9. g \in Drafts
    <2>1. g \in [DOMAIN f \cup back -> SlotStatus]
      BY <1>2 DEF Refilled, Drafts, SlotStatus
    <2>2. DOMAIN f \cup back \in SUBSET Slots
      BY <1>2, <1>4 DEF Drafts
    <2> HIDE DEF g
    <2> QED  BY <2>1, <2>2 DEF Drafts
  <1>10. n.held = q.held \cup us \cup {UnitOf[s]}
    BY <1>5 DEF q, us
  <1>11. Formed(n)
    <2>1. n.pc \in Pcs /\ n.pc \in Working /\ n.pc \notin Handling /\ n.pc \notin {"call", "submit"}
      BY DEF Pcs, Live, Working, Handling
    <2>2. n.held \subseteq Units
      <3>1. UnitOf[s] \in Units
        BY <1>2, JudgeAssumption
      <3>2. q.held \subseteq Units
        BY <1>1 DEF Formed
      <3> QED  BY <1>5, <1>10, <3>1, <3>2
    <2> QED  BY <1>1, <1>2, <2>1, <2>2, ZenonT(60) DEF Formed, q
  <1> HIDE DEF g, ns, vs
  <1>12. Hands(n, g)
    <2>1. \A x \in DOMAIN g : g[x] # "leased" /\ x # None
      <3>1. \A x \in DOMAIN f : x # s => f[x] # "leased"
        BY <1>1 DEF Hands, s
      <3>2. DOMAIN g \subseteq Slots
        BY <1>9 DEF Drafts
      <3> QED  BY <1>2, <1>8, <3>1, <3>2
    <2> QED  BY <1>9, <2>1 DEF Hands
  <1>13. Votes(r, n, g, ns)
    <2>1. ASSUME NEW x \in ns
          PROVE  /\ x \in LabelRow /\ x.run = r /\ Answers(x)
                 /\ x.slot \in DOMAIN g /\ UnitOf[x.slot] \in n.held
      <3>1. PICK y \in ms \cup {l} : SameRow(y, x)
        BY <1>7 DEF Faded
      <3>2. y.run = r /\ Answers(y) /\ y.slot \in DOMAIN f /\ UnitOf[y.slot] \in n.held
        BY <1>1, <1>2, <1>3, <1>10 DEF Votes
      <3>3. x \in LabelRow
        BY <1>7 DEF Faded
      <3> QED  BY <1>8, <3>1, <3>2, <3>3 DEF SameRow, Answers
    <2>2. ASSUME NEW x \in DOMAIN g, g[x] = "filled" PROVE \E m \in ns : m.slot = x /\ m.valid
      <3>1. x \in DOMAIN f /\ x \notin back /\ (x = s \/ f[x] = "filled")
        BY <1>8, <2>2
      <3>2. PICK m \in ms \cup {l} : m.slot = x /\ m.valid
        BY <1>1, <1>3, <3>1 DEF Votes
      <3>3. Slot(r, x) # "open"
        BY <1>2, <3>1 DEF Slot, f
      <3>4. m \notin gone
        BY <1>4, <3>1, <3>2, <3>3
      <3> QED  BY <1>7, <3>2, <3>4 DEF Faded
    <2> QED  BY <2>1, <2>2 DEF Votes
  <1>14. Voids(n, labels, vs) /\ Touched(n, g, slots)
    <2>1. ASSUME NEW x \in vs PROVE x \in labels /\ x.valid /\ UnitOf[x.slot] \in n.held
      <3>1. us \cup q.held \subseteq n.held
        BY <1>10
      <3>2. CASE x \in voided[r]
        BY <1>1, <3>1, <3>2 DEF Voids
      <3>3. CASE x \in gone /\ x \in labels
        BY <1>4, <1>5, <3>1, <3>3
      <3> QED  BY <2>1, <3>2, <3>3 DEF vs
    <2>2. ASSUME NEW x \in DOMAIN g, slots[x] = "filled" PROVE UnitOf[x] \in n.held
      <3>1. us \cup q.held \subseteq n.held
        BY <1>10
      <3>2. CASE x \in DOMAIN f
        BY <1>1, <2>2, <3>1, <3>2 DEF Touched
      <3>3. CASE x \in back
        BY <1>5, <3>1, <3>3
      <3> QED  BY <1>8, <3>2, <3>3
    <2> QED  BY <2>1, <2>2 DEF Voids, Touched
  <1>15. Tally(n, ns)
    <2>1. \A x \in ms : x.judge = l.judge => UnitOf[x.slot] # UnitOf[s]
      BY <1>1, <1>2, <1>3 DEF Tally, s
    <2>2. Distinct(ns)
      <3>1. Distinct(ms \cup {l})
        BY <1>1, <1>3, <2>1 DEF Tally, Distinct
      <3> QED  BY <1>7, <3>1 DEF Faded
    <2>3. ASSUME NEW y \in ms \cup {l}
          PROVE  /\ \A i \in 1..Len(n.targets) : y.judge = n.targets[i] => i = 1 /\ UnitOf[y.slot] \in n.attempted
                 /\ (n.targets # <<>> /\ y.judge = Head(n.targets)) \/ \E row \in n.done : row.judge = y.judge
      <3>1. CASE y \in ms
        BY <1>1, <3>1 DEF Tally, q
      <3>2. CASE y = l
        <4>1. \A i, k \in 1..Len(q.targets) : q.targets[i] = q.targets[k] => i = k
          BY <1>1 DEF Formed
        <4>2. UnitOf[s] \in q.attempted
          BY <1>1, <1>2 DEF Tally, s
        <4>3. Head(q.targets) = J(r)
          BY DEF J, q
        <4> QED  BY <1>2, <1>3, <3>2, <4>1, <4>2, <4>3 DEF q
      <3> QED  BY <3>1, <3>2
    <2>4. ASSUME NEW x \in ns
          PROVE  /\ \A i \in 1..Len(n.targets) : x.judge = n.targets[i] => i = 1 /\ UnitOf[x.slot] \in n.attempted
                 /\ (n.targets # <<>> /\ x.judge = Head(n.targets)) \/ \E row \in n.done : row.judge = x.judge
      <3>1. PICK y \in ms \cup {l} : SameRow(y, x)
        BY <1>7 DEF Faded
      <3> QED  BY <2>3, <3>1 DEF SameRow
    <2>5. Head(n.targets) = l.judge
      BY <1>3 DEF J, q
    <2>6. /\ Adds(n.labels, n.cost, ms \cup {l}, l.judge)
          /\ \A j : j # l.judge => Labeled(ms \cup {l}, j) = Labeled(ms, j)
                                   /\ Charged(ms \cup {l}, j) = Charged(ms, j)
      <3>1. Adds(q.labels, q.cost, ms, l.judge)
        BY <1>1, <1>2, <2>5 DEF Tally, q
      <3>2. \A x \in ms : x.judge = l.judge => x.slot # l.slot
        BY <1>3, <2>1
      <3>3. n.labels = q.labels + 1 /\ n.cost = q.cost + Due(l)
        BY <1>3 DEF q, l, Due
      <3>4. l \in LabelRow /\ ms \subseteq LabelRow
        BY <1>3, <1>6
      <3>5. Adds(q.labels + 1, q.cost + Due(l), ms \cup {l}, l.judge)
        BY <3>1, <3>2, <3>4, OneMore
      <3>6. \A j : j # l.judge => Labeled(ms \cup {l}, j) = Labeled(ms, j)
                                 /\ Charged(ms \cup {l}, j) = Charged(ms, j)
        BY <3>1, <3>2, <3>4, OneMore
      <3> QED  BY <3>3, <3>5, <3>6
    <2>7. /\ Adds(n.labels, n.cost, ns, l.judge)
          /\ \A j : j # l.judge => Labeled(ns, j) = Labeled(ms, j) /\ Charged(ns, j) = Charged(ms, j)
      BY <1>7, <2>6 DEF Faded, Adds
    <2>8. \A row \in n.done : Reported(row, ns) /\ \A i \in 1..Len(n.targets) : n.targets[i] # row.judge
      <3>1. \A row \in q.done : Reported(row, ms) /\ \A i \in 1..Len(q.targets) : q.targets[i] # row.judge
        BY <1>1 DEF Tally
      <3>2. \A row \in q.done : row.judge # l.judge
        BY <1>2, <1>3, <3>1
      <3>3. \A row \in q.done : Reported(row, ns)
        BY <2>7, <3>1, <3>2, ZenonT(60) DEF Reported, Adds
      <3> QED  BY <3>1, <3>3 DEF q
    <2>9. n.count = Cardinality(n.attempted) /\ n.labels <= n.count
      <3>1. q.labels < q.count /\ q.count = Cardinality(q.attempted)
        BY <1>1, <1>2 DEF Tally, s
      <3>2. q.labels \in Nat /\ q.count \in Nat
        <4>1. Adds(q.labels, q.cost, ms, l.judge)
          BY <1>1, <1>2, <2>5 DEF Tally, q
        <4>2. Labeled(ms, l.judge) \subseteq Slots /\ q.attempted \subseteq Units
          BY <1>1, <1>6 DEF Labeled, LabelRow, Formed
        <4> QED  BY <3>1, <4>1, <4>2, FS_Subset, FS_CardinalityType, JudgeAssumption DEF Adds
      <3> QED  BY <3>1, <3>2 DEF q
    <2> QED  BY <1>2, <2>2, <2>4, <2>5, <2>7, <2>8, <2>9 DEF Tally, q
  <1>16. Replies(n, ns, Cached(r), labels, cache)
    <2>1. \A x : \A y : SameRow(y, x) => KeyOf(x) = KeyOf(y) /\ x.reply = y.reply
      BY DEF SameRow, KeyOf
    <2>2. \A k \in DOMAIN Cached(r) : \E y \in ms \cup {l} : KeyOf(y) = k /\ Cached(r)[k] = y.reply
      BY <1>1, <1>3 DEF Cached, With, Replies, q, s
    <2>3. \A y \in ms \cup {l} : KeyOf(y) \in DOMAIN Cached(r) \/ cache[KeyOf(y)] # None
      <3>1. \A y \in ms : KeyOf(y) \in DOMAIN stored[r] \/ cache[KeyOf(y)] # None
        BY <1>1 DEF Replies
      <3>2. DOMAIN stored[r] \subseteq DOMAIN Cached(r) /\ (~q.hit => KeyOf(l) \in DOMAIN Cached(r))
        BY <1>3 DEF Cached, With, q, s
      <3>3. q.hit => cache[KeyOf(l)] # None
        BY <1>1, <1>2, <1>3 DEF Replies, Key, J, q, s
      <3> QED  BY <3>1, <3>2, <3>3
    <2>4. \A k \in DOMAIN Cached(r) : \E x \in ns : KeyOf(x) = k /\ Cached(r)[k] = x.reply
      BY <1>7, <2>1, <2>2, SMTT(30) DEF Faded
    <2>5. \A x \in ns : KeyOf(x) \in DOMAIN Cached(r) \/ cache[KeyOf(x)] # None
      BY <1>7, <2>1, <2>3 DEF Faded
    <2> QED  BY <2>4, <2>5 DEF Replies
  <1>17. SeenDone(n)
    <2>1. q.slot # None
      BY <1>2 DEF s
    <2> QED  BY <1>1, <2>1 DEF SeenDone, q
  <1> QED  BY <1>11, <1>12, <1>13, <1>14, <1>15, <1>16, <1>17 DEF Whole, q, f, ms, s, l, back, us, g, ns, vs

\* A run once its label is in.
Scored(r, failed, us) ==
  [run[r] EXCEPT !.labels = @ + 1, !.cost = @ + NewLabel(r).cost, !.active = ~failed,
                 !.held = @ \cup us \cup {U(r)},
                 !.suspended = IF failed THEN @ \cup {J(r)} ELSE @]

\* What a submit does: q is the run before the caps are asked, n if none is reached.
Submits(r, q, n, gone, f, vs) ==
  LET ms == Voided(mine[r] \cup {NewLabel(r)}, gone)
      spend == Plus(run[r].spend, NewLabel(r))
  IN /\ DOMAIN q = Fields /\ n = [Settled(q) EXCEPT !.spend = spend, !.pc = "pull"] /\ n.pc = "pull"
     /\ n.targets = run[r].targets /\ n.day = run[r].day /\ n.seen = run[r].seen
     /\ Whole(r, n, f, ms, vs, Cached(r)) /\ Moves(r, Checked(q, spend), f, ms, vs, Cached(r))
     /\ Alone(r, f, n.held)

LEMMA Submission ==
  ASSUME JudgeInv, NEW r \in Runs, Submit(r)
  PROVE  \E q, n, gone, f, vs : Submits(r, q, n, gone, f, vs)
  <1>1. run[r].pc = "submit"
    BY DEF Submit
  <1>2. PICK failed \in BOOLEAN, gone \in {{}, Recent(r)} :
          /\ UnitsFree(r, UnitsOf(Back(gone)))
          /\ draft' = [draft EXCEPT ![r] = Refilled(draft[r], Reopens(r, gone), run[r].slot)]
          /\ mine' = [mine EXCEPT ![r] = Voided(mine[r] \cup {NewLabel(r)}, gone)]
          /\ voided' = [voided EXCEPT ![r] = voided[r] \cup (gone \cap labels)]
          /\ run' = [run EXCEPT ![r] = Checked(Scored(r, failed, UnitsOf(Back(gone))), Plus(run[r].spend, NewLabel(r)))]
          /\ stored' = [stored EXCEPT ![r] = Cached(r)]
          /\ UNCHANGED <<store, world>>
    <2>1. \A gone : {UnitOf[x.slot] : x \in gone} = UnitsOf(Back(gone))
      BY DEF UnitsOf, Back
    <2> QED  BY <2>1, ZenonT(60) DEF Submit, Step, Scored, Refilled
  <1>3. PICK q : q = Scored(r, failed, UnitsOf(Back(gone)))
    OBVIOUS
  <1>4. PICK spend : spend = Plus(run[r].spend, NewLabel(r))
    OBVIOUS
  <1>5. PICK n : n = [Settled(q) EXCEPT !.spend = spend, !.pc = "pull"]
    OBVIOUS
  <1>6. Formed(run[r]) /\ DOMAIN run[r] = Fields /\ J(r) \in Judges
    BY <1>1, HandFacts DEF Handling, Formed
  <1>7. /\ DOMAIN n = Fields /\ n.pc = "pull" /\ n.slot = None /\ n.hit \in BOOLEAN
        /\ n.labels = run[r].labels + 1 /\ n.cost = run[r].cost + NewLabel(r).cost
        /\ n.held = run[r].held \cup UnitsOf(Back(gone)) \cup {U(r)}
        /\ n.targets = run[r].targets /\ n.dry = run[r].dry /\ n.guidelines = run[r].guidelines
        /\ n.day = run[r].day /\ n.attempted = run[r].attempted /\ n.count = run[r].count
        /\ n.done = run[r].done /\ n.seen = run[r].seen
        /\ n.suspended = IF failed THEN run[r].suspended \cup {J(r)} ELSE run[r].suspended
    BY <1>3, <1>5, <1>6, ZenonT(60) DEF Scored, Settled, Fields
  <1>8. n.suspended \subseteq Judges
    BY <1>6, <1>7 DEF Formed
  <1>9. PICK f : f = Refilled(draft[r], Reopens(r, gone), run[r].slot)
    OBVIOUS
  <1>10. PICK ms : ms = Voided(mine[r] \cup {NewLabel(r)}, gone)
    OBVIOUS
  <1>11. PICK vs : vs = voided[r] \cup (gone \cap labels)
    OBVIOUS
  <1>12. Whole(r, n, f, ms, vs, Cached(r))
    BY <1>1, <1>2, <1>7, <1>8, <1>9, <1>10, <1>11, SubmitWhole
  <1>13. PICK m : m = Checked(q, spend)
    OBVIOUS
  <1>14. Moves(r, m, f, ms, vs, Cached(r))
    <2>1. /\ run' = [run EXCEPT ![r] = m] /\ draft' = [draft EXCEPT ![r] = f] /\ mine' = [mine EXCEPT ![r] = ms]
          /\ voided' = [voided EXCEPT ![r] = vs] /\ stored' = [stored EXCEPT ![r] = Cached(r)]
          /\ UNCHANGED <<store, world>>
      BY <1>2, <1>3, <1>4, <1>9, <1>10, <1>11, <1>13
    <2> QED  BY <2>1 DEF Moves, JudgeInv, Domains
  <1>15. Alone(r, f, n.held)
    <2>1. \A p \in Runs \ {r} : Reopens(r, gone) \cap DOMAIN draft[p] = {}
      BY <1>1, <1>2, BackFacts
    <2>2. DOMAIN f = DOMAIN draft[r] \cup Reopens(r, gone)
      BY <1>9 DEF Refilled
    <2>3. Alone(r, draft[r], run[r].held) /\ UnitsFree(r, {U(r)})
      BY StillAlone DEF Submit
    <2>4. \A p \in Runs \ {r} : n.held \cap run[p].held = {}
      BY <1>2, <1>7, <2>3 DEF Alone, UnitsFree
    <2> QED  BY <2>1, <2>2, <2>3, <2>4 DEF Alone
  <1>16. DOMAIN q = Fields
    BY <1>3, <1>6 DEF Scored, Fields
  <1>17. Submits(r, q, n, gone, f, vs)
    BY <1>4, <1>5, <1>7, <1>10, <1>12, <1>13, <1>14, <1>15, <1>16 DEF Submits
  <1> QED  BY <1>17

LEMMA SubmitKeeps ==
  ASSUME JudgeInv, NEW r \in Runs, Submit(r)
  PROVE  JudgeInv'
  <1>1. run[r].pc # "done"
    BY DEF Submit
  <1>2. PICK q, n, gone, f, vs : Submits(r, q, n, gone, f, vs)
    BY Submission
  <1>3. PICK spend : spend = Plus(run[r].spend, NewLabel(r))
    OBVIOUS
  <1>4. PICK ms : ms = Voided(mine[r] \cup {NewLabel(r)}, gone)
    OBVIOUS
  <1>5. /\ n = [Settled(q) EXCEPT !.spend = spend, !.pc = "pull"] /\ n.pc = "pull"
        /\ Whole(r, n, f, ms, vs, Cached(r)) /\ Moves(r, Checked(q, spend), f, ms, vs, Cached(r))
        /\ Alone(r, f, n.held)
    BY <1>2, <1>3, <1>4 DEF Submits
  <1>6. /\ Whole(r, Checked(q, spend), f, ms, vs, Cached(r)) /\ Checked(q, spend).pc \in Live
        /\ Checked(q, spend).held = n.held
    BY <1>5, CheckedWhole, ZenonT(60)
  <1> QED  BY <1>1, <1>5, <1>6, MoveKeeps

-----------------------------------------------------------------------------
(* The committed rows change: a run commits, or others act.                *)

\* Committed rows ns: what was committed, rows gone made invalid, and rows ms added.
Evolved(ns, gone, ms) ==
  /\ \A n \in ns : n \in ms \/ \E l \in labels : SameRow(l, n) /\ (n.valid => n = l /\ l \notin gone)
  /\ \A l \in labels : \E n \in ns : SameRow(l, n)
  /\ \A l \in labels : l \notin gone => l \in ns
  /\ ms \subseteq ns

LEMMA KeyTyped ==
  ASSUME NEW l \in LabelRow
  PROVE  KeyOf(l) \in Keys
  <1>1. l.judge \in Judges /\ l.slot \in Slots
    BY DEF LabelRow
  <1>2. UnitOf[l.slot] \in Units /\ VariantOf[l.slot] \in Range(VariantOf)
    BY <1>1, JudgeAssumption DEF Range
  <1> QED  BY <1>1, <1>2 DEF KeyOf, Keys

\* A run with other rows than those touched does not notice.
LEMMA OthersApart ==
  ASSUME JudgeInv, NEW q \in Runs, NEW ns, NEW gone, NEW ms, NEW cs, Evolved(ns, gone, ms),
         \A l \in voided[q] : l \notin gone,
         \A m \in ms : m.run \in Runs /\ run[m.run].pc # "done",
         \A k \in Keys : cache[k] # None => cs[k] # None
  PROVE  Voids(run[q], ns, voided[q]) /\ Replies(run[q], mine[q], stored[q], ns, cs)
  <1>1. /\ Formed(run[q]) /\ Votes(q, run[q], draft[q], mine[q]) /\ SeenDone(run[q])
        /\ Voids(run[q], labels, voided[q]) /\ Replies(run[q], mine[q], stored[q], labels, cache)
    BY DEF JudgeInv, Sound, Apart
  <1>2. Voids(run[q], ns, voided[q])
    BY <1>1 DEF Voids, Evolved
  <1>3. \A l \in mine[q] : KeyOf(l) \in Keys
    BY <1>1, KeyTyped DEF Votes
  <1>4. \A l \in mine[q] : KeyOf(l) \in DOMAIN stored[q] \/ cs[KeyOf(l)] # None
    BY <1>1, <1>3 DEF Replies
  <1>5. ASSUME run[q].slot # None, run[q].hit
        PROVE  cs[<<Head(run[q].targets), UnitOf[run[q].slot], VariantOf[run[q].slot]>>] # None
    <2>1. run[q].pc \in Handling
      BY <1>1, <1>5 DEF Formed
    <2>2. J(q) \in Judges /\ run[q].slot \in Slots
      BY <2>1, HandFacts
    <2>3. <<Head(run[q].targets), UnitOf[run[q].slot], VariantOf[run[q].slot]>> \in Keys
      BY <2>2, JudgeAssumption DEF Keys, J, Range
    <2> QED  BY <1>1, <1>5, <2>3 DEF Replies
  <1>6. ASSUME run[q].pc = "call" PROVE Unpaid(run[q], ns)
    <2> DEFINE p == PromptOf(run[q], run[q].slot)
               j == Head(run[q].targets)
    <2> SUFFICES ASSUME NEW n \in Others(j, p, ns), n.run \in run[q].seen[j], n.reply = p
                 PROVE  \E m \in Others(j, p, ns) : m.reply # p
      BY DEF Unpaid
    <2> HIDE DEF p, j
    <2>1. run[q].slot # None
      BY <1>1, <1>6 DEF Formed, Handling
    <2>2. j \in DOMAIN run[q].seen
      BY <1>1, <2>1 DEF SeenDone, j
    <2>3. run[n.run].pc = "done"
      BY <1>1, <2>2 DEF SeenDone
    <2>4. n \in ns /\ n \notin ms
      BY <2>3 DEF Others
    <2>5. PICK l \in labels : SameRow(l, n)
      BY <2>4 DEF Evolved
    <2>6. l \in Others(j, p, labels) /\ l.run \in run[q].seen[j] /\ l.reply = p
      BY <2>5 DEF SameRow, Others
    <2>7. PICK k \in Others(j, p, labels) : k.reply # p
      BY <1>1, <1>6, <2>6 DEF Replies, Unpaid, p, j
    <2>8. PICK m \in ns : SameRow(k, m)
      BY <2>7 DEF Evolved, Others
    <2>9. m \in Others(j, p, ns) /\ m.reply # p
      BY <2>7, <2>8 DEF SameRow, Others
    <2> QED  BY <2>9
  <1> QED  BY <1>1, <1>2, <1>4, <1>5, <1>6 DEF Replies

\* The label rows after a change of the valid ones.
LEMMA EvolvedRows ==
  ASSUME labels \subseteq LabelRow, NEW gone, NEW ms
  PROVE  Evolved(Voided(labels, gone) \cup ms, gone, ms)
  <1>1. Faded(labels, gone, Voided(labels, gone))
    BY FadeFacts
  <1> QED  BY <1>1 DEF Faded, Evolved

LEMMA CommitKeeps ==
  ASSUME JudgeInv, NEW r \in Runs, Commit(r)
  PROVE  JudgeInv'
  <1> DEFINE q == run[r]
             f == draft[r]
             ms == mine[r]
             vs == voided[r]
  <1>1. q.pc = "commit" /\ q.pc # "done"
    BY DEF Commit
  <1>2. /\ Formed(q) /\ Hands(q, f) /\ Votes(r, q, f, ms) /\ Tally(q, ms) /\ SeenDone(q)
        /\ Voids(q, labels, vs) /\ Touched(q, f, slots) /\ Replies(q, ms, stored[r], labels, cache)
        /\ Domains /\ Settings /\ Standing /\ Accounts /\ CacheTrue /\ Separate
    BY DEF JudgeInv, Sound, Apart
  <1>3. q.slot = None /\ q.targets = <<>> /\ q.suspended \subseteq Judges /\ None \notin Slots
    BY <1>1, <1>2, JudgeAssumption DEF Formed, Handling, Working
  <1>4. /\ slots' = [s \in Slots |-> Slot(r, s)] /\ labels' = Voided(labels, vs) \cup ms
        /\ cache' = [k \in Keys |-> Entry(r, k)] /\ paused' = paused \cup q.suspended
        /\ reports' = [reports EXCEPT ![r] = q.done]
        /\ run' = [run EXCEPT ![r] = Blank("done")] /\ draft' = [draft EXCEPT ![r] = <<>>]
        /\ mine' = [mine EXCEPT ![r] = {}] /\ voided' = [voided EXCEPT ![r] = {}]
        /\ stored' = [stored EXCEPT ![r] = <<>>] /\ UNCHANGED <<guidelines, day, events, picked>>
    BY DEF Commit, Rows, Closed, Step, world
  <1>5. /\ DOMAIN run' = Runs /\ DOMAIN draft' = Runs /\ DOMAIN mine' = Runs /\ DOMAIN voided' = Runs
        /\ DOMAIN stored' = Runs /\ DOMAIN reports' = Runs /\ reports'[r] = q.done
        /\ run'[r] = Blank("done") /\ draft'[r] = <<>> /\ mine'[r] = {} /\ voided'[r] = {} /\ stored'[r] = <<>>
        /\ \A p \in Runs \ {r} : /\ run'[p] = run[p] /\ draft'[p] = draft[p] /\ mine'[p] = mine[p]
                                 /\ voided'[p] = voided[p] /\ stored'[p] = stored[p] /\ reports'[p] = reports[p]
    BY <1>2, <1>4 DEF Domains
  <1>6. /\ Whole(r, Blank("done"), <<>>, {}, {}, <<>>) /\ Blank("done").held = {} /\ Blank("done").pc = "done"
    BY BlankWhole
  <1> HIDE DEF q, f, ms, vs
  <1>7. labels \subseteq LabelRow /\ ms \subseteq LabelRow
    BY <1>2 DEF Domains, Votes
  <1>8. Faded(labels, vs, Voided(labels, vs)) /\ Evolved(labels', vs, ms)
    BY <1>4, <1>7, FadeFacts, EvolvedRows
  <1>9. labels' \subseteq LabelRow
    BY <1>4, <1>7, <1>8 DEF Faded
  <1>10. \A s \in DOMAIN f : s \in Slots /\ f[s] \in SlotStatus /\ f[s] # "leased"
    BY <1>2, <1>3 DEF Hands, Drafts
  <1>11. \A s \in Slots : slots'[s] = IF s \in DOMAIN f THEN f[s] ELSE slots[s]
    BY <1>4 DEF Slot, f
  <1>12. \A k \in Keys : cache'[k] = IF k \in DOMAIN stored[r] THEN stored[r][k] ELSE cache[k]
    BY <1>4 DEF Entry
  <1>13. \A l \in ms : l.reply # None
    BY <1>7, JudgeAssumption DEF LabelRow
  <1>14. \A k \in Keys : (cache[k] # None => cache'[k] # None) /\ (k \in DOMAIN stored[r] => cache'[k] # None)
    BY <1>2, <1>12, <1>13 DEF Replies
  <1>15. \A l \in labels : l.run \in Runs /\ run[l.run].pc = "done" /\ l.run # r
    BY <1>1, <1>2, <1>7 DEF Accounts, LabelRow, q
  <1>16. \A p \in Runs : run[p].pc = "done" => run'[p].pc = "done"
    BY <1>5, <1>6
  <1>17. Domains'
    <2>1. slots' \in [Slots -> SlotStatus]
      <3>1. \A s \in Slots : Slot(r, s) \in SlotStatus
        BY <1>2, <1>10 DEF Slot, Domains, f
      <3> QED  BY <1>4, <3>1
    <2>2. DOMAIN cache' = Keys /\ paused' \subseteq Judges
      BY <1>2, <1>3, <1>4 DEF Domains
    <2> QED  BY <1>2, <1>4, <1>5, <1>9, <2>1, <2>2 DEF Domains
  <1>18. Settings'
    BY <1>2, <1>10, <1>11 DEF Settings
  <1>19. Standing'
    <2> SUFFICES ASSUME NEW n \in labels' PROVE Answers(n)
      BY DEF Standing
    <2>1. CASE n \in ms
      BY <1>2, <2>1 DEF Votes
    <2>2. ASSUME NEW l \in labels, SameRow(l, n) PROVE Answers(n)
      BY <1>2, <2>2 DEF Standing, Answers, SameRow
    <2> QED  BY <1>8, <2>1, <2>2 DEF Evolved
  <1>20. Accounts'
    <2>1. Distinct(labels')
      <3>1. Distinct(Voided(labels, vs)) /\ Distinct(ms)
        BY <1>2, <1>8 DEF Faded, Tally, Accounts
      <3>2. \A n \in Voided(labels, vs) : n.run # r
        BY <1>8, <1>15 DEF Faded, SameRow
      <3>3. \A n \in ms : n.run = r
        BY <1>2 DEF Votes
      <3> QED  BY <1>4, <3>1, <3>2, <3>3 DEF Distinct
    <2>2. ASSUME NEW n \in labels'
          PROVE  run'[n.run].pc = "done" /\ \E row \in reports'[n.run] : row.judge = n.judge
      <3>1. CASE n \in ms
        BY <1>2, <1>3, <1>5, <1>6, <3>1 DEF Votes, Tally
      <3>2. ASSUME NEW l \in labels, SameRow(l, n)
            PROVE  run'[n.run].pc = "done" /\ \E row \in reports'[n.run] : row.judge = n.judge
        BY <1>2, <1>5, <1>15, <1>16, <3>2 DEF Accounts, SameRow
      <3> QED  BY <1>8, <2>2, <3>1, <3>2 DEF Evolved
    <2>3. ASSUME NEW p \in Runs, NEW row \in reports'[p] PROVE Reported(row, Written(p)')
      <3>1. CASE p = r
        <4>1. Written(r)' = ms
          <5>1. \A n \in Voided(labels, vs) : n.run # r
            BY <1>8, <1>15 DEF Faded, SameRow
          <5>2. \A n \in ms : n.run = r
            BY <1>2 DEF Votes
          <5> QED  BY <1>4, <5>1, <5>2 DEF Written
        <4> QED  BY <1>2, <1>5, <2>3, <3>1, <4>1 DEF Tally
      <3>2. CASE p # r
        <4>1. Reported(row, Written(p))
          BY <1>2, <1>5, <2>3, <3>2 DEF Accounts
        <4>2. \A n \in labels' : n.run = p => \E l \in labels : SameRow(l, n)
          BY <1>2, <1>8, <3>2 DEF Evolved, Votes
        <4>3. \A l \in labels : \E n \in labels' : SameRow(l, n)
          BY <1>8 DEF Evolved
        <4>4. \A j : Labeled(Written(p)', j) = Labeled(Written(p), j)
          BY <4>2, <4>3 DEF Labeled, Written, SameRow
        <4>5. \A j : Charged(Written(p)', j) = Charged(Written(p), j)
          BY <4>2, <4>3 DEF Charged, Written, SameRow
        <4> QED  BY <4>1, <4>4, <4>5 DEF Reported, Adds
      <3> QED  BY <3>1, <3>2
    <2> QED  BY <2>1, <2>2, <2>3 DEF Accounts
  <1>21. CacheTrue'
    <2>1. ASSUME NEW k \in Keys, cache'[k] # None PROVE \E m \in labels' : KeyOf(m) = k /\ cache'[k] = m.reply
      <3>1. CASE k \in DOMAIN stored[r]
        BY <1>2, <1>8, <1>12, <3>1 DEF Replies, Evolved
      <3>2. CASE k \notin DOMAIN stored[r]
        <4>1. PICK l \in labels : KeyOf(l) = k /\ cache'[k] = l.reply
          BY <1>2, <1>12, <2>1, <3>2 DEF CacheTrue
        <4>2. PICK m \in labels' : SameRow(l, m)
          BY <1>8 DEF Evolved
        <4> QED  BY <4>1, <4>2 DEF SameRow, KeyOf
      <3> QED  BY <3>1, <3>2
    <2>2. ASSUME NEW n \in labels' PROVE cache'[KeyOf(n)] # None
      <3>1. KeyOf(n) \in Keys
        BY <1>9, <2>2, KeyTyped
      <3>2. CASE n \in ms
        BY <1>2, <1>14, <3>1, <3>2 DEF Replies
      <3>3. ASSUME NEW l \in labels, SameRow(l, n) PROVE cache'[KeyOf(n)] # None
        BY <1>2, <1>14, <3>1, <3>3 DEF CacheTrue, SameRow, KeyOf
      <3> QED  BY <1>8, <2>2, <3>2, <3>3 DEF Evolved
    <2> QED  BY <2>1, <2>2 DEF CacheTrue
  <1>22. Separate'
    BY <1>2, <1>5, <1>6 DEF Separate
  <1>23. Sound(r)' /\ Apart(r)'
    <2>1. Sound(r)'
      BY <1>5, <1>6 DEF Whole, Sound, Idle
    <2>2. /\ Voids(Blank("done"), labels', {}) /\ Touched(Blank("done"), <<>>, slots')
          /\ Replies(Blank("done"), {}, <<>>, labels', cache')
      <3>1. Blank("done").slot = None /\ DOMAIN <<>> = {}
        BY <1>6 DEF Whole, Formed, Handling
      <3> QED  BY <1>6, <3>1 DEF Voids, Touched, Replies
    <2>3. SeenDone(Blank("done"))'
      BY <1>6, <1>16 DEF Whole, SeenDone
    <2> QED  BY <1>5, <2>1, <2>2, <2>3 DEF Apart
  <1>24. ASSUME NEW p \in Runs \ {r} PROVE Sound(p)' /\ Apart(p)'
    <2>1. Sound(p) /\ Apart(p)
      BY DEF JudgeInv
    <2>2. Sound(p)'
      BY <1>5, <2>1 DEF Sound, Idle
    <2>3. SeenDone(run[p])'
      BY <1>5, <1>16, <2>1 DEF Apart, SeenDone
    <2>4. DOMAIN f \cap DOMAIN draft[p] = {} /\ q.held \cap run[p].held = {}
      BY <1>2 DEF Separate, f, q
    <2>5. \A l \in voided[p] : l \notin vs
      BY <1>2, <2>1, <2>4 DEF Apart, Voids
    <2>6. \A m \in ms : m.run \in Runs /\ run[m.run].pc # "done"
      BY <1>1, <1>2 DEF Votes, q
    <2>7. Voids(run[p], labels', voided[p]) /\ Replies(run[p], mine[p], stored[p], labels', cache')
      BY <1>8, <1>14, <2>5, <2>6, OthersApart
    <2>8. Touched(run[p], draft[p], slots')
      <3>1. Touched(run[p], draft[p], slots) /\ DOMAIN draft[p] \subseteq Slots
        BY <2>1 DEF Apart, Sound, Hands, Drafts
      <3> QED  BY <1>11, <2>4, <3>1 DEF Touched
    <2> QED  BY <1>5, <2>2, <2>3, <2>7, <2>8 DEF Apart
  <1> QED  BY <1>17, <1>18, <1>19, <1>20, <1>21, <1>22, <1>23, <1>24 DEF JudgeInv

\* Others may fill open slots nobody has, make rows invalid that no run has in hand, and
\* edit what runs do not look at again.
LEMMA WorldKeeps ==
  ASSUME JudgeInv, UNCHANGED <<cache, reports, run, draft, mine, voided, stored>>, Domains', Settings',
         NEW gone, Faded(labels, gone, labels'), \A r \in Runs : \A l \in voided[r] : l \notin gone,
         \A r \in Runs : Touched(run[r], draft[r], slots')
  PROVE  JudgeInv'
  <1>1. Domains /\ Standing /\ Accounts /\ CacheTrue /\ Separate /\ \A r \in Runs : Sound(r) /\ Apart(r)
    BY DEF JudgeInv
  <1>2. Standing'
    <2> SUFFICES ASSUME NEW n \in labels' PROVE Answers(n)
      BY DEF Standing
    <2>1. PICK l \in labels : SameRow(l, n)
      BY DEF Faded
    <2> QED  BY <1>1, <2>1 DEF Standing, Answers, SameRow
  <1>3. Accounts'
    <2>1. Distinct(labels')
      BY <1>1 DEF Accounts, Faded
    <2>2. \A n \in labels' : \E l \in labels : SameRow(l, n)
      BY DEF Faded
    <2>3. \A l \in labels : \E n \in labels' : SameRow(l, n)
      BY DEF Faded
    <2>4. \A n \in labels' : run'[n.run].pc = "done" /\ \E row \in reports'[n.run] : row.judge = n.judge
      BY <1>1, <2>2 DEF Accounts, SameRow
    <2>5. ASSUME NEW p \in Runs, NEW row \in reports'[p] PROVE Reported(row, Written(p)')
      <3>1. Reported(row, Written(p))
        BY <1>1, <2>5 DEF Accounts
      <3>2. \A j : Labeled(Written(p)', j) = Labeled(Written(p), j)
        BY <2>2, <2>3 DEF Labeled, Written, SameRow
      <3>3. \A j : Charged(Written(p)', j) = Charged(Written(p), j)
        BY <2>2, <2>3 DEF Charged, Written, SameRow
      <3> QED  BY <3>1, <3>2, <3>3 DEF Reported, Adds
    <2> QED  BY <2>1, <2>4, <2>5 DEF Accounts
  <1>4. CacheTrue'
    <2>1. ASSUME NEW k \in Keys, cache'[k] # None PROVE \E m \in labels' : KeyOf(m) = k /\ cache'[k] = m.reply
      <3>1. PICK l \in labels : KeyOf(l) = k /\ cache'[k] = l.reply
        BY <1>1, <2>1 DEF CacheTrue
      <3>2. PICK m \in labels' : SameRow(l, m)
        BY DEF Faded
      <3> QED  BY <3>1, <3>2 DEF SameRow, KeyOf
    <2>2. ASSUME NEW n \in labels' PROVE cache'[KeyOf(n)] # None
      <3>1. PICK l \in labels : SameRow(l, n)
        BY DEF Faded
      <3> QED  BY <1>1, <3>1 DEF CacheTrue, SameRow, KeyOf
    <2> QED  BY <2>1, <2>2 DEF CacheTrue
  <1>5. Separate'
    BY <1>1 DEF Separate
  <1>6. Evolved(labels', gone, {})
    BY DEF Faded, Evolved
  <1>7. ASSUME NEW p \in Runs PROVE Sound(p)' /\ Apart(p)'
    <2>1. Sound(p)'
      BY <1>1 DEF Sound, Idle
    <2>2. SeenDone(run[p])'
      BY <1>1 DEF Apart, SeenDone
    <2>3. Voids(run[p], labels', voided[p]) /\ Replies(run[p], mine[p], stored[p], labels', cache)
      BY <1>6, OthersApart
    <2> QED  BY <2>1, <2>2, <2>3 DEF Apart
  <1> QED  BY <1>2, <1>3, <1>4, <1>5, <1>7 DEF JudgeInv

LEMMA NoneFaded ==
  ASSUME labels \subseteq LabelRow
  PROVE  Faded(labels, {}, labels)
  BY DEF Faded, SameRow

LEMMA EventKeeps ==
  ASSUME JudgeInv, Environment
  PROVE  JudgeInv'
  <1>1. /\ Domains /\ Settings /\ labels \subseteq LabelRow /\ Faded(labels, {}, labels)
        /\ \A r \in Runs : Touched(run[r], draft[r], slots)
    BY NoneFaded DEF JudgeInv, Domains, Apart
  <1>2. ASSUME NEW s \in Slots, HumanLabels(s) PROVE JudgeInv'
    <2>1. /\ slots[s] = "open" /\ slots' = [slots EXCEPT ![s] = "filled"]
          /\ UNCHANGED <<labels, paused, guidelines, day, picked, cache, reports, run, draft, mine, voided, stored>>
          /\ events' = events + 1 /\ events < MaxEvents /\ MaxEvents \in Nat /\ events \in Nat
          /\ \A r \in Runs : s \notin DOMAIN draft[r]
      BY <1>1, <1>2, JudgeAssumption DEF HumanLabels, Event, txn, Domains
    <2>2. Domains' /\ Settings'
      BY <1>1, <2>1 DEF Domains, Settings, SlotStatus
    <2>3. \A r \in Runs : Touched(run[r], draft[r], slots')
      BY <1>1, <2>1 DEF Touched
    <2>4. PICK gone : gone = {}
      OBVIOUS
    <2>5. Faded(labels, gone, labels') /\ \A r \in Runs : \A l \in voided[r] : l \notin gone
      BY <1>1, <2>1, <2>4
    <2>6. UNCHANGED <<cache, reports, run, draft, mine, voided, stored>>
      BY <2>1
    <2> QED  BY <2>2, <2>3, <2>5, <2>6, WorldKeeps
  <1>3. ASSUME NEW p \in picked, ReviewerVoids(p) PROVE JudgeInv'
    <2>1. /\ labels' = Voided(labels, p.labels) /\ \A r \in Runs : p.unit \notin run[r].held
          /\ slots' = [s \in Slots |-> IF UnitOf[s] = p.unit THEN "open" ELSE slots[s]]
          /\ picked' \subseteq picked
          /\ UNCHANGED <<paused, guidelines, day, events, cache, reports, run, draft, mine, voided, stored>>
      BY <1>3 DEF ReviewerVoids, Untouched, txn
    <2>2. \A l \in p.labels : UnitOf[l.slot] = p.unit
      BY <1>1 DEF Domains
    <2>3. Faded(labels, p.labels, labels')
      BY <1>1, <2>1, FadeFacts
    <2>4. labels' \subseteq LabelRow
      BY <2>3 DEF Faded
    <2>5. Domains' /\ Settings'
      <3>1. slots' \in [Slots -> SlotStatus]
        BY <1>1, <2>1 DEF Domains, SlotStatus
      <3>2. Settings'
        BY <1>1, <2>1 DEF Settings
      <3> QED  BY <1>1, <2>1, <2>4, <3>1, <3>2 DEF Domains
    <2>6. ASSUME NEW r \in Runs PROVE Touched(run[r], draft[r], slots')
      <3>1. DOMAIN draft[r] \subseteq Slots
        BY DEF JudgeInv, Sound, Hands, Drafts
      <3> QED  BY <1>1, <2>1, <3>1 DEF Touched
    <2>7. ASSUME NEW r \in Runs, NEW l \in voided[r] PROVE l \notin p.labels
      <3>1. Voids(run[r], labels, voided[r])
        BY DEF JudgeInv, Apart
      <3> QED  BY <2>1, <2>2, <2>7, <3>1 DEF Voids
    <2> QED  BY <2>1, <2>3, <2>5, <2>6, <2>7, WorldKeeps
  <1>4. ASSUME \/ EditGuidelines \/ DayPasses \/ \E j \in Judges : ResumeJudge(j)
               \/ \E u \in Units : ReviewerReads(u)
        PROVE  JudgeInv'
    <2>1. /\ UNCHANGED <<slots, labels, cache, reports, run, draft, mine, voided, stored>> /\ paused' \subseteq paused
          /\ guidelines' \in {guidelines, guidelines + 1} /\ day' \in {day, day + 1}
          /\ events' = events + 1 /\ events < MaxEvents /\ MaxEvents \in Nat /\ events \in Nat
      BY <1>1, <1>4, JudgeAssumption DEF EditGuidelines, DayPasses, ResumeJudge, ReviewerReads, Event, txn, Domains
    <2>2. \A p \in picked' : \A l \in p.labels : UnitOf[l.slot] = p.unit
      BY <1>1, <1>4 DEF EditGuidelines, DayPasses, ResumeJudge, ReviewerReads, Domains
    <2>3. Domains' /\ Settings'
      BY <1>1, <2>1, <2>2 DEF Domains, Settings
    <2>4. Faded(labels, {}, labels') /\ \A r \in Runs : Touched(run[r], draft[r], slots')
      BY <1>1, <2>1
    <2> QED  BY <2>1, <2>3, <2>4, WorldKeeps
  <1> QED  BY <1>2, <1>3, <1>4 DEF Environment

-----------------------------------------------------------------------------
(* Every reachable state.                                                  *)

LEMMA InitInv ==
  ASSUME Init
  PROVE  JudgeInv
  <1>1. /\ slots = [s \in Slots |-> "open"] /\ labels = {} /\ paused = {}
        /\ cache = [k \in Keys |-> None] /\ reports = [r \in Runs |-> {}]
        /\ guidelines = 0 /\ day = 0 /\ events = 0 /\ picked = {}
        /\ run = [r \in Runs |-> Blank("idle")]
        /\ draft = [r \in Runs |-> <<>>] /\ stored = [r \in Runs |-> <<>>]
        /\ mine = [r \in Runs |-> {}] /\ voided = [r \in Runs |-> {}]
    BY DEF Init
  <1>2. Domains
    BY <1>1, JudgeAssumption DEF Domains, SlotStatus
  <1>3. Settings /\ Standing /\ Accounts /\ CacheTrue
    BY <1>1 DEF Settings, Standing, Accounts, CacheTrue, Distinct, Written
  <1>4. DOMAIN <<>> = {}
    OBVIOUS
  <1>5. Separate
    <2>1. Blank("idle").held = {}
      BY DEF Blank
    <2> QED  BY <1>1, <1>4, <2>1 DEF Separate
  <1>6. ASSUME NEW r \in Runs PROVE Sound(r) /\ Apart(r)
    <2>1. Whole(r, Blank("idle"), <<>>, {}, {}, <<>>) /\ Blank("idle").held = {} /\ Blank("idle").pc = "idle"
      BY BlankWhole
    <2>2. run[r] = Blank("idle") /\ draft[r] = <<>> /\ mine[r] = {} /\ voided[r] = {} /\ stored[r] = <<>>
      BY <1>1
    <2> QED  BY <2>1, <2>2 DEF Whole, Sound, Apart, Idle
  <1> QED  BY <1>2, <1>3, <1>5, <1>6 DEF JudgeInv

LEMMA NextKeeps ==
  ASSUME JudgeInv, [Next]_vars
  PROVE  JudgeInv'
  <1>1. ASSUME UNCHANGED vars PROVE JudgeInv'
    <2>1. UNCHANGED <<cache, reports, run, draft, mine, voided, stored>>
      BY <1>1 DEF vars
    <2>2. UNCHANGED <<slots, labels, paused, guidelines, day, events, picked>>
      BY <1>1 DEF vars
    <2>3. Domains /\ Settings /\ labels \subseteq LabelRow /\ \A r \in Runs : Touched(run[r], draft[r], slots)
      BY DEF JudgeInv, Domains, Apart
    <2>4. Domains' /\ Settings'
      BY <2>1, <2>2, <2>3 DEF Domains, Settings
    <2>5. Faded(labels, {}, labels') /\ \A r \in Runs : Touched(run[r], draft[r], slots')
      BY <2>2, <2>3, NoneFaded
    <2> QED  BY <2>1, <2>4, <2>5, WorldKeeps
  <1>2. ASSUME NEW r \in Runs, Post(r) \/ Crash(r) \/ Serve(r) PROVE JudgeInv'
    <2>1. ASSUME Dropped(r), run[r].pc \in Live PROVE JudgeInv'
      BY <2>1, DroppedKeeps
    <2>2. ASSUME Deadlocked(r) PROVE JudgeInv'
      <3>1. PICK ring \in SUBSET Runs : /\ r \in ring
              /\ \A q \in ring : \E p \in ring \ {q} : Wants(q) \cap run[p].held # {}
        BY <2>2 DEF Deadlocked
      <3>2. Wants(r) # {}
        BY <3>1
      <3>3. run[r].pc \in Live
        BY <3>2 DEF Wants, Live
      <3> QED  BY <2>1, <2>2, <3>3 DEF Deadlocked
    <2>3. CASE Crash(r) \/ Unbuildable(r) \/ Refused(r)
      BY <2>1, <2>3 DEF Crash, Unbuildable, Refused, Live
    <2> QED  BY <1>2, <2>2, <2>3, PostKeeps, BeginKeeps, PullKeeps, CallKeeps, ReleaseKeeps, SubmitKeeps,
                CommitKeeps DEF Serve
  <1> QED  BY <1>1, <1>2, EventKeeps DEF Next

LEMMA Invariance == Spec => []JudgeInv
  BY InitInv, NextKeeps, PTL DEF Spec

LEMMA TypesTrue ==
  ASSUME JudgeInv
  PROVE  TypeOK
  <1>1. Domains /\ \A r \in Runs : Sound(r) /\ Apart(r)
    BY DEF JudgeInv
  <1>2. /\ slots \in [Slots -> {"open", "leased", "filled"}] /\ \A l \in labels : l \in LabelRow
        /\ paused \subseteq Judges
    BY <1>1 DEF Domains, SlotStatus
  <1>3. {guidelines, day} \subseteq 0..MaxEvents
    BY <1>1, JudgeAssumption DEF Domains
  <1>4. ASSUME NEW r \in Runs
        PROVE  /\ run[r].pc \in Live \cup {"idle", "done", "failed"}
               /\ run[r].slot \in Slots \cup {None} /\ run[r].slot # None => draft[r][run[r].slot] = "leased"
               /\ \A l \in mine[r] : l \in LabelRow /\ l.run = r
               /\ voided[r] \subseteq labels
               /\ (run[r].pc \notin Live) => draft[r] = <<>> /\ mine[r] = {} /\ voided[r] = {} /\ run[r].held = {}
    <2>1. Formed(run[r]) /\ Hands(run[r], draft[r]) /\ Votes(r, run[r], draft[r], mine[r]) /\ Idle(r)
          /\ Voids(run[r], labels, voided[r])
      BY <1>1 DEF Sound, Apart
    <2> QED  BY <2>1 DEF Formed, Hands, Votes, Idle, Voids, Pcs
  <1> QED  BY <1>2, <1>3, <1>4 DEF TypeOK

\* Rows with a slot each are as many as their slots.
LEMMA RowPerSlot ==
  ASSUME NEW A, IsFiniteSet({l.slot : l \in A}), \A k, l \in A : k.slot = l.slot => k = l
  PROVE  Cardinality({l.slot : l \in A}) = Cardinality(A)
  <1> DEFINE S == {l.slot : l \in A}
             h == [s \in S |-> CHOOSE l \in A : l.slot = s]
  <1>1. \A s \in S : h[s] \in A /\ h[s].slot = s
    OBVIOUS
  <1>2. h \in [S -> A]
    BY <1>1
  <1>3. \A l \in A : l.slot \in S
    OBVIOUS
  <1> HIDE DEF h, S
  <1>4. \A l \in A : h[l.slot] = l
    BY <1>1, <1>3
  <1>5. h \in Bijection(S, A)
    BY <1>1, <1>2, <1>3, <1>4 DEF Bijection, Injection, Surjection, IsInjective
  <1>6. IsFiniteSet(S)
    BY DEF S
  <1>7. Cardinality(A) = Cardinality(S)
    BY <1>5, <1>6, FS_Bijection DEF ExistsBijection
  <1> QED  BY <1>7 DEF S

\* What the reports say of slots they say of labels, no judge labeling a slot twice in a run.
LEMMA CountsRows ==
  ASSUME NEW ms, ms \subseteq LabelRow, Distinct(ms), NEW r, \A l \in ms : l.run = r, NEW j
  PROVE  /\ Cardinality(Labeled(ms, j)) = Cardinality({l \in ms : l.judge = j})
         /\ Cardinality(Charged(ms, j)) = Cardinality({l \in ms : l.judge = j /\ ~l.hit})
  <1>1. IsFiniteSet(Labeled(ms, j)) /\ IsFiniteSet(Charged(ms, j))
    <2>1. Labeled(ms, j) \subseteq Slots /\ Charged(ms, j) \subseteq Slots
      BY DEF Labeled, Charged, LabelRow
    <2> QED  BY <2>1, FS_Subset, JudgeAssumption
  <1>2. \A k, l \in ms : k.judge = j /\ l.judge = j /\ k.slot = l.slot => k = l
    BY DEF Distinct
  <1>3. Cardinality(Labeled(ms, j)) = Cardinality({l \in ms : l.judge = j})
    <2> DEFINE A == {l \in ms : l.judge = j}
    <2>1. Labeled(ms, j) = {l.slot : l \in A} /\ \A k, l \in A : k.slot = l.slot => k = l
      BY <1>2 DEF Labeled
    <2> HIDE DEF A
    <2>2. Cardinality({l.slot : l \in A}) = Cardinality(A)
      BY <1>1, <2>1, RowPerSlot
    <2> QED  BY <2>1, <2>2 DEF A
  <1>4. Cardinality(Charged(ms, j)) = Cardinality({l \in ms : l.judge = j /\ ~l.hit})
    <2> DEFINE A == {l \in ms : l.judge = j /\ ~l.hit}
    <2>1. Charged(ms, j) = {l.slot : l \in A} /\ \A k, l \in A : k.slot = l.slot => k = l
      BY <1>2 DEF Charged
    <2> HIDE DEF A
    <2>2. Cardinality({l.slot : l \in A}) = Cardinality(A)
      BY <1>1, <2>1, RowPerSlot
    <2> QED  BY <2>1, <2>2 DEF A
  <1> QED  BY <1>3, <1>4

-----------------------------------------------------------------------------
(* What a run has spent.  It adds to what it read at its start, and that   *)
(* is still what the rows say: others make rows invalid, never cheaper,    *)
(* and what they commit was not there when it read (Spending).             *)

\* Rows are told apart by run and slot.
Ids(ls) == {<<l.run, l.slot>> : l \in ls}
Costly(ls) == {l \in ls : l.cost # 0}
On(ls, today) == {l \in ls : l.day = today}
\* Rows of one judge from runs rs; those a run in state q counts, of committed rows ls and its own ms.
Of(ls, j, rs) == {l \in ls : l.judge = j /\ l.run \in rs}
Counted(r, q, j, ls, ms) == Of(ls \cup ms, j, {r} \cup q.seen[j])
Total(ls, today) ==
  [cost   |-> Price * Cardinality(Ids(Costly(ls))), daily |-> Price * Cardinality(Ids(Costly(On(ls, today)))),
   tokens |-> Tokens * Cardinality(Ids(ls)), labels |-> Cardinality(Ids(ls))]

Below(j, spend) == \A k \in CapKinds : Budget[j][k] # None => spend[k] < Budget[j][k]
OneCall == [cost |-> Price, daily |-> Price, tokens |-> Tokens, labels |-> 1]
Within(j, spend) == \A k \in CapKinds : Budget[j][k] # None => spend[k] < Budget[j][k] + OneCall[k]

\* Whatever judge a run wrote labels of, it stopped by the first one over a cap.
Capped(r, q, ls, ms) ==
  \A j \in DOMAIN q.seen : j \in Judges /\
    ((\E l \in ms : l.judge = j) => Within(j, Total(Counted(r, q, j, ls, ms), q.day)))
Spending(r, q, ls, ms) ==
  /\ Capped(r, q, ls, ms)
  /\ q.pc \notin Live => DOMAIN q.seen = {}
  /\ q.pc = "begin" => \A l \in ms : l.judge # Head(q.targets)
  /\ q.pc = "pull" \/ q.pc \in Handling =>
       /\ q.spend = Total(Counted(r, q, Head(q.targets), ls, ms), q.day)
       /\ Below(Head(q.targets), q.spend)

Finite == IsFiniteSet(Ids(labels)) /\ \A r \in Runs : IsFiniteSet(Ids(mine[r]))
SpendInv == Finite /\ \A r \in Runs : Spending(r, run[r], labels, mine[r])

\* Rows that are the same but for being valid.
Mirrors(ls, ns) ==
  (\A n \in ns : \E l \in ls : SameRow(l, n)) /\ (\A l \in ls : \E n \in ns : SameRow(l, n))

\* A row per id, so as many rows as ids.
LEMMA RowPerId ==
  ASSUME NEW A, IsFiniteSet(Ids(A)), \A k, l \in A : k.run = l.run /\ k.slot = l.slot => k = l
  PROVE  Cardinality(Ids(A)) = Cardinality(A)
  <1> DEFINE S == Ids(A)
             h == [s \in S |-> CHOOSE l \in A : <<l.run, l.slot>> = s]
  <1>1. \A s \in S : h[s] \in A /\ <<h[s].run, h[s].slot>> = s
    BY DEF Ids
  <1>2. h \in [S -> A]
    BY <1>1
  <1>3. \A l \in A : <<l.run, l.slot>> \in S
    BY DEF Ids
  <1> HIDE DEF h, S
  <1>4. ASSUME NEW l \in A PROVE h[<<l.run, l.slot>>] = l
    <2>1. h[<<l.run, l.slot>>] \in A /\ <<h[<<l.run, l.slot>>].run, h[<<l.run, l.slot>>].slot>> = <<l.run, l.slot>>
      BY <1>1, <1>3
    <2> QED  BY <2>1
  <1>5. h \in Bijection(S, A)
    <2>1. \A s, t \in S : h[s] = h[t] => s = t
      BY <1>1
    <2>2. \A l \in A : \E s \in S : h[s] = l
      BY <1>3, <1>4
    <2> QED  BY <1>2, <2>1, <2>2 DEF Bijection, Injection, Surjection, IsInjective
  <1>6. Cardinality(A) = Cardinality(S)
    BY <1>5, FS_Bijection DEF ExistsBijection, S
  <1> QED  BY <1>6 DEF S

LEMMA FiniteParts ==
  ASSUME NEW A, IsFiniteSet(Ids(A)), NEW B, B \subseteq A
  PROVE  IsFiniteSet(Ids(B)) /\ Cardinality(Ids(B)) \in Nat
  <1>1. Ids(B) \subseteq Ids(A)
    BY DEF Ids
  <1> QED  BY <1>1, FS_Subset, FS_CardinalityType

LEMMA TotalType ==
  ASSUME NEW A, IsFiniteSet(Ids(A)), NEW today
  PROVE  Total(A, today) \in [cost : Nat, daily : Nat, tokens : Nat, labels : Nat]
  <1>1. Costly(A) \subseteq A /\ Costly(On(A, today)) \subseteq A
    BY DEF Costly, On
  <1>2. /\ Cardinality(Ids(A)) \in Nat /\ Cardinality(Ids(Costly(A))) \in Nat
        /\ Cardinality(Ids(Costly(On(A, today)))) \in Nat
    BY <1>1, FiniteParts
  <1>3. Price \in Nat /\ Tokens \in Nat
    BY JudgeAssumption
  <1> QED  BY <1>2, <1>3 DEF Total

LEMMA MirrorTotal ==
  ASSUME NEW A, NEW B, Mirrors(A, B)
  PROVE  Ids(B) = Ids(A) /\ \A j, rs, today : Total(Of(B, j, rs), today) = Total(Of(A, j, rs), today)
  <1>1. Ids(B) = Ids(A)
    BY DEF Mirrors, SameRow, Ids
  <1>2. ASSUME NEW j, NEW rs, NEW today PROVE Total(Of(B, j, rs), today) = Total(Of(A, j, rs), today)
    <2>1. Mirrors(Of(A, j, rs), Of(B, j, rs))
      BY DEF Mirrors, SameRow, Of
    <2>2. Mirrors(On(Of(A, j, rs), today), On(Of(B, j, rs), today))
      BY <2>1 DEF Mirrors, SameRow, On
    <2>3. \A X, Y : Mirrors(X, Y) => Ids(X) = Ids(Y) /\ Mirrors(Costly(X), Costly(Y))
      <3> SUFFICES ASSUME NEW X, NEW Y, Mirrors(X, Y) PROVE Ids(X) = Ids(Y) /\ Mirrors(Costly(X), Costly(Y))
        OBVIOUS
      <3>1. Ids(X) = Ids(Y)
        BY DEF Mirrors, SameRow, Ids
      <3>2. Mirrors(Costly(X), Costly(Y))
        BY DEF Mirrors, SameRow, Costly
      <3> QED  BY <3>1, <3>2
    <2>4. /\ Ids(Of(A, j, rs)) = Ids(Of(B, j, rs)) /\ Ids(Costly(Of(A, j, rs))) = Ids(Costly(Of(B, j, rs)))
          /\ Ids(Costly(On(Of(A, j, rs), today))) = Ids(Costly(On(Of(B, j, rs), today)))
      BY <2>1, <2>2, <2>3
    <2> QED  BY <2>4 DEF Total
  <1> QED  BY <1>1, <1>2

LEMMA VoidedMirrors ==
  ASSUME NEW ls, ls \subseteq LabelRow, NEW gone, NEW ms
  PROVE  Mirrors(ls \cup ms, Voided(ls, gone) \cup ms) /\ Mirrors(ms \cup ls, ms \cup Voided(ls, gone))
  <1>1. Faded(ls, gone, Voided(ls, gone))
    BY FadeFacts
  <1>2. \A l : SameRow(l, l)
    BY DEF SameRow
  <1> QED  BY <1>1, <1>2 DEF Mirrors, Faded

\* What budget.py reads of the rows a run sees is the total of what it counts.
LEMMA SpendRead ==
  ASSUME JudgeInv, Finite, NEW r \in Runs, run[r].pc # "done", NEW j, NEW rs, NEW today
  PROVE  SpendOf(j, {l \in Rows(r) : l.run \in rs}, today) = Total(Of(labels \cup mine[r], j, rs), today)
  <1> DEFINE own == {l \in {l \in Rows(r) : l.run \in rs} : l.judge = j}
  <1>1. labels \subseteq LabelRow /\ Votes(r, run[r], draft[r], mine[r]) /\ Distinct(mine[r]) /\ Distinct(labels)
    BY DEF JudgeInv, Domains, Sound, Tally, Accounts
  <1>2. Mirrors(labels \cup mine[r], Rows(r))
    BY <1>1, VoidedMirrors DEF Rows
  <1>3. IsFiniteSet(Ids(Rows(r)))
    <2>1. Ids(labels \cup mine[r]) = Ids(labels) \cup Ids(mine[r])
      BY DEF Ids
    <2>2. Ids(Rows(r)) = Ids(labels) \cup Ids(mine[r])
      BY <1>2, <2>1, MirrorTotal
    <2> QED  BY <2>2, FS_Union DEF Finite
  <1>4. Distinct(Rows(r))
    <2>1. Faded(labels, voided[r], Voided(labels, voided[r]))
      BY <1>1, FadeFacts
    <2>2. \A l \in labels : l.run # r
      BY DEF JudgeInv, Accounts
    <2>3. \A l \in Voided(labels, voided[r]) : l.run # r
      BY <2>1, <2>2 DEF Faded, SameRow
    <2>4. \A l \in mine[r] : l.run = r
      BY <1>1 DEF Votes
    <2>5. Distinct(Voided(labels, voided[r]))
      BY <1>1, <2>1 DEF Faded
    <2> QED  BY <1>1, <2>3, <2>4, <2>5 DEF Distinct, Rows
  <1>5. own = Of(Rows(r), j, rs) /\ own \subseteq Rows(r)
    BY DEF Of
  <1>6. \A k, l \in own : k.run = l.run /\ k.slot = l.slot => k = l
    BY <1>4 DEF Distinct
  <1> HIDE DEF own
  <1>7. ASSUME NEW A, A \subseteq own PROVE Cardinality(A) = Cardinality(Ids(A))
    <2>1. IsFiniteSet(Ids(A))
      BY <1>3, <1>5, <1>7, FiniteParts
    <2>2. \A k, l \in A : k.run = l.run /\ k.slot = l.slot => k = l
      BY <1>6, <1>7
    <2> QED  BY <2>1, <2>2, RowPerId
  <1>8. /\ Costly(own) \subseteq own /\ Costly(On(own, today)) \subseteq own
        /\ Costly(own) = {l \in own : l.cost # 0}
        /\ Costly(On(own, today)) = {l \in {l \in own : l.day = today} : l.cost # 0}
    BY DEF Costly, On
  <1>9. SpendOf(j, {l \in Rows(r) : l.run \in rs}, today) = Total(own, today)
    <2>1. SpendOf(j, {l \in Rows(r) : l.run \in rs}, today) =
            [cost |-> Price * Cardinality({l \in own : l.cost # 0}),
             daily |-> Price * Cardinality({l \in {l \in own : l.day = today} : l.cost # 0}),
             tokens |-> Tokens * Cardinality(own), labels |-> Cardinality(own)]
      BY DEF SpendOf, own
    <2>2. /\ Cardinality(own) = Cardinality(Ids(own))
          /\ Cardinality({l \in own : l.cost # 0}) = Cardinality(Ids(Costly(own)))
          /\ Cardinality({l \in {l \in own : l.day = today} : l.cost # 0}) = Cardinality(Ids(Costly(On(own, today))))
      BY <1>7, <1>8
    <2> QED  BY <2>1, <2>2 DEF Total
  <1> QED  BY <1>2, <1>5, <1>9, MirrorTotal

\* One more label costs what Plus says.
LEMMA TotalPlus ==
  ASSUME NEW A, IsFiniteSet(Ids(A)), NEW l \in LabelRow, <<l.run, l.slot>> \notin Ids(A)
  PROVE  Total(A \cup {l}, l.day) = Plus(Total(A, l.day), l)
  <1> DEFINE today == l.day
  <1>1. l.cost \in {0, Price} /\ l.tokens = Tokens /\ Price \in Nat /\ Tokens \in Nat
    BY JudgeAssumption DEF LabelRow
  <1>2. \A B : B \subseteq A => /\ Ids(B \cup {l}) = Ids(B) \cup {<<l.run, l.slot>>}
                               /\ <<l.run, l.slot>> \notin Ids(B)
    BY DEF Ids
  <1>3. \A B : B \subseteq A => /\ Cardinality(Ids(B \cup {l})) = Cardinality(Ids(B)) + 1
                               /\ Cardinality(Ids(B)) \in Nat
    BY <1>2, FiniteParts, FS_AddElement
  <1>4. \A n \in Nat : /\ Price * (n + 1) = Price * n + Price /\ Price * n \in Nat
                       /\ Tokens * (n + 1) = Tokens * n + Tokens
    BY <1>1
  <1>5. /\ Costly(A) \subseteq A /\ Costly(On(A, today)) \subseteq A
        /\ Costly(A \cup {l}) = (IF l.cost = 0 THEN Costly(A) ELSE Costly(A) \cup {l})
        /\ Costly(On(A \cup {l}, today)) =
             (IF l.cost = 0 THEN Costly(On(A, today)) ELSE Costly(On(A, today)) \cup {l})
    BY DEF Costly, On
  <1>6. ASSUME NEW B, B \subseteq A, NEW C, C = IF l.cost = 0 THEN B ELSE B \cup {l}
        PROVE  Price * Cardinality(Ids(C)) = Price * Cardinality(Ids(B)) + l.cost
    <2>1. Cardinality(Ids(B)) \in Nat /\ Cardinality(Ids(B \cup {l})) = Cardinality(Ids(B)) + 1
      BY <1>3, <1>6
    <2>2. CASE l.cost = 0
      BY <1>4, <1>6, <2>1, <2>2
    <2>3. CASE l.cost # 0
      BY <1>1, <1>4, <1>6, <2>1, <2>3
    <2> QED  BY <2>2, <2>3
  <1>7. /\ Price * Cardinality(Ids(Costly(A \cup {l}))) = Price * Cardinality(Ids(Costly(A))) + l.cost
        /\ Price * Cardinality(Ids(Costly(On(A \cup {l}, today)))) =
             Price * Cardinality(Ids(Costly(On(A, today)))) + l.cost
    BY <1>5, <1>6
  <1>8. /\ Cardinality(Ids(A \cup {l})) = Cardinality(Ids(A)) + 1
        /\ Tokens * Cardinality(Ids(A \cup {l})) = Tokens * Cardinality(Ids(A)) + l.tokens
    BY <1>1, <1>3, <1>4
  <1> QED  BY <1>7, <1>8 DEF Total, Plus

-----------------------------------------------------------------------------
(* A request's own steps keep what it counts.                              *)

\* What a run counts has a total, whatever it read.
LEMMA CountedFinite ==
  ASSUME NEW ls, NEW ms, IsFiniteSet(Ids(ls)), IsFiniteSet(Ids(ms)), NEW j, NEW rs
  PROVE  IsFiniteSet(Ids(Of(ls \cup ms, j, rs))) /\ IsFiniteSet(Ids(ls \cup ms))
  <1>1. Ids(ls \cup ms) = Ids(ls) \cup Ids(ms) /\ Of(ls \cup ms, j, rs) \subseteq ls \cup ms
    BY DEF Ids, Of
  <1>2. IsFiniteSet(Ids(ls \cup ms))
    BY <1>1, FS_Union
  <1> QED  BY <1>1, <1>2, FiniteParts

LEMMA UncappedBelow ==
  ASSUME NEW j \in Judges, NEW spend, CapReached(j, spend) = None,
         spend \in [cost : Nat, daily : Nat, tokens : Nat, labels : Nat]
  PROVE  Below(j, spend)
  <1> DEFINE order == <<"cost", "daily", "tokens", "labels">>
             hit   == {i \in 1..4 : Reached(j, spend, order[i])}
  <1>1. \A i \in 1..4 : order[i] \in CapKinds
    BY DEF CapKinds
  <1>2. \A k \in CapKinds : \E i \in 1..4 : order[i] = k
    <2>1. order[1] = "cost" /\ order[2] = "daily" /\ order[3] = "tokens" /\ order[4] = "labels"
      OBVIOUS
    <2> HIDE DEF order
    <2> QED  BY <2>1 DEF CapKinds
  <1>3. CapReached(j, spend) = IF hit = {} THEN None ELSE order[Min(hit)]
    BY DEF CapReached
  <1> HIDE DEF order
  <1>4. hit = {}
    <2> SUFFICES ASSUME hit # {} PROVE FALSE
      OBVIOUS
    <2>1. \E i \in hit : \A k \in hit : i <= k
      <3>1. hit \subseteq 1..4
        OBVIOUS
      <3> HIDE DEF hit
      <3>2. \A i \in hit : i = 1 \/ i = 2 \/ i = 3 \/ i = 4
        BY <3>1
      <3> QED  BY <3>2
    <2>2. Min(hit) \in hit
      <3> HIDE DEF hit
      <3> QED  BY <2>1 DEF Min
    <2>3. Min(hit) \in 1..4
      BY <2>2
    <2> HIDE DEF hit
    <2>4. order[Min(hit)] \in CapKinds
      BY <1>1, <2>3
    <2> QED  BY <1>3, <2>4, JudgeAssumption
  <1>5. \A k \in CapKinds : ~Reached(j, spend, k)
    BY <1>2, <1>4
  <1>6. \A k \in CapKinds : spend[k] \in Nat /\ (Budget[j][k] # None => Budget[j][k] \in Nat)
    BY JudgeAssumption DEF CapKinds
  <1> QED  BY <1>5, <1>6 DEF Reached, Below

\* The call after the last one allowed stays within a price of the cap.
LEMMA PlusWithin ==
  ASSUME NEW j \in Judges, NEW spend \in [cost : Nat, daily : Nat, tokens : Nat, labels : Nat],
         Below(j, spend), NEW l \in LabelRow
  PROVE  Within(j, Plus(spend, l))
  <1>1. /\ l.cost \in Nat /\ l.cost <= Price /\ l.tokens = Tokens /\ Price \in Nat /\ Tokens \in Nat
        /\ \A k \in CapKinds : Budget[j][k] # None => Budget[j][k] \in Nat
    BY JudgeAssumption DEF LabelRow
  <1>2. ASSUME NEW k \in CapKinds, Budget[j][k] # None PROVE Plus(spend, l)[k] < Budget[j][k] + OneCall[k]
    <2>1. Budget[j][k] \in Nat /\ spend[k] < Budget[j][k]
      BY <1>1, <1>2 DEF Below
    <2>2. CASE k = "cost"
      BY <1>1, <2>1, <2>2 DEF Plus, OneCall
    <2>3. CASE k = "daily"
      <3>1. spend.daily < Budget[j][k] /\ spend.daily \in Nat
        BY <2>1, <2>3
      <3>2. spend.cost \in Nat /\ Plus(spend, l)[k] = spend.daily + l.cost /\ OneCall[k] = Price
        BY <2>3 DEF Plus, OneCall
      <3> QED  BY <1>1, <2>1, <3>1, <3>2
    <2>4. CASE k = "tokens"
      BY <1>1, <2>1, <2>4 DEF Plus, OneCall
    <2>5. CASE k = "labels"
      BY <1>1, <2>1, <2>5 DEF Plus, OneCall
    <2> QED  BY <2>2, <2>3, <2>4, <2>5 DEF CapKinds
  <1> QED  BY <1>2 DEF Within

LEMMA EndedSpend ==
  ASSUME NEW r \in Runs, NEW q, NEW ls, NEW ms, Formed(q), Tally(q, ms), q.pc = "pull",
         Capped(r, q, ls, ms), NEW reason, NEW stopped
  PROVE  Spending(r, Ended(q, reason, stopped), ls, ms)
  <1> DEFINE rest == Tail(q.targets)
  <1>1. DOMAIN q = Fields /\ q.targets # <<>> /\ q.targets \in Seq(Judges)
    BY DEF Formed, Working
  <1>2. PICK e : e = Ended(q, reason, stopped)
    OBVIOUS
  <1>3. /\ e.targets = rest /\ e.seen = q.seen /\ e.day = q.day
        /\ e.pc = (IF rest = <<>> THEN "commit" ELSE "begin")
    BY <1>1, <1>2 DEF Ended, Fields
  <1>4. rest # <<>> => Head(rest) = q.targets[2] /\ 2 \in 1..Len(q.targets)
    BY <1>1, TailFacts
  <1> HIDE DEF rest
  <1>5. Capped(r, e, ls, ms)
    BY <1>3 DEF Capped, Counted
  <1>6. e.pc = "begin" => \A l \in ms : l.judge # Head(e.targets)
    BY <1>3, <1>4 DEF Tally
  <1> QED  BY <1>2, <1>3, <1>5, <1>6 DEF Spending, Live, Handling

LEMMA CheckedSpend ==
  ASSUME NEW r \in Runs, NEW q, NEW spend, NEW n, n = [Settled(q) EXCEPT !.spend = spend, !.pc = "pull"],
         DOMAIN q = Fields, NEW ls, NEW ms, Formed(n), Tally(n, ms), Capped(r, n, ls, ms),
         IsFiniteSet(Ids(ls)), IsFiniteSet(Ids(ms)),
         spend = Total(Counted(r, n, Head(n.targets), ls, ms), n.day)
  PROVE  Spending(r, Checked(q, spend), ls, ms)
  <1>1. n.pc = "pull" /\ n.spend = spend /\ n.targets = q.targets
    BY DEF Settled, Fields
  <1>2. PICK cap : cap = CapReached(Head(q.targets), spend)
    OBVIOUS
  <1>3. Checked(q, spend) = IF cap = None THEN n ELSE Ended(n, cap, TRUE)
    BY <1>2 DEF Checked
  <1>4. Spending(r, Ended(n, cap, TRUE), ls, ms)
    BY <1>1, EndedSpend
  <1>5. ASSUME cap = None PROVE Spending(r, n, ls, ms)
    <2>1. Head(n.targets) \in Judges
      BY <1>1, TailFacts DEF Formed, Working
    <2>2. IsFiniteSet(Ids(Counted(r, n, Head(n.targets), ls, ms)))
      BY CountedFinite DEF Counted
    <2>3. spend \in [cost : Nat, daily : Nat, tokens : Nat, labels : Nat]
      BY <2>2, TotalType
    <2>4. Below(Head(n.targets), spend)
      BY <1>1, <1>2, <1>5, <2>1, <2>3, UncappedBelow
    <2> QED  BY <1>1, <2>4 DEF Spending, Live
  <1> QED  BY <1>3, <1>4, <1>5

\* Nothing a run counts changes while a slot is taken, called for, or given back.
LEMMA QuietSpend ==
  ASSUME NEW r \in Runs, NEW q, NEW n, NEW ls, NEW ms, Spending(r, q, ls, ms),
         q.pc = "pull" \/ q.pc \in Handling, n.pc = "pull" \/ n.pc \in Handling,
         n.targets = q.targets, n.seen = q.seen, n.day = q.day, n.spend = q.spend
  PROVE  Spending(r, n, ls, ms)
  <1>1. Capped(r, n, ls, ms) /\ \A j : Counted(r, n, j, ls, ms) = Counted(r, q, j, ls, ms)
    BY DEF Spending, Capped, Counted
  <1>2. n.pc \in Live /\ n.pc # "begin"
    BY DEF Live, Handling
  <1> QED  BY <1>1, <1>2 DEF Spending

LEMMA StartedSpend ==
  ASSUME JudgeInv, Finite, NEW r \in Runs, run[r].pc # "done", NEW q, q.pc = "begin",
         NEW f, NEW vs, NEW st, Whole(r, q, f, mine[r], vs, st), Spending(r, q, labels, mine[r])
  PROVE  Spending(r, Started(r, q), labels, mine[r])
  <1> DEFINE j     == Head(q.targets)
             over  == {p \in Runs : run[p].pc = "done"}
             ms    == mine[r]
  <1>1. PICK fresh : fresh = [q EXCEPT !.active = j \notin paused, !.seen = With(@, j, over)]
    BY ZenonT(60)
  <1>2. PICK spend : spend = SpendOf(j, Rows(r), q.day)
    OBVIOUS
  <1>3. PICK n : n = [Settled(fresh) EXCEPT !.spend = spend, !.pc = "pull"]
    OBVIOUS
  <1>4. DOMAIN q = Fields /\ q.slot = None /\ q.targets # <<>> /\ SeenDone(q) /\ Tally(q, ms) /\ q.targets \in Seq(Judges)
    BY DEF Whole, Formed, Working, Handling
  <1>5. Started(r, q) = Checked(fresh, spend)
    BY <1>1, <1>2 DEF Started
  <1> HIDE DEF j, over
  <1>6. DOMAIN fresh = Fields /\ fresh.seen = With(q.seen, j, over) /\ fresh.targets = q.targets /\ fresh.day = q.day
        /\ fresh.pc = "begin" /\ fresh.dry = q.dry /\ fresh.guidelines = q.guidelines
        /\ fresh.attempted = q.attempted /\ fresh.count = q.count /\ fresh.labels = q.labels /\ fresh.cost = q.cost
        /\ fresh.suspended = q.suspended /\ fresh.done = q.done /\ fresh.held = q.held
    BY <1>1, <1>4 DEF Fields
  <1>7. /\ DOMAIN n = Fields /\ n.pc = "pull" /\ n.slot = None /\ n.hit \in BOOLEAN
        /\ n.seen = With(q.seen, j, over)
        /\ n.targets = q.targets /\ n.dry = q.dry /\ n.guidelines = q.guidelines /\ n.day = q.day
        /\ n.attempted = q.attempted /\ n.count = q.count /\ n.labels = q.labels /\ n.cost = q.cost
        /\ n.suspended = q.suspended /\ n.done = q.done /\ n.held = q.held
    BY <1>3, <1>6 DEF Settled, Fields
  <1>8. SeenDone(n)
    BY <1>4, <1>7 DEF SeenDone, With, over, j
  <1>9. Whole(r, n, f, ms, vs, st)
    BY <1>7, <1>8, QuietWhole
  <1>10. /\ DOMAIN n.seen = DOMAIN q.seen \cup {j} /\ n.seen[j] = over
         /\ \A i \in DOMAIN q.seen : i # j => n.seen[i] = q.seen[i]
    BY <1>7 DEF With
  <1>11. j \in Judges
    BY <1>4, TailFacts DEF j
  <1>12. Capped(r, n, labels, ms)
    <2>1. \A l \in ms : l.judge # j
      BY DEF Spending, j
    <2>2. \A i \in DOMAIN q.seen : i # j => Counted(r, n, i, labels, ms) = Counted(r, q, i, labels, ms)
      BY <1>10 DEF Counted
    <2>3. Capped(r, q, labels, ms)
      BY DEF Spending
    <2> QED  BY <1>7, <1>10, <1>11, <2>1, <2>2, <2>3 DEF Capped
  <1>13. spend = Total(Counted(r, n, Head(n.targets), labels, ms), n.day)
    <2>1. Rows(r) = {l \in Rows(r) : l.run \in {r} \cup over}
      <3>1. Mirrors(labels \cup ms, Rows(r))
        BY VoidedMirrors DEF Rows, JudgeInv, Domains
      <3>2. \A l \in labels : l.run \in over
        BY DEF JudgeInv, Domains, Accounts, LabelRow, over
      <3>3. \A l \in ms : l.run = r
        BY DEF JudgeInv, Sound, Votes
      <3>4. \A l \in Rows(r) : l.run \in {r} \cup over
        BY <3>1, <3>2, <3>3 DEF Mirrors, SameRow
      <3> QED  BY <3>4
    <2>2. SpendOf(j, {l \in Rows(r) : l.run \in {r} \cup over}, q.day) = Total(Of(labels \cup ms, j, {r} \cup over), q.day)
      BY SpendRead
    <2>3. spend = Total(Of(labels \cup ms, j, {r} \cup over), q.day)
      BY <1>2, <2>1, <2>2
    <2>4. Head(n.targets) = j
      BY <1>7 DEF j
    <2> QED  BY <1>7, <1>10, <2>3, <2>4 DEF Counted
  <1>14. Formed(n) /\ Tally(n, ms) /\ IsFiniteSet(Ids(labels)) /\ IsFiniteSet(Ids(ms))
    BY <1>9 DEF Whole, Finite
  <1> QED  BY <1>3, <1>5, <1>6, <1>12, <1>13, <1>14, CheckedSpend, ZenonT(60)

LEMMA MoveSpend ==
  ASSUME JudgeInv, SpendInv, NEW r \in Runs, NEW q, NEW f, NEW ms, NEW vs, NEW st, Moves(r, q, f, ms, vs, st),
         IsFiniteSet(Ids(ms)), Spending(r, q, labels, ms)
  PROVE  SpendInv'
  <1>1. labels' = labels /\ run'[r] = q /\ mine'[r] = ms
        /\ \A p \in Runs \ {r} : run'[p] = run[p] /\ mine'[p] = mine[p]
    BY DEF Moves, store
  <1>2. Finite'
    BY <1>1 DEF SpendInv, Finite
  <1>3. \A p \in Runs : Spending(p, run'[p], labels', mine'[p])
    BY <1>1 DEF SpendInv
  <1> QED  BY <1>2, <1>3 DEF SpendInv

\* A request that is over has read nothing.
LEMMA BlankSpend ==
  ASSUME NEW r, NEW pc \in {"idle", "done", "failed"}, NEW ls
  PROVE  Spending(r, Blank(pc), ls, {}) /\ Ids({}) = {}
  <1>1. Blank(pc).pc = pc /\ Blank(pc).seen = <<>> /\ DOMAIN <<>> = {}
    BY DEF Blank
  <1>2. Capped(r, Blank(pc), ls, {})
    BY <1>1 DEF Capped
  <1> QED  BY <1>1, <1>2 DEF Spending, Handling, Ids

LEMMA DroppedSpend ==
  ASSUME JudgeInv, SpendInv, NEW r \in Runs, Dropped(r)
  PROVE  SpendInv'
  <1>1. Moves(r, Blank("failed"), <<>>, {}, {}, <<>>)
    BY DEF Dropped, Closed, Step, Moves, JudgeInv, Domains
  <1>2. Spending(r, Blank("failed"), labels, {}) /\ IsFiniteSet(Ids({}))
    BY BlankSpend, FS_EmptySet
  <1> QED  BY <1>1, <1>2, MoveSpend

LEMMA BeginSpend ==
  ASSUME JudgeInv, SpendInv, NEW r \in Runs, Begin(r)
  PROVE  SpendInv'
  <1>1. Whole(r, run[r], draft[r], mine[r], voided[r], stored[r]) /\ run[r].pc = "begin"
        /\ Spending(r, run[r], labels, mine[r]) /\ Finite
    BY IsWhole DEF Begin, SpendInv
  <1>2. Spending(r, Started(r, run[r]), labels, mine[r])
    BY <1>1, StartedSpend
  <1>3. Moves(r, Started(r, run[r]), draft[r], mine[r], voided[r], stored[r])
    BY DEF Begin, Step, Moves, txn, JudgeInv, Domains
  <1> QED  BY <1>1, <1>2, <1>3, MoveSpend DEF Finite

LEMMA CallSpend ==
  ASSUME JudgeInv, SpendInv, NEW r \in Runs, Call(r)
  PROVE  SpendInv'
  <1> DEFINE q == run[r]
  <1>1. q.pc = "call" /\ DOMAIN q = Fields /\ Spending(r, q, labels, mine[r]) /\ IsFiniteSet(Ids(mine[r]))
    BY DEF Call, JudgeInv, Sound, Formed, SpendInv, Finite
  <1>2. PICK n : /\ run' = [run EXCEPT ![r] = n]
                 /\ \/ n = [q EXCEPT !.pc = "submit", !.reply = Prompt(r, q.slot)]
                    \/ n = [q EXCEPT !.attempt = @ + 1]
                    \/ \E fatal \in BOOLEAN : n = [q EXCEPT !.pc = "release", !.fatal = fatal]
    BY ZenonT(60) DEF Call, Step, Fail
  <1> HIDE DEF q
  <1>3. /\ n.pc \in {"submit", "call", "release"}
        /\ n.targets = q.targets /\ n.day = q.day /\ n.seen = q.seen /\ n.spend = q.spend
    BY <1>1, <1>2, ZenonT(60) DEF Fields
  <1>4. Spending(r, n, labels, mine[r])
    BY <1>1, <1>3, QuietSpend DEF Handling
  <1>5. Moves(r, n, draft[r], mine[r], voided[r], stored[r])
    <2>1. UNCHANGED <<store, world, draft, mine, voided, stored>>
      BY DEF Call, txn
    <2> QED  BY <1>2, <2>1, ZenonT(60) DEF Moves, JudgeInv, Domains
  <1> QED  BY <1>1, <1>4, <1>5, MoveSpend

LEMMA ReleaseSpend ==
  ASSUME JudgeInv, SpendInv, NEW r \in Runs, Release(r)
  PROVE  SpendInv'
  <1> DEFINE q == run[r]
  <1>1. /\ Whole(r, q, draft[r], mine[r], voided[r], stored[r]) /\ q.pc = "release" /\ U(r) \in Units
        /\ Spending(r, q, labels, mine[r]) /\ IsFiniteSet(Ids(mine[r])) /\ DOMAIN q = Fields
    BY IsWhole, HandFacts DEF Release, Handling, SpendInv, Finite, Whole, Formed
  <1>2. PICK after : after = Freed(q, U(r))
    OBVIOUS
  <1>3. PICK n : n = IF q.fatal THEN Ended(after, "provider_error", TRUE) ELSE after
    OBVIOUS
  <1>4. PICK g : g = Opened(draft[r], q.slot)
    OBVIOUS
  <1>5. Moves(r, n, g, mine[r], voided[r], stored[r])
    <2>1. /\ run' = [run EXCEPT ![r] = n] /\ draft' = [draft EXCEPT ![r] = g]
          /\ UNCHANGED <<store, world, mine, voided, stored>>
      BY <1>2, <1>3, <1>4 DEF Release, Step, Reopened, Freed, Opened
    <2> QED  BY <2>1 DEF Moves, JudgeInv, Domains
  <1> HIDE DEF q
  <1>6. /\ after.pc = "pull" /\ after.targets = q.targets /\ after.seen = q.seen /\ after.day = q.day
        /\ after.spend = q.spend
    BY <1>1, <1>2 DEF Freed, Settled, Fields
  <1>7. Spending(r, after, labels, mine[r])
    BY <1>1, <1>6, QuietSpend DEF Handling
  <1>8. Whole(r, after, g, mine[r], voided[r], stored[r])
    BY <1>1, <1>2, <1>4, ReleasedWhole
  <1>9. Spending(r, Ended(after, "provider_error", TRUE), labels, mine[r])
    BY <1>6, <1>7, <1>8, EndedSpend DEF Whole, Spending
  <1>10. Spending(r, n, labels, mine[r])
    BY <1>3, <1>7, <1>9
  <1> QED  BY <1>1, <1>5, <1>10, MoveSpend

LEMMA PullSpend ==
  ASSUME JudgeInv, SpendInv, NEW r \in Runs, Pull(r)
  PROVE  SpendInv'
  <1>1. /\ run[r].pc = "pull" /\ UNCHANGED <<store, world, mine, voided, stored>> /\ DOMAIN run[r] = Fields
        /\ Spending(r, run[r], labels, mine[r]) /\ IsFiniteSet(Ids(mine[r]))
    BY ZenonT(60) DEF Pull, SpendInv, Finite, JudgeInv, Sound, Formed
  <1>2. \/ \E reason, stopped : run' = [run EXCEPT ![r] = Ended(run[r], reason, stopped)] /\ draft' = draft
        \/ \E s \in Takable(r) :
             /\ draft' = [draft EXCEPT ![r] = With(@, s, "leased")]
             /\ run' = [run EXCEPT ![r] =
                   Took(run[r], s, Hit(r, s), IF Hit(r, s) THEN Entry(r, Key(r, s)) ELSE None,
                        IF run[r].dry THEN "release" ELSE IF Hit(r, s) THEN "submit" ELSE "call")]
    BY ZenonT(60) DEF Pull, Step, Took
  <1>3. ASSUME NEW reason, NEW stopped,
               run' = [run EXCEPT ![r] = Ended(run[r], reason, stopped)], draft' = draft
        PROVE  SpendInv'
    <2>1. PICK n : n = Ended(run[r], reason, stopped)
      OBVIOUS
    <2>2. Spending(r, n, labels, mine[r])
      BY <1>1, <2>1, EndedSpend DEF JudgeInv, Sound, Spending
    <2>3. Moves(r, n, draft[r], mine[r], voided[r], stored[r])
      BY <1>1, <1>3, <2>1 DEF Moves, JudgeInv, Domains
    <2> QED  BY <1>1, <2>2, <2>3, MoveSpend
  <1>4. ASSUME NEW s \in Takable(r),
               draft' = [draft EXCEPT ![r] = With(@, s, "leased")],
               run' = [run EXCEPT ![r] =
                   Took(run[r], s, Hit(r, s), IF Hit(r, s) THEN Entry(r, Key(r, s)) ELSE None,
                        IF run[r].dry THEN "release" ELSE IF Hit(r, s) THEN "submit" ELSE "call")]
        PROVE  SpendInv'
    <2>1. PICK n : run' = [run EXCEPT ![r] = n] /\ n =
                   Took(run[r], s, Hit(r, s), IF Hit(r, s) THEN Entry(r, Key(r, s)) ELSE None,
                        IF run[r].dry THEN "release" ELSE IF Hit(r, s) THEN "submit" ELSE "call")
      BY <1>4
    <2>2. PICK g : g = With(draft[r], s, "leased")
      OBVIOUS
    <2>3. PICK pc : pc = IF run[r].dry THEN "release" ELSE IF Hit(r, s) THEN "submit" ELSE "call"
      OBVIOUS
    <2>4. /\ n.pc = pc /\ n.targets = run[r].targets /\ n.seen = run[r].seen /\ n.day = run[r].day
          /\ n.spend = run[r].spend /\ pc \in Handling
      BY <1>1, <2>1, <2>3 DEF Took, Taken, Fields, Handling
    <2>5. Spending(r, n, labels, mine[r])
      BY <1>1, <2>4, QuietSpend
    <2>6. Moves(r, n, g, mine[r], voided[r], stored[r])
      <3>1. run' = [run EXCEPT ![r] = n] /\ draft' = [draft EXCEPT ![r] = g]
        BY <1>4, <2>1, <2>2
      <3> QED  BY <1>1, <3>1 DEF Moves, JudgeInv, Domains
    <2> QED  BY <1>1, <2>5, <2>6, MoveSpend
  <1> QED  BY <1>2, <1>3, <1>4

LEMMA PostSpend ==
  ASSUME JudgeInv, SpendInv, NEW r \in Runs, Post(r)
  PROVE  SpendInv'
  <1>1. PICK targets \in {Enrolled} \cup {<<j>> : j \in Range(Enrolled)}, limit \in Limits, dry \in BOOLEAN :
          /\ targets # <<>>
          /\ run' = [run EXCEPT ![r] = Started(r, Posted(targets, limit, dry))]
    BY ZenonT(60) DEF Post, Step, Posted
  <1>2. PICK q : q = Posted(targets, limit, dry)
    OBVIOUS
  <1>3. q.pc = "begin" /\ q.seen = <<>> /\ DOMAIN <<>> = {}
    BY <1>2 DEF Posted, Blank
  <1>4. /\ draft[r] = <<>> /\ mine[r] = {} /\ voided[r] = {} /\ stored[r] = <<>> /\ run[r].pc # "done"
        /\ Domains /\ Finite
    BY DEF Post, JudgeInv, Sound, Idle, Live, SpendInv
  <1>5. Whole(r, q, draft[r], mine[r], voided[r], stored[r])
    BY <1>1, <1>2, PostedWhole DEF Post
  <1>6. Spending(r, q, labels, mine[r])
    BY <1>3, <1>4 DEF Spending, Capped, Live, Handling
  <1>7. Spending(r, Started(r, q), labels, mine[r])
    BY <1>3, <1>4, <1>5, <1>6, StartedSpend
  <1>8. Moves(r, Started(r, q), draft[r], mine[r], voided[r], stored[r])
    <2>1. run' = [run EXCEPT ![r] = Started(r, q)]
      BY <1>1, <1>2
    <2>2. UNCHANGED <<store, world, draft, mine, voided, stored>>
      BY DEF Post, txn
    <2> QED  BY <1>4, <2>1, <2>2 DEF Moves, Domains
  <1> QED  BY <1>4, <1>7, <1>8, MoveSpend DEF Finite

LEMMA SubmitSpend ==
  ASSUME JudgeInv, SpendInv, NEW r \in Runs, Submit(r)
  PROVE  SpendInv'
  <1> DEFINE j == J(r)
             l == NewLabel(r)
             A == Counted(r, run[r], j, labels, mine[r])
  <1>1. PICK q, n, gone, f, vs : Submits(r, q, n, gone, f, vs)
    BY Submission
  <1>2. PICK spend : spend = Plus(run[r].spend, l)
    OBVIOUS
  <1>3. PICK ms : ms = Voided(mine[r] \cup {l}, gone)
    OBVIOUS
  <1>4. /\ DOMAIN q = Fields /\ n = [Settled(q) EXCEPT !.spend = spend, !.pc = "pull"] /\ n.pc = "pull"
        /\ n.targets = run[r].targets /\ n.day = run[r].day /\ n.seen = run[r].seen
        /\ Whole(r, n, f, ms, vs, Cached(r)) /\ Moves(r, Checked(q, spend), f, ms, vs, Cached(r))
    BY <1>1, <1>2, <1>3 DEF Submits
  <1>5. /\ run[r].pc = "submit" /\ Spending(r, run[r], labels, mine[r]) /\ SeenDone(run[r])
        /\ Tally(run[r], mine[r]) /\ Votes(r, run[r], draft[r], mine[r]) /\ run[r].slot # None
        /\ Finite /\ Domains /\ Accounts
    BY HandFacts DEF Submit, SpendInv, JudgeInv, Sound, Apart, Formed, Handling
  <1>6. /\ j = run[r].targets[1] /\ j = Head(run[r].targets) /\ j \in Judges /\ 1 \in 1..Len(run[r].targets)
        /\ j \in DOMAIN run[r].seen
    BY <1>5, HandFacts DEF Handling, SeenDone, J
  <1>7. /\ l \in LabelRow /\ l.judge = j /\ l.slot = run[r].slot /\ l.run = r /\ l.day = run[r].day
    BY <1>5, NewLabelFacts DEF NewLabel
  <1>8. run[r].spend = Total(A, run[r].day) /\ Below(j, run[r].spend)
    BY <1>5, <1>6 DEF Spending, Handling
  <1> HIDE DEF j, l
  <1>9. mine[r] \subseteq LabelRow /\ mine[r] \cup {l} \subseteq LabelRow
    BY <1>5, <1>7 DEF Votes
  <1>10. IsFiniteSet(Ids(labels)) /\ IsFiniteSet(Ids(mine[r]))
    BY <1>5 DEF Finite
  <1>11. /\ Mirrors(mine[r] \cup {l}, ms) /\ Mirrors(labels \cup (mine[r] \cup {l}), labels \cup ms)
    <2>1. Mirrors(labels \cup (mine[r] \cup {l}), labels \cup ms)
      BY <1>3, <1>9, VoidedMirrors
    <2>2. Mirrors((mine[r] \cup {l}) \cup {}, ms \cup {})
      BY <1>3, <1>9, VoidedMirrors
    <2> QED  BY <2>1, <2>2
  <1>12. IsFiniteSet(Ids(ms))
    <2>1. Ids(ms) = Ids(mine[r]) \cup {<<l.run, l.slot>>}
      <3>1. Ids(ms) = Ids(mine[r] \cup {l})
        BY <1>11, MirrorTotal
      <3> QED  BY <3>1 DEF Ids
    <2> QED  BY <1>10, <2>1, FS_AddElement
  <1>13. IsFiniteSet(Ids(A))
    BY <1>10, CountedFinite DEF Counted
  <1>14. <<l.run, l.slot>> \notin Ids(A)
    <2>1. ASSUME NEW m \in A PROVE m.run # l.run \/ m.slot # l.slot
      <3>1. CASE m \in labels
        BY <1>5, <1>7, <3>1 DEF Accounts
      <3>2. CASE m \in mine[r]
        BY <1>5, <1>6, <1>7, <2>1, <3>2 DEF Tally, Counted, Of
      <3> QED  BY <2>1, <3>1, <3>2 DEF Counted, Of
    <2> HIDE DEF A
    <2> QED  BY <2>1 DEF Ids
  <1>15. Total(A \cup {l}, run[r].day) = spend
    BY <1>2, <1>7, <1>8, <1>13, <1>14, TotalPlus
  <1>16. \A i : Total(Counted(r, n, i, labels, ms), n.day) =
                  Total(Of(labels \cup (mine[r] \cup {l}), i, {r} \cup run[r].seen[i]), n.day)
    BY <1>4, <1>11, MirrorTotal DEF Counted
  <1>17. Total(Counted(r, n, j, labels, ms), n.day) = spend
    <2>1. Of(labels \cup (mine[r] \cup {l}), j, {r} \cup run[r].seen[j]) = A \cup {l}
      BY <1>7 DEF Of, Counted
    <2> QED  BY <1>4, <1>15, <1>16, <2>1
  <1>18. Capped(r, n, labels, ms)
    <2> SUFFICES ASSUME NEW i \in DOMAIN n.seen
                 PROVE  i \in Judges /\ ((\E m \in ms : m.judge = i) => Within(i, Total(Counted(r, n, i, labels, ms), n.day)))
      BY DEF Capped
    <2>1. CASE i = j
      <3>1. run[r].spend \in [cost : Nat, daily : Nat, tokens : Nat, labels : Nat]
        BY <1>8, <1>13, TotalType
      <3>2. Within(j, spend)
        BY <1>2, <1>6, <1>7, <1>8, <3>1, PlusWithin
      <3> QED  BY <1>6, <1>17, <2>1, <3>2
    <2>2. CASE i # j
      <3>1. /\ i \in Judges
            /\ (\E m \in mine[r] : m.judge = i) => Within(i, Total(Counted(r, run[r], i, labels, mine[r]), run[r].day))
        BY <1>4, <1>5 DEF Spending, Capped
      <3>2. (\E m \in ms : m.judge = i) => \E m \in mine[r] : m.judge = i
        BY <1>7, <1>11, <2>2 DEF Mirrors, SameRow
      <3>3. Of(labels \cup (mine[r] \cup {l}), i, {r} \cup run[r].seen[i]) = Counted(r, run[r], i, labels, mine[r])
        BY <1>7, <2>2 DEF Of, Counted
      <3> QED  BY <1>4, <1>16, <3>1, <3>2, <3>3
    <2> QED  BY <2>1, <2>2
  <1>19. Spending(r, Checked(q, spend), labels, ms)
    <2>1. Formed(n) /\ Tally(n, ms) /\ Head(n.targets) = j
      BY <1>4, <1>6 DEF Whole
    <2>2. spend = Total(Counted(r, n, Head(n.targets), labels, ms), n.day)
      BY <1>17, <2>1
    <2> QED  BY <1>4, <1>10, <1>12, <1>18, <2>1, <2>2, CheckedSpend, ZenonT(60)
  <1> QED  BY <1>4, <1>12, <1>19, MoveSpend

-----------------------------------------------------------------------------
(* What others commit does not change what a run counts.                   *)

LEMMA OthersSpend ==
  ASSUME JudgeInv, SpendInv, NEW p \in Runs, NEW ns, NEW ms, Mirrors(labels \cup ms, ns),
         \A m \in ms : m.run \in Runs /\ m.run # p /\ run[m.run].pc # "done"
  PROVE  Spending(p, run[p], ns, mine[p])
  <1> DEFINE q == run[p]
  <1>1. Spending(p, q, labels, mine[p]) /\ SeenDone(q) /\ Formed(q)
    BY DEF SpendInv, JudgeInv, Sound, Apart
  <1>2. Mirrors((labels \cup ms) \cup mine[p], ns \cup mine[p])
    BY DEF Mirrors, SameRow
  <1>3. ASSUME NEW j \in DOMAIN q.seen
        PROVE  Total(Counted(p, q, j, ns, mine[p]), q.day) = Total(Counted(p, q, j, labels, mine[p]), q.day)
    <2>1. \A m \in ms : m.run \notin {p} \cup q.seen[j]
      BY <1>1, <1>3 DEF SeenDone
    <2>2. Of((labels \cup ms) \cup mine[p], j, {p} \cup q.seen[j]) = Of(labels \cup mine[p], j, {p} \cup q.seen[j])
      BY <2>1 DEF Of
    <2>3. Total(Of(ns \cup mine[p], j, {p} \cup q.seen[j]), q.day)
            = Total(Of((labels \cup ms) \cup mine[p], j, {p} \cup q.seen[j]), q.day)
      BY <1>2, MirrorTotal
    <2> QED  BY <2>2, <2>3 DEF Counted
  <1>4. q.pc = "pull" \/ q.pc \in Handling => Head(q.targets) \in DOMAIN q.seen
    BY <1>1 DEF SeenDone, Formed
  <1> HIDE DEF q
  <1>5. Capped(p, q, ns, mine[p])
    BY <1>1, <1>3 DEF Spending, Capped
  <1> QED  BY <1>1, <1>3, <1>4, <1>5 DEF Spending, q

LEMMA CommitSpend ==
  ASSUME JudgeInv, SpendInv, NEW r \in Runs, Commit(r)
  PROVE  SpendInv'
  <1>1. /\ run[r].pc = "commit" /\ labels' = Rows(r) /\ run' = [run EXCEPT ![r] = Blank("done")]
        /\ mine' = [mine EXCEPT ![r] = {}]
    BY DEF Commit, Closed, Step
  <1>2. /\ run'[r] = Blank("done") /\ mine'[r] = {}
        /\ \A p \in Runs \ {r} : run'[p] = run[p] /\ mine'[p] = mine[p]
    BY <1>1 DEF JudgeInv, Domains
  <1>3. labels \subseteq LabelRow /\ (\A m \in mine[r] : m.run = r) /\ Finite
    BY DEF JudgeInv, Domains, Sound, Votes, SpendInv
  <1>4. Mirrors(labels \cup mine[r], labels')
    BY <1>1, <1>3, VoidedMirrors DEF Rows
  <1>5. Finite'
    <2>1. Ids(labels') = Ids(labels) \cup Ids(mine[r])
      <3>1. Ids(labels') = Ids(labels \cup mine[r])
        BY <1>4, MirrorTotal
      <3> QED  BY <3>1 DEF Ids
    <2>2. Ids({}) = {}
      BY DEF Ids
    <2>3. IsFiniteSet(Ids(labels'))
      BY <1>3, <2>1, FS_Union DEF Finite
    <2>4. \A p \in Runs : IsFiniteSet(Ids(mine'[p]))
      BY <1>2, <1>3, <2>2, FS_EmptySet DEF Finite
    <2> QED  BY <2>3, <2>4 DEF Finite
  <1>6. ASSUME NEW p \in Runs PROVE Spending(p, run'[p], labels', mine'[p])
    <2>1. CASE p = r
      BY <1>2, <2>1, BlankSpend
    <2>2. CASE p # r
      <3>1. \A m \in mine[r] : m.run \in Runs /\ m.run # p /\ run[m.run].pc # "done"
        BY <1>1, <1>3, <2>2
      <3>2. Spending(p, run[p], labels', mine[p])
        BY <1>4, <3>1, OthersSpend
      <3> QED  BY <1>2, <2>2, <3>2
    <2> QED  BY <2>1, <2>2
  <1> QED  BY <1>5, <1>6 DEF SpendInv

LEMMA EventSpend ==
  ASSUME JudgeInv, SpendInv, UNCHANGED <<run, mine>>, NEW gone, labels' = Voided(labels, gone) \/ labels' = labels
  PROVE  SpendInv'
  <1>1. labels \subseteq LabelRow /\ \A l : SameRow(l, l)
    BY DEF JudgeInv, Domains, SameRow
  <1>2. Mirrors(labels \cup {}, labels' \cup {})
    <2>1. CASE labels' = labels
      BY <1>1, <2>1 DEF Mirrors
    <2>2. CASE labels' = Voided(labels, gone)
      BY <1>1, <2>2, VoidedMirrors
    <2> QED  BY <2>1, <2>2
  <1>3. Ids(labels') = Ids(labels)
    <2>1. labels \cup {} = labels /\ labels' \cup {} = labels'
      OBVIOUS
    <2> QED  BY <1>2, <2>1, MirrorTotal
  <1>4. Finite'
    BY <1>3 DEF SpendInv, Finite
  <1>5. Mirrors(labels \cup {}, labels')
    BY <1>2
  <1>6. \A p \in Runs : Spending(p, run[p], labels', mine[p])
    <2>1. PICK none : none = {}
      OBVIOUS
    <2>2. Mirrors(labels \cup none, labels') /\ \A m \in none : FALSE
      BY <1>5, <2>1
    <2> QED  BY <2>2, OthersSpend
  <1> QED  BY <1>4, <1>6 DEF SpendInv

LEMMA InitSpend ==
  ASSUME Init
  PROVE  SpendInv
  <1>1. labels = {} /\ run = [r \in Runs |-> Blank("idle")] /\ mine = [r \in Runs |-> {}]
    BY DEF Init
  <1>2. Ids({}) = {} /\ IsFiniteSet({})
    BY FS_EmptySet DEF Ids
  <1>3. \A r \in Runs : Spending(r, Blank("idle"), labels, {})
    BY BlankSpend
  <1> QED  BY <1>1, <1>2, <1>3 DEF SpendInv, Finite

LEMMA NextSpend ==
  ASSUME JudgeInv, SpendInv, [Next]_vars
  PROVE  SpendInv'
  <1>1. CASE UNCHANGED vars
    <2>1. UNCHANGED <<run, mine>> /\ labels' = labels
      BY <1>1 DEF vars
    <2> QED  BY <2>1, EventSpend
  <1>2. ASSUME Environment PROVE SpendInv'
    <2>1. UNCHANGED <<run, mine>>
      BY <1>2 DEF Environment, HumanLabels, ReviewerReads, ReviewerVoids, EditGuidelines, DayPasses, ResumeJudge, Event, txn
    <2>2. labels' = labels \/ \E gone : labels' = Voided(labels, gone)
      BY <1>2 DEF Environment, HumanLabels, ReviewerReads, ReviewerVoids, EditGuidelines, DayPasses, ResumeJudge
    <2> QED  BY <2>1, <2>2, EventSpend
  <1>3. ASSUME NEW r \in Runs, Post(r) \/ Crash(r) \/ Serve(r) PROVE SpendInv'
    <2>1. ASSUME Crash(r) \/ Unbuildable(r) \/ Refused(r) \/ Deadlocked(r) PROVE SpendInv'
      BY <2>1, DroppedSpend DEF Crash, Unbuildable, Refused, Deadlocked
    <2> QED  BY <1>3, <2>1, PostSpend, BeginSpend, PullSpend, CallSpend, ReleaseSpend, SubmitSpend, CommitSpend DEF Serve
  <1> QED  BY <1>1, <1>2, <1>3 DEF Next

-----------------------------------------------------------------------------
\* No lease of a judge outlives its request, committed, refused or dead at any point: the
\* committed slots are open or filled, a request has only the slot in hand leased, and a slot it
\* filled holds a valid label of its own (run_judge's release, engine.skip_task, void_labels).
THEOREM NoLeaseTheorem == Spec => []NoLeaseLeft
  <1>1. JudgeInv => NoLeaseLeft
    <2> SUFFICES ASSUME JudgeInv PROVE NoLeaseLeft
      OBVIOUS
    <2>1. TypeOK /\ Settings
      BY TypesTrue DEF JudgeInv
    <2>2. ASSUME NEW r \in Runs, NEW s \in DOMAIN draft[r]
          PROVE  /\ draft[r][s] = "leased" => s = run[r].slot
                 /\ draft[r][s] = "filled" => \E l \in mine[r] : l.slot = s /\ l.valid
      BY DEF JudgeInv, Sound, Hands, Votes
    <2> QED  BY <2>1, <2>2 DEF NoLeaseLeft, Settings
  <1> QED  BY <1>1, Invariance, PTL

\* Every label, committed or about to be, answers the prompt of its own unit, variant and
\* the run's guidelines, also when its reply comes from the cache (judges/cache.py).
THEOREM AnswersTheorem == Spec => []AnswersItsPrompt
  <1>1. JudgeInv => AnswersItsPrompt
    <2> SUFFICES ASSUME JudgeInv, NEW l \in labels \cup UNION {mine[r] : r \in Runs} PROVE Answers(l)
      BY DEF AnswersItsPrompt, Answers
    <2>1. CASE l \in labels
      BY <2>1 DEF JudgeInv, Standing
    <2>2. ASSUME NEW r \in Runs, l \in mine[r] PROVE Answers(l)
      <3>1. Votes(r, run[r], draft[r], mine[r])
        BY DEF JudgeInv, Sound
      <3> QED  BY <2>2, <3>1 DEF Votes
    <2> QED  BY <2>1, <2>2
  <1> QED  BY <1>1, Invariance, PTL

\* The rows of a committed request's report count its labels and what they cost, judge by
\* judge; no other request leaves a label (orchestrator._finish, the one commit in db.py).
THEOREM ReportsTheorem == Spec => []ReportsAddUp
  <1>1. JudgeInv => ReportsAddUp
    <2> SUFFICES ASSUME JudgeInv PROVE ReportsAddUp
      OBVIOUS
    <2>1. Accounts /\ labels \subseteq LabelRow
      BY DEF JudgeInv, Domains
    <2>2. ASSUME NEW r \in Runs, NEW row \in reports[r]
          PROVE  LET own == {l \in labels : l.run = r /\ l.judge = row.judge}
                 IN /\ row.labels = Cardinality(own) /\ row.cost = Price * Cardinality({l \in own : ~l.hit})
                    /\ row.dry => own = {}
                    /\ row.labels <= row.attempted /\ row.attempted <= Cardinality(Units)
      <3> DEFINE own == {l \in labels : l.run = r /\ l.judge = row.judge}
                 ws == Written(r)
      <3>1. Reported(row, ws)
        BY <2>1, <2>2 DEF Accounts
      <3>2. ws \subseteq LabelRow /\ Distinct(ws) /\ \A l \in ws : l.run = r
        BY <2>1 DEF Written, Accounts, Distinct
      <3>3. /\ own = {l \in ws : l.judge = row.judge}
            /\ {l \in own : ~l.hit} = {l \in ws : l.judge = row.judge /\ ~l.hit}
        BY DEF Written
      <3> HIDE DEF ws, own
      <3>4. /\ Cardinality(Labeled(ws, row.judge)) = Cardinality(own)
            /\ Cardinality(Charged(ws, row.judge)) = Cardinality({l \in own : ~l.hit})
        BY <3>2, <3>3, CountsRows
      <3>5. row.dry => own = {}
        BY <3>1, <3>3 DEF Reported, Labeled
      <3> QED  BY <3>1, <3>4, <3>5 DEF Reported, Adds, own
    <2>3. \A r \in Runs : \A l \in labels : l.run = r =>
            run[r].pc = "done" /\ \E row \in reports[r] : row.judge = l.judge
      BY <2>1 DEF Accounts
    <2> QED  BY <2>2, <2>3 DEF ReportsAddUp
  <1> QED  BY <1>1, Invariance, PTL

\* A reply that became a label of a finished request is not bought again while the cache still
\* holds it, and it does unless a request with other guidelines wrote the entry since: a label
\* then has that other reply (judges/cache.py).
THEOREM PaidTheorem == Spec => []PaidOnce
  <1>1. JudgeInv => PaidOnce
    <2> SUFFICES ASSUME JudgeInv, NEW r \in Runs, run[r].pc = "call" PROVE Unpaid(run[r], labels)
      BY DEF PaidOnce, Unpaid, Others, Prompt, PromptOf, J
    <2> QED  BY DEF JudgeInv, Apart, Replies
  <1> QED  BY <1>1, Invariance, PTL

\* However many runs overlap, and whatever is voided meanwhile, of the label rows a run read its
\* spend from and its own the last was written below every cap (budget.check_budget, before the
\* first call and after each): a judge goes over a cap by less than one completion.
THEOREM CapTheorem == Spec => []CapHeld
  <1>1. JudgeInv /\ SpendInv => CapHeld
    <2> SUFFICES ASSUME JudgeInv, SpendInv, NEW r \in Runs, NEW j \in DOMAIN run[r].seen
                 PROVE  LET rows == {l \in Rows(r) : l.judge = j /\ (l.run = r \/ l.run \in run[r].seen[j])}
                            spent == SpendOf(j, rows, run[r].day)
                        IN (\E l \in rows : l.run = r) =>
                             \A k \in DOMAIN spent : Budget[j][k] # None => spent[k] < Budget[j][k] + OneCall[k]
      BY DEF CapHeld, OneCall
    <2> DEFINE rs    == {r} \cup run[r].seen[j]
               rows  == {l \in Rows(r) : l.judge = j /\ (l.run = r \/ l.run \in run[r].seen[j])}
               spent == SpendOf(j, rows, run[r].day)
    <2>1. Finite /\ Spending(r, run[r], labels, mine[r]) /\ run[r].pc # "done"
      BY DEF SpendInv, Spending, Live
    <2>2. spent = Total(Counted(r, run[r], j, labels, mine[r]), run[r].day)
      <3>1. spent = SpendOf(j, {l \in Rows(r) : l.run \in rs}, run[r].day)
        <4>1. {l \in rows : l.judge = j} = {l \in {l \in Rows(r) : l.run \in rs} : l.judge = j}
          OBVIOUS
        <4> HIDE DEF rows, rs
        <4> QED  BY <4>1 DEF SpendOf
      <3>2. SpendOf(j, {l \in Rows(r) : l.run \in rs}, run[r].day) = Total(Of(labels \cup mine[r], j, rs), run[r].day)
        BY <2>1, SpendRead
      <3> QED  BY <3>1, <3>2 DEF Counted
    <2>3. ASSUME \E l \in rows : l.run = r PROVE \E l \in mine[r] : l.judge = j
      <3>1. PICK n \in Rows(r) : n.run = r /\ n.judge = j
        BY <2>3
      <3>2. Mirrors(labels \cup mine[r], Rows(r))
        BY VoidedMirrors DEF Rows, JudgeInv, Domains
      <3>3. PICK l \in labels \cup mine[r] : l.run = r /\ l.judge = j
        BY <3>1, <3>2 DEF Mirrors, SameRow
      <3> QED  BY <2>1, <3>3 DEF JudgeInv, Accounts
    <2>4. DOMAIN spent = CapKinds
      BY <2>2 DEF Total, CapKinds
    <2> HIDE DEF rows, spent
    <2>5. (\E l \in rows : l.run = r) => Within(j, spent)
      BY <2>1, <2>2, <2>3 DEF Spending, Capped
    <2> QED  BY <2>4, <2>5 DEF Within, rows, spent
  <1>2. Spec => []SpendInv
    <2>1. Init => SpendInv
      BY InitSpend
    <2>2. JudgeInv /\ SpendInv /\ [Next]_vars => SpendInv'
      BY NextSpend
    <2> QED  BY <2>1, <2>2, Invariance, PTL DEF Spec
  <1> QED  BY <1>1, <1>2, Invariance, PTL

=============================================================================
