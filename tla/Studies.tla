------------------------------ MODULE Studies ------------------------------
(***************************************************************************)
(* What is computed of a project's rows after the fact: chance-corrected   *)
(* agreement (services/quality/agreement.py) and the lease episodes of the *)
(* task event log (measure/metrics.py).                                    *)
(*                                                                         *)
(* A rating is [unit, by, value], of one input key; the rows of a query    *)
(* without an order come in any.  A kappa is a fraction <<n, d>>, d = 0    *)
(* when it is None.  An event is [slot, by, kind].                         *)
(***************************************************************************)
EXTENDS Ballots, Comparisons

CONSTANT KindOf \* [raters -> {"human", "model"}]

-----------------------------------------------------------------------------
(* Kappa.                                                                  *)

Count(s, x) == Cardinality({i \in DOMAIN s : s[i] = x})
\* The values of each unit, units in the order of their first rows.
Ratings(rows) ==
  LET seen == FoldLeft(LAMBDA us, r : IF Contains(us, r.unit) THEN us ELSE Append(us, r.unit), <<>>, rows)
      of(u) == SelectSeq(rows, LAMBDA r : r.unit = u)
  IN [i \in DOMAIN seen |-> [j \in DOMAIN of(seen[i]) |-> of(seen[i])[j].value]]

Cohen(pairs) ==
  LET n == Len(pairs)
      first == [i \in DOMAIN pairs |-> pairs[i][1]]
      second == [i \in DOMAIN pairs |-> pairs[i][2]]
      agree == Cardinality({i \in DOMAIN pairs : first[i] = second[i]})
      chance == MapThenSumSet(LAMBDA c : Count(first, c) * Count(second, c), Range(first))
  IN <<n * agree - chance, n * n - chance>>

\* Fleiss wants one number of ratings: the most common one is kept.
\* Mutant of Constant: items of any length are mixed.
Mixed(items) == items
Constant(items) ==
  LET modal == MostCommon([i \in DOMAIN items |-> Len(items[i])])
  IN SelectSeq(items, LAMBDA item : Len(item) = modal)
Fleiss(items) ==
  LET kept == Constant(items)
      n == Len(kept)
      m == Len(kept[1])
      all == FoldLeft(LAMBDA s, item : s \o item, <<>>, kept)
      squares(s) == MapThenSumSet(LAMBDA c : Count(s, c) * Count(s, c), Range(s))
      within == FoldLeft(LAMBDA sum, item : sum + squares(item) - m, 0, kept)
  IN <<within * n * m - (m - 1) * squares(all), (m - 1) * (n * n * m * m - squares(all))>>

Usable(items) == SelectSeq(items, LAMBDA item : Len(item) >= 2)
Kappa(items) ==
  CASE items = <<>> -> <<0, 0>>
    [] items # <<>> /\ (\A i \in DOMAIN items : Len(items[i]) = 2) -> Cohen(items)
    [] OTHER -> Fleiss(items)

\* "cross": the human plurality of each unit against its judges', ties left out.
CrossPairs(rows) ==
  LET side(kind, u) ==
        LET of == SelectSeq(rows, LAMBDA r : r.unit = u /\ KindOf[r.by] = kind)
        IN Plurality([i \in DOMAIN of |-> of[i].value])
      units == {u \in {r.unit : r \in Range(rows)} : side("human", u) # {} /\ side("model", u) # {}}
  IN [i \in 1..Cardinality(units) |->
        LET u == SetToSeq(units)[i] IN <<side("human", u), side("model", u)>>]
ItemsOf(rows, group) ==
  Usable(Ratings(IF group = "all" THEN rows ELSE SelectSeq(rows, LAMBDA r : KindOf[r.by] = group)))
ProjectKappa(rows, group) ==
  IF group = "cross" THEN Cohen(CrossPairs(rows)) ELSE Kappa(ItemsOf(rows, group))

-----------------------------------------------------------------------------
(* Episodes.                                                               *)

Terminal == {"submitted", "skipped", "exited", "expired", "released"}
\* Mutant of Opened: a skip is still the last one after the next lease.
OpenedUnpopped(flow, e) ==
  [flow EXCEPT !.open = @ \cup {<<e.slot, e.by>>}, !.reserved = IF flow.skipped[e.by] = e.slot THEN @ + 1 ELSE @]
Opened(flow, e) ==
  [flow EXCEPT !.open = @ \cup {<<e.slot, e.by>>}, !.reserved = IF flow.skipped[e.by] = e.slot THEN @ + 1 ELSE @,
               !.skipped[e.by] = "none"]
Closed(flow, e) ==
  [flow EXCEPT !.open = @ \ {<<e.slot, e.by>>}, !.timed = IF <<e.slot, e.by>> \in flow.open THEN @ + 1 ELSE @,
               !.closed[e.kind] = @ + 1, !.skipped[e.by] = IF e.kind = "skipped" THEN e.slot ELSE @]
\* One event of the loop of task_flow.
Followed(flow, e) ==
  CASE e.kind = "leased" -> Opened(flow, e)
    [] e.kind = "resumed" -> [flow EXCEPT !.open = @ \cup {<<e.slot, e.by>>}]
    [] e.kind \in Terminal -> Closed(flow, e)
NoFlow ==
  [open |-> {}, skipped |-> [r \in DOMAIN KindOf |-> "none"], closed |-> [t \in Terminal |-> 0], timed |-> 0, reserved |-> 0]
TaskFlow(log, kind) ==
  LET flow[n \in 0..Len(log)] ==
        IF n = 0 THEN NoFlow
        ELSE IF KindOf[log[n].by] = kind THEN Followed(flow[n - 1], log[n]) ELSE flow[n - 1]
  IN flow[Len(log)]

-----------------------------------------------------------------------------

Rearranged(rows) == SetToSeq(Range(rows))
AtLeast(k, l) == k[1] * l[2] >= l[1] * k[2]

\* A kappa lies in [-1, 1]; it is None exactly when no two ratings compare or only
\* one answer was given, and 1 exactly when every unit counted is unanimous and so
\* without entropy.  The order in which rows arrive never changes the cross figure
\* nor Fleiss', and of two raters' Cohen never makes less than Fleiss would
\* (agreement.py:59-65, 84-91).
KappaTrueFor(rows) ==
  /\ \A group \in {"all", "human", "model", "cross"} :
       LET k == ProjectKappa(rows, group)
           items == IF group = "cross" THEN CrossPairs(rows) ELSE ItemsOf(rows, group)
           pairs == \A i \in DOMAIN items : Len(items[i]) = 2
           used == IF pairs THEN items ELSE Constant(items)
           sizes(item) == LET values == SetToSeq(Range(item))
                          IN [j \in DOMAIN values |-> {i \in DOMAIN item : item[i] = values[j]}]
           even == \A i, j \in DOMAIN items : Len(items[i]) = Len(items[j])
       IN  /\ k[2] >= 0 /\ k[1] <= k[2] /\ k[1] >= -k[2]
           /\ (k[2] = 0) <=> (Cardinality(UNION {Range(used[i]) : i \in DOMAIN used}) <= 1)
           /\ k[2] # 0 => ((k[1] = k[2]) <=> \A i \in DOMAIN used : Entropy(sizes(used[i])) = 0)
           /\ group = "cross" \/ (even /\ ~pairs) => k = ProjectKappa(Rearranged(rows), group)
           /\ group # "cross" /\ items # <<>> /\ pairs => AtLeast(k, Fleiss(items))

\* What the log says by itself: the events of a kind of rater, the leases a rater
\* was given after an event, the skips that were served again.
Logged(log, kind, kinds) == {i \in DOMAIN log : log[i].kind \in kinds /\ KindOf[log[i].by] = kind}
NextLeases(log, i) == {j \in DOMAIN log : j > i /\ log[j].kind = "leased" /\ log[j].by = log[i].by}
ServedAgain(log, kind) ==
  {i \in Logged(log, kind, {"skipped"}) :
     NextLeases(log, i) # {} /\ log[Min(NextLeases(log, i))].slot = log[i].slot}
Holding(held, kind) ==
  {<<s, held[s]>> : s \in {t \in DOMAIN held : held[t] \in {r \in DOMAIN KindOf : KindOf[r] = kind}}}

\* The episodes reconstructed from the log are the leases given: every one a rater
\* holds is open, every one that ended is counted and timed from its lease, and a
\* skip is served again when the rater's next lease is the slot just skipped; a
\* lease that a void took away, which logs nothing, is all that may be open too
\* (metrics.py:355-358).
EpisodesTrueFor(log, held, voided) ==
  \A kind \in {"human", "model"} :
    LET flow == TaskFlow(log, kind)
    IN  /\ \A t \in Terminal : flow.closed[t] = Cardinality(Logged(log, kind, {t}))
        /\ flow.timed = Cardinality(Logged(log, kind, Terminal))
        /\ Holding(held, kind) \subseteq flow.open /\ flow.open \subseteq Holding(held, kind) \cup voided
        /\ flow.reserved = Cardinality(ServedAgain(log, kind))
=============================================================================
