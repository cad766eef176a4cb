------------------------------ MODULE Batches ------------------------------
(***************************************************************************)
(* The next batch of an active-learning loop                               *)
(* (services/active_learning/selection.py): units scored by what is        *)
(* unsettled about them, ranked, thinned of near duplicates and cut off.   *)
(*                                                                         *)
(* A unit is [keys, student, priority, cluster, finalized]: <<rate,        *)
(* entropy>> of each key of its consensus and <<the student's confidence>> *)
(* if it has one, in percent, and the cluster its embedding falls in.      *)
(* Unit ids are positions in the pool.  A score is out of 1200, which the  *)
(* numbers of signals and of keys in the runs divide (beyond them it is    *)
(* rounded down).                                                          *)
(***************************************************************************)
EXTENDS Integers, Sequences, FiniteSets, FiniteSetsExt, SequencesExt

CONSTANTS
  Alike, \* the pairs of clusters whose cosine reaches dedupe_threshold
  Limit

ASSUME BatchesAssumption == Limit \in Nat

ScoreRow ==
  [keys : Seq((0..100) \X Nat), student : Seq(Nat), priority : Int, cluster : STRING, finalized : BOOLEAN]

Summed(s) ==
  LET sum[n \in 0..Len(s)] == IF n = 0 THEN 0 ELSE sum[n - 1] + s[n]
  IN sum[Len(s)]
\* 1 - the worst key's rate, and the mean entropy of the keys.
Disagreement(u) == 100 - Min({k[1] : k \in Range(u.keys)})
MeanEntropy(u) == Summed([k \in DOMAIN u.keys |-> 12 * u.keys[k][2]]) \div Len(u.keys)
\* The mean of the signals a unit has; the middle if it has none.
Signals(u) ==
  (IF u.keys = <<>> THEN <<>> ELSE <<12 * Disagreement(u), MeanEntropy(u)>>)
    \o (IF u.student = <<>> THEN <<>> ELSE <<12 * (100 - u.student[1])>>)
Neutral == 600
Informativeness(u) ==
  IF Signals(u) = <<>> THEN Neutral ELSE Summed(Signals(u)) \div Len(Signals(u))

Pool(units) == {i \in DOMAIN units : ~units[i].finalized}
Before(units, i, j) ==
  LET si == Informativeness(units[i])
      sj == Informativeness(units[j])
  IN  \/ si > sj
      \/ si = sj /\ units[i].priority > units[j].priority
      \/ si = sj /\ units[i].priority = units[j].priority /\ i < j
\* How many of these units stand before i in the ranking.
Place(units, some, i) == Cardinality({j \in some : Before(units, j, i)})

\* _cosine >= dedupe_threshold: a unit without an embedding is like none.
Similar(u, w) == u.cluster # "none" /\ w.cluster # "none" /\ {u.cluster, w.cluster} \in Alike
\* _dedupe: down the ranking, drop what is too similar to one already kept.
\* Mutant of Kept: every unit higher up counts, kept or not.
KeptOfAll(units) ==
  {i \in Pool(units) : ~\E j \in Pool(units) : Before(units, j, i) /\ Similar(units[i], units[j])}
Kept(units) ==
  LET pool == Pool(units)
      kept[n \in 0..Cardinality(pool)] ==
        IF n = 0 THEN {}
        ELSE kept[n - 1] \cup {i \in pool : Place(units, pool, i) = n - 1
                                            /\ ~\E j \in kept[n - 1] : Similar(units[i], units[j])}
  IN kept[Cardinality(pool)]
\* The units handed out; in the response they stand as they are ranked.
Batch(units) == {i \in Kept(units) : Place(units, Kept(units), i) < Limit}

-----------------------------------------------------------------------------

\* A unit is left out of a batch for one of three reasons only: it is decided, a
\* unit of the batch that ranks before it is like it, or the batch is full of
\* units that rank before it; no two units of a batch are alike, and a unit
\* without an embedding is never dropped (selection.py:162-167, 26-27).
BatchRightOf(units) ==
  LET batch == Batch(units)
      ahead(i) == {j \in batch : Before(units, j, i)}
  IN  /\ \A i, j \in batch : i # j => ~Similar(units[i], units[j])
      /\ \A i \in DOMAIN units \ batch :
           \/ units[i].finalized
           \/ \E j \in ahead(i) : Similar(units[i], units[j])
           \/ Cardinality(ahead(i)) = Limit
      /\ \A i \in batch : ~units[i].finalized
=============================================================================
