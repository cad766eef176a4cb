------------------------------ MODULE Ballots ------------------------------
(***************************************************************************)
(* What a unit's votes say: consensus on each key (quality/consensus.py),  *)
(* the calibration-weighted merge and its confidence and entropy           *)
(* (merge/merge.py, merge/weights.py), and how far each rater agrees with  *)
(* the others (quality/reputation.py).                                     *)
(*                                                                         *)
(* A ballot is [fields, policy, votes]: the fields and declared match      *)
(* kinds by key, and a sequence of votes [by, value] in the order they     *)
(* were submitted, value mapping the keys answered to canonical values.    *)
(***************************************************************************)
EXTENDS Answers

CONSTANTS
  Reputation, \* [raters -> 0..100]: annotators.reputation_score, in percent
  Text        \* function from values to Nat: the text order of their repr

Rule(ballot, k) == RuleFor(ballot.policy[k], ballot.fields[k].type)
Cast(ballot, k) == SelectSeq(ballot.votes, LAMBDA v : k \in DOMAIN v.value)
On(ballot, k) == LET votes == Cast(ballot, k) IN [i \in DOMAIN votes |-> votes[i].value[k]]
Keys(ballot) == {k \in DOMAIN ballot.fields : Cast(ballot, k) # <<>>}
VoteOf(ballot, by) == CHOOSE v \in Range(ballot.votes) : v.by = by

-----------------------------------------------------------------------------
(* Consensus on one key: the answer most votes agree with.                 *)

Support(values, candidate, rule) ==
  IF rule.match = "exact" THEN Cardinality({i \in DOMAIN values : values[i] = candidate})
  ELSE Cardinality({i \in DOMAIN values : Matches(values[i], candidate, rule)})
\* Both branches of key_consensus take the first of the best supported.
Consensus(values, rule) ==
  LET support == [i \in DOMAIN values |-> Support(values, values[i], rule)]
      first == Min({i \in DOMAIN values : \A j \in DOMAIN values : support[j] <= support[i]})
  IN [winner |-> values[first], support |-> support[first],
      agreed |-> 1000 * support[first] + 5 * Len(values) >= 10 * rule.required * Len(values)]

\* The most common answer, as a set; empty when the top is tied.
Plurality(values) ==
  LET count(v) == Cardinality({i \in DOMAIN values : values[i] = v})
      top == {v \in Range(values) : \A w \in Range(values) : count(w) <= count(v)}
  IN IF Cardinality(top) = 1 THEN top ELSE {}

\* The answer an export ships: the decided one, else what consensus agrees on.
Exported(ballot, decided) ==
  LET consensus == [k \in Keys(ballot) |-> Consensus(On(ballot, k), Rule(ballot, k))]
  IN IF decided # <<>> THEN decided ELSE [k \in {l \in Keys(ballot) : consensus[l].agreed} |-> consensus[k].winner]
\* What a study counts for votes and the answer shipped: its being right, less the plurality's.
Lift(values, shipped, truth) ==
  LET right(answers) == IF truth \in answers THEN 1 ELSE 0
  IN right({shipped}) - right(Plurality(values))
\* Of a rater's answers to the keys decided, those that match the decision.
AgreesWithFinal(ballot, vote, decided) ==
  {k \in DOMAIN decided \cap DOMAIN vote.value : Matches(vote.value[k], decided[k], Rule(ballot, k))}

-----------------------------------------------------------------------------
(* The merge of one key: votes gathered in buckets, in order of arrival.   *)

MinWeight == 5
\* Mutant of Weight: the floor forgotten.
WeightUnfloored(by, method) == IF method = "majority" THEN 100 ELSE Reputation[by]
Weight(by, method) ==
  IF method = "majority" THEN 100 ELSE IF Reputation[by] < MinWeight THEN MinWeight ELSE Reputation[by]

\* A bucket is the set of its votes; the first of them represents it.
Buckets(values, rule) ==
  LET joined(buckets, i) == {b \in DOMAIN buckets : Matches(values[i], values[Min(buckets[b])], rule)}
      put(buckets, i) ==
        IF joined(buckets, i) = {} THEN Append(buckets, {i})
        ELSE [buckets EXCEPT ![Min(joined(buckets, i))] = @ \cup {i}]
  IN FoldLeft(put, <<>>, [i \in DOMAIN values |-> i])

\* 1000 * ln n, and vote_entropy over buckets of these sizes, in thousandths.
Log == <<0, 693, 1099, 1386, 1609>>
Entropy(buckets) ==
  LET total == FoldLeft(LAMBDA n, b : n + Cardinality(b), 0, buckets)
      loss == FoldLeft(LAMBDA n, b : n + Cardinality(b) * Log[Cardinality(b)], 0, buckets)
  IN IF Len(buckets) <= 1 THEN 0 ELSE (1000 * (total * Log[total] - loss)) \div (total * Log[Len(buckets)])

\* The candidate of greatest weight; ties by support, then by text.
MergeKey(ballot, k, method) ==
  LET values == On(ballot, k)
      votes == Cast(ballot, k)
      buckets == Buckets(values, Rule(ballot, k))
      weight(b) == MapThenSumSet(LAMBDA i : Weight(votes[i].by, method), b)
      beats(a, b) ==
        \/ weight(a) > weight(b)
        \/ weight(a) = weight(b) /\ Cardinality(a) > Cardinality(b)
        \/ /\ weight(a) = weight(b) /\ Cardinality(a) = Cardinality(b)
           /\ Text[values[Min(a)]] < Text[values[Min(b)]]
      top == CHOOSE a \in Range(buckets) : \A b \in Range(buckets) \ {a} : beats(a, b)
      total == MapThenSumSet(LAMBDA i : Weight(votes[i].by, method), DOMAIN votes)
  IN [winner |-> values[Min(top)], support |-> Cardinality(top), buckets |-> Len(buckets),
      share |-> IF total = 0 THEN 0 ELSE (1000 * weight(top)) \div total, entropy |-> Entropy(buckets)]
\* A unit is only as decided as its least decided key.
MergeUnit(ballot, method) ==
  LET key == [k \in Keys(ballot) |-> MergeKey(ballot, k, method)]
  IN [keys |-> key, confidence |-> Min({key[k].share : k \in DOMAIN key}),
      entropy |-> Max({key[k].entropy : k \in DOMAIN key})]

-----------------------------------------------------------------------------
(* Peer agreement: a rater's answers against the most common other answer. *)

Compared(ballot, by) ==
  LET others(k) == SelectSeq(Cast(ballot, k), LAMBDA v : v.by # by)
  IN {k \in DOMAIN VoteOf(ballot, by).value : others(k) # <<>>}
\* The common answer is a hashable tuple, so "exact" compares lists by order here.
PeerRule(rule) == IF rule.match = "exact" THEN [rule EXCEPT !.match = "ordered"] ELSE rule
PeerAgreement(ballot, by) ==
  LET others(k) == SelectSeq(Cast(ballot, k), LAMBDA v : v.by # by)
      values(k) == [i \in DOMAIN others(k) |-> others(k)[i].value[k]]
      common(k) == Consensus(values(k), DefaultRule("")).winner
  IN {k \in Compared(ballot, by) : Matches(VoteOf(ballot, by).value[k], common(k), PeerRule(Rule(ballot, k)))}

-----------------------------------------------------------------------------

\* Rules under which matching is being equal, on these votes.
Plain(ballot, k) ==
  /\ Rule(ballot, k).match \in {"exact", "ordered"}
  /\ \A v, w \in Range(On(ballot, k)) : Matches(v, w, Rule(ballot, k)) => v = w
\* Two votes arrive the other way round; between them such swaps make every order.
Swapped(ballot, i) == [ballot EXCEPT !.votes[i] = ballot.votes[i + 1], !.votes[i + 1] = ballot.votes[i]]

\* One key: its values, what consensus and the merge make of them, and what ships.
KeySound(ballot, k, method, values, consensus, merged, shipped) ==
  LET voters == {v.by : v \in Range(Cast(ballot, k))}
  IN  /\ (merged.buckets = 1) <=> (merged.share = 1000)
      /\ (merged.buckets = 1) <=> (merged.entropy = 0)
      /\ Rule(ballot, k).match # "exact" \/ Plain(ballot, k) =>
           /\ merged.support <= consensus.support
           /\ merged.buckets = 1 => consensus.agreed /\ consensus.support = Len(values)
      /\ consensus.support <=
           Cardinality({r \in voters : k \in AgreesWithFinal(ballot, VoteOf(ballot, r), [l \in {k} |-> consensus.winner])})
      /\ Plain(ballot, k) =>
           /\ method = "majority" => merged.support = consensus.support
           /\ \A truth \in Range(values) :
                /\ k \in DOMAIN shipped => Lift(values, shipped[k], truth) = 0
                /\ method = "majority" => Lift(values, merged.winner, truth) >= 0
           /\ Len(values) > 1 =>
                ((merged.buckets = 1) <=> \A r \in voters : k \in PeerAgreement(ballot, r))
           /\ \A i \in 1..(Len(ballot.votes) - 1) : MergeKey(Swapped(ballot, i), k, method) = merged
UnitSound(ballot, method, unit, shipped) ==
  /\ (unit.confidence = 1000) <=> (unit.entropy = 0)
  /\ \A k \in Keys(ballot) :
       KeySound(ballot, k, method, On(ballot, k), Consensus(On(ballot, k), Rule(ballot, k)), unit.keys[k], shipped)

\* On every key, the vote the merge counts is never more than consensus counts, and
\* the same where matching is equality; there, what ships on consensus alone is the
\* plurality, and what a plain vote decides is never worse than it; one answer, full
\* share, no entropy and peers who all agree are one and the same; the order of the
\* votes decides nothing; and a unit is as decided as its least decided key
\* (merge.py:11-28).
MergeSoundFor(ballot) ==
  \A method \in {"calibration_weighted", "majority"} :
    UnitSound(ballot, method, MergeUnit(ballot, method), Exported(ballot, <<>>))
=============================================================================
