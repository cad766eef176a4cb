----------------------------- MODULE Workbench -----------------------------
(***************************************************************************)
(* The pure algorithms of the services, each fed inputs that grow one step *)
(* at a time as the program feeds them: a label submitted, a gold graded,  *)
(* a token or an input added by an author, a unit scored.  A bench is one  *)
(* algorithm's input so far; every input up to the bounds is reached, and  *)
(* what each algorithm promises is checked of every one.                   *)
(***************************************************************************)
EXTENDS Studies, Standing, Conditions, Hotkeys, Batches

CONSTANTS
  Clickable,  \* what arrives for a comparison
  Forms,      \* the [fields, policy] of the units voted on
  Answerable, \* [keys -> sets of raw answers]
  Tokens,     \* what a condition is written with
  Inputs,     \* what a template is made of
  Scorable,   \* the units of a pool
  Rated,      \* the units of a study
  Rating,     \* the answers given there
  Leasable,   \* the slots of the event log
  Ends,       \* how leases end there, of Terminal
  MaxLabels, MaxVotes, MaxGolds, MaxCompared, MaxClicks, MaxFlags, MaxTokens, MaxInputs, MaxUnits, MaxEvents

ASSUME WorkbenchAssumption ==
  Inputs \subseteq InputRow /\ Scorable \subseteq ScoreRow /\ Tokens \subseteq STRING
ASSUME LogAssumption ==
  Ends \subseteq Terminal /\ "none" \notin Leasable /\ {"open", "filled"} \cap DOMAIN KindOf = {}

VARIABLE bench

Init ==
  \/ bench = [case |-> "comparison", labels |-> <<>>]
  \/ \E form \in Forms : bench = [case |-> "ballot", fields |-> form.fields, policy |-> form.policy, votes |-> <<>>]
  \/ \E kind \in {"human", "model"} : bench = [case |-> "standing", record |-> Newcomer(kind)]
  \/ bench = [case |-> "condition", tokens |-> <<>>]
  \/ bench = [case |-> "template", inputs |-> <<>>]
  \/ bench = [case |-> "pool", units |-> <<>>]
  \/ bench = [case |-> "study", rows |-> <<>>]
  \/ bench = [case |-> "log", log |-> <<>>, held |-> [s \in Leasable |-> "open"], voided |-> {}]

LabelPair ==
  /\ bench.case = "comparison" /\ Len(bench.labels) < MaxLabels
  /\ \E variant \in Variants, raw \in Clickable :
       bench' = [bench EXCEPT !.labels = Append(@, [variant |-> variant, raw |-> raw])]

\* A rater answers some of the keys; what is stored is canonical.
Vote ==
  /\ bench.case = "ballot" /\ Len(bench.votes) < MaxVotes
  /\ \E by \in DOMAIN Reputation \ {v.by : v \in Range(bench.votes)}, keys \in SUBSET DOMAIN bench.fields \ {{}} :
       \E raw \in [keys -> UNION {Answerable[k] : k \in keys}] :
         /\ \A k \in keys : raw[k] \in Answerable[k]
         /\ bench' = [bench EXCEPT !.votes =
              Append(@, [by |-> by, value |-> [k \in keys |-> Canonical(bench.fields[k], raw[k], <<>>)]])]

GradeGold ==
  /\ bench.case = "standing" /\ Len(bench.record.golds) < MaxGolds
  /\ \E passed \in BOOLEAN : bench' = [bench EXCEPT !.record = Graded(@, passed)]
ComparePeers ==
  /\ bench.case = "standing" /\ bench.record.compared < MaxCompared
  /\ \E agree \in {0, 1} : bench' = [bench EXCEPT !.record.compared = @ + 1, !.record.agreed = @ + agree]
ClickSide ==
  /\ bench.case = "standing" /\ bench.record.first + bench.record.second < MaxClicks
  /\ \/ bench' = [bench EXCEPT !.record.first = @ + 1]
     \/ bench' = [bench EXCEPT !.record.second = @ + 1]
FlagSpeed ==
  /\ bench.case = "standing" /\ bench.record.flags < MaxFlags
  /\ bench' = [bench EXCEPT !.record.flags = @ + 1]

WriteToken ==
  /\ bench.case = "condition" /\ Len(bench.tokens) < MaxTokens
  /\ \E t \in Tokens : bench' = [bench EXCEPT !.tokens = Append(@, t)]

AddInput ==
  /\ bench.case = "template" /\ Len(bench.inputs) < MaxInputs
  /\ \E in \in Inputs : bench' = [bench EXCEPT !.inputs = Append(@, in)]

AddUnit ==
  /\ bench.case = "pool" /\ Len(bench.units) < MaxUnits
  /\ \E u \in Scorable : bench' = [bench EXCEPT !.units = Append(@, u)]

\* A row comes out of a query, in any order within its unit (which unit comes first,
\* and what stands between its rows, is all one); a rater rates a unit once.
ReadRating ==
  /\ bench.case = "study"
  /\ \E u \in Rated, by \in DOMAIN KindOf, value \in Rating :
       /\ \A r \in Range(bench.rows) : r.unit < u \/ (r.unit = u /\ r.by # by)
       /\ bench' = [bench EXCEPT !.rows = Append(@, [unit |-> u, by |-> by, value |-> value])]

\* The engine's steps that log an event: next_task, and the end of a lease.
LogEvent(slot, by, kind, to) ==
  bench' = [bench EXCEPT !.log = Append(@, [slot |-> slot, by |-> by, kind |-> kind]), !.held[slot] = to]
PullTask ==
  /\ bench.case = "log" /\ Len(bench.log) < MaxEvents
  /\ \E by \in DOMAIN KindOf, s \in Leasable :
       \/ bench.held[s] = by /\ LogEvent(s, by, "resumed", by)
       \/ /\ bench.held[s] = "open" /\ by \notin Range(bench.held)
          /\ LogEvent(s, by, "leased", by)
EndLease ==
  /\ bench.case = "log" /\ Len(bench.log) < MaxEvents
  /\ \E s \in Leasable, kind \in Ends :
       /\ bench.held[s] \in DOMAIN KindOf
       /\ LogEvent(s, bench.held[s], kind, IF kind = "submitted" THEN "filled" ELSE "open")
\* void_unit reopens filled and leased slots and logs nothing.
VoidUnlogged ==
  /\ bench.case = "log"
  /\ \E s \in Leasable :
       /\ bench.held[s] # "open"
       /\ bench' = [bench EXCEPT !.held[s] = "open", !.voided = @ \cup ({<<s, bench.held[s]>>} \cap (Leasable \X DOMAIN KindOf))]

Next ==
  \/ ReadRating \/ PullTask \/ EndLease \/ VoidUnlogged
  \/ LabelPair \/ Vote \/ GradeGold \/ ComparePeers \/ ClickSide \/ FlagSpeed
  \/ WriteToken \/ AddInput \/ AddUnit

Spec == Init /\ [][Next]_bench

-----------------------------------------------------------------------------

\* A click counts for the item shown on its side, and only a rater faithful to a
\* side is called biased or order sensitive (quality/canonical.py:49-53).
SidesTold == bench.case = "comparison" => SidesToldOf(bench.labels)

\* Merge, consensus, entropy and peer agreement tell one story of a unit's votes,
\* in whatever order they came (merge/merge.py:7-28).
MergeSound == bench.case = "ballot" /\ bench.votes # <<>> => MergeSoundFor(bench)

\* A reputation rises with what speaks for a rater, falls with what speaks
\* against, and golds outweigh the rest (quality/reputation.py:5-15).
ReputationHonest == bench.case = "standing" => ReputationHonestFor(bench.record)

\* The evaluator reads the grammar, and a condition that can be saved can be
\* evaluated for every unit (merge/condition.py:10-27).
ConditionRead == bench.case = "condition" => ConditionReadIn(bench.tokens) /\ SavedNeverRaisesIn(bench.tokens)

\* In a template that can be saved no key means two things (templates/hotkeys.py:116-119).
HotkeysUnambiguous == bench.case = "template" => HotkeysUnambiguousIn(bench.inputs)

\* Nothing is missing from a batch without a reason (active_learning/selection.py:162-167).
BatchRight == bench.case = "pool" => BatchRightOf(bench.units)

\* A study's agreement is what its rows say, in whatever order they come
\* (quality/agreement.py:59-91).
KappaTrue == bench.case = "study" => KappaTrueFor(bench.rows)

\* The episodes of a study are what became of the leases (measure/metrics.py:355-358).
EpisodesTrue == bench.case = "log" => EpisodesTrueFor(bench.log, bench.held, bench.voided)
=============================================================================
