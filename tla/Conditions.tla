----------------------------- MODULE Conditions -----------------------------
(***************************************************************************)
(* The conditions of a routing pipeline: the recursive-descent evaluator   *)
(* of services/merge/condition.py over tokens, the metrics a stage's "if"  *)
(* reads and the check made when a pipeline is saved (merge/pipeline.py).  *)
(*                                                                         *)
(* A token is the text of an operator, "n" for a number, or a name.  Every *)
(* value is a number: true and false compare, coerce and test as 1 and 0.  *)
(***************************************************************************)
EXTENDS Integers, Sequences, FiniteSets, TLC

CONSTANTS
  Number,    \* the number that "n" stands for, in thousandths as every metric
  Proposals, \* the metrics of the merges at hand, <<>> for a unit without votes
  Routed     \* the units at hand: [priority, is_gold, escalated]

ConditionVariables ==
  {"consensus", "confidence", "entropy", "votes", "judge_votes", "human_votes", "priority", "is_gold", "escalated"}

Truth(b) == IF b THEN 1 ELSE 0
Truthy(x) == x # 0
Comparisons == {"<=", ">=", "==", "!=", "<", ">"}
Compare(op, x, y) ==
  Truth(CASE op = "<=" -> x <= y [] op = ">=" -> x >= y [] op = "==" -> x = y
          [] op = "!=" -> x # y [] op = "<" -> x < y [] op = ">" -> x > y)

-----------------------------------------------------------------------------
(* The parser evaluates as it goes.  A result is [at, x]: the next token   *)
(* and the value; at = 0 once a ConditionError is raised.  Its methods     *)
(* call each other through p, which says what each reads from a token on.  *)

Error == [at |-> 0, x |-> 0]
At(s, i) == IF i \in DOMAIN s THEN s[i] ELSE "end"

Primary(p, s, env, i) ==
  CASE At(s, i) = "(" ->
         LET inner == p[<<"or", i + 1>>]
         IN IF inner.at # 0 /\ At(s, inner.at) = ")" THEN [inner EXCEPT !.at = @ + 1] ELSE Error
    [] At(s, i) = "n" -> [at |-> i + 1, x |-> Number]
    [] At(s, i) \in {"true", "false"} -> [at |-> i + 1, x |-> Truth(s[i] = "true")]
    [] At(s, i) \in DOMAIN env \ {"(", "n", "true", "false"} -> [at |-> i + 1, x |-> env[s[i]]]
    [] OTHER -> Error
Unary(p, s, env, i) ==
  IF At(s, i) # "!" THEN Primary(p, s, env, i)
  ELSE LET r == p[<<"unary", i + 1>>] IN IF r.at = 0 THEN Error ELSE [r EXCEPT !.x = Truth(~Truthy(@))]
CompareAt(s, l, r) ==
  IF l.at = 0 \/ At(s, l.at) \notin Comparisons THEN l
  ELSE IF r.at = 0 THEN Error ELSE [at |-> r.at, x |-> Compare(s[l.at], l.x, r.x)]
\* Mutant of CmpExpr: a comparison takes another one for its right side.
CmpChained(p, s, i) == LET l == p[<<"unary", i>>] IN CompareAt(s, l, p[<<"cmp", l.at + 1>>])
CmpExpr(p, s, i) == LET l == p[<<"unary", i>>] IN CompareAt(s, l, p[<<"unary", l.at + 1>>])
\* The loops of and_expr and or_expr, seen from the first operand: the right side
\* is evaluated whatever the left is worth.
AndExpr(p, s, i) ==
  LET l == p[<<"cmp", i>>]
      r == p[<<"and", l.at + 1>>]
  IN IF l.at = 0 \/ At(s, l.at) # "&&" THEN l
     ELSE IF r.at = 0 THEN Error ELSE [at |-> r.at, x |-> Truth(Truthy(r.x) /\ Truthy(l.x))]
OrExpr(p, s, i) ==
  LET l == p[<<"and", i>>]
      r == p[<<"or", l.at + 1>>]
  IN IF l.at = 0 \/ At(s, l.at) # "||" THEN l
     ELSE IF r.at = 0 THEN Error ELSE [at |-> r.at, x |-> Truth(Truthy(r.x) \/ Truthy(l.x))]

Levels == {"or", "and", "cmp", "unary"}
Read(p, s, env, level, i) ==
  CASE level = "or" -> OrExpr(p, s, i)
    [] level = "and" -> AndExpr(p, s, i)
    [] level = "cmp" -> CmpExpr(p, s, i)
    [] level = "unary" -> Unary(p, s, env, i)
Parse(s, env) ==
  LET p[c \in Levels \X (1..Len(s) + 1)] == Read(p, s, env, c[1], c[2])
  IN p[<<"or", 1>>]

\* evaluate_condition: "true", "false" or "error"; a blank condition holds.
Evaluated(s, env) ==
  LET r == Parse(s, env)
  IN IF s = <<>> THEN "true" ELSE IF r.at # Len(s) + 1 THEN "error" ELSE IF Truthy(r.x) THEN "true" ELSE "false"
\* check_condition evaluates once in a sentinel environment of zeros.
Checked(s) == Evaluated(s, [v \in ConditionVariables |-> 0]) # "error"

-----------------------------------------------------------------------------
(* What a stage reads: the merge's metrics over those of a unit with none. *)

Metrics(proposal, unit) ==
  [v \in ConditionVariables |->
     CASE v \in {"priority", "is_gold", "escalated"} -> unit[v]
       [] v \in DOMAIN proposal \ {"priority", "is_gold", "escalated"} -> proposal[v]
       [] OTHER -> IF v = "entropy" THEN 1000 ELSE 0]
\* _gate: does a stage with this condition act?  The run raises on "error".
Gate(s, proposal, unit) == Evaluated(s, Metrics(proposal, unit))
\* validate_pipeline, of the stages' conditions.
Saved(pipeline) == \A i \in DOMAIN pipeline : Checked(pipeline[i])

-----------------------------------------------------------------------------
(* The grammar of the module's docstring (condition.py:13-18), read as a   *)
(* definition: the values the tokens i..j may have, at each level.  A      *)
(* chain of || or && is one operand, or one, the operator and a chain.     *)

\* The ways to cut i..j at an operator, with a value of either side.
CutAt(v, s, left, right, i, j, k) == {<<x, s[k], y>> : x \in v[<<left, i, k - 1>>], y \in v[<<right, k + 1, j>>]}
Cuts(v, s, ops, left, right, i, j) ==
  UNION {CutAt(v, s, left, right, i, j, k) : k \in {m \in i + 1..j - 1 : s[m] \in ops}}
OneToken(token, env) ==
  CASE token = "n" -> {Number}
    [] token \in {"true", "false"} -> {Truth(token = "true")}
    [] token \in DOMAIN env \ {"n", "true", "false"} -> {env[token]}
    [] OTHER -> {}
Negated(values) == {Truth(~Truthy(x)) : x \in values}
Derived(v, s, env, level, i, j) ==
  CASE level = "or" ->
         v[<<"and", i, j>>] \cup {Truth(Truthy(c[1]) \/ Truthy(c[3])) : c \in Cuts(v, s, {"||"}, "and", "or", i, j)}
    [] level = "and" ->
         v[<<"cmp", i, j>>] \cup {Truth(Truthy(c[1]) /\ Truthy(c[3])) : c \in Cuts(v, s, {"&&"}, "cmp", "and", i, j)}
    [] level = "cmp" ->
         v[<<"unary", i, j>>] \cup {Compare(c[2], c[1], c[3]) : c \in Cuts(v, s, Comparisons, "unary", "unary", i, j)}
    [] level = "unary" ->
         CASE j < i -> {}
           [] j = i -> OneToken(s[i], env)
           [] j > i /\ s[i] = "!" -> Negated(v[<<"unary", i + 1, j>>])
           [] j > i /\ s[i] = "(" /\ s[j] = ")" -> v[<<"or", i + 1, j - 1>>]
           [] OTHER -> {}
Values(s, env) ==
  LET v[c \in Levels \X (1..Len(s) + 1) \X (0..Len(s))] == Derived(v, s, env, c[1], c[2], c[3])
  IN v[<<"or", 1, Len(s)>>]

\* The evaluator accepts what the grammar derives and gives the value it derives
\* (condition.py:10-18).
ConditionReadIn(s) ==
  \A proposal \in Proposals, unit \in Routed :
    LET values == Values(s, Metrics(proposal, unit))
    IN s # <<>> => {Gate(s, proposal, unit)} =
                     IF values = {} THEN {"error"} ELSE {IF Truthy(x) THEN "true" ELSE "false" : x \in values}

\* A condition that passes the check made at save time, on zeros, never raises while
\* a unit is routed, whatever its metrics (condition.py:26-27, pipeline.py:74-75).
SavedNeverRaisesIn(s) ==
  Saved(<<s>>) => \A proposal \in Proposals, unit \in Routed : Gate(s, proposal, unit) # "error"
=============================================================================
