------------------------------ MODULE Answers ------------------------------
(***************************************************************************)
(* What an answer is and when two are the same: raw answers made canonical *)
(* (services/quality/canonical.py) and the match rules of an agreement     *)
(* policy (services/quality/matching.py).                                  *)
(*                                                                         *)
(* A value is tagged with its kind: <<"str", s>>, <<"num", n>> (in halves, *)
(* so that 3.5 is there), <<"bool", b>>, <<"list", sequence of strings>>.  *)
(* What a string reads as when trimmed, parsed or split is a constant.     *)
(***************************************************************************)
EXTENDS Integers, Sequences, FiniteSets, FiniteSetsExt, SequencesExt, Functions

CONSTANTS
  Lower,     \* [strings -> strings]: trimmed and lower-cased
  NumberIn,  \* function from the strings that parse as a number, in halves
  Parts,     \* [strings -> sequences of strings]: split at commas
  Unprefixed \* function from the strings that start with "other:" to the rest

Str(s) == <<"str", s>>
Num(n) == <<"num", n>>
Bool(b) == <<"bool", b>>
List(s) == <<"list", s>>
Is(kind, value) == value[1] = kind

-----------------------------------------------------------------------------
(* Canonical values.  A variant is the order of the items on screen, <<>>  *)
(* when the template declares none.                                        *)

LeftLabels == {"left", "a", "first"}
RightLabels == {"right", "b", "second"}
Side(raw) ==
  IF ~Is("str", raw) THEN "neither"
  ELSE IF Lower[raw[2]] \in LeftLabels THEN "first"
  ELSE IF Lower[raw[2]] \in RightLabels THEN "second" ELSE "neither"

\* Mutant of Positional: every slot is read as if it showed the first one's order.
PositionalUnswapped(raw, variant) ==
  CASE variant = <<>> -> raw
    [] Side(raw) = "first" -> Str("A")
    [] Side(raw) = "second" -> Str("B")
    [] OTHER -> raw
Positional(raw, variant) ==
  CASE variant = <<>> -> raw
    [] Side(raw) = "first" -> Str(variant[1])
    [] Side(raw) = "second" -> Str(variant[Len(variant)])
    [] OTHER -> raw

TrueTokens == {"true", "yes", "y", "1", "on"}
FalseTokens == {"false", "no", "n", "0", "off"}
ToBool(raw) ==
  CASE Is("num", raw) -> Bool(raw[2] # 0)
    [] Is("str", raw) /\ Lower[raw[2]] \in TrueTokens -> Bool(TRUE)
    [] Is("str", raw) /\ Lower[raw[2]] \in FalseTokens -> Bool(FALSE)
    [] OTHER -> raw
ToNumber(raw, integral) ==
  LET whole(n) == IF integral THEN Num(n - (n % 2)) ELSE Num(n)
  IN CASE Is("num", raw) -> whole(raw[2])
       [] Is("str", raw) /\ raw[2] \in DOMAIN NumberIn -> whole(NumberIn[raw[2]])
       [] OTHER -> raw
ToTags(raw) ==
  LET add(out, s) == IF Lower[s] = "" \/ Contains(out, Lower[s]) THEN out ELSE Append(out, Lower[s])
  IN CASE Is("str", raw) -> List(FoldLeft(add, <<>>, Parts[raw[2]]))
       [] Is("list", raw) -> List(FoldLeft(add, <<>>, raw[2]))
       [] OTHER -> raw

StripOther(s) == IF s \in DOMAIN Unprefixed THEN Unprefixed[s] ELSE s
OtherStripped(raw) ==
  CASE Is("str", raw) -> Str(StripOther(raw[2]))
    [] Is("list", raw) -> List([i \in DOMAIN raw[2] |-> StripOther(raw[2][i])])
    [] OTHER -> raw

\* canonicalize_input, for a field [type, other] (other: allow_other).
Canonical(field, raw, variant) ==
  CASE field.type = "choice_buttons" /\ variant # <<>> -> Positional(raw, variant)
    [] field.other -> OtherStripped(raw)
    [] field.type = "boolean" -> ToBool(raw)
    [] field.type \in {"number", "slider"} -> ToNumber(raw, FALSE)
    [] field.type \in {"rating", "likert"} -> ToNumber(raw, TRUE)
    [] field.type = "tags" -> ToTags(raw)
    [] OTHER -> raw

-----------------------------------------------------------------------------
(* Match rules: [match, tolerance, threshold, required], in halves and in  *)
(* percent.                                                                *)

DefaultRule(type) ==
  [match |-> IF type = "ranking" THEN "ordered" ELSE "exact", tolerance |-> 2, threshold |-> 50, required |-> 67]
\* A key's policy is a match kind, or "none" where the project declares none.
RuleFor(policy, type) == IF policy = "none" THEN DefaultRule(type) ELSE [DefaultRule("") EXCEPT !.match = policy]

AsSet(value) == IF Is("list", value) THEN Range(value[2]) ELSE {value}
Distance(a, b) == IF a[2] >= b[2] THEN a[2] - b[2] ELSE b[2] - a[2]
Overlap(a, b, percent) ==
  100 * Cardinality(AsSet(a) \cap AsSet(b)) >= percent * Cardinality(AsSet(a) \cup AsSet(b))
\* values_match: do two canonical answers agree?
Matches(a, b, rule) ==
  CASE rule.match = "within" /\ Is("num", a) /\ Is("num", b) -> Distance(a, b) <= rule.tolerance
    [] rule.match = "jaccard" -> Overlap(a, b, rule.threshold)
    [] rule.match = "exact" /\ Is("list", a) /\ Is("list", b) -> AsSet(a) = AsSet(b) /\ Len(a[2]) = Len(b[2])
    [] OTHER -> a = b
=============================================================================
