------------------------------ MODULE Hotkeys ------------------------------
(***************************************************************************)
(* The inputs of a template: the checks made when it is saved              *)
(* (services/templates/validation.py) and the keys its options answer to   *)
(* (services/templates/hotkeys.py, spec.py).                               *)
(*                                                                         *)
(* An input is [id, type, options, labels, bounds, hotkeys, other]:        *)
(* declared options, the labels of its scale (or the numbers from min to   *)
(* max), its <<min, max, step>>, its keys (<<>> for auto), allow_other.    *)
(***************************************************************************)
EXTENDS Integers, Sequences, FiniteSets, FiniteSetsExt, SequencesExt

CONSTANTS
  DigitKeys,  \* the keys of the first choice input
  LetterKeys, \* the pool the others share
  Normal      \* [keys -> keys]: trimmed, lower-cased, arrow glyphs by name

ASSUME HotkeysAssumption ==
  DigitKeys \in Seq(STRING) /\ LetterKeys \in Seq(STRING) /\ Normal \in [DOMAIN Normal -> STRING]

InputRow ==
  [id : STRING, type : STRING, options : Seq(STRING), labels : Seq(STRING), bounds : Seq(Int),
   hotkeys : Seq(DOMAIN Normal), other : BOOLEAN]

ReservedActionKeys == {"s", "g", "d", "u", "x", "?", "enter", "escape"}
OtherKey == "o"
ArrowKeys == {"left", "right", "up", "down"}
ChoiceTypes == {"radio", "checkbox", "likert", "choice_buttons", "rating", "boolean"}
OptionTypes == {"radio", "checkbox", "choice_buttons", "select", "multiselect", "ranking"}
AllowOtherTypes == {"radio", "checkbox", "select", "multiselect"}
ScaleTypes == {"likert", "rating"}
RangeTypes == {"number", "slider"}

-----------------------------------------------------------------------------
(* Keys.  A claim is <<input, option>>, option 0 being "Other".            *)

Labels(in) ==
  CASE in.type \in ScaleTypes -> in.labels
    [] in.type = "boolean" -> <<"Yes", "No">>
    [] OTHER -> in.options
Explicit(in) == in.hotkeys # <<>>
IsChoice(in) == in.type \in ChoiceTypes
Automatic(in) == IsChoice(in) /\ ~Explicit(in)
\* The letters taken before input i: the automatic choice inputs but the first.
Secondary(inputs, i) == Automatic(inputs[i]) /\ \E j \in 1..i - 1 : Automatic(inputs[j])
LetterCursor(inputs, i) ==
  Cardinality(UNION {{j} \X DOMAIN Labels(inputs[j]) : j \in {k \in 1..i - 1 : Secondary(inputs, k)}})

\* The keys an input draws, as far as they reach.
Drawn(inputs, i) ==
  LET in == inputs[i]
      from == LetterCursor(inputs, i)
      pool == CASE Explicit(in) -> [k \in DOMAIN in.hotkeys |-> Normal[in.hotkeys[k]]]
                [] Secondary(inputs, i) -> SubSeq(LetterKeys, from + 1, Len(LetterKeys))
                [] Automatic(in) /\ ~Secondary(inputs, i) -> DigitKeys
                [] OTHER -> <<>>
  IN SubSeq(pool, 1, Min({Len(pool), Len(Labels(in))}))
\* entry["options"] and "other": the key each option of an input answers to.
KeyMap(inputs, i) ==
  LET keys == Drawn(inputs, i)
      labels == Labels(inputs[i])
      last(o) == Max({k \in DOMAIN keys : labels[k] = o})
  IN {<<o, keys[last(o)]>> : o \in {labels[k] : k \in DOMAIN keys}}
       \cup (IF inputs[i].other THEN {<<"Other", OtherKey>>} ELSE {})
OtherClaim(in) == IF in.other THEN {0} ELSE {}
\* Mutant of Claims: an automatic letter is given without being claimed.
ClaimsUnlettered(inputs) ==
  UNION {{i} \X ((IF Secondary(inputs, i) THEN {} ELSE DOMAIN Drawn(inputs, i)) \cup OtherClaim(inputs[i])) : i \in DOMAIN inputs}
Claims(inputs) == UNION {{i} \X (DOMAIN Drawn(inputs, i) \cup OtherClaim(inputs[i])) : i \in DOMAIN inputs}
ClaimedKey(inputs, c) == IF c[2] = 0 THEN OtherKey ELSE Drawn(inputs, c[1])[c[2]]

\* The errors of assign_hotkeys: a reserved or repeated key, too few or too many.
Conflicts(inputs) ==
  LET claims == Claims(inputs)
      key(c) == ClaimedKey(inputs, c)
      in(i) == inputs[i]
      short(i) == IsChoice(in(i)) /\ Len(Drawn(inputs, i)) < Len(Labels(in(i)))
      long(i) == IsChoice(in(i)) /\ Explicit(in(i)) /\ Len(in(i).hotkeys) > Len(Labels(in(i)))
  IN  {<<"reserved", key(c)>> : c \in {b \in claims : key(b) \in ReservedActionKeys}}
      \cup {<<"duplicate", key(c)>> : c \in {b \in claims : \E a \in claims \ {b} : key(a) = key(b)}}
      \cup {<<"count", i>> : i \in {j \in DOMAIN inputs : short(j) \/ long(j)}}

-----------------------------------------------------------------------------
(* validate_template, as far as the inputs go.                             *)

BadOptions(in) ==
  \/ in.type \in OptionTypes /\ (Len(in.options) < 2 \/ Cardinality(Range(in.options)) # Len(in.options))
  \/ in.type \notin OptionTypes /\ in.options # <<>>
Misplaced(in) ==
  \/ in.other /\ in.type \notin AllowOtherTypes
  \/ Explicit(in) /\ in.type # "choice_buttons" /\ \E k \in Range(in.hotkeys) : Normal[k] \in ArrowKeys
\* bounds is <<>> or <<min, max, step>>.
BadBounds(in) ==
  \/ in.type \notin RangeTypes /\ in.bounds # <<>>
  \/ in.type = "slider" /\ in.bounds = <<>>
  \/ in.type \in RangeTypes /\ in.bounds # <<>> /\
       (in.bounds[2] <= in.bounds[1] \/ in.bounds[3] > in.bounds[2] - in.bounds[1])
\* Keys are assigned, and their conflicts seen, only once the options are right.
Problems(inputs) ==
  LET errors == {<<"id", i>> : i \in {j \in DOMAIN inputs : \E k \in 1..j - 1 : inputs[k].id = inputs[j].id}}
        \cup {<<"input", i>> : i \in {j \in DOMAIN inputs : Misplaced(inputs[j]) \/ BadBounds(inputs[j])}}
      options == {<<"options", i>> : i \in {j \in DOMAIN inputs : BadOptions(inputs[j])}}
  IN errors \cup (IF options = {} THEN Conflicts(inputs) ELSE options)
Accepted(inputs) == inputs # <<>> /\ Problems(inputs) = {}

-----------------------------------------------------------------------------

\* In a template that passes validation every key does at most one thing, an
\* action of the console included, no option shares its key with another nor is
\* left without one if its input is a choice; and an input added at the end
\* changes no key of those before it (templates/hotkeys.py:116-119, spec.py:97-104).
HotkeysUnambiguousIn(inputs) ==
  Accepted(inputs) =>
    LET bound == UNION {{<<i, m[1], m[2]>> : m \in KeyMap(inputs, i)} : i \in DOMAIN inputs}
    IN  /\ \A a, b \in bound : a[3] = b[3] => a = b
        /\ \A a \in bound : a[3] \notin ReservedActionKeys
        /\ \A i \in DOMAIN inputs : IsChoice(inputs[i]) =>
             \A o \in Range(Labels(inputs[i])) : \E a \in bound : a[1] = i /\ a[2] = o
        /\ LET before == Front(inputs)
           IN before # <<>> => Accepted(before) /\ \A i \in DOMAIN before : KeyMap(before, i) = KeyMap(inputs, i)
=============================================================================
