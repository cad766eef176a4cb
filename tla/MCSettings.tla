----------------------------- MODULE MCSettings -----------------------------
(* A small instance of Settings: a builtin template, two versions of a custom  *)
(* one, the first with two presentation variants, a project on that one with   *)
(* two versions of a judge enrolled and a unit that has one of its two labels, *)
(* and a project on the other, with a unit that is collected and finalized.    *)
EXTENDS Settings, TLC
CONSTANTS s1, s2, m
MCVariantsOf == [s \in Shapes |-> IF s = "pair" THEN 2 ELSE 1]
MCOverlaps == {<<1, 2>>, <<4, 4>>}
Builtin == [Template(Name("gallery", 0), 1, "plain", 0) EXCEPT !.kind = "builtin"]
MCGenesis ==
  [templates |-> <<Builtin, Template(Name("mine", 0), 1, "pair", 0), Template(Name("mine", 0), 2, "plain", 0)>>,
   projects |-> <<[template |-> 2, version |-> 1, k |-> 2, max |-> 4, other |-> 0,
                  judges |-> <<[config |-> 1, rater |-> 1], [config |-> 2, rater |-> 2]>>],
                 [template |-> 3, version |-> 2, k |-> 1, max |-> 2, other |-> 0, judges |-> <<>>]>>,
   units |-> <<[Unit(1, 2, "pair") EXCEPT !.slots = {[s EXCEPT !.filled = @ \/ s.id = 1] : s \in @}],
               [Unit(2, 1, "plain") EXCEPT !.slots = {[s EXCEPT !.filled = TRUE] : s \in @}, !.finalized = TRUE]>>,
   configs |-> <<[name |-> "judge", version |-> 1, model |-> m], [name |-> "judge", version |-> 2, model |-> m]>>,
   raters |-> <<1, 2>>]
SessionSymmetry == Permutations(Sessions)
=============================================================================
