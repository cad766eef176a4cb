---------------------------- MODULE MCWorkbench ----------------------------
(* Inputs for Workbench: small alphabets that reach every branch.          *)
EXTENDS Workbench

MCClickable == {Str("Left"), Str("b "), Str("Tie")}
MCOptions == {Str("Left"), Str("Right"), Str("Tie")}
MCItems == <<"A", "B">>
MCVariants == {<<"A", "B">>, <<"B", "A">>}
MCLower == [s \in {"Left", "Right", "Tie", "b ", "A", "B", "3", "a", "b", " b", "x"} |->
  CASE s = "Left" -> "left" [] s = "Right" -> "right" [] s = "Tie" -> "tie"
    [] s \in {"b ", "B", " b", "b"} -> "b" [] s \in {"A", "a"} -> "a" [] OTHER -> s]
MCNumberIn == [s \in {"3"} |-> 6]
MCParts == [s \in {"a, b"} |-> <<"a", " b">>]
MCUnprefixed == [s \in {"other:x"} |-> "x"]
MCReputation == [r1 |-> 90, r2 |-> 45, r3 |-> 0]
MCAnswerable == [score |-> {Str("3"), Num(8), Num(10)}, flags |-> {Str("a, b"), List(<<"b", "a">>), List(<<"A">>)}]
Field(type) == [type |-> type, other |-> FALSE]
Form(score, flags, ms, mf) ==
  [fields |-> [score |-> Field(score), flags |-> Field(flags)], policy |-> [score |-> ms, flags |-> mf]]
MCForms == {Form("likert", "tags", "none", "none"), Form("likert", "tags", "within", "jaccard"),
            [fields |-> [flags |-> Field("tags")], policy |-> [flags |-> "ordered"]]}
MCText == [v \in {Num(6), Num(8), Num(10), List(<<"a">>), List(<<"a", "b">>), List(<<"b", "a">>)} |->
  CASE v = Num(6) -> 3 [] v = Num(8) -> 4 [] v = Num(10) -> 5
    [] v = List(<<"a">>) -> 2 [] v = List(<<"a", "b">>) -> 1 [] OTHER -> 6]

MCKindOf == [r1 |-> "human", r2 |-> "human", r3 |-> "model"]
MCTokens == {"n", "consensus", "agreed", "(", ")", "!", "&&", "||", "<", "true"}
Merged(c, e, v) == [consensus |-> c, confidence |-> c, entropy |-> e, votes |-> v, judge_votes |-> 0, human_votes |-> v]
MCProposals == {<<>>, Merged(1000, 0, 2000), Merged(500, 1000, 2000)}
MCRouted == {[priority |-> 0, is_gold |-> 0, escalated |-> 0], [priority |-> 5000, is_gold |-> 1000, escalated |-> 1000]}

In(id, type, options, labels, bounds, keys, other) ==
  [id |-> id, type |-> type, options |-> options, labels |-> labels, bounds |-> bounds, hotkeys |-> keys, other |-> other]
Two == <<"yes", "no">>
MCInputs ==
  {In("a", "radio", Two, <<>>, <<>>, <<>>, FALSE), In("b", "radio", Two, <<>>, <<>>, <<>>, TRUE),
   In("c", "checkbox", Two, <<>>, <<>>, <<>>, FALSE), In("d", "choice_buttons", Two, <<>>, <<>>, <<"left", "right">>, FALSE),
   In("e", "radio", Two, <<>>, <<>>, <<"A", "b">>, FALSE), In("f", "radio", Two, <<>>, <<>>, <<"2", "S">>, FALSE),
   In("g", "checkbox", Two, <<>>, <<>>, <<"up", "b">>, FALSE), In("h", "likert", <<>>, <<"1", "2", "3", "4">>, <<>>, <<>>, FALSE),
   In("i", "rating", <<>>, <<"bad", "bad">>, <<>>, <<>>, FALSE), In("j", "boolean", <<>>, <<>>, <<>>, <<>>, FALSE),
   In("k", "select", <<"x">>, <<>>, <<>>, <<>>, TRUE), In("l", "multiselect", Two, <<>>, <<>>, <<>>, TRUE),
   In("m", "slider", <<>>, <<>>, <<0, 10, 1>>, <<>>, FALSE), In("n", "number", <<>>, <<>>, <<5, 1, 1>>, <<>>, FALSE),
   In("a", "boolean", <<>>, <<>>, <<>>, <<"y">>, FALSE), In("o", "radio", <<"x", "x">>, <<>>, <<>>, <<>>, FALSE)}
MCDigitKeys == <<"1", "2", "3">>
MCLetterKeys == <<"a", "b", "c", "e">>
MCNormal == [k \in {"left", "right", "up", "A", "b", "2", "S", "y"} |-> CASE k = "A" -> "a" [] k = "S" -> "s" [] OTHER -> k]

Unit(keys, student, priority, cluster, finalized) ==
  [keys |-> keys, student |-> student, priority |-> priority, cluster |-> cluster, finalized |-> finalized]
MCScorable ==
  {Unit(<<>>, <<>>, 1, "A", FALSE), Unit(<<>>, <<>>, 0, "B", FALSE), Unit(<<<<50, 100>>>>, <<>>, 0, "B", FALSE),
   Unit(<<<<50, 100>>, <<100, 0>>>>, <<>>, 0, "C", FALSE), Unit(<<<<100, 0>>>>, <<90>>, 0, "C", FALSE),
   Unit(<<>>, <<50>>, 0, "none", FALSE), Unit(<<<<50, 100>>>>, <<20>>, 0, "A", TRUE)}
MCAlike == {{"A"}, {"B"}, {"C"}, {"A", "B"}, {"B", "C"}}
=============================================================================
