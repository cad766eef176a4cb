----------------------------- MODULE MCJudgeRun -----------------------------
(* Small instances of JudgeRun: two units of two slots, the second a gold. *)
EXTENDS JudgeRun, TLC
CONSTANTS j1, j2
RunSymmetry == Permutations(Runs)
MCEnrolled == <<j1, j2>>
MCUnitOf == [s \in Slots |-> (s + 1) \div 2]
MCVariantOf == [s \in Slots |-> IF s % 2 = 1 THEN "AB" ELSE "BA"]
Caps(cost, daily, tokens, count) == [cost |-> cost, daily |-> daily, tokens |-> tokens, labels |-> count]
MCBudget == [j \in Judges |-> IF j = j1 THEN Caps(None, 2, 3, None) ELSE Caps(1, None, None, 2)]
=============================================================================
