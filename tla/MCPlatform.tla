----------------------------- MODULE MCPlatform -----------------------------
(* Small instances of Platform for TLC. *)
EXTENDS Platform, TLC

MCOneProject == [u \in Units |-> CHOOSE p \in Projects : TRUE]
MCNoGold == [u \in Units |-> None]
MCFirstIsGold == [u \in Units |-> IF u = 1 THEN CHOOSE v \in Answers : TRUE ELSE None]
AnnotatorSymmetry == Permutations(Annotators)
Symmetry == Permutations(Annotators) \cup Permutations(Answers)
=============================================================================
