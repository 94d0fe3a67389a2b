---------------------------- MODULE MCSkillVersions ----------------------------
(* Instances of SkillVersions for TLC. *)
EXTENDS SkillVersions, TLC

CONSTANTS c1, c2, x, y

OneCaller  == {c1}
TwoCallers == {c1, c2}
TwoContents == {x, y}
CallerSymmetry == Permutations(TwoCallers)
ContentSymmetry == Permutations(TwoContents)
=============================================================================
