----------------------------- MODULE MCSkillEvents -----------------------------
(* Instances of SkillEvents for TLC. *)
EXTENDS SkillEvents

CONSTANTS p1, p2, h1, h2

TwoPublishers == {p1, p2}
TwoHandlers   == {h1, h2}
Symmetry == Permutations(TwoHandlers) \cup Permutations(TwoPublishers)
=============================================================================
