----------------------------- MODULE MCSkillEditor -----------------------------
(* Instances of SkillEditor for TLC. *)
EXTENDS SkillEditor, TLC

CONSTANTS s1, alice, bob, f1, x, bad, o1

OneSession  == {s1}
OneFile     == {f1}
Typed       == {x, bad}
OneOpener   == {o1}
TwoUsers    == {alice, bob}
Owners      == [s \in Sessions |-> IF s = s1 THEN alice ELSE bob]
\* formatting no text gives one
Tidy        == [c \in Contents \cup {Empty, Mixed} |-> IF c = Empty THEN x ELSE c]
=============================================================================
