---------------------------- MODULE MCSkillImport ----------------------------
(* Instances of SkillImport for TLC. *)
EXTENDS SkillImport, TLC

Kinds     == [j \in Jobs |-> IF j = 2 THEN "export" ELSE "import"]
FirstSkips == [j \in Jobs |-> j = 1]
=============================================================================
