----------------------------- MODULE MCSkillSocket -----------------------------
(* Instances of SkillSocket for TLC. *)
EXTENDS SkillSocket, TLC

CONSTANTS a, b, u

TwoConns == {a, b}

\* two connections of one user
SameUser == [c \in Conns |-> u]

\* one does everything, the other stays, though it may fall silent
OneTroubled == [c \in Conns |-> IF c = a THEN {"left", "stuck", "garbage"} ELSE {}]
=============================================================================
