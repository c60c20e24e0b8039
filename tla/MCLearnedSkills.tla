--------------------------- MODULE MCLearnedSkills ---------------------------
(***************************************************************************)
(* Model-checking instance of LearnedSkills: one or two evolvers, one or   *)
(* two skills, two texts.                                                  *)
(***************************************************************************)
EXTENDS LearnedSkills

OneSkill == 1 .. 1
TwoSkills == 1 .. 2
==============================================================================
