--------------------------- MODULE MCTeamScaling ---------------------------
(***************************************************************************)
(* A small instance of TeamScaling: a team of one, two scalers, and a      *)
(* leader that creates tasks.                                              *)
(***************************************************************************)
EXTENDS TeamScaling, TLC

CONSTANTS s1, s2, c1

MCScalers == {s1, s2}
MCScalersAlike == Permutations(MCScalers)
MCCreators == {c1}
=============================================================================
