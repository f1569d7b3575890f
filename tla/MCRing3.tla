------------------------------ MODULE MCRing3 ------------------------------
(***************************************************************************)
(* Two call depths, as of run and of runelf, which holds more locals.       *)
(***************************************************************************)
EXTENDS Ring3

MCDepths == {3, 5}
=============================================================================
