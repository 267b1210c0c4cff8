----------------------------- MODULE MCSourceCheck -----------------------------
(***************************************************************************)
(* A small instance of SourceCheck: two files that grow, shrink and change *)
(* in place.                                                               *)
(***************************************************************************)
EXTENDS SourceCheck

CONSTANTS x, y

MCBlock == {x, y}
MCContent == {<<>>, <<x>>, <<x, y>>, <<y, y>>}
=============================================================================
