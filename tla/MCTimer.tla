------------------------------- MODULE MCTimer -------------------------------
(***************************************************************************)
(* An instance of Timer for TLC.                                           *)
(***************************************************************************)
EXTENDS Timer

\* One entry of an hour made by hand.
OneEntry == {<<0, 1>>}
=============================================================================
