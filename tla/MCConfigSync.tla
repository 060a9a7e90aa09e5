---------------------------- MODULE MCConfigSync ----------------------------
(***************************************************************************)
(* ConfigSync for TLC: two client names, so that one file can change while *)
(* the other is read.                                                      *)
(***************************************************************************)
EXTENDS ConfigSync

MCNames == {1, 2}
=============================================================================
