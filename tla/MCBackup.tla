------------------------------ MODULE MCBackup ------------------------------
(***************************************************************************)
(* Backup for TLC: two client names, as in MCConfigSync.                   *)
(***************************************************************************)
EXTENDS Backup

MCNames == {1, 2}
=============================================================================
