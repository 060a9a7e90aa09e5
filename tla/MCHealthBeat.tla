---------------------------- MODULE MCHealthBeat ----------------------------
(* Units of four minutes: beats come within 11 minutes of each other, with *)
(* the timer's accuracy, and evaluations within 5 to 6.  A second client   *)
(* joins, whose name comes first; the RU node's clock is ahead.            *)
EXTENDS HealthBeat

MCLists == <<{2}, {1, 2}>>
MCSkew == -3
=============================================================================
