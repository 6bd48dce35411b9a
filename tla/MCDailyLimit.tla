---------------------------- MODULE MCDailyLimit ----------------------------
(* DailyLimit for TLC: the constants are all given in the .cfg files.         *)
EXTENDS DailyLimit
=============================================================================
