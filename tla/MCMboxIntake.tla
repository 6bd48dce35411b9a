---------------------------- MODULE MCMboxIntake ----------------------------
(* MboxIntake for TLC: three messages cover a mailbox of more than one        *)
(* message, a second mailbox, and arrivals while the process runs.            *)
EXTENDS MboxIntake

CONSTANTS m1, m2, m3

MCMessages == {m1, m2, m3}

=============================================================================
