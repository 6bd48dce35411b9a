------------------------------ MODULE MCDigest ------------------------------
(* Digest for TLC: the constants are all given in the .cfg files.             *)
EXTENDS Digest
=============================================================================
