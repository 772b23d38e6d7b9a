----------------------------- MODULE MCDatabase -----------------------------
(* Instances of Database for TLC; the constants are given in the .cfg files. *)
EXTENDS Database
==============================================================================
