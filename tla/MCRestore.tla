------------------------------- MODULE MCRestore -------------------------------
(***************************************************************************)
(* A restore of a backup that fails, of whatever was archived.             *)
(***************************************************************************)
EXTENDS StateRestore

MCSelected == [r \in Restores |-> Unnamed]
=============================================================================
