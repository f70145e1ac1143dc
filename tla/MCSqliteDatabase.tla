-------------------------- MODULE MCSqliteDatabase --------------------------
(***************************************************************************)
(* The instance of SqliteDatabase for TLC.  Its constants are model       *)
(* values; handles are not declared symmetric, for the run has a liveness  *)
(* property.                                                               *)
(***************************************************************************)
EXTENDS SqliteDatabase
=============================================================================
