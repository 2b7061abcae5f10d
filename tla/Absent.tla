-------------------------------- MODULE Absent --------------------------------
(***************************************************************************)
(* The value that is none: Python's None and SQL's NULL.                   *)
(***************************************************************************)
CONSTANT Nothing
=============================================================================
