---------------------------- MODULE PgCopyProps ----------------------------
(***************************************************************************)
(* Properties of a copy to the server.                                     *)
(***************************************************************************)
EXTENDS PgCopy

(* A copy is all or nothing, and says which: .T. means that the table has  *)
(* the records that were read, value by value, wherever the buffer was     *)
(* full and whatever quotes, commas and control characters they contain,   *)
(* but for one case: on a nonblocking connection a buffer that             *)
(* PQputCopyData did not take (0, which rddcopy.c compares with -1 only)   *)
(* is lost, and .T. is returned if the server can make rows of the rest.   *)
(* .F. means that the table has none of the records (or that the server's  *)
(* answer was lost).  All fields being copied, it is returned only if      *)
(* something failed or was dropped.                                        *)
CopyAllOrNothing ==
  /\ ret = "true" => table = records \/ (~blocking /\ trouble = "dropped")
  /\ ret = "false" /\ trouble # "answer" => table = <<>>
  /\ ret = "false" /\ fields = FieldCount => trouble # "none"
=============================================================================
