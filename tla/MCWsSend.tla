------------------------------ MODULE MCWsSend ------------------------------
(***************************************************************************)
(* Module WsSend on a small instance: more messages than the queue holds,  *)
(* so that a full buffer drops the oldest.                                 *)
(***************************************************************************)
EXTENDS WsSend
=============================================================================
