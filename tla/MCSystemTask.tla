---------------------------- MODULE MCSystemTask ----------------------------
(***************************************************************************)
(* Two runners, of which one may crash, and two tasks, so that the type is *)
(* used again after a task has ended; one database error.                  *)
(***************************************************************************)
EXTENDS SystemTask
=============================================================================
