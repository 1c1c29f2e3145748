--------------------------- MODULE MCSessionCache ---------------------------
(***************************************************************************)
(* Two goroutines that read and fill, one that revokes, a cache lifetime   *)
(* of two ticks and one change of the version.                             *)
(***************************************************************************)
EXTENDS SessionCache
=============================================================================
