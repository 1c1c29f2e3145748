---------------------------- MODULE MCPlayground ----------------------------
(***************************************************************************)
(* A small conversation: two requests, so that an answer can be            *)
(* regenerated, edited or raced by a second one; answers of two chunks,    *)
(* which may come before, around and after a flush; and room for three     *)
(* stored messages, one less than two exchanges have.                      *)
(***************************************************************************)
EXTENDS Playground

MCToken == <<"a", "b">>
=============================================================================
