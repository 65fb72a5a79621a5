----------------------------- MODULE MCNkroSplit -----------------------------
(***************************************************************************)
(* Two byte slots and four keys: two keys overflow into the bits.          *)
(***************************************************************************)
EXTENDS NkroSplit
=============================================================================
