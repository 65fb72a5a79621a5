---------------------------- MODULE MCConfigStore ----------------------------
(***************************************************************************)
(* One light, since the two are alike.  Limits that leave one step: two    *)
(* colours, three modes (two of them waves), two values of the others and  *)
(* one of the caps lock indication.                                        *)
(***************************************************************************)
EXTENDS ConfigStore
=============================================================================
