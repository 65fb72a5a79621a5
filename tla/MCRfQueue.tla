------------------------------ MODULE MCRfQueue ------------------------------
(***************************************************************************)
(* A four-slot rf_queue.c with two reports: the indices go round, the      *)
(* queue fills up and empties.                                             *)
(***************************************************************************)
EXTENDS RfQueue
=============================================================================
