----------------------------- MODULE MCRfReport ------------------------------
(***************************************************************************)
(* One byte slot and two keys, so that the second key overflows into the   *)
(* bit report, and the smallest queue that can hold what one send makes.   *)
(***************************************************************************)
EXTENDS RfReport

\* States that differ only in what is overwritten before it is read count as one:
\* what the host knows of a command that no property speaks of (the next report
\* of that command replaces it), and report_buff once the 25 ms are over (the
\* next report taken from the queue replaces it).
View ==
    <<rf_state, f_dial_sw_init_ok, no_act_time, nkro, kb, dequeue_due, rejoined,
      [tx EXCEPT !.host = [c \in KeyCmd |-> IF c \in Unknown(tx) THEN Released ELSE @[c]],
                 !.buff = IF dequeue_due THEN NoReport ELSE @]>>
=============================================================================
