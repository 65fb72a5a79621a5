------------------------------ MODULE MCRxFrame ------------------------------
(***************************************************************************)
(* A buffer with room for one frame and a byte.  One payload has the value *)
(* of UART_HEAD in it; stray bytes are UART_HEAD and the length that only  *)
(* just does not fit.                                                      *)
(***************************************************************************)
EXTENDS RxFrame

MCMessages == {<<CMD_RF_STS_SYSC, <<2, UART_HEAD>>>>, <<CMD_READ_DATA, <<1, 2>>>>,
               <<CMD_HAND, << >>>>}
=============================================================================
