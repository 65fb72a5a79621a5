---------------------------- MODULE MCFlashEeprom ----------------------------
(***************************************************************************)
(* One word that is logged by the byte and one that is logged by the word, *)
(* one page of image and two of log.  With bytes 0 and 1 a word is 0 or 1  *)
(* (encoded in its entry), 256 or 257 (in a second half-word).             *)
(***************************************************************************)
EXTENDS FlashEeprom
=============================================================================
