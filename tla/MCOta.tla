------------------------------- MODULE MCOta -------------------------------
(* An instance of Ota: the delivered image, an update, and a file that is   *)
(* not firmware.                                                            *)
EXTENDS Ota
CONSTANTS v1, v2, text
MCImages == {v1, v2, text}
MCGood == {v1, v2}
=============================================================================
