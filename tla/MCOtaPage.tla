----------------------------- MODULE MCOtaPage -----------------------------
(* An instance of OtaPage: the delivered image, an update, and a file that  *)
(* is not firmware.                                                         *)
EXTENDS OtaPage
CONSTANTS v1, v2, broken
MCImages == {v1, v2, broken}
MCGood == {v1, v2}
=============================================================================
