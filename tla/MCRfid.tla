------------------------------- MODULE MCRfid -------------------------------
(* Instances of RfidManager: three ids, two of them default cards, and room *)
(* for two or three cards.                                                  *)
EXTENDS RfidManager
CONSTANTS admin, user, card
MCIds == {admin, user, card}
MCDefaults == <<admin, user>>
=============================================================================
