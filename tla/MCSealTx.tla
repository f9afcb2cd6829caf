------------------------------ MODULE MCSealTx ------------------------------
(* Instances of SealTx for TLC.                                            *)
EXTENDS SealTx, TLC

CONSTANTS i1, i2, e1, e2

(* Two documents of two external ids: calls with one intent and different  *)
(* keys compete for its external id.                                       *)
MCIntents == {i1, i2}
MCExternalID == (i1 :> e1) @@ (i2 :> e2)
==============================================================================
