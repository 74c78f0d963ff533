---------------------------- MODULE MCSetupFlash ----------------------------
(* Fields of two bits: an AND of two contents can be a third one. *)
EXTENDS SetupFlash

MCLow == {{b} : b \in Bit}
MCStack == {Oui, Bit \ Oui}
MCAlnum == {Oui}
=============================================================================
