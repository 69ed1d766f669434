---------------------------- MODULE MCEvidencePack ----------------------------
(* Model checking of EvidencePack: every order of the commands, with the      *)
(* recorder and the logger of PX4 at any point between them.                   *)
EXTENDS EvidencePack
=============================================================================
