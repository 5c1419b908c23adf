--------------------------- MODULE MCLoRARegistry ---------------------------
(* Instances of LoRARegistry for TLC.                                      *)
EXTENDS LoRARegistry

\* One request with a list of two adapters.
MCBatches == {{"b1", "b2"}}
=============================================================================
