--------------------------- MODULE MCEffectIngress ---------------------------
(* Instances of EffectIngress for TLC.                                     *)
EXTENDS EffectIngress, TLC

MCSources == {"effect_queue", "semantic_queue"}
=============================================================================
