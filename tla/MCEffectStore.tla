---------------------------- MODULE MCEffectStore ----------------------------
(* Small instances of EffectStore for TLC. *)
EXTENDS EffectStore

\* Every effect needs every kind of decision.
AllKinds == [e \in Effects |-> Kinds]
=============================================================================
