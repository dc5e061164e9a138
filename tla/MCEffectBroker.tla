---------------------------- MODULE MCEffectBroker ----------------------------
(* Small instances of EffectBroker for TLC. *)
EXTENDS EffectBroker, TLC

\* A class whose floor is every kind of decision of the instance.
AllKinds == [e \in Effects |-> Kinds]

\* Tasks are interchangeable, and so are payloads; symmetry is used for safety
\* only.
TaskSymmetry == Permutations(Tasks)
TaskAndPayloadSymmetry == Permutations(Tasks) \cup Permutations(Payloads)
=============================================================================
