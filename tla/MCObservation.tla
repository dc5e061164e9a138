--------------------------- MODULE MCObservation ---------------------------
(* Instances of Observation for TLC.                                       *)
EXTENDS Observation

Shape(hard, critical, candidate) ==
    [hard |-> hard, critical |-> critical, candidate |-> candidate]

\* An ordinary frame, one that makes the Homeostat uncertain, a violation,
\* and a critical frame with a fact only the array calls hard.
MCShapes ==
    { Shape("none", FALSE, "stable"),
      Shape("none", FALSE, "uncertain"),
      Shape("violation", FALSE, "stable"),
      Shape("boundary", TRUE, "unstable") }
=============================================================================
