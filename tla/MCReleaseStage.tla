--------------------------- MODULE MCReleaseStage ---------------------------
(* Instances of ReleaseStage for TLC: the core and one adapter.            *)
EXTENDS ReleaseStage

MCOrder == <<"autonomic", "autonomic_linux">>

Variant(version, form, deps) ==
    [version |-> version, form |-> form, complete |-> TRUE, deps |-> deps]

\* Each package as it is in the repository, moved to its next version, and
\* spoiled: the core depends on its adapter through a path, the adapter has
\* lost its licence file.
MCVariants ==
    [autonomic |->
        { Variant("0.1.0", "hex", {}),
          Variant("0.1.1", "hex", {}),
          Variant("0.1.0", "other", {"autonomic_linux"}) },
     autonomic_linux |->
        { Variant("0.1.0", "helper", {"autonomic"}),
          Variant("0.1.1", "direct", {"autonomic"}),
          [Variant("0.1.0", "helper", {"autonomic"})
             EXCEPT !.complete = FALSE] }]

MCRepoStates == {{}, {"root mix.exs"}}
=============================================================================
