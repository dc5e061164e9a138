--------------------------- MODULE MCQualityGates ---------------------------
(* Instances of QualityGates for TLC: hosts, trees and --package choices.  *)
EXTENDS QualityGates

Toolchain == {"mix", "cargo", "bash"}
Database == {"psql", "database url", "pg_config", "runuser"}
FullHost == Toolchain \cup Database
            \cup {"AUTONOMIC_LINUX", "root", "live key"}

Run(mode, host, tree, target) ==
    [mode |-> mode, host |-> host, tree |-> tree, target |-> target]

MCSetups ==
    { Run("strict", FullHost, {}, AllProjects),
      Run("handoff", FullHost \ {"live key"}, {}, <<"autonomic">>),
      Run("handoff", FullHost, {"whitespace"}, <<"autonomic">>),
      Run("strict", FullHost, {"lint script", "secret"},
          <<"autonomic_linux">>),
      Run("handoff", FullHost, {"release script"},
          <<"autonomic_acceptance">>),
      Run("strict", FullHost, {}, <<"autonomic_acceptance">>),
      Run("handoff", FullHost, {"manifest"}, <<"autonomic_postgres">>),
      Run("strict", FullHost, {}, << >>),
      Run("handoff", Toolchain, {}, AllProjects),
      Run("strict", Toolchain, {}, <<"autonomic_typesafe">>),
      Run("handoff", FullHost \ {"mix"}, {}, AllProjects),
      Run("handoff", FullHost \ {"cargo", "bash"}, {}, <<"autonomic">>),
      Run("handoff", (FullHost \ {"root", "runuser"}) \cup {"sudo"}, {},
          <<"autonomic">>),
      Run("strict", FullHost \ {"runuser"}, {}, <<"autonomic">>) }
=============================================================================
