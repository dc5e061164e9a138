---------------------------- MODULE QualityGates ----------------------------
(***************************************************************************)
(* One run of the conformance suite, scripts/qc.py: the gates in the order *)
(* main() walks them, the command each gate runs and how it is watched     *)
(* (deadline, SIGTERM to its group, five seconds, SIGKILL), the verdict    *)
(* each gate records and the report and exit status that follow.           *)
(*                                                                         *)
(* The commands themselves are the environment: a command may succeed,     *)
(* fail, print no passing test, hang, hang and ignore SIGTERM, or not      *)
(* start at all.  A slow command is one that hangs: only the deadline      *)
(* tells them apart.  `child' is the process the runner launched, the      *)
(* leader of its group: the only one that is polled and waited for.  The   *)
(* signals go to the whole group, but what the leader has started is not   *)
(* modelled and may outlive it.                                            *)
(***************************************************************************)
EXTENDS Naturals, Sequences, FiniteSets, SequencesExt

CONSTANTS
    Setups,     \* the environments a run may start in: a set of records
                \* [mode, host, tree, target]
    MaxFaults   \* how many pairs of a gate and a way to misbehave one run has

VARIABLES
    setup,      \* the environment of this run, fixed when it starts
    pc,         \* what the runner is doing
    row,        \* the row of Plan it has reached
    step,       \* the project of a compound gate it has reached
    failing,    \* overall_code # 0 in run_compound_gate
    tested,     \* the log of the gate holds a "Result: n passed" line
    child,      \* the command the runner watches and the SIGKILLs it was sent
    why,        \* what made it terminate the command
    gates,      \* the status recorded for each gate so far
    report,     \* the report this run has written
    exit,       \* the exit status of the run
    clean,      \* history: the <<gate, project>> commands that exited 0
    dirty       \* history: the gates of which a command misbehaved

vars == <<setup, pc, row, step, failing, tested, child, why, gates, report,
          exit, clean, dirty>>

-----------------------------------------------------------------------------
(* The projects of the repository and the gates a release needs.           *)

Packages == <<"autonomic", "autonomic_linux", "autonomic_postgres",
              "autonomic_typesafe">>

AllProjects == Packages \o <<"autonomic_acceptance">>

Mandatory ==
    {"source_contract_inventory", "secret_scan", "package_boundary_lint",
     "release_check", "hex_release_inspect", "release_tooling_tests",
     "mix_deps_get", "format", "compile_warnings_as_errors", "exunit_full",
     "credo_strict", "dialyzer", "exdoc_warnings_as_errors",
     "rust_launcher_fmt", "rust_launcher_clippy", "rust_launcher_tests",
     "postgresql_integration", "postgresql_epoch_commit_race",
     "db_outage_blocks_authority", "af_unix_effect_broker",
     "git_authoritative_commit_reconciliation", "stale_epoch_race",
     "broker_crash_after_external_mutation_reconciliation",
     "class4_human_horizon", "linux_namespaces_cgroup_seccomp_overlay",
     "old_process_fork_cleanup", "overlay_rollback", "sensor_poisoning",
     "semantic_outage_degradation", "backpressure_load",
     "typesafe_live_evaluate_v4", "coding_agent_normal_repair",
     "coding_agent_violation_repair_epoch2", "host_preflight"}

(***************************************************************************)
(* The plan.  A row says how a gate comes by its status: a check made in   *)
(* the runner, one command, a command per project, or the status of        *)
(* another gate.  `when' names the condition under which main() takes that *)
(* branch; otherwise the gate is recorded as not_run, or, for the one gate *)
(* main() does not mention in the other branch, not recorded.              *)
(***************************************************************************)
Row(id, how, when) ==
    [id |-> id, how |-> how, when |-> when, source |-> id, tests |-> FALSE]

Check(id) == Row(id, "check", "always")
Command(id, when) == Row(id, "command", when)
MixTest(id, when) == [Row(id, "command", when) EXCEPT !.tests = TRUE]
PerProject(id, when) == Row(id, "compound", when)
Alias(id, source, when) == [Row(id, "alias", when) EXCEPT !.source = source]

ReleaseRows ==
    <<Check("source_contract_inventory"),
      Check("secret_scan"),
      Command("release_tooling_tests", "always"),
      Command("package_boundary_lint", "lint script"),
      Command("release_check", "release script"),
      Command("hex_release_inspect", "release script")>>

MixRows ==
    <<PerProject("mix_deps_get", "mix"),
      PerProject("format", "dependencies"),
      PerProject("compile_warnings_as_errors", "dependencies"),
      [PerProject("exunit_full", "dependencies") EXCEPT !.tests = TRUE],
      PerProject("credo_strict", "dependencies"),
      PerProject("dialyzer", "dependencies"),
      PerProject("exdoc_warnings_as_errors", "dependencies")>>

RustRows ==
    <<Command("rust_launcher_fmt", "cargo"),
      Command("rust_launcher_clippy", "cargo"),
      Command("rust_launcher_tests", "cargo")>>

PostgresRows ==
    <<Command("postgresql_migrations", "database"),
      MixTest("postgresql_integration", "migrated"),
      MixTest("class4_human_horizon", "migrated"),
      Alias("postgresql_epoch_commit_race", "postgresql_integration",
            "migrated"),
      Alias("af_unix_effect_broker", "postgresql_integration", "migrated"),
      Alias("git_authoritative_commit_reconciliation",
            "postgresql_integration", "migrated"),
      Alias("stale_epoch_race", "postgresql_integration", "migrated"),
      Alias("broker_crash_after_external_mutation_reconciliation",
            "postgresql_integration", "migrated")>>

OutageRows == <<Command("db_outage_blocks_authority", "postgres server")>>

LinuxRows ==
    <<MixTest("linux_namespaces_cgroup_seccomp_overlay", "linux"),
      Alias("old_process_fork_cleanup",
            "linux_namespaces_cgroup_seccomp_overlay", "linux"),
      Alias("overlay_rollback", "linux_namespaces_cgroup_seccomp_overlay",
            "linux"),
      Alias("semantic_outage_degradation", "exunit_full", "always"),
      Alias("backpressure_load", "postgresql_integration", "always")>>

LiveRows == <<MixTest("typesafe_live_evaluate_v4", "live key")>>

ReferenceRows ==
    <<MixTest("coding_agent_reference", "reference"),
      Alias("coding_agent_normal_repair", "coding_agent_reference",
            "reference"),
      Alias("coding_agent_violation_repair_epoch2", "coding_agent_reference",
            "reference"),
      Alias("sensor_poisoning", "coding_agent_reference", "reference")>>

PreflightRows == <<Command("host_preflight", "bash")>>

Plan == ReleaseRows \o MixRows \o RustRows \o PostgresRows \o OutageRows
        \o LinuxRows \o LiveRows \o ReferenceRows \o PreflightRows

\* The gates main() leaves out of the list when it does not run them.
Unmentioned == {"postgresql_migrations"}

(***************************************************************************)
(* The rows are distinct gates, and a gate takes its status from itself or *)
(* from an earlier row that has its own.  The plan has no parameter: TLC's *)
(* evaluation of this is all there is to it.                               *)
(***************************************************************************)
ASSUME PlanAssumption ==
    /\ Plan \in Seq([id : STRING, how : {"check", "command", "compound", "alias"},
                     when : STRING, source : STRING, tests : BOOLEAN])
    /\ \A i, j \in 1 .. Len(Plan) : Plan[i].id = Plan[j].id => i = j
    /\ \A i \in 1 .. Len(Plan) : \E j \in 1 .. i :
          /\ Plan[j].id = Plan[i].source /\ Plan[j].how # "alias"
          /\ Plan[i].how # "alias" => j = i

-----------------------------------------------------------------------------
(* What main() asks of the host and of the gates recorded so far.          *)

Has(tool) == tool \in setup.host

Green(id) == id \in DOMAIN gates /\ gates[id] = "passed"

DbReady == Has("mix") /\ Has("psql") /\ Has("database url")

LinuxReady == /\ Has("mix") /\ Has("cargo") /\ Has("AUTONOMIC_LINUX")
              /\ Has("root") \/ Has("sudo")

PgServerTools == /\ Has("root") => Has("runuser")
                 /\ Has("pg_config")

Holds(when) ==
    CASE when = "always"          -> TRUE
      [] when = "lint script"     -> "lint script" \notin setup.tree
      [] when = "release script"  -> "release script" \notin setup.tree
      [] when = "mix"             -> Has("mix")
      [] when = "dependencies"    -> Has("mix") /\ Green("mix_deps_get")
      [] when = "cargo"           -> /\ Has("cargo")
                                     /\ "manifest" \notin setup.tree
      [] when = "database"        -> DbReady
      [] when = "migrated"        -> DbReady /\ Green("postgresql_migrations")
      [] when = "postgres server" -> Has("mix") /\ PgServerTools
      [] when = "linux"           -> LinuxReady
      [] when = "live key"        -> Has("mix") /\ Has("live key")
      [] when = "reference"       -> DbReady /\ LinuxReady
      [] when = "bash"            -> Has("bash")

\* The projects a compound gate visits: credo, dialyzer and exdoc are run in
\* the published packages only.
Published(target) == SelectSeq(target, LAMBDA p : p \in ToSet(Packages))

Projects(id) ==
    IF id \in {"credo_strict", "dialyzer", "exdoc_warnings_as_errors"}
      THEN Published(setup.target) ELSE setup.target

(***************************************************************************)
(* The two checks the runner makes itself.  setup.tree names what is wrong *)
(* with the tree: a required file that is missing (the two scripts and the *)
(* launcher's manifest by name, the others together), a JSON file or a     *)
(* manifest that does not parse, a line with trailing space, a secret in a *)
(* file small enough to be read.                                           *)
(***************************************************************************)
StaticInventory ==
    IF setup.tree \cap {"lint script", "release script", "manifest",
                        "required file", "unparsable", "whitespace"} = {}
      THEN "passed" ELSE "failed"

SecretScan ==
    IF "secret" \notin setup.tree THEN "passed" ELSE "failed"

\* A run visits projects of the repository; what is left of a list when some
\* are taken out is a list.
ASSUME SetupsAssumption ==
    \A s \in Setups : {s.target, Published(s.target)} \subseteq Seq(ToSet(AllProjects))

-----------------------------------------------------------------------------
Outcomes == {"ok", "bad", "empty", "hang", "deaf", "unstartable"}

NoChild == [outcome |-> "ok", up |-> FALSE, kills |-> 0]

Init ==
    /\ setup \in Setups
    /\ pc = "start" /\ row = 1 /\ step = 1
    /\ failing = FALSE /\ tested = FALSE
    /\ child = NoChild /\ why = "none"
    /\ gates = << >>
    /\ report = {} /\ exit = "none"
    /\ clean = {} /\ dirty = {}

history == <<clean, dirty>>
watch == <<child, why>>

Current == Plan[row]
AtGate == pc = "gates" /\ row <= Len(Plan)

\* The commands of a gate, by the project they run in.
Steps(r) == IF r.how = "compound" THEN Projects(r.id) ELSE <<"root">>

\* main() reads its arguments: an unknown --package ends it before any gate.
Start ==
    /\ pc = "start"
    /\ IF setup.target = << >>
         THEN pc' = "exited" /\ exit' = "1"
         ELSE pc' = "gates" /\ UNCHANGED exit
    /\ UNCHANGED <<setup, row, step, failing, tested, watch, gates, report,
                   history>>

Record(id, status) ==
    /\ gates' = [g \in DOMAIN gates \cup {id} |-> IF g = id THEN status ELSE gates[g]]
    /\ row' = row + 1 /\ step' = 1
    /\ failing' = FALSE /\ tested' = FALSE
    /\ UNCHANGED <<setup, pc, watch, report, exit, history>>

\* pending(): the condition of a gate does not hold.
Pending ==
    /\ AtGate /\ ~Holds(Current.when)
    /\ IF Current.id \in Unmentioned
         THEN /\ row' = row + 1
              /\ UNCHANGED <<setup, pc, step, failing, tested, watch, gates,
                             report, exit, history>>
         ELSE Record(Current.id, "not_run")

InspectTree ==
    /\ AtGate /\ Current.how = "check"
    /\ Record(Current.id, IF Current.id = "secret_scan" THEN SecretScan
                                                        ELSE StaticInventory)

\* add_alias_gate(): one gate takes the status of another, whatever it is.
AddAliasGate ==
    /\ AtGate /\ Current.how = "alias" /\ Holds(Current.when)
    /\ Record(Current.id, IF Current.source \in DOMAIN gates
                            THEN gates[Current.source] ELSE "not_run")

(***************************************************************************)
(* A command is launched in a session of its own.  The runner goes on to   *)
(* the next project after a command that failed; after one that timed out  *)
(* or could not be launched it leaves the gate.                            *)
(***************************************************************************)
Launch(outcome) ==
    /\ AtGate /\ Current.how \in {"command", "compound"}
    /\ Holds(Current.when)
    /\ step <= Len(Steps(Current))
    /\ outcome = "empty" => Current.tests
    /\ dirty' = IF outcome = "ok" THEN dirty
                ELSE dirty \cup {<<Current.id, outcome>>}
    /\ Cardinality(dirty') <= MaxFaults
    /\ IF outcome = "unstartable"
         THEN /\ failing' = TRUE
              /\ step' = Len(Steps(Current)) + 1
              /\ UNCHANGED <<pc, child>>
         ELSE /\ pc' = "running"
              /\ child' = [outcome |-> outcome, up |-> TRUE, kills |-> 0]
              /\ UNCHANGED <<failing, step>>
    /\ UNCHANGED <<setup, row, tested, why, gates, report, exit, clean>>

\* The environment: a command ends by itself.
CommandEnds ==
    /\ pc = "running" /\ child.up
    /\ child.outcome \in {"ok", "bad", "empty"}
    /\ child' = [child EXCEPT !.up = FALSE]
    /\ UNCHANGED <<setup, pc, row, step, failing, tested, why, gates, report,
                   exit, history>>

\* Slip: the last project's return code is the gate's.
ReapLast ==
    /\ pc = "running" /\ ~child.up
    /\ pc' = "gates" /\ step' = step + 1
    /\ failing' = (child.outcome = "bad")
    /\ tested' = (tested \/ (child.outcome = "ok" /\ Current.tests))
    /\ clean' = IF child.outcome = "bad" THEN clean
                ELSE clean \cup {<<Current.id, Steps(Current)[step]>>}
    /\ UNCHANGED <<setup, row, watch, gates, report, exit, dirty>>

\* The poll of _run_logged_command sees the return code.
Reap ==
    /\ pc = "running" /\ ~child.up
    /\ pc' = "gates" /\ step' = step + 1
    /\ failing' = (failing \/ child.outcome = "bad")
    /\ tested' = (tested \/ (child.outcome = "ok" /\ Current.tests))
    /\ clean' = IF child.outcome = "bad" THEN clean
                ELSE clean \cup {<<Current.id, Steps(Current)[step]>>}
    /\ UNCHANGED <<setup, row, watch, gates, report, exit, dirty>>

TimesOut ==
    /\ pc = "running" /\ child.up /\ child.outcome \in {"hang", "deaf"}
    /\ pc' = "terminating" /\ why' = "deadline"
    /\ UNCHANGED <<setup, row, step, failing, tested, child, gates, report,
                   exit, history>>

\* The exception leaves the gate: a deadline fails it, Ctrl-C ends the run.
GateFails ==
    /\ pc' = "gates" /\ failing' = TRUE
    /\ step' = Len(Steps(Current)) + 1
    /\ UNCHANGED <<why, exit>>

Abort(reason) ==
    /\ pc' = "aborted" /\ exit' = "1" /\ why' = reason
    /\ UNCHANGED <<failing, step>>

(***************************************************************************)
(* Ctrl-C while a command is watched: no gate catches it, main() ends.  In *)
(* the loop, its termination after the deadline included, the handler      *)
(* terminates the command; in the handler itself the exception goes        *)
(* straight through.                                                       *)
(***************************************************************************)
Interrupt ==
    /\ \/ /\ pc = "running" \/ (pc = "terminating" /\ why = "deadline")
          /\ pc' = "terminating" /\ why' = "interrupt"
          /\ UNCHANGED <<failing, step, exit>>
       \/ pc = "terminating" /\ why = "interrupt" /\ Abort("interrupted twice")
       \/ pc = "killing" /\ Abort("interrupt")
    /\ UNCHANGED <<setup, row, tested, child, gates, report, history>>

\* The environment: a command obeys SIGTERM, or cannot refuse SIGKILL.
Dies ==
    /\ child.up /\ pc # "running"
    /\ child.outcome # "deaf" \/ child.kills > 0
    /\ child' = [child EXCEPT !.up = FALSE]
    /\ UNCHANGED <<setup, pc, row, step, failing, tested, why, gates, report,
                   exit, history>>

\* process.wait(timeout=5) returns; after a deadline the handler's own call
\* finds the command gone.
Terminated ==
    /\ pc = "terminating" /\ ~child.up
    /\ IF why = "interrupt" THEN Abort(why) ELSE GateFails
    /\ UNCHANGED <<setup, row, tested, child, gates, report, history>>

SigKill == child' = [child EXCEPT !.kills = @ + 1]

\* Slip: a command that ignores SIGTERM is waited for.
GraceForever ==
    /\ pc = "terminating" /\ child.up
    /\ child.outcome # "deaf"
    /\ SigKill
    /\ IF why = "interrupt" THEN Abort(why)
       ELSE pc' = "killing" /\ UNCHANGED <<failing, step, why, exit>>
    /\ UNCHANGED <<setup, row, tested, gates, report, history>>

\* process.wait(timeout=5) does not: SIGKILL to the group, without waiting.  After
\* an interrupt that was the handler's call and ends the run.
GraceOver ==
    /\ pc = "terminating" /\ child.up
    /\ SigKill
    /\ IF why = "interrupt" THEN Abort(why)
       ELSE pc' = "killing" /\ UNCHANGED <<failing, step, why, exit>>
    /\ UNCHANGED <<setup, row, tested, gates, report, history>>

\* Slip: the handler raises at once, without a call of its own.
KilledUnwaited ==
    /\ pc = "killing"
    /\ GateFails
    /\ UNCHANGED <<setup, row, tested, child, gates, report, history>>

(***************************************************************************)
(* The deadline raises inside the loop's own handler, which terminates the *)
(* command a second time: another SIGTERM, five more seconds for the       *)
(* killed command to be gone and, if it is not, another SIGKILL.  Then the *)
(* gate is left whatever has become of the command.                        *)
(***************************************************************************)
Killed ==
    /\ pc = "killing"
    /\ IF child.up THEN SigKill ELSE UNCHANGED child
    /\ GateFails
    /\ UNCHANGED <<setup, row, tested, gates, report, history>>

\* The verdict of run_gate and of run_compound_gate: every command exited 0
\* and, for a test suite, its log holds a result line.
Verdict(r) ==
    IF failing \/ (r.tests /\ ~tested) THEN "failed" ELSE "passed"

Conclude ==
    /\ AtGate /\ Current.how \in {"command", "compound"}
    /\ Holds(Current.when)
    /\ step > Len(Steps(Current))
    /\ Record(Current.id, Verdict(Current))

(***************************************************************************)
(* The report: mandatory gates that are not in the list are added as       *)
(* not_run, and the exit status is drawn from the list.  The code's pass   *)
(* over duplicates keeps, of two entries of one gate, the one that ran;    *)
(* the rows of Plan are distinct, so there is none.                        *)
(***************************************************************************)
NotGreen(g) == {id \in Mandatory : g[id] # "passed"}

\* Slip: only a strict run fails.
WriteReportLenient ==
    /\ pc = "gates" /\ row > Len(Plan)
    /\ gates' = [id \in DOMAIN gates \cup Mandatory |->
                    IF id \in DOMAIN gates THEN gates[id] ELSE "not_run"]
    /\ report' = {[mode |-> setup.mode,
                   release_ready |-> NotGreen(gates') = {}]}
    /\ exit' = IF setup.mode = "strict" /\ NotGreen(gates') # {}
                 THEN "1" ELSE "0"
    /\ pc' = "exited"
    /\ UNCHANGED <<setup, row, step, failing, tested, watch, history>>

WriteReport ==
    /\ pc = "gates" /\ row > Len(Plan)
    /\ gates' = [id \in DOMAIN gates \cup Mandatory |->
                    IF id \in DOMAIN gates THEN gates[id] ELSE "not_run"]
    /\ report' = {[mode |-> setup.mode,
                   release_ready |-> NotGreen(gates') = {}]}
    /\ exit' = IF \/ \E id \in DOMAIN gates' : gates'[id] = "failed"
                  \/ setup.mode = "strict" /\ NotGreen(gates') # {}
                 THEN "1" ELSE "0"
    /\ pc' = "exited"
    /\ UNCHANGED <<setup, row, step, failing, tested, watch, history>>

Runner ==
    \/ Start \/ Pending \/ InspectTree \/ AddAliasGate
    \/ \E outcome \in Outcomes : Launch(outcome)
    \/ Reap \/ TimesOut \/ Terminated \/ GraceOver \/ Killed
    \/ Conclude \/ WriteReport

Next == Runner \/ CommandEnds \/ Dies \/ Interrupt

(***************************************************************************)
(* The runner is one process whose waits are all bounded; a command that   *)
(* is not hanging ends.  Nothing is assumed of the others: they need not   *)
(* even die when they are killed.  Nobody is obliged to interrupt the run. *)
(***************************************************************************)
Spec == Init /\ [][Next]_vars
        /\ WF_vars(Runner) /\ WF_vars(CommandEnds)

-----------------------------------------------------------------------------
Ids == {Plan[i].id : i \in 1 .. Len(Plan)}
RowOf(id) == CHOOSE r \in ToSet(Plan) : r.id = id

(***************************************************************************)
(* A gate that the report calls passed was earned in this very run, by     *)
(* itself or by the gate it takes its status from: each command of it was  *)
(* launched and exited 0, and none of them misbehaved.  A status copied    *)
(* before its source ran, a project skipped after a timeout or a failure   *)
(* overwritten by a later success would break it.  (An empty suite among   *)
(* several is a clean command: exunit_full looks for one result line.)     *)
(***************************************************************************)
GreenMeansExecuted ==
    \A id \in DOMAIN gates :
        LET source == RowOf(RowOf(id).source)
        IN gates[id] = "passed" /\ source.how # "check" =>
             /\ \A p \in ToSet(Steps(source)) : <<source.id, p>> \in clean
             /\ \A outcome \in Outcomes :
                  <<source.id, outcome>> \in dirty =>
                      outcome = "empty" /\ source.how = "compound"

(***************************************************************************)
(* The exit status tells.  0 is never returned after a command failed,     *)
(* hung or could not be launched, in either mode; in strict mode it is     *)
(* returned only if every mandatory gate is green.  And it is returned     *)
(* only by a run that has written its report and had a project to run in.  *)
(***************************************************************************)
ExitTellsFailures ==
    exit = "0" =>
        /\ report # {} /\ setup.target # << >>
        /\ \A d \in dirty : d[2] = "empty"
        /\ setup.mode = "strict" => \A id \in Mandatory : gates[id] = "passed"

(***************************************************************************)
(* The commands share the build directories.  One that is still there when *)
(* the runner has moved on to the next project or gate has outlived two    *)
(* SIGKILLs and the five seconds between them; one that is left behind by  *)
(* an interrupted run has been sent one, unless the operator did not wait  *)
(* for that.  It speaks of the process the runner launched: what that      *)
(* process started may outlive it unnoticed.                               *)
(***************************************************************************)
SurvivorsWereKilled ==
    child.up =>
      /\ pc \in {"gates", "exited"} => child.kills = 2
      /\ pc = "aborted" /\ why # "interrupted twice" => child.kills > 0

(***************************************************************************)
(* Every run ends, whatever its commands do: each is watched up to a       *)
(* deadline and not waited for without bound after it.                     *)
(***************************************************************************)
RunEnds == <>(pc \in {"exited", "aborted"})
=============================================================================
