---------------------------- MODULE ReleaseStage ----------------------------
(***************************************************************************)
(* The release tooling: scripts/release.py (check, stage, build, inspect), *)
(* scripts/lint_package_boundaries.py, which check runs, and               *)
(* scripts/verify_packages.py, which inspects and then tries what it       *)
(* inspected outside the workspace.                                        *)
(*                                                                         *)
(* Every invocation of one version works in the one directory              *)
(* _release_stage/<version> and nothing locks it: conformance runs and     *)
(* people start invocations at any time, the sources are edited meanwhile, *)
(* and an invocation may be killed at any step and leave the directory as  *)
(* it is.  A file is known by the source revision it was made from.        *)
(***************************************************************************)
EXTENDS Naturals, Sequences, FiniteSets

CONSTANTS
    TopologicalOrder,  \* the packages in the order they are published
    Version,           \* the version of the release
    Variants,          \* for each package, what an edit may make of it: a set
                       \* of records [version, form, complete, deps]
    RepoStates,        \* what else may be wrong with the checkout
    Runs,              \* the invocations
    Commands,          \* what they are asked to do
    MaxRevision,       \* how often the sources are edited
    MaxCrashes         \* how many invocations are killed

Packages == {TopologicalOrder[i] : i \in 1 .. Len(TopologicalOrder)}
Last == Len(TopologicalOrder)

ASSUME StageAssumption ==
    /\ TopologicalOrder \in Seq(Packages) /\ TopologicalOrder # << >>
    /\ MaxRevision \in Nat /\ MaxCrashes \in Nat

VARIABLES
    revision,   \* of the checkout
    source,     \* the package sources: a variant and the revision it is of
    repo,       \* what is wrong outside the packages
    staged,     \* the package directory of the stage: {} or one package
    tars,       \* the tar files in that directory
    tarballs,   \* the tar files collected in tarballs/
    unpacked,   \* the package directory in unpacked/: {} or one package
    dirs,       \* which of tarballs/ and unpacked/ exist
    run,        \* the invocations
    crashes

disk == <<staged, tars, tarballs, unpacked, dirs>>
checkout == <<revision, source, repo>>
vars == <<checkout, disk, run, crashes>>

-----------------------------------------------------------------------------
(* The boundary lint, and the metadata check: see `form' and `complete'.   *)

\* Slip: the core may depend on its Linux adapter.
ForbiddenRulesWithoutLinux ==
    [autonomic |-> {"autonomic_postgres", "autonomic_typesafe",
                    "autonomic_store", "autonomic_kernel", "ecto_sql",
                    "postgrex", "typesafe_sdk"},
     autonomic_linux |-> {"autonomic_postgres", "autonomic_typesafe",
                          "autonomic_store"},
     autonomic_postgres |-> {"autonomic_linux", "autonomic_typesafe"},
     autonomic_typesafe |-> {"autonomic_linux", "autonomic_postgres",
                             "autonomic_store"}]

ForbiddenRules ==
    [autonomic |-> {"autonomic_linux", "autonomic_postgres",
                    "autonomic_typesafe", "autonomic_store",
                    "autonomic_kernel", "ecto_sql", "postgrex",
                    "typesafe_sdk"},
     autonomic_linux |-> {"autonomic_postgres", "autonomic_typesafe",
                          "autonomic_store"},
     autonomic_postgres |-> {"autonomic_linux", "autonomic_typesafe"},
     autonomic_typesafe |-> {"autonomic_linux", "autonomic_postgres",
                             "autonomic_store"}]

\* The packages of the order are ones the lint has rules for, the core is first,
\* and no package is named twice.
ASSUME OrderAssumption ==
    /\ Packages \subseteq DOMAIN ForbiddenRules
    /\ TopologicalOrder[1] = "autonomic"
    /\ \A i, j \in 1 .. Last : TopologicalOrder[i] = TopologicalOrder[j] => i = j

Lints(p, s) ==
    /\ s.deps \cap ForbiddenRules[p] = {}
    /\ p # "autonomic" => "autonomic" \in s.deps
    /\ s.form \notin {"umbrella", "apps_path"}
    /\ "autonomic_examples_dev" \notin s.deps

(***************************************************************************)
(* How a package names its siblings in mix.exs: "hex", by version; through *)
(* the helper function or the direct path tuple of the checkout, which     *)
(* staging rewrites; or in an umbrella ("umbrella") or by some other path  *)
(* ("other"), which it does not.  Or a setting of the whole project points *)
(* out of it: "apps_path", which the lint knows, or "settings" for         *)
(* build_path, deps_path, config_path and lockfile, which staging alone    *)
(* looks for.                                                              *)
(***************************************************************************)
Rewritten(form) == IF form \in {"helper", "direct"} THEN "hex" ELSE form

\* Slip: tar files are copied.
ExcludePatternsWithoutTar ==
    {"_build", "deps", ".git", "target", "var", ".env", ".beam",
     "priv/autonomic_launcher"}

\* What copy_package_files leaves behind.
ExcludePatterns == {"_build", "deps", ".git", "target", "var", ".env", ".tar",
                    ".beam", "priv/autonomic_launcher"}

\* A tar file that somebody built in the package's own source directory.
StrayTar ==
    [revision |-> 0, version |-> "stray", form |-> "hex", complete |-> TRUE,
     deps |-> {}]

CopiedTars == IF ".tar" \in ExcludePatterns THEN {} ELSE {StrayTar}

\* A tar file is named after its package and version: a second one of the
\* same name replaces the first.
Put(files, f) == {g \in files : g.version # f.version} \cup {f}

-----------------------------------------------------------------------------
\* A package of the checkout at a revision.
Source(v, n) ==
    [version |-> v.version, form |-> v.form, complete |-> v.complete,
     deps |-> v.deps, revision |-> n]
SourcesAt(p, n) == {Source(v, n) : v \in Variants[p]}

Idle == [command |-> "none", pc |-> "idle", n |-> 1, ok |-> TRUE,
         built |-> {}, seen |-> << >>, oldest |-> << >>, exit |-> "none"]

Init ==
    /\ revision = 0
    /\ source \in {f \in [Packages -> UNION {SourcesAt(p, 0) : p \in Packages}] :
                       \A p \in Packages : f[p] \in SourcesAt(p, 0)}
    /\ repo \in RepoStates
    /\ staged = [p \in Packages |-> {}]
    /\ tars = [p \in Packages |-> {}]
    /\ tarballs = [p \in Packages |-> {}]
    /\ unpacked = [p \in Packages |-> {}]
    /\ dirs = {}
    /\ run = [r \in Runs |-> Idle]
    /\ crashes = 0

At(r, pc) == run[r].pc = pc
Package(r) == TopologicalOrder[run[r].n]
Working(r) == run[r].pc \notin {"idle", "done"}

\* The next step of an invocation, for the same package or the next one.
Go(r, pc) == run' = [run EXCEPT ![r].pc = pc]
\* The return value: 0 or 1.
Return(r, code) ==
    run' = [run EXCEPT ![r].pc = "done", ![r].exit = code, ![r].built = {}]
\* Go through the packages at `pc', then start again at `after'.
Loop(rec, pc, after) ==
    IF rec.n < Last THEN [rec EXCEPT !.n = @ + 1, !.pc = pc]
                    ELSE [rec EXCEPT !.n = 1, !.pc = after]

\* The revisions an invocation is judged by (`oldest'): those of the sources
\* when the first of the invocations it overlaps began.
Revisions == [p \in Packages |-> source[p].revision]

(***************************************************************************)
(* Somebody starts an invocation.                                          *)
(***************************************************************************)
Start(r, command) ==
    LET others == {q \in Runs : Working(q)}
        shared == {Revisions} \cup {run[q].oldest : q \in others}
        oldest == [p \in Packages |->
                      CHOOSE v \in {f[p] : f \in shared} :
                          \A f \in shared : v <= f[p]]
    IN /\ At(r, "idle")
       /\ run' = [q \in Runs |->
                    IF q = r
                      THEN [Idle EXCEPT !.command = command,
                                        !.pc = IF command = "check"
                                                 THEN "lint" ELSE "versions",
                                        !.oldest = oldest]
                      ELSE run[q]]
       /\ UNCHANGED <<checkout, disk, crashes>>

Edit(p, v) ==
    /\ revision < MaxRevision
    /\ revision' = revision + 1
    /\ source' = [source EXCEPT ![p] = Source(v, revision + 1)]
    /\ UNCHANGED <<repo, disk, run, crashes>>

\* An invocation is killed; what it wrote stays.  The `mix hex.build' it leaves
\* running ends here too: the directory it would still write to is removed by an
\* invocation that starts later, or shared with one that the dead one overlaps.
Crash(r) ==
    /\ Working(r) /\ crashes < MaxCrashes
    /\ crashes' = crashes + 1
    /\ Return(r, "killed")
    /\ UNCHANGED <<checkout, disk>>

-----------------------------------------------------------------------------
(* check: the lint reads every package, then the metadata is read again.   *)

Lint(r) ==
    /\ At(r, "lint")
    /\ LET p == Package(r)
           ok == run[r].ok /\ Lints(p, source[p]) /\ repo = {}
           seen == [q \in DOMAIN run[r].seen \cup {p} |->
                      IF q = p THEN source[p] ELSE run[r].seen[q]]
           next == Loop([run[r] EXCEPT !.ok = ok, !.seen = seen],
                        "lint", "metadata")
       IN run' = [run EXCEPT ![r] =
                    IF next.pc = "metadata" /\ ~ok
                      THEN [next EXCEPT !.pc = "done", !.exit = "1"]
                      ELSE next]
    /\ UNCHANGED <<checkout, disk, crashes>>

Metadata(r) ==
    /\ At(r, "metadata")
    /\ run' = [run EXCEPT ![r] =
                 IF ~source[Package(r)].complete
                   THEN [@ EXCEPT !.pc = "done", !.exit = "1"]
                 ELSE IF @.n < Last THEN [@ EXCEPT !.n = run[r].n + 1]
                 ELSE [@ EXCEPT !.pc = "done", !.exit = "0"]]
    /\ UNCHANGED <<checkout, disk, crashes>>

-----------------------------------------------------------------------------
(* stage                                                                   *)

\* Only the version of the core is compared with the version asked for.
ReadVersions(r) ==
    /\ At(r, "versions")
    /\ IF source["autonomic"].version = Version
         THEN Go(r, "clear") ELSE Return(r, "1")
    /\ UNCHANGED <<checkout, disk, crashes>>

\* Slip: what was built is kept.
ClearStageKeepsTars(r) ==
    /\ At(r, "clear")
    /\ staged' = [p \in Packages |-> {}]
    /\ tarballs' = [p \in Packages |-> {}]
    /\ unpacked' = [p \in Packages |-> {}]
    /\ dirs' = {}
    /\ Go(r, "copy")
    /\ UNCHANGED <<checkout, tars, crashes>>

\* rmtree and mkdir of the version's directory.
ClearStage(r) ==
    /\ At(r, "clear")
    /\ staged' = [p \in Packages |-> {}]
    /\ tars' = [p \in Packages |-> {}]
    /\ tarballs' = [p \in Packages |-> {}]
    /\ unpacked' = [p \in Packages |-> {}]
    /\ dirs' = {}
    /\ Go(r, "copy")
    /\ UNCHANGED <<checkout, crashes>>

CopyPackage(r) ==
    /\ At(r, "copy")
    /\ LET p == Package(r)
       IN /\ staged' = [staged EXCEPT ![p] = {source[p]}]
          /\ tars' = [tars EXCEPT ![p] = @ \cup CopiedTars]
    /\ Go(r, "rewrite")
    /\ UNCHANGED <<checkout, tarballs, unpacked, dirs, crashes>>

\* Reads the staged mix.exs, which another invocation may have removed.
RewriteDependencies(r) ==
    LET p == Package(r)
        staging == run[r].command = "stage"
    IN /\ At(r, "rewrite")
       /\ \/ /\ \A s \in staged[p] : Rewritten(s.form) # "hex"
             /\ Return(r, "1") /\ UNCHANGED staged
          \/ \E s \in staged[p] :
                /\ Rewritten(s.form) = "hex"
                /\ staged' = [staged EXCEPT ![p] = {[s EXCEPT !.form = "hex"]}]
                /\ run' = [run EXCEPT ![r] =
                     IF staging /\ @.n = Last
                       THEN [@ EXCEPT !.pc = "done", !.exit = "0"]
                       ELSE Loop(@, "copy", "tarballs")]
       /\ UNCHANGED <<checkout, tars, tarballs, unpacked, dirs, crashes>>

-----------------------------------------------------------------------------
(* build                                                                   *)

MakeTarballs(r) ==
    /\ At(r, "tarballs")
    /\ dirs' = dirs \cup {"tarballs"}
    /\ Go(r, "build")
    /\ UNCHANGED <<checkout, staged, tars, tarballs, unpacked, crashes>>

(***************************************************************************)
(* mix hex.build is a process of its own: it reads the staged package and, *)
(* a while later, writes the tar file into the same directory.  It may     *)
(* fail; it fails if the directory is not there.                           *)
(***************************************************************************)
HexBuildReads(r) ==
    LET p == Package(r)
    IN /\ At(r, "build")
       /\ \/ Return(r, "1")
          \/ /\ staged[p] # {}
             /\ run' = [run EXCEPT ![r].pc = "building",
                                   ![r].built = staged[p]]
       /\ UNCHANGED <<checkout, disk, crashes>>

HexBuildWrites(r) ==
    LET p == Package(r)
    IN /\ At(r, "building")
       /\ IF staged[p] = {}
            THEN Return(r, "1") /\ UNCHANGED tars
            ELSE /\ \E t \in run[r].built :
                      tars' = [tars EXCEPT ![p] = Put(@, t)]
                 /\ run' = [run EXCEPT ![r].pc = "collect", ![r].built = {}]
       /\ UNCHANGED <<checkout, staged, tarballs, unpacked, dirs, crashes>>

\* The first tar file the glob finds is copied to tarballs/.
CollectTar(r) ==
    LET p == Package(r)
        building == run[r].command = "build"
    IN /\ At(r, "collect")
       /\ \/ /\ tars[p] = {} \/ "tarballs" \notin dirs
             /\ Return(r, "1") /\ UNCHANGED tarballs
          \/ /\ "tarballs" \in dirs
             /\ \E t \in tars[p] :
                   tarballs' = [tarballs EXCEPT ![p] = Put(@, t)]
             /\ run' = [run EXCEPT ![r] =
                  IF building /\ @.n = Last
                    THEN [@ EXCEPT !.pc = "done", !.exit = "0"]
                    ELSE Loop(@, "build", "unpack")]
       /\ UNCHANGED <<checkout, staged, tars, unpacked, dirs, crashes>>

-----------------------------------------------------------------------------
(* inspect                                                                 *)

ClearUnpacked(r) ==
    /\ At(r, "unpack")
    /\ unpacked' = [p \in Packages |-> {}]
    /\ dirs' = dirs \cup {"unpacked"}
    /\ Go(r, "inspect")
    /\ UNCHANGED <<checkout, staged, tars, tarballs, crashes>>

\* The assertions command_inspect makes of one unpacked package: a path: or an
\* umbrella is found, a setting whose name merely ends in _path is not.
MeetsCriteria(t) == t.form \in {"hex", "apps_path", "settings"} /\ t.complete

\* Slip: the last package decides.
InspectPackageLast(r) ==
    LET p == Package(r)
    IN /\ At(r, "inspect")
       /\ \/ /\ tarballs[p] = {}
             /\ Return(r, "1") /\ UNCHANGED <<unpacked, dirs>>
          \/ \E t \in tarballs[p] :
                LET seen == [q \in DOMAIN run[r].seen \cup {p} |->
                               IF q = p THEN t ELSE run[r].seen[q]]
                    next == Loop([run[r] EXCEPT !.ok = MeetsCriteria(t),
                                                !.seen = seen],
                                 "inspect", "inspected")
                IN /\ unpacked' = [unpacked EXCEPT ![p] = {t}]
                   /\ dirs' = dirs \cup {"unpacked"}
                   /\ run' = [run EXCEPT ![r] = next]
       /\ UNCHANGED <<checkout, staged, tars, tarballs, crashes>>

\* inspection_passed is never set back: one bad package fails the run.
InspectPackage(r) ==
    LET p == Package(r)
    IN /\ At(r, "inspect")
       /\ \/ /\ tarballs[p] = {}
             /\ Return(r, "1") /\ UNCHANGED <<unpacked, dirs>>
          \/ \E t \in tarballs[p] :
                LET ok == run[r].ok /\ MeetsCriteria(t)
                    seen == [q \in DOMAIN run[r].seen \cup {p} |->
                               IF q = p THEN t ELSE run[r].seen[q]]
                    next == Loop([run[r] EXCEPT !.ok = ok, !.seen = seen],
                                 "inspect", "inspected")
                IN /\ unpacked' = [unpacked EXCEPT ![p] = {t}]
                   /\ dirs' = dirs \cup {"unpacked"}
                   /\ run' = [run EXCEPT ![r] = next]
       /\ UNCHANGED <<checkout, staged, tars, tarballs, crashes>>

InspectReturns(r) ==
    /\ At(r, "inspected")
    /\ IF run[r].ok /\ run[r].command = "verify"
         THEN Go(r, "serve")
         ELSE Return(r, IF run[r].ok THEN "0" ELSE "1")
    /\ UNCHANGED <<checkout, disk, crashes>>

-----------------------------------------------------------------------------
(* verify_packages.py: the tar files go to a registry of its own, then     *)
(* every unpacked package is copied out, compiled and tested there.  Each  *)
(* command is run with check=True: one that fails ends the script.         *)

ServeTarballs(r) ==
    /\ At(r, "serve")
    /\ IF \E p \in Packages : tarballs[p] # {}
         THEN Go(r, "isolate") ELSE Return(r, "1")
    /\ UNCHANGED <<checkout, disk, crashes>>

IsolatePackage(r) ==
    LET p == Package(r)
    IN /\ At(r, "isolate")
       /\ \/ Return(r, "1")
          \/ \E t \in unpacked[p] :
                run' = [run EXCEPT ![r] =
                   IF @.n < Last
                     THEN [@ EXCEPT !.n = run[r].n + 1, !.seen[p] = t]
                     ELSE [@ EXCEPT !.pc = "done", !.exit = "0",
                                    !.seen[p] = t]]
       /\ UNCHANGED <<checkout, disk, crashes>>

-----------------------------------------------------------------------------
Step(r) ==
    \/ Lint(r) \/ Metadata(r)
    \/ ReadVersions(r) \/ ClearStage(r) \/ CopyPackage(r)
    \/ RewriteDependencies(r)
    \/ MakeTarballs(r) \/ HexBuildReads(r) \/ HexBuildWrites(r)
    \/ CollectTar(r)
    \/ ClearUnpacked(r) \/ InspectPackage(r) \/ InspectReturns(r)
    \/ ServeTarballs(r) \/ IsolatePackage(r)

Next ==
    \/ \E r \in Runs : Step(r) \/ Crash(r)
    \/ \E r \in Runs, c \in Commands : Start(r, c)
    \/ \E p \in Packages : \E v \in Variants[p] : Edit(p, v)

Spec == Init /\ [][Next]_vars

-----------------------------------------------------------------------------
Inspecting == {"inspect", "verify"}
PassedRuns == {r \in Runs : run[r].exit = "0"}

\* The shape of the state: one package in a directory, and an exit status
\* exactly when the invocation is over.
StageTypeOK ==
    /\ revision \in 0 .. MaxRevision /\ crashes \in 0 .. MaxCrashes
    /\ \A p \in Packages :
          /\ Cardinality(staged[p]) <= 1 /\ Cardinality(unpacked[p]) <= 1
          /\ source[p].revision <= revision
          /\ staged[p] = {} => tars[p] = {}
          /\ "tarballs" \notin dirs => tarballs[p] = {}
          /\ "unpacked" \notin dirs => unpacked[p] = {}
    /\ \A r \in Runs :
          /\ run[r].n \in 1 .. Last
          /\ run[r].exit = "none" <=> run[r].pc # "done"

(***************************************************************************)
(* "Always rebuild from current source, never silently reuse stale         *)
(* staging": nothing an inspection or a verification has passed was made   *)
(* from a source older than what the checkout held when the first of the   *)
(* invocations that overlap it began.  What a finished or a killed         *)
(* invocation left behind - staged files, a tar file of another version,   *)
(* a tarball, an unpacked package - is never taken for this release.       *)
(* (Two invocations that do overlap may hand each other what each of them  *)
(* has read.)                                                              *)
(***************************************************************************)
PassedIsFresh ==
    \A r \in PassedRuns :
        run[r].command \in Inspecting =>
            \A p \in Packages :
                run[r].seen[p].revision >= run[r].oldest[p]

(***************************************************************************)
(* An inspection that passes has met, in every package, a mix.exs without  *)
(* a sibling by path or umbrella and the files a package needs, though     *)
(* another invocation may have put an unrewritten copy of the sources      *)
(* under the build it inspects, and though the last package may be fine.   *)
(***************************************************************************)
PassedIsDecoupled ==
    \A r \in PassedRuns :
        run[r].command = "inspect" =>
            \A p \in Packages : MeetsCriteria(run[r].seen[p])

(***************************************************************************)
(* The order that is printed as the order of publication is one: in the    *)
(* sources a passing check has read, no package depends on a package that  *)
(* is published after it.                                                  *)
(***************************************************************************)
Before(p) ==
    {TopologicalOrder[i] : i \in
        {j \in 1 .. Last : \E k \in j + 1 .. Last : TopologicalOrder[k] = p}}

CheckedOrderIsPublishable ==
    \A r \in PassedRuns :
        run[r].command = "check" =>
            \A p \in Packages :
                run[r].seen[p].deps \cap (Packages \ {p}) \subseteq Before(p)
=============================================================================
