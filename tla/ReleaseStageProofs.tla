-------------------------- MODULE ReleaseStageProofs --------------------------
(***************************************************************************)
(* What a check, an inspection or a verification that passed says of the   *)
(* packages, for any number of packages, invocations, edits and crashes.   *)
(***************************************************************************)
EXTENDS ReleaseStage, FiniteSetTheorems, TLAPS

Met(rec, p) == p \in DOMAIN rec.seen /\ MeetsCriteria(rec.seen[p])

(***************************************************************************)
(* Why exit status 0 of an inspection is earned: as long as nothing was    *)
(* found wrong, every package before the one the loop has reached has been *)
(* read and meets the criteria, and no other part of the tool ends with 0  *)
(* for that command.                                                       *)
(***************************************************************************)
Shape(rec) ==
    rec = [command |-> rec.command, pc |-> rec.pc, n |-> rec.n,
           ok |-> rec.ok, built |-> rec.built, seen |-> rec.seen,
           oldest |-> rec.oldest, exit |-> rec.exit]

Earned(rec) ==
    /\ Shape(rec)
    /\ rec.n \in Nat \ {0}
    /\ rec.pc \in {"lint", "metadata"} => rec.command = "check"
    /\ rec.pc \in {"serve", "isolate"} => rec.command = "verify"
    /\ rec.pc = "unpack" => rec.n = 1
    /\ rec.pc = "inspect" =>
         (rec.ok => \A i \in 1 .. Last :
                       i < rec.n => Met(rec, TopologicalOrder[i]))
    /\ rec.pc = "inspected" => (rec.ok => \A p \in Packages : Met(rec, p))
    /\ rec.exit = "0" /\ rec.command = "inspect" =>
         rec.pc = "done" /\ \A p \in Packages : Met(rec, p)

Inv ==
    /\ run = [q \in Runs |-> run[q]]
    /\ \A r \in Runs : Earned(run[r])

\* There are finitely many packages.
LEMMA LastIsNat == Last \in Nat
BY StageAssumption DEF StageAssumption, Last

\* The ways the steps below change an invocation's record; each keeps its
\* shape and the fields it does not name.
Ends(rec, code) == [rec EXCEPT !.pc = "done", !.exit = code]
Returns(rec, code) == [rec EXCEPT !.pc = "done", !.exit = code, !.built = {}]
Builds(rec, pc, files) == [rec EXCEPT !.pc = pc, !.built = files]
Sees(rec, ok, seen) == [rec EXCEPT !.ok = ok, !.seen = seen]
Tries(rec, p, t) == [rec EXCEPT !.n = @ + 1, !.seen[p] = t]
Passes(rec, p, t) == [rec EXCEPT !.pc = "done", !.exit = "0", !.seen[p] = t]

\* An invocation that returns.
LEMMA EndsType ==
    ASSUME NEW rec, Shape(rec), NEW code
    PROVE  /\ Shape(Ends(rec, code))
           /\ Ends(rec, code).command = rec.command
           /\ Ends(rec, code).n = rec.n
           /\ Ends(rec, code).seen = rec.seen
           /\ Ends(rec, code).pc = "done"
           /\ Ends(rec, code).exit = code
           /\ Ends(rec, code).oldest = rec.oldest
           /\ Ends(rec, code).ok = rec.ok
           /\ Ends(rec, code).built = rec.built
<1> DEFINE one == [rec EXCEPT !.pc = "done"]
           two == [one EXCEPT !.exit = code]
<1>1. Ends(rec, code) = two
    BY DEF Ends, Shape
<1>2. one =
            [command |-> rec.command, pc |-> "done", n |-> rec.n,
             ok |-> rec.ok, built |-> rec.built, seen |-> rec.seen,
             oldest |-> rec.oldest, exit |-> rec.exit]
    BY DEF Shape
<1> HIDE DEF one
<1>3. two =
            [command |-> rec.command, pc |-> "done", n |-> rec.n,
             ok |-> rec.ok, built |-> rec.built, seen |-> rec.seen,
             oldest |-> rec.oldest, exit |-> code]
    BY <1>2
<1> HIDE DEF two
<1> QED BY <1>1, <1>3 DEF Shape

\* An invocation that returns and forgets what it was building.
LEMMA ReturnsType ==
    ASSUME NEW rec, Shape(rec), NEW code
    PROVE  /\ Shape(Returns(rec, code))
           /\ Returns(rec, code).command = rec.command
           /\ Returns(rec, code).n = rec.n
           /\ Returns(rec, code).seen = rec.seen
           /\ Returns(rec, code).pc = "done"
           /\ Returns(rec, code).exit = code
           /\ Returns(rec, code).oldest = rec.oldest
           /\ Returns(rec, code).ok = rec.ok
           /\ Returns(rec, code).built = {}
<1> DEFINE one == [rec EXCEPT !.pc = "done"]
           two == [one EXCEPT !.exit = code]
           three == [two EXCEPT !.built = {}]
<1>1. Returns(rec, code) = three
    BY DEF Returns, Shape
<1>2. one =
            [command |-> rec.command, pc |-> "done", n |-> rec.n,
             ok |-> rec.ok, built |-> rec.built, seen |-> rec.seen,
             oldest |-> rec.oldest, exit |-> rec.exit]
    BY DEF Shape
<1> HIDE DEF one
<1>3. two =
            [command |-> rec.command, pc |-> "done", n |-> rec.n,
             ok |-> rec.ok, built |-> rec.built, seen |-> rec.seen,
             oldest |-> rec.oldest, exit |-> code]
    BY <1>2
<1> HIDE DEF two
<1>4. three =
            [command |-> rec.command, pc |-> "done", n |-> rec.n,
             ok |-> rec.ok, built |-> {}, seen |-> rec.seen,
             oldest |-> rec.oldest, exit |-> code]
    BY <1>3
<1> HIDE DEF three
<1> QED BY <1>1, <1>4 DEF Shape

\* An invocation at hex.build.
LEMMA BuildsType ==
    ASSUME NEW rec, Shape(rec), NEW pc, NEW files
    PROVE  /\ Shape(Builds(rec, pc, files))
           /\ Builds(rec, pc, files).command = rec.command
           /\ Builds(rec, pc, files).n = rec.n
           /\ Builds(rec, pc, files).exit = rec.exit
           /\ Builds(rec, pc, files).pc = pc
           /\ Builds(rec, pc, files).oldest = rec.oldest
           /\ Builds(rec, pc, files).ok = rec.ok
           /\ Builds(rec, pc, files).built = files
           /\ Builds(rec, pc, files).seen = rec.seen
<1> DEFINE one == [rec EXCEPT !.pc = pc]
           two == [one EXCEPT !.built = files]
<1>1. Builds(rec, pc, files) = two
    BY DEF Builds, Shape
<1>2. one =
            [command |-> rec.command, pc |-> pc, n |-> rec.n,
             ok |-> rec.ok, built |-> rec.built, seen |-> rec.seen,
             oldest |-> rec.oldest, exit |-> rec.exit]
    BY DEF Shape
<1> HIDE DEF one
<1>3. two =
            [command |-> rec.command, pc |-> pc, n |-> rec.n,
             ok |-> rec.ok, built |-> files, seen |-> rec.seen,
             oldest |-> rec.oldest, exit |-> rec.exit]
    BY <1>2
<1> HIDE DEF two
<1> QED BY <1>1, <1>3 DEF Shape

\* An invocation that has read a package.
LEMMA SeesType ==
    ASSUME NEW rec, Shape(rec), NEW ok, NEW seen
    PROVE  /\ Shape(Sees(rec, ok, seen))
           /\ Sees(rec, ok, seen).command = rec.command
           /\ Sees(rec, ok, seen).n = rec.n
           /\ Sees(rec, ok, seen).exit = rec.exit
           /\ Sees(rec, ok, seen).pc = rec.pc
           /\ Sees(rec, ok, seen).ok = ok
           /\ Sees(rec, ok, seen).seen = seen
           /\ Sees(rec, ok, seen).oldest = rec.oldest
           /\ Sees(rec, ok, seen).built = rec.built
<1> DEFINE one == [rec EXCEPT !.ok = ok]
           two == [one EXCEPT !.seen = seen]
<1>1. Sees(rec, ok, seen) = two
    BY DEF Sees, Shape
<1>2. one =
            [command |-> rec.command, pc |-> rec.pc, n |-> rec.n,
             ok |-> ok, built |-> rec.built, seen |-> rec.seen,
             oldest |-> rec.oldest, exit |-> rec.exit]
    BY DEF Shape
<1> HIDE DEF one
<1>3. two =
            [command |-> rec.command, pc |-> rec.pc, n |-> rec.n,
             ok |-> ok, built |-> rec.built, seen |-> seen,
             oldest |-> rec.oldest, exit |-> rec.exit]
    BY <1>2
<1> HIDE DEF two
<1> QED BY <1>1, <1>3 DEF Shape

\* A verification that has tried a package.
LEMMA TriesType ==
    ASSUME NEW rec, Shape(rec), NEW p, NEW t
    PROVE  /\ Shape(Tries(rec, p, t))
           /\ Tries(rec, p, t).command = rec.command
           /\ Tries(rec, p, t).n = rec.n + 1
           /\ Tries(rec, p, t).pc = rec.pc
           /\ Tries(rec, p, t).exit = rec.exit
           /\ Tries(rec, p, t).oldest = rec.oldest
           /\ Tries(rec, p, t).ok = rec.ok
           /\ Tries(rec, p, t).built = rec.built
<1> DEFINE one == [rec EXCEPT !.n = @ + 1]
           two == [one EXCEPT !.seen = [rec.seen EXCEPT ![p] = t]]
<1>1. Tries(rec, p, t) = two
    BY DEF Tries, Shape
<1>2. one =
            [command |-> rec.command, pc |-> rec.pc, n |-> rec.n + 1,
             ok |-> rec.ok, built |-> rec.built, seen |-> rec.seen,
             oldest |-> rec.oldest, exit |-> rec.exit]
    BY DEF Shape
<1> HIDE DEF one
<1>3. two =
            [command |-> rec.command, pc |-> rec.pc, n |-> rec.n + 1,
             ok |-> rec.ok, built |-> rec.built, seen |-> [rec.seen EXCEPT ![p] = t],
             oldest |-> rec.oldest, exit |-> rec.exit]
    BY <1>2
<1> HIDE DEF two
<1> QED BY <1>1, <1>3 DEF Shape

\* What it has read then.
LEMMA TriesSeen ==
    ASSUME NEW rec, Shape(rec), NEW p, NEW t
    PROVE  Tries(rec, p, t).seen = [rec.seen EXCEPT ![p] = t]
<1> DEFINE one == [rec EXCEPT !.n = @ + 1]
           two == [one EXCEPT !.seen = [rec.seen EXCEPT ![p] = t]]
<1>1. Tries(rec, p, t) = two
    BY DEF Tries, Shape
<1>2. one =
            [command |-> rec.command, pc |-> rec.pc, n |-> rec.n + 1,
             ok |-> rec.ok, built |-> rec.built, seen |-> rec.seen,
             oldest |-> rec.oldest, exit |-> rec.exit]
    BY DEF Shape
<1> HIDE DEF one
<1>3. two =
            [command |-> rec.command, pc |-> rec.pc, n |-> rec.n + 1,
             ok |-> rec.ok, built |-> rec.built, seen |-> [rec.seen EXCEPT ![p] = t],
             oldest |-> rec.oldest, exit |-> rec.exit]
    BY <1>2
<1> HIDE DEF two
<1> QED BY <1>1, <1>3 DEF Shape

\* A verification that has tried the last one.
LEMMA PassesType ==
    ASSUME NEW rec, Shape(rec), NEW p, NEW t
    PROVE  /\ Shape(Passes(rec, p, t))
           /\ Passes(rec, p, t).command = rec.command
           /\ Passes(rec, p, t).n = rec.n
           /\ Passes(rec, p, t).pc = "done"
           /\ Passes(rec, p, t).exit = "0"
           /\ Passes(rec, p, t).oldest = rec.oldest
           /\ Passes(rec, p, t).ok = rec.ok
           /\ Passes(rec, p, t).built = rec.built
<1> DEFINE one == [rec EXCEPT !.pc = "done"]
           two == [one EXCEPT !.exit = "0"]
           three == [two EXCEPT !.seen = [rec.seen EXCEPT ![p] = t]]
<1>1. Passes(rec, p, t) = three
    BY DEF Passes, Shape
<1>2. one =
            [command |-> rec.command, pc |-> "done", n |-> rec.n,
             ok |-> rec.ok, built |-> rec.built, seen |-> rec.seen,
             oldest |-> rec.oldest, exit |-> rec.exit]
    BY DEF Shape
<1> HIDE DEF one
<1>3. two =
            [command |-> rec.command, pc |-> "done", n |-> rec.n,
             ok |-> rec.ok, built |-> rec.built, seen |-> rec.seen,
             oldest |-> rec.oldest, exit |-> "0"]
    BY <1>2
<1> HIDE DEF two
<1>4. three =
            [command |-> rec.command, pc |-> "done", n |-> rec.n,
             ok |-> rec.ok, built |-> rec.built, seen |-> [rec.seen EXCEPT ![p] = t],
             oldest |-> rec.oldest, exit |-> "0"]
    BY <1>3
<1> HIDE DEF three
<1> QED BY <1>1, <1>4 DEF Shape

\* What it has read then.
LEMMA PassesSeen ==
    ASSUME NEW rec, Shape(rec), NEW p, NEW t
    PROVE  Passes(rec, p, t).seen = [rec.seen EXCEPT ![p] = t]
<1> DEFINE one == [rec EXCEPT !.pc = "done"]
           two == [one EXCEPT !.exit = "0"]
           three == [two EXCEPT !.seen = [rec.seen EXCEPT ![p] = t]]
<1>1. Passes(rec, p, t) = three
    BY DEF Passes, Shape
<1>2. one =
            [command |-> rec.command, pc |-> "done", n |-> rec.n,
             ok |-> rec.ok, built |-> rec.built, seen |-> rec.seen,
             oldest |-> rec.oldest, exit |-> rec.exit]
    BY DEF Shape
<1> HIDE DEF one
<1>3. two =
            [command |-> rec.command, pc |-> "done", n |-> rec.n,
             ok |-> rec.ok, built |-> rec.built, seen |-> rec.seen,
             oldest |-> rec.oldest, exit |-> "0"]
    BY <1>2
<1> HIDE DEF two
<1>4. three =
            [command |-> rec.command, pc |-> "done", n |-> rec.n,
             ok |-> rec.ok, built |-> rec.built, seen |-> [rec.seen EXCEPT ![p] = t],
             oldest |-> rec.oldest, exit |-> "0"]
    BY <1>3
<1> HIDE DEF three
<1> QED BY <1>1, <1>4 DEF Shape

\* An invocation moves and the others stay.
LEMMA OneMoves ==
    ASSUME Inv, NEW r \in Runs, NEW rec, Earned(rec),
           run' = [run EXCEPT ![r] = rec]
    PROVE  Inv'
BY DEF Inv, Earned, Shape, Met

\* The invocations do not depend on anything but themselves.
LEMMA NobodyMoves ==
    ASSUME Inv, UNCHANGED run
    PROVE  Inv'
BY DEF Inv, Earned, Shape, Met

\* Going on to another place where nothing is promised yet.
LEMMA GoKeepsInv ==
    ASSUME Inv, NEW r \in Runs, NEW pc, Working(r), Go(r, pc),
           \/ pc \in {"clear", "copy", "rewrite", "build"}
           \/ pc = "inspect" /\ run[r].n = 1
           \/ pc \in {"serve", "isolate"} /\ run[r].command = "verify"
    PROVE  Inv'
<1> DEFINE rec == [run[r] EXCEPT !.pc = pc]
<1>1. run' = [run EXCEPT ![r] = rec]
    BY DEF Go, Inv
<1>2. Earned(run[r]) /\ run[r].pc # "done"
    BY DEF Inv, Working
<1>3. /\ rec.pc = pc /\ rec.n = run[r].n /\ rec.command = run[r].command
      /\ rec.exit = run[r].exit /\ rec.seen = run[r].seen /\ Shape(rec)
    BY <1>2 DEF Earned, Shape
<1> HIDE DEF rec
<1>4. Earned(rec)
    BY <1>2, <1>3 DEF Earned
<1> QED BY <1>1, <1>4, OneMoves

\* Returning promises something for an inspection that returns 0 only.
LEMMA ReturnKeepsInv ==
    ASSUME Inv, NEW r \in Runs, NEW code, Return(r, code),
           code = "0" /\ run[r].command = "inspect" =>
               \A p \in Packages : Met(run[r], p)
    PROVE  Inv'
<1> DEFINE rec == Returns(run[r], code)
<1>1. run' = [run EXCEPT ![r] = rec]
    BY DEF Return, Returns, Inv
<1>2. Earned(run[r])
    BY DEF Inv
<1>3. /\ rec.pc = "done" /\ rec.n = run[r].n /\ rec.command = run[r].command
      /\ rec.exit = code /\ rec.seen = run[r].seen /\ Shape(rec)
    BY <1>2, ReturnsType DEF Earned
<1> HIDE DEF rec
<1>4. Earned(rec)
    BY <1>2, <1>3 DEF Earned, Met
<1> QED BY <1>1, <1>4, OneMoves

\* A step within the parts of the tool no promise is about: staging and
\* building, the lint, and the isolated tests.
LEMMA PlainKeepsInv ==
    ASSUME Inv, NEW r \in Runs, NEW rec, run' = [run EXCEPT ![r] = rec],
           Shape(rec), rec.n \in Nat \ {0}, rec.command = run[r].command,
           rec.pc \notin {"inspect", "inspected"},
           rec.pc \in {"lint", "metadata"} => rec.command = "check",
           rec.pc \in {"serve", "isolate"} => rec.command = "verify",
           rec.pc = "unpack" => rec.n = 1,
           rec.exit = "0" => rec.command # "inspect"
    PROVE  Inv'
<1>1. Earned(rec)
    BY DEF Earned
<1> QED BY <1>1, OneMoves

\* Where a loop over the packages goes on.
LEMMA LoopGoes ==
    ASSUME NEW rec, Shape(rec), rec.n \in Nat \ {0}, NEW pc, NEW after
    PROVE  LET next == Loop(rec, pc, after)
           IN /\ Shape(next)
              /\ next.command = rec.command /\ next.ok = rec.ok
              /\ next.seen = rec.seen /\ next.exit = rec.exit
              /\ next.oldest = rec.oldest /\ next.built = rec.built
              /\ \/ rec.n < Last /\ next.n = rec.n + 1 /\ next.pc = pc
                 \/ ~(rec.n < Last) /\ next.n = 1 /\ next.pc = after
<1>1. rec = [command |-> rec.command, pc |-> rec.pc, n |-> rec.n,
             ok |-> rec.ok, built |-> rec.built, seen |-> rec.seen,
             oldest |-> rec.oldest, exit |-> rec.exit]
    BY DEF Shape
<1>2. CASE rec.n < Last
    <2>1. Loop(rec, pc, after) =
            [command |-> rec.command, pc |-> pc, n |-> rec.n + 1,
             ok |-> rec.ok, built |-> rec.built, seen |-> rec.seen,
             oldest |-> rec.oldest, exit |-> rec.exit]
        BY <1>1, <1>2 DEF Loop
    <2> QED BY <1>2, <2>1 DEF Shape
<1>3. CASE ~(rec.n < Last)
    <2>1. Loop(rec, pc, after) =
            [command |-> rec.command, pc |-> after, n |-> 1,
             ok |-> rec.ok, built |-> rec.built, seen |-> rec.seen,
             oldest |-> rec.oldest, exit |-> rec.exit]
        BY <1>1, <1>3 DEF Loop
    <2> QED BY <1>3, <2>1 DEF Shape
<1> QED BY <1>2, <1>3

-----------------------------------------------------------------------------
(* check and stage                                                         *)

\* The lint belongs to check and returns 1 or goes on.
LEMMA LintKeepsInv ==
    ASSUME Inv, NEW r \in Runs, Lint(r)
    PROVE  Inv'
<1> DEFINE ok == run[r].ok /\ Lints(Package(r), source[Package(r)]) /\ repo = {}
           seen == [q \in DOMAIN run[r].seen \cup {Package(r)} |->
                      IF q = Package(r) THEN source[Package(r)]
                      ELSE run[r].seen[q]]
           before == Sees(run[r], ok, seen)
           next == Loop(before, "lint", "metadata")
           rec == IF next.pc = "metadata" /\ ~ok
                    THEN Ends(next, "1")
                    ELSE next
<1>1. Earned(run[r]) /\ run[r].pc = "lint"
    BY DEF Inv, Lint, At
<1>2. run' = [run EXCEPT ![r] = rec]
    BY DEF Lint, Sees, Ends
<1> HIDE DEF ok, seen
<1>3. /\ Shape(before) /\ before.n = run[r].n
      /\ before.command = run[r].command /\ before.exit = run[r].exit
    BY <1>1, SeesType DEF Earned
<1> HIDE DEF before
<1>4. before.n \in Nat \ {0} /\ before.command = "check"
    BY <1>1, <1>3 DEF Earned
<1>5. /\ Shape(next) /\ next.command = "check" /\ next.n \in Nat \ {0}
      /\ next.pc \in {"lint", "metadata"}
    BY <1>3, <1>4, LoopGoes
<1> HIDE DEF next
<1>6. /\ Shape(rec) /\ rec.command = "check" /\ rec.n = next.n
      /\ rec.pc \in {"lint", "metadata", "done"}
    <2>1. CASE next.pc = "metadata" /\ ~ok
        <3>1. rec = Ends(next, "1")
            BY <2>1
        <3> QED BY <1>5, <3>1, EndsType
    <2>2. CASE ~(next.pc = "metadata" /\ ~ok)
        <3>1. rec = next
            BY <2>2
        <3> QED BY <1>5, <3>1
    <2> QED BY <2>1, <2>2
<1> HIDE DEF rec
<1>7. rec.command = run[r].command
    BY <1>3, <1>4, <1>6
<1> QED BY <1>2, <1>5, <1>6, <1>7, PlainKeepsInv

\* The metadata are read by check, which alone returns 0 here.
LEMMA MetadataKeepsInv ==
    ASSUME Inv, NEW r \in Runs, Metadata(r)
    PROVE  Inv'
<1> DEFINE failed == Ends(run[r], "1")
           further == [run[r] EXCEPT !.n = @ + 1]
           passed == Ends(run[r], "0")
<1>1. Earned(run[r]) /\ run[r].pc = "metadata"
    BY DEF Inv, Metadata, At
<1>2. \/ run' = [run EXCEPT ![r] = failed]
      \/ run' = [run EXCEPT ![r] = further]
      \/ run' = [run EXCEPT ![r] = passed]
    <2> DEFINE rec == IF ~source[Package(r)].complete
                        THEN [run[r] EXCEPT !.pc = "done", !.exit = "1"]
                      ELSE IF run[r].n < Last THEN [run[r] EXCEPT !.n = @ + 1]
                      ELSE [run[r] EXCEPT !.pc = "done", !.exit = "0"]
    <2>1. run' = [run EXCEPT ![r] = rec]
        BY DEF Metadata
    <2>2. rec = failed \/ rec = further \/ rec = passed
        BY DEF Ends
    <2> HIDE DEF rec, failed, further, passed
    <2> QED BY <2>1, <2>2
<1>3. run[r].command = "check"
    BY <1>1 DEF Earned
<1>4. /\ Shape(failed) /\ failed.command = "check" /\ failed.n = run[r].n
      /\ failed.pc = "done"
    BY <1>1, <1>3, EndsType DEF Earned
<1>5. /\ Shape(further) /\ further.command = "check"
      /\ further.n = run[r].n + 1 /\ further.pc = "metadata"
    BY <1>1, <1>3 DEF Earned, Shape
<1>6. /\ Shape(passed) /\ passed.command = "check" /\ passed.n = run[r].n
      /\ passed.pc = "done"
    BY <1>1, <1>3, EndsType DEF Earned
<1> HIDE DEF failed, further, passed
<1>7. run[r].n \in Nat \ {0} /\ run[r].n + 1 \in Nat \ {0}
    BY <1>1 DEF Earned
<1>8. CASE run' = [run EXCEPT ![r] = failed]
    BY <1>3, <1>4, <1>7, <1>8, PlainKeepsInv
<1>9. CASE run' = [run EXCEPT ![r] = further]
    BY <1>3, <1>5, <1>7, <1>9, PlainKeepsInv
<1>10. CASE run' = [run EXCEPT ![r] = passed]
    BY <1>3, <1>6, <1>7, <1>10, PlainKeepsInv
<1> QED BY <1>2, <1>8, <1>9, <1>10

\* Staging returns 0 here for the command stage only.
LEMMA RewriteKeepsInv ==
    ASSUME Inv, NEW r \in Runs, RewriteDependencies(r)
    PROVE  Inv'
<1> DEFINE passed == Ends(run[r], "0")
           next == Loop(run[r], "copy", "tarballs")
<1>1. Earned(run[r]) /\ run[r].pc = "rewrite"
    BY DEF Inv, RewriteDependencies, At
<1>2. \/ Return(r, "1")
      \/ run[r].command = "stage" /\ run' = [run EXCEPT ![r] = passed]
      \/ run' = [run EXCEPT ![r] = next]
    BY DEF RewriteDependencies, Ends, Inv
<1>3. CASE Return(r, "1")
    BY <1>3, ReturnKeepsInv
<1>4. CASE run[r].command = "stage" /\ run' = [run EXCEPT ![r] = passed]
    <2>1. /\ Shape(passed) /\ passed.command = "stage"
          /\ passed.n = run[r].n /\ passed.pc = "done"
        BY <1>1, <1>4, EndsType DEF Earned
    <2>2. run[r].n \in Nat \ {0}
        BY <1>1 DEF Earned
    <2> HIDE DEF passed
    <2> QED BY <1>4, <2>1, <2>2, PlainKeepsInv
<1>5. CASE run' = [run EXCEPT ![r] = next]
    <2>1. /\ Shape(next) /\ next.command = run[r].command
          /\ next.n \in Nat \ {0} /\ next.pc \in {"copy", "tarballs"}
          /\ next.exit = run[r].exit
        BY <1>1, LoopGoes DEF Earned
    <2>2. next.exit = "0" => next.command # "inspect"
        BY <1>1, <2>1 DEF Earned
    <2> HIDE DEF next
    <2> QED BY <1>5, <2>1, <2>2, PlainKeepsInv
<1> QED BY <1>2, <1>3, <1>4, <1>5

-----------------------------------------------------------------------------
(* build, inspect and verify                                               *)

\* Building reads what is staged.
LEMMA HexBuildReadsKeepsInv ==
    ASSUME Inv, NEW r \in Runs, HexBuildReads(r)
    PROVE  Inv'
<1> DEFINE rec == Builds(run[r], "building", staged[Package(r)])
<1>1. Earned(run[r]) /\ run[r].pc = "build"
    BY DEF Inv, HexBuildReads, At
<1>2. Return(r, "1") \/ run' = [run EXCEPT ![r] = rec]
    BY DEF HexBuildReads, Builds, Inv
<1>3. CASE Return(r, "1")
    BY <1>3, ReturnKeepsInv
<1>4. CASE run' = [run EXCEPT ![r] = rec]
    <2>1. /\ Shape(rec) /\ rec.command = run[r].command /\ rec.n = run[r].n
          /\ rec.pc = "building" /\ rec.exit = run[r].exit
        BY <1>1, BuildsType DEF Earned
    <2>2. run[r].n \in Nat \ {0} /\ (run[r].exit = "0" => run[r].command # "inspect")
        BY <1>1 DEF Earned
    <2> HIDE DEF rec
    <2> QED BY <1>4, <2>1, <2>2, PlainKeepsInv
<1> QED BY <1>2, <1>3, <1>4

\* Building writes the tar file.
LEMMA HexBuildWritesKeepsInv ==
    ASSUME Inv, NEW r \in Runs, HexBuildWrites(r)
    PROVE  Inv'
<1> DEFINE rec == Builds(run[r], "collect", {})
<1>1. Earned(run[r]) /\ run[r].pc = "building"
    BY DEF Inv, HexBuildWrites, At
<1>2. Return(r, "1") \/ run' = [run EXCEPT ![r] = rec]
    BY DEF HexBuildWrites, Builds, Inv
<1>3. CASE Return(r, "1")
    BY <1>3, ReturnKeepsInv
<1>4. CASE run' = [run EXCEPT ![r] = rec]
    <2>1. /\ Shape(rec) /\ rec.command = run[r].command /\ rec.n = run[r].n
          /\ rec.pc = "collect" /\ rec.exit = run[r].exit
        BY <1>1, BuildsType DEF Earned
    <2>2. run[r].n \in Nat \ {0} /\ (run[r].exit = "0" => run[r].command # "inspect")
        BY <1>1 DEF Earned
    <2> HIDE DEF rec
    <2> QED BY <1>4, <2>1, <2>2, PlainKeepsInv
<1> QED BY <1>2, <1>3, <1>4

\* Building returns 0 for the command build only; else inspection begins.
LEMMA CollectTarKeepsInv ==
    ASSUME Inv, NEW r \in Runs, CollectTar(r)
    PROVE  Inv'
<1> DEFINE passed == Ends(run[r], "0")
           next == Loop(run[r], "build", "unpack")
<1>1. Earned(run[r]) /\ run[r].pc = "collect"
    BY DEF Inv, CollectTar, At
<1>2. \/ Return(r, "1")
      \/ run[r].command = "build" /\ run' = [run EXCEPT ![r] = passed]
      \/ run' = [run EXCEPT ![r] = next]
    BY DEF CollectTar, Ends, Inv
<1>3. CASE Return(r, "1")
    BY <1>3, ReturnKeepsInv
<1>4. CASE run[r].command = "build" /\ run' = [run EXCEPT ![r] = passed]
    <2>1. /\ Shape(passed) /\ passed.command = "build"
          /\ passed.n = run[r].n /\ passed.pc = "done"
        BY <1>1, <1>4, EndsType DEF Earned
    <2>2. run[r].n \in Nat \ {0}
        BY <1>1 DEF Earned
    <2> HIDE DEF passed
    <2> QED BY <1>4, <2>1, <2>2, PlainKeepsInv
<1>5. CASE run' = [run EXCEPT ![r] = next]
    <2>0. Shape(run[r]) /\ run[r].n \in Nat \ {0}
        BY <1>1 DEF Earned
    <2>1. /\ Shape(next) /\ next.command = run[r].command
          /\ next.n \in Nat \ {0} /\ next.exit = run[r].exit
          /\ next.pc \in {"build", "unpack"}
          /\ next.pc = "unpack" => next.n = 1
        BY <2>0, LoopGoes
    <2>2. next.exit = "0" => next.command # "inspect"
        BY <1>1, <2>1 DEF Earned
    <2> HIDE DEF next
    <2> QED BY <1>5, <2>1, <2>2, PlainKeepsInv
<1> QED BY <1>2, <1>3, <1>4, <1>5

\* The package the loop is at joins those that were read.
LEMMA InspectPackageKeepsInv ==
    ASSUME Inv, NEW r \in Runs, InspectPackage(r)
    PROVE  Inv'
<1> DEFINE p == Package(r)
<1>1. Earned(run[r]) /\ run[r].pc = "inspect"
    BY DEF Inv, InspectPackage, At
<1>2. CASE Return(r, "1")
    BY <1>2, ReturnKeepsInv
<1>3. ASSUME NEW t \in tarballs[p],
             LET ok == run[r].ok /\ MeetsCriteria(t)
                 seen == [q \in DOMAIN run[r].seen \cup {p} |->
                            IF q = p THEN t ELSE run[r].seen[q]]
             IN run' = [run EXCEPT ![r] =
                          Loop([run[r] EXCEPT !.ok = ok, !.seen = seen],
                               "inspect", "inspected")]
      PROVE  Inv'
    <2> DEFINE ok == run[r].ok /\ MeetsCriteria(t)
               seen == [q \in DOMAIN run[r].seen \cup {p} |->
                          IF q = p THEN t ELSE run[r].seen[q]]
               before == Sees(run[r], ok, seen)
               rec == Loop(before, "inspect", "inspected")
    <2>1. run' = [run EXCEPT ![r] = rec]
        BY <1>3 DEF Sees
    <2>2. /\ p \in DOMAIN seen /\ seen[p] = t
          /\ \A q \in DOMAIN run[r].seen :
                q \in DOMAIN seen /\ (q # p => seen[q] = run[r].seen[q])
        OBVIOUS
    <2>3. ok <=> (run[r].ok /\ MeetsCriteria(t))
        OBVIOUS
    <2> HIDE DEF seen, ok
    <2>4. /\ Shape(before) /\ before.n = run[r].n /\ (before.ok <=> ok)
          /\ before.command = run[r].command /\ before.exit = run[r].exit
          /\ before.seen = seen
        BY <1>1, SeesType DEF Earned
    <2> HIDE DEF before
    <2>5. run[r].n \in Nat \ {0}
        BY <1>1 DEF Earned
    <2>6. /\ Shape(rec) /\ (rec.ok <=> ok) /\ rec.seen = seen
          /\ rec.command = run[r].command /\ rec.exit = run[r].exit
          /\ \/ run[r].n < Last /\ rec.n = run[r].n + 1 /\ rec.pc = "inspect"
             \/ ~(run[r].n < Last) /\ rec.n = 1 /\ rec.pc = "inspected"
        BY <2>4, <2>5, LoopGoes
    <2> HIDE DEF rec
    <2>7. ASSUME ok, NEW i \in 1 .. Last, i <= run[r].n
          PROVE  Met(rec, TopologicalOrder[i])
        <3>1. CASE TopologicalOrder[i] = p
            BY <2>2, <2>3, <2>6, <2>7, <3>1 DEF Met
        <3>2. CASE TopologicalOrder[i] # p
            <4>1. i < run[r].n
                BY <2>5, <2>7, <3>2, LastIsNat DEF Package
            <4>2. Met(run[r], TopologicalOrder[i])
                BY <1>1, <2>3, <2>7, <4>1 DEF Earned
            <4> QED BY <2>2, <2>6, <3>2, <4>2 DEF Met
        <3> QED BY <3>1, <3>2
    <2>8. Earned(rec)
        <3>1. /\ Shape(rec) /\ rec.n \in Nat \ {0}
              /\ rec.pc \in {"inspect", "inspected"}
            BY <2>5, <2>6
        <3>2. rec.pc = "inspect" =>
                (rec.ok => \A i \in 1 .. Last :
                              i < rec.n => Met(rec, TopologicalOrder[i]))
            <4> SUFFICES ASSUME rec.pc = "inspect", rec.ok,
                                NEW i \in 1 .. Last, i < rec.n
                         PROVE  Met(rec, TopologicalOrder[i])
                OBVIOUS
            <4>1. i <= run[r].n /\ ok
                BY <2>5, <2>6, LastIsNat
            <4> QED BY <2>7, <4>1
        <3>3. rec.pc = "inspected" =>
                (rec.ok => \A q \in Packages : Met(rec, q))
            <4> SUFFICES ASSUME rec.pc = "inspected", rec.ok,
                                NEW q \in Packages
                         PROVE  Met(rec, q)
                OBVIOUS
            <4>1. PICK i \in 1 .. Last : TopologicalOrder[i] = q
                BY DEF Packages, Last
            <4>2. i <= run[r].n /\ ok
                BY <2>5, <2>6, LastIsNat
            <4> QED BY <2>7, <4>1, <4>2
        <3>4. ~(rec.exit = "0" /\ rec.command = "inspect")
            BY <1>1, <2>6 DEF Earned
        <3> QED BY <3>1, <3>2, <3>3, <3>4 DEF Earned
    <2> QED BY <2>1, <2>8, OneMoves
<1> QED BY <1>2, <1>3 DEF InspectPackage

\* An inspection returns 0 for what it found right, a verification goes on.
LEMMA InspectReturnsKeepsInv ==
    ASSUME Inv, NEW r \in Runs, InspectReturns(r)
    PROVE  Inv'
<1>1. Earned(run[r]) /\ run[r].pc = "inspected" /\ Working(r)
    BY DEF Inv, InspectReturns, At, Working
<1>2. CASE run[r].ok /\ run[r].command = "verify"
    BY <1>1, <1>2, GoKeepsInv DEF InspectReturns
<1>3. CASE run[r].ok /\ run[r].command # "verify"
    <2>1. \A p \in Packages : Met(run[r], p)
        BY <1>1, <1>3 DEF Earned
    <2>2. Return(r, "0")
        BY <1>3 DEF InspectReturns
    <2> QED BY <2>1, <2>2, ReturnKeepsInv
<1>4. CASE ~run[r].ok
    <2>1. Return(r, "1")
        BY <1>4 DEF InspectReturns
    <2> QED BY <2>1, ReturnKeepsInv
<1> QED BY <1>2, <1>3, <1>4

\* The isolated tests belong to verify.
LEMMA IsolatePackageKeepsInv ==
    ASSUME Inv, NEW r \in Runs, IsolatePackage(r)
    PROVE  Inv'
<1> DEFINE p == Package(r)
<1>1. Earned(run[r]) /\ run[r].pc = "isolate" /\ run[r].command = "verify"
    BY DEF Inv, IsolatePackage, At, Earned
<1>2. CASE Return(r, "1")
    BY <1>2, ReturnKeepsInv
<1>3. ASSUME NEW t \in unpacked[p],
             run' = [run EXCEPT ![r] =
                       IF @.n < Last
                         THEN [@ EXCEPT !.n = run[r].n + 1, !.seen[p] = t]
                         ELSE [@ EXCEPT !.pc = "done", !.exit = "0",
                                        !.seen[p] = t]]
      PROVE  Inv'
    <2> DEFINE further == Tries(run[r], p, t)
               passed == Passes(run[r], p, t)
    <2>1. \/ run' = [run EXCEPT ![r] = further]
          \/ run' = [run EXCEPT ![r] = passed]
        <3> DEFINE rec == IF run[r].n < Last
                            THEN [run[r] EXCEPT !.n = @ + 1, !.seen[p] = t]
                            ELSE [run[r] EXCEPT !.pc = "done", !.exit = "0",
                                                !.seen[p] = t]
        <3>1. run' = [run EXCEPT ![r] = rec]
            BY <1>3
        <3>2. rec = further \/ rec = passed
            BY DEF Tries, Passes
        <3> HIDE DEF rec, further, passed
        <3> QED BY <3>1, <3>2
    <2>2. run[r].n \in Nat \ {0} /\ run[r].n + 1 \in Nat \ {0}
        BY <1>1 DEF Earned
    <2>21. Shape(run[r])
        BY <1>1 DEF Earned
    <2>3. /\ Shape(further) /\ further.command = "verify"
          /\ further.n = run[r].n + 1 /\ further.pc = "isolate"
        BY <1>1, <2>21, TriesType
    <2>4. /\ Shape(passed) /\ passed.command = "verify"
          /\ passed.n = run[r].n /\ passed.pc = "done"
        BY <1>1, <2>21, PassesType
    <2> HIDE DEF further, passed
    <2>5. CASE run' = [run EXCEPT ![r] = further]
        BY <1>1, <2>2, <2>3, <2>5, PlainKeepsInv
    <2>6. CASE run' = [run EXCEPT ![r] = passed]
        BY <1>1, <2>2, <2>4, <2>6, PlainKeepsInv
    <2> QED BY <2>1, <2>5, <2>6
<1> QED BY <1>2, <1>3 DEF IsolatePackage

-----------------------------------------------------------------------------
\* Every step of an invocation keeps the invariant.
LEMMA StepKeepsInv ==
    ASSUME Inv, NEW r \in Runs, Step(r)
    PROVE  Inv'
<1>1. CASE Lint(r) \/ Metadata(r)
    BY <1>1, LintKeepsInv, MetadataKeepsInv
<1>2. CASE ReadVersions(r)
    <2>1. Working(r) /\ (Go(r, "clear") \/ Return(r, "1"))
        BY <1>2 DEF ReadVersions, At, Working
    <2> QED BY <2>1, GoKeepsInv, ReturnKeepsInv
<1>3. CASE ClearStage(r)
    <2>1. Working(r) /\ Go(r, "copy")
        BY <1>3 DEF ClearStage, At, Working
    <2> QED BY <2>1, GoKeepsInv
<1>4. CASE CopyPackage(r)
    <2>1. Working(r) /\ Go(r, "rewrite")
        BY <1>4 DEF CopyPackage, At, Working
    <2> QED BY <2>1, GoKeepsInv
<1>5. CASE RewriteDependencies(r)
    BY <1>5, RewriteKeepsInv
<1>6. CASE MakeTarballs(r)
    <2>1. Working(r) /\ Go(r, "build")
        BY <1>6 DEF MakeTarballs, At, Working
    <2> QED BY <2>1, GoKeepsInv
<1>7. CASE HexBuildReads(r) \/ HexBuildWrites(r) \/ CollectTar(r)
    BY <1>7, HexBuildReadsKeepsInv, HexBuildWritesKeepsInv, CollectTarKeepsInv
<1>8. CASE ClearUnpacked(r)
    <2>1. Working(r) /\ Go(r, "inspect") /\ run[r].n = 1
        BY <1>8 DEF ClearUnpacked, At, Working, Inv, Earned
    <2> QED BY <2>1, GoKeepsInv
<1>9. CASE InspectPackage(r) \/ InspectReturns(r)
    BY <1>9, InspectPackageKeepsInv, InspectReturnsKeepsInv
<1>10. CASE ServeTarballs(r)
    <2>1. CASE Return(r, "1")
        BY <2>1, ReturnKeepsInv
    <2>2. CASE Go(r, "isolate")
        <3>1. Working(r) /\ run[r].command = "verify"
            BY <1>10 DEF ServeTarballs, At, Working, Inv, Earned
        <3> QED BY <2>2, <3>1, GoKeepsInv
    <2> QED BY <1>10, <2>1, <2>2 DEF ServeTarballs
<1>11. CASE IsolatePackage(r)
    BY <1>11, IsolatePackageKeepsInv
<1> QED BY <1>1, <1>2, <1>3, <1>4, <1>5, <1>6, <1>7, <1>8, <1>9, <1>10, <1>11
        DEF Step

\* A new invocation has found nothing wrong and nothing right.
LEMMA StartKeepsInv ==
    ASSUME Inv, NEW r \in Runs, NEW command, Start(r, command)
    PROVE  Inv'
<1>1. PICK oldest :
        run' = [q \in Runs |->
                  IF q = r
                    THEN [Idle EXCEPT !.command = command,
                                      !.pc = IF command = "check"
                                               THEN "lint" ELSE "versions",
                                      !.oldest = oldest]
                    ELSE run[q]]
    BY DEF Start
<1> DEFINE rec == [Idle EXCEPT !.command = command,
                               !.pc = IF command = "check"
                                        THEN "lint" ELSE "versions",
                               !.oldest = oldest]
<1>2. run' = [run EXCEPT ![r] = rec]
    BY <1>1 DEF Inv
<1>3. rec = [command |-> command,
             pc |-> IF command = "check" THEN "lint" ELSE "versions",
             n |-> 1, ok |-> TRUE, built |-> {}, seen |-> << >>,
             oldest |-> oldest, exit |-> "none"]
    <2> DEFINE first == IF command = "check" THEN "lint" ELSE "versions"
               one == [Idle EXCEPT !.command = command]
               two == [one EXCEPT !.pc = first]
    <2>1. rec = [two EXCEPT !.oldest = oldest]
        BY DEF Idle
    <2> HIDE DEF rec, first
    <2>2. two = [one EXCEPT !.pc = first]
        OBVIOUS
    <2>3. one = [Idle EXCEPT !.command = command]
        OBVIOUS
    <2> HIDE DEF one, two
    <2>4. one = [command |-> command, pc |-> "idle", n |-> 1, ok |-> TRUE,
                 built |-> {}, seen |-> << >>, oldest |-> << >>,
                 exit |-> "none"]
        BY <2>3 DEF Idle
    <2>5. two = [command |-> command, pc |-> first, n |-> 1, ok |-> TRUE,
                 built |-> {}, seen |-> << >>, oldest |-> << >>,
                 exit |-> "none"]
        BY <2>2, <2>4
    <2>6. rec = [command |-> command, pc |-> first, n |-> 1, ok |-> TRUE,
                 built |-> {}, seen |-> << >>, oldest |-> oldest,
                 exit |-> "none"]
        BY <2>1, <2>5
    <2> QED BY <2>6 DEF first
<1> HIDE DEF rec
<1>4. Earned(rec)
    BY <1>3 DEF Earned, Shape
<1> QED BY <1>2, <1>4, OneMoves

\* So does every step of anybody.
LEMMA NextKeepsInv == Inv /\ [Next]_vars => Inv'
<1> SUFFICES ASSUME Inv, [Next]_vars PROVE Inv'
    OBVIOUS
<1>1. ASSUME NEW r \in Runs, Step(r) PROVE Inv'
    BY <1>1, StepKeepsInv
<1>2. ASSUME NEW r \in Runs, Crash(r) PROVE Inv'
    BY <1>2, ReturnKeepsInv DEF Crash
<1>3. ASSUME NEW r \in Runs, NEW c \in Commands, Start(r, c) PROVE Inv'
    BY <1>3, StartKeepsInv
<1>4. ASSUME NEW p \in Packages, NEW v \in Variants[p], Edit(p, v) PROVE Inv'
    BY <1>4, NobodyMoves DEF Edit
<1>5. CASE UNCHANGED vars
    BY <1>5, NobodyMoves DEF vars
<1> QED BY <1>1, <1>2, <1>3, <1>4, <1>5 DEF Next

\* An inspection that passes has met, in every package, what command_inspect
\* asks of it, whatever other invocations did to the stage meanwhile
\* (command_inspect of release.py).
THEOREM InspectionDecouples == Spec => []PassedIsDecoupled
<1>1. Init => Inv
    BY DEF Init, Inv, Earned, Shape, Idle
<1>2. Inv => PassedIsDecoupled
    BY DEF Inv, Earned, PassedIsDecoupled, PassedRuns, Met
<1> QED BY <1>1, <1>2, NextKeepsInv, PTL DEF Spec

-----------------------------------------------------------------------------
(***************************************************************************)
(* What an invocation has read is honest: what a check has read it has     *)
(* linted, and what an inspection or a verification has read was made from *)
(* sources no older than it is judged by.                                  *)
(***************************************************************************)
Busy(rec) == rec.pc \notin {"idle", "done"}

\* It, or one that overlaps it, has cleared the stage.
Beyond(rec) ==
    rec.pc \in {"copy", "rewrite", "tarballs", "build", "building", "collect",
                "unpack", "inspect", "inspected", "serve", "isolate"}

Made(f, n) == "revision" \in DOMAIN f /\ f.revision \in Nat /\ f.revision >= n

Linted(rec, p) == p \in DOMAIN rec.seen /\ Lints(p, rec.seen[p])
Fresh(rec, p) == p \in DOMAIN rec.seen /\ Made(rec.seen[p], rec.oldest[p])

Honest(rec) ==
    /\ rec.n \in 1 .. Last /\ (rec.exit = "none" <=> rec.pc # "done")
    /\ Busy(rec) => \A p \in Packages : rec.oldest[p] \in Nat
    /\ rec.command = "check" => rec.pc \in {"lint", "metadata", "done"}
    /\ rec.pc = "lint" =>
         (rec.ok => \A i \in 1 .. Last : i < rec.n => Linted(rec, TopologicalOrder[i]))
    /\ rec.pc = "metadata" => \A p \in Packages : Linted(rec, p)
    /\ rec.exit = "0" /\ rec.command = "check" => \A p \in Packages : Linted(rec, p)
    /\ rec.pc = "inspect" => \A i \in 1 .. Last : i < rec.n => Fresh(rec, TopologicalOrder[i])
    /\ rec.pc \in {"inspected", "serve", "isolate"} => \A p \in Packages : Fresh(rec, p)
    /\ rec.exit = "0" /\ rec.command \in Inspecting => \A p \in Packages : Fresh(rec, p)
    /\ \A f \in rec.built : Made(f, rec.oldest[TopologicalOrder[rec.n]])
    /\ rec.pc # "building" => rec.built = {}

\* The checkout: the packages are of a revision it has had.
CheckoutOK ==
    /\ revision \in 0 .. MaxRevision /\ crashes \in 0 .. MaxCrashes
    /\ source = [p \in Packages |-> source[p]]
    /\ \A p \in Packages : Made(source[p], 0) /\ source[p].revision <= revision

\* The directory: a tar file lies in a package directory, which holds one
\* package, and what is collected or unpacked in a directory that exists.
DirectoryOK ==
    /\ staged = [p \in Packages |-> staged[p]] /\ tars = [p \in Packages |-> tars[p]]
    /\ tarballs = [p \in Packages |-> tarballs[p]]
    /\ unpacked = [p \in Packages |-> unpacked[p]]
    /\ \A p \in Packages :
          /\ staged[p] = {} \/ \E s : staged[p] = {s}
          /\ unpacked[p] = {} \/ \E t : unpacked[p] = {t}
          /\ staged[p] = {} => tars[p] = {}
          /\ "tarballs" \notin dirs => tarballs[p] = {}
          /\ "unpacked" \notin dirs => unpacked[p] = {}

\* Invocations that overlap are judged by the same revisions, those of sources
\* the checkout has left behind or still has.
JudgedAlike ==
    \A r \in Runs : Busy(run[r]) =>
        \A p \in Packages :
            /\ run[r].oldest[p] <= source[p].revision
            /\ \A q \in Runs : Busy(run[q]) => run[q].oldest[p] = run[r].oldest[p]

\* Once one of them has cleared the directory, nothing in it is older.
OnDisk(p) == staged[p] \cup tars[p] \cup tarballs[p] \cup unpacked[p]

DiskFresh ==
    \A r \in Runs : Beyond(run[r]) =>
        \A p \in Packages : \A f \in OnDisk(p) : Made(f, run[r].oldest[p])

StageInv ==
    /\ CheckoutOK /\ DirectoryOK /\ JudgedAlike /\ DiskFresh
    /\ \A r \in Runs : Honest(run[r])

\* An invocation moves: its record changes, those of the others stay.
LEMMA MovesOne ==
    ASSUME Inv, NEW r \in Runs, NEW rec, run' = [run EXCEPT ![r] = rec]
    PROVE  run'[r] = rec /\ \A q \in Runs : q # r => run'[q] = run[q]
BY DEF Inv

\* The package an invocation is at is one of the order.
LEMMA AtAPackage ==
    ASSUME NEW r \in Runs, run[r].n \in 1 .. Last
    PROVE  Package(r) \in Packages
BY StageAssumption DEF Package, Packages, Last

LEMMA PackagesOrdered ==
    /\ Last \in Nat \ {0}
    /\ \A i \in 1 .. Last : TopologicalOrder[i] \in Packages
    /\ \A p \in Packages : \E i \in 1 .. Last : TopologicalOrder[i] = p
<1>1. Len(TopologicalOrder) \in Nat
    BY StageAssumption
<1>2. Len(TopologicalOrder) # 0
    BY StageAssumption
<1> QED BY <1>1, <1>2 DEF Packages, Last

\* What an invocation may do without touching the directory or the checkout.
LEMMA QuietStep ==
    ASSUME Inv, StageInv, NEW r \in Runs, NEW rec, run' = [run EXCEPT ![r] = rec],
           Honest(rec), rec.oldest = run[r].oldest, Busy(rec) => Busy(run[r]),
           Beyond(rec) => Beyond(run[r])
    PROVE  /\ \A q \in Runs : Honest(run'[q])
           /\ UNCHANGED source => JudgedAlike'
           /\ \A q \in Runs : Beyond(run'[q]) => Beyond(run[q]) /\ run'[q].oldest = run[q].oldest
<1>1. /\ run'[r] = rec /\ \A q \in Runs : q # r => run'[q] = run[q]
    BY MovesOne
<1>2. \A q \in Runs : Honest(run'[q])
    BY <1>1 DEF StageInv
<1>3. \A q \in Runs : Busy(run'[q]) => Busy(run[q]) /\ run'[q].oldest = run[q].oldest
    BY <1>1
<1>4. UNCHANGED source => JudgedAlike'
    BY <1>3 DEF StageInv, JudgedAlike, Busy
<1>5. \A q \in Runs : Beyond(run'[q]) => Beyond(run[q]) /\ run'[q].oldest = run[q].oldest
    BY <1>1
<1> QED BY <1>2, <1>4, <1>5

LEMMA QuietRecordStep ==
    ASSUME Inv, StageInv, NEW r \in Runs, NEW rec, run' = [run EXCEPT ![r] = rec],
           Honest(rec), rec.oldest = run[r].oldest, Busy(rec) => Busy(run[r]),
           Beyond(rec) => Beyond(run[r]),
           UNCHANGED <<checkout, disk>>, crashes' \in 0 .. MaxCrashes
    PROVE  StageInv'
<1>1. UNCHANGED <<revision, source, staged, tars, tarballs, unpacked, dirs>>
    BY DEF checkout, disk
<1>2. /\ \A q \in Runs : Honest(run'[q])
      /\ JudgedAlike'
      /\ \A q \in Runs : Beyond(run'[q]) => Beyond(run[q]) /\ run'[q].oldest = run[q].oldest
    BY <1>1, QuietStep
<1>3. CheckoutOK'
    BY <1>1 DEF StageInv, CheckoutOK
<1>4. DirectoryOK'
    BY <1>1 DEF StageInv, DirectoryOK
<1>5. DiskFresh'
    BY <1>1, <1>2 DEF StageInv, DiskFresh, OnDisk, Beyond
<1>6. (\A q \in Runs : Honest(run[q]))'
    BY <1>2 DEF Honest, Busy, Linted, Fresh
<1> QED BY <1>2, <1>3, <1>4, <1>5, <1>6 DEF StageInv

\* A step that writes to the directory what no invocation is too young for.
LEMMA WritingStep ==
    ASSUME Inv, StageInv, NEW r \in Runs, NEW rec, run' = [run EXCEPT ![r] = rec],
           Honest(rec), rec.oldest = run[r].oldest, Busy(rec) => Busy(run[r]),
           Beyond(rec) => Beyond(run[r]), Beyond(run[r]),
           UNCHANGED <<checkout, crashes>>, DirectoryOK',
           \A p \in Packages : \A f \in OnDisk(p)' :
               f \in OnDisk(p) \/ Made(f, run[r].oldest[p])
    PROVE  StageInv'
<1>1. UNCHANGED <<revision, source>>
    BY DEF checkout
<1>2. /\ \A q \in Runs : Honest(run'[q])
      /\ JudgedAlike'
      /\ \A q \in Runs : Beyond(run'[q]) => Beyond(run[q]) /\ run'[q].oldest = run[q].oldest
    BY <1>1, QuietStep
<1>3. CheckoutOK'
    BY <1>1 DEF StageInv, CheckoutOK
<1>4. DiskFresh'
    <2> SUFFICES ASSUME NEW q \in Runs, Beyond(run'[q]), NEW p \in Packages, NEW f \in OnDisk(p)'
                 PROVE  Made(f, run'[q].oldest[p])
        BY DEF DiskFresh, Beyond
    <2>1. Beyond(run[q]) /\ run'[q].oldest = run[q].oldest
        BY <1>2
    <2>2. Busy(run[q]) /\ Busy(run[r])
        BY <2>1 DEF Beyond, Busy
    <2>3. run[q].oldest[p] = run[r].oldest[p]
        BY <2>2 DEF StageInv, JudgedAlike
    <2> QED BY <2>1, <2>3 DEF StageInv, DiskFresh
<1>5. (\A q \in Runs : Honest(run[q]))'
    BY <1>2 DEF Honest, Busy, Linted, Fresh
<1> QED BY <1>2, <1>3, <1>4, <1>5 DEF StageInv

\* An invocation that is over.
LEMMA DoneIsHonest ==
    ASSUME NEW old, Honest(old), NEW rec, rec.pc = "done", rec.n = old.n, rec.exit # "none",
           rec.built = {},
           rec.exit = "0" /\ rec.command = "check" => \A p \in Packages : Linted(rec, p),
           rec.exit = "0" /\ rec.command \in Inspecting => \A p \in Packages : Fresh(rec, p)
    PROVE  Honest(rec) /\ ~Busy(rec) /\ ~Beyond(rec)
BY DEF Honest, Busy, Beyond

\* An invocation that stages or builds.
LEMMA StagingIsHonest ==
    ASSUME NEW old, Honest(old), Busy(old), NEW rec,
           rec.pc \in {"clear", "copy", "rewrite", "tarballs", "build", "building",
                       "collect", "unpack"},
           rec.n \in 1 .. Last, rec.exit = "none", rec.command # "check",
           rec.oldest = old.oldest,
           \A f \in rec.built : Made(f, rec.oldest[TopologicalOrder[rec.n]]),
           rec.pc # "building" => rec.built = {}
    PROVE  Honest(rec) /\ Busy(rec)
BY DEF Honest, Busy

\* What an invocation that is not over has in common.
LEMMA AtWork ==
    ASSUME Inv, StageInv, NEW r \in Runs, Busy(run[r])
    PROVE  /\ Honest(run[r]) /\ Shape(run[r]) /\ Earned(run[r])
           /\ run[r].n \in 1 .. Last /\ run[r].n \in Nat \ {0}
           /\ run[r].exit = "none" /\ Package(r) \in Packages
           /\ run[r].pc # "building" => run[r].built = {}
           /\ run[r].command = "check" => run[r].pc \in {"lint", "metadata"}
<1>1. Honest(run[r]) /\ Earned(run[r])
    BY DEF StageInv, Inv
<1>2. run[r].n \in 1 .. Last
    BY <1>1 DEF Honest
<1> QED BY <1>1, <1>2, AtAPackage DEF Honest, Busy, Earned

\* An invocation returns.
LEMMA ReturnIsHonest ==
    ASSUME Inv, StageInv, NEW r \in Runs, Busy(run[r]),
           NEW code \in {"0", "1", "killed"}, Return(r, code),
           code = "0" => run[r].command # "check",
           code = "0" /\ run[r].command \in Inspecting => \A p \in Packages : Fresh(run[r], p),
           UNCHANGED <<checkout, disk>>, crashes' \in 0 .. MaxCrashes
    PROVE  StageInv'
<1> DEFINE rec == Returns(run[r], code)
<1>1. run' = [run EXCEPT ![r] = rec]
    BY DEF Return, Returns, Inv
<1>2. Honest(run[r]) /\ Shape(run[r])
    BY AtWork
<1>3. /\ rec.pc = "done" /\ rec.n = run[r].n /\ rec.command = run[r].command
      /\ rec.exit = code /\ rec.seen = run[r].seen /\ rec.oldest = run[r].oldest
      /\ rec.built = {}
    BY <1>2, ReturnsType
<1> HIDE DEF rec
<1>4. code = "0" /\ run[r].command \in Inspecting => \A p \in Packages : Fresh(rec, p)
    BY <1>3 DEF Fresh
<1>5. Honest(rec) /\ ~Busy(rec) /\ ~Beyond(rec)
    BY <1>2, <1>3, <1>4, DoneIsHonest
<1> QED BY <1>1, <1>3, <1>5, QuietRecordStep

\* An invocation that stages or builds goes on.
LEMMA GoIsHonest ==
    ASSUME Inv, StageInv, NEW r \in Runs, Busy(run[r]), NEW pc, Go(r, pc),
           pc \in {"clear", "copy", "rewrite", "build", "inspect", "serve", "isolate"},
           run[r].pc \notin {"lint", "metadata", "building"},
           pc = "inspect" => run[r].n = 1,
           pc \in {"serve", "isolate"} => \A p \in Packages : Fresh(run[r], p)
    PROVE  \E rec : /\ run' = [run EXCEPT ![r] = rec] /\ Honest(rec) /\ Busy(rec)
                    /\ rec.oldest = run[r].oldest /\ rec.pc = pc
<1> DEFINE rec == [run[r] EXCEPT !.pc = pc]
<1>1. run' = [run EXCEPT ![r] = rec]
    BY DEF Go, Inv
<1>2. /\ Honest(run[r]) /\ Shape(run[r]) /\ run[r].exit = "none" /\ run[r].n \in 1 .. Last
      /\ run[r].built = {} /\ run[r].command # "check"
    BY AtWork
<1>3. /\ rec.pc = pc /\ rec.n = run[r].n /\ rec.command = run[r].command
      /\ rec.exit = run[r].exit /\ rec.seen = run[r].seen /\ rec.oldest = run[r].oldest
      /\ rec.built = run[r].built
    BY <1>2 DEF Shape
<1> HIDE DEF rec
<1>4. Honest(rec) /\ Busy(rec)
    <2>1. CASE pc \in {"clear", "copy", "rewrite", "build"}
        BY <1>2, <1>3, <2>1, StagingIsHonest
    <2>2. CASE pc = "inspect"
        <3>1. \A i \in 1 .. Last : ~(i < rec.n)
            BY <1>3, <2>2, PackagesOrdered
        <3>2. \A p \in Packages : rec.oldest[p] \in Nat
            BY <1>2, <1>3 DEF Honest
        <3> QED BY <1>2, <1>3, <2>2, <3>1, <3>2 DEF Honest, Busy
    <2>3. CASE pc \in {"serve", "isolate"}
        <3>1. \A p \in Packages : Fresh(rec, p)
            BY <1>3, <2>3 DEF Fresh
        <3>2. \A p \in Packages : rec.oldest[p] \in Nat
            BY <1>2, <1>3 DEF Honest
        <3> QED BY <1>2, <1>3, <2>3, <3>1, <3>2 DEF Honest, Busy
    <2> QED BY <2>1, <2>2, <2>3
<1> QED BY <1>1, <1>3, <1>4

-----------------------------------------------------------------------------
\* A check has linted what it has read.
LEMMA LintIsHonest ==
    ASSUME Inv, StageInv, NEW r \in Runs, Lint(r)
    PROVE  StageInv'
<1> DEFINE p == Package(r)
           ok == run[r].ok /\ Lints(p, source[p]) /\ repo = {}
           seen == [q \in DOMAIN run[r].seen \cup {p} |->
                      IF q = p THEN source[p] ELSE run[r].seen[q]]
           before == Sees(run[r], ok, seen)
           next == Loop(before, "lint", "metadata")
           rec == IF next.pc = "metadata" /\ ~ok THEN Ends(next, "1") ELSE next
<1>1. run[r].pc = "lint" /\ Busy(run[r])
    BY DEF Lint, At, Busy
<1>2. /\ Honest(run[r]) /\ Shape(run[r]) /\ run[r].n \in 1 .. Last /\ run[r].n \in Nat \ {0}
      /\ run[r].exit = "none" /\ p \in Packages /\ run[r].built = {}
    BY <1>1, AtWork
<1>3. run' = [run EXCEPT ![r] = rec] /\ UNCHANGED <<checkout, disk, crashes>>
    BY DEF Lint, Sees, Ends
<1>4. /\ p \in DOMAIN seen /\ seen[p] = source[p]
      /\ \A q \in DOMAIN run[r].seen :
            q \in DOMAIN seen /\ (q # p => seen[q] = run[r].seen[q])
      /\ ok => run[r].ok /\ Lints(p, source[p])
    OBVIOUS
<1> HIDE DEF ok, seen
<1>5. /\ Shape(before) /\ before.n = run[r].n /\ (before.ok <=> ok)
      /\ before.command = run[r].command /\ before.exit = run[r].exit
      /\ before.seen = seen /\ before.oldest = run[r].oldest /\ before.built = run[r].built
    BY <1>2, SeesType
<1> HIDE DEF before
<1>6. /\ Shape(next) /\ (next.ok <=> ok) /\ next.seen = seen
      /\ next.exit = "none" /\ next.oldest = run[r].oldest /\ next.built = {}
      /\ \/ run[r].n < Last /\ next.n = run[r].n + 1 /\ next.pc = "lint"
         \/ ~(run[r].n < Last) /\ next.n = 1 /\ next.pc = "metadata"
    BY <1>2, <1>5, LoopGoes
<1> HIDE DEF next
<1>7. next.n \in 1 .. Last
    BY <1>2, <1>6, PackagesOrdered
<1>8. ASSUME ok, NEW i \in 1 .. Last, i <= run[r].n
      PROVE  Linted(next, TopologicalOrder[i])
    <2>1. CASE TopologicalOrder[i] = p
        BY <1>4, <1>6, <1>8, <2>1 DEF Linted
    <2>2. CASE TopologicalOrder[i] # p
        <3>1. i < run[r].n
            BY <1>2, <1>8, <2>2, PackagesOrdered DEF Package
        <3>2. Linted(run[r], TopologicalOrder[i])
            BY <1>1, <1>2, <1>4, <1>8, <3>1 DEF Honest
        <3> QED BY <1>4, <1>6, <2>2, <3>2 DEF Linted
    <2> QED BY <2>1, <2>2
<1>9. \A q \in Packages : run[r].oldest[q] \in Nat
    BY <1>1, <1>2 DEF Honest
<1>10. CASE ~(next.pc = "metadata" /\ ~ok)
    <2>1. rec = next
        BY <1>10
    <2>2. ASSUME next.pc = "lint", next.ok, NEW i \in 1 .. Last, i < next.n
          PROVE  Linted(next, TopologicalOrder[i])
        <3>1. i <= run[r].n
            BY <1>2, <1>6, <2>2, PackagesOrdered
        <3> QED BY <1>6, <1>8, <2>2, <3>1
    <2>3. ASSUME next.pc = "metadata", NEW q \in Packages PROVE Linted(next, q)
        <3>1. PICK i \in 1 .. Last : TopologicalOrder[i] = q
            BY PackagesOrdered
        <3>2. i <= run[r].n
            BY <1>2, <1>6, <2>3, PackagesOrdered
        <3> QED BY <1>8, <1>10, <2>3, <3>1, <3>2
    <2>4. next.pc \in {"lint", "metadata"}
        BY <1>6
    <2>5. Honest(next)
        BY <1>6, <1>7, <1>9, <2>2, <2>3, <2>4 DEF Honest
    <2>6. ~Beyond(next)
        BY <2>4 DEF Beyond
    <2>7. crashes' \in 0 .. MaxCrashes
        BY <1>3 DEF StageInv, CheckoutOK
    <2> HIDE DEF rec
    <2> QED BY <1>1, <1>3, <1>6, <2>1, <2>5, <2>6, <2>7, QuietRecordStep
<1>11. CASE next.pc = "metadata" /\ ~ok
    <2>1. rec = Ends(next, "1")
        BY <1>11
    <2> HIDE DEF rec
    <2>2. /\ rec.pc = "done" /\ rec.exit = "1" /\ rec.n = next.n
          /\ rec.built = {} /\ rec.oldest = run[r].oldest
        BY <1>6, <2>1, EndsType
    <2>3. ~Busy(rec) /\ ~Beyond(rec) /\ Honest(rec)
        BY <1>7, <2>2 DEF Honest, Busy, Beyond
    <2>4. crashes' \in 0 .. MaxCrashes
        BY <1>3 DEF StageInv, CheckoutOK
    <2> QED BY <1>3, <2>2, <2>3, <2>4, QuietRecordStep
<1> QED BY <1>10, <1>11

\* The metadata are read again, but what was linted stays what was read.
LEMMA MetadataIsHonest ==
    ASSUME Inv, StageInv, NEW r \in Runs, Metadata(r)
    PROVE  StageInv'
<1> DEFINE failed == Ends(run[r], "1")
           further == [run[r] EXCEPT !.n = @ + 1]
           passed == Ends(run[r], "0")
<1>1. run[r].pc = "metadata" /\ Busy(run[r])
    BY DEF Metadata, At, Busy
<1>2. /\ Honest(run[r]) /\ Shape(run[r]) /\ run[r].n \in 1 .. Last /\ run[r].n \in Nat \ {0}
      /\ run[r].exit = "none" /\ run[r].built = {} /\ run[r].command = "check"
    BY <1>1, AtWork DEF Earned
<1>3. \A p \in Packages : Linted(run[r], p) /\ run[r].oldest[p] \in Nat
    BY <1>1, <1>2 DEF Honest
<1>4. UNCHANGED <<checkout, disk>> /\ crashes' \in 0 .. MaxCrashes
    BY DEF Metadata, StageInv, CheckoutOK
<1>5. \/ run' = [run EXCEPT ![r] = failed]
      \/ run[r].n < Last /\ run' = [run EXCEPT ![r] = further]
      \/ run' = [run EXCEPT ![r] = passed]
    <2> DEFINE rec == IF ~source[Package(r)].complete
                        THEN [run[r] EXCEPT !.pc = "done", !.exit = "1"]
                      ELSE IF run[r].n < Last THEN [run[r] EXCEPT !.n = @ + 1]
                      ELSE [run[r] EXCEPT !.pc = "done", !.exit = "0"]
    <2>1. run' = [run EXCEPT ![r] = rec]
        BY DEF Metadata
    <2>2. rec = failed \/ (run[r].n < Last /\ rec = further) \/ rec = passed
        BY DEF Ends
    <2> HIDE DEF rec, failed, further, passed
    <2> QED BY <2>1, <2>2
<1>6. /\ failed.pc = "done" /\ failed.n = run[r].n /\ failed.exit = "1"
      /\ failed.built = {} /\ failed.oldest = run[r].oldest
    BY <1>2, EndsType
<1>7. /\ passed.pc = "done" /\ passed.n = run[r].n /\ passed.exit = "0"
      /\ passed.built = {} /\ passed.oldest = run[r].oldest
      /\ passed.seen = run[r].seen /\ passed.command = "check"
    BY <1>2, EndsType
<1>8. /\ further.pc = "metadata" /\ further.n = run[r].n + 1 /\ further.exit = "none"
      /\ further.built = {} /\ further.oldest = run[r].oldest
      /\ further.seen = run[r].seen /\ further.command = "check"
    BY <1>1, <1>2 DEF Shape
<1> HIDE DEF failed, further, passed
<1>9. CASE run' = [run EXCEPT ![r] = failed]
    <2>1. Honest(failed) /\ ~Busy(failed) /\ ~Beyond(failed)
        BY <1>2, <1>6, DoneIsHonest
    <2> QED BY <1>4, <1>6, <1>9, <2>1, QuietRecordStep
<1>10. CASE run[r].n < Last /\ run' = [run EXCEPT ![r] = further]
    <2>1. further.n \in 1 .. Last
        BY <1>2, <1>8, <1>10, PackagesOrdered
    <2>2. \A p \in Packages : Linted(further, p)
        BY <1>3, <1>8 DEF Linted
    <2>3. Honest(further) /\ ~Beyond(further)
        BY <1>3, <1>8, <2>1, <2>2 DEF Honest, Beyond
    <2> QED BY <1>1, <1>4, <1>8, <1>10, <2>3, QuietRecordStep
<1>11. CASE run' = [run EXCEPT ![r] = passed]
    <2>1. \A p \in Packages : Linted(passed, p)
        BY <1>3, <1>7 DEF Linted
    <2>2. passed.command \notin Inspecting
        BY <1>7 DEF Inspecting
    <2>3. Honest(passed) /\ ~Busy(passed) /\ ~Beyond(passed)
        BY <1>2, <1>7, <2>1, <2>2, DoneIsHonest
    <2> QED BY <1>4, <1>7, <1>11, <2>3, QuietRecordStep
<1> QED BY <1>5, <1>9, <1>10, <1>11

-----------------------------------------------------------------------------
(* stage: who clears the directory leaves nothing that is too old.         *)

LEMMA ReadVersionsIsHonest ==
    ASSUME Inv, StageInv, NEW r \in Runs, ReadVersions(r)
    PROVE  StageInv'
<1>1. /\ run[r].pc = "versions" /\ Busy(run[r]) /\ ~Beyond(run[r])
      /\ UNCHANGED <<checkout, disk>> /\ crashes' \in 0 .. MaxCrashes
    BY DEF ReadVersions, At, Busy, Beyond, StageInv, CheckoutOK
<1>2. CASE Return(r, "1")
    BY <1>1, <1>2, ReturnIsHonest
<1>3. CASE Go(r, "clear")
    <2>1. PICK rec : /\ run' = [run EXCEPT ![r] = rec] /\ Honest(rec) /\ Busy(rec)
                     /\ rec.oldest = run[r].oldest /\ rec.pc = "clear"
        BY <1>1, <1>3, GoIsHonest
    <2>2. ~Beyond(rec)
        BY <2>1 DEF Beyond
    <2> QED BY <1>1, <2>1, <2>2, QuietRecordStep
<1> QED BY <1>2, <1>3 DEF ReadVersions

LEMMA ClearStageIsHonest ==
    ASSUME Inv, StageInv, NEW r \in Runs, ClearStage(r)
    PROVE  StageInv'
<1>1. /\ run[r].pc = "clear" /\ Busy(run[r]) /\ Go(r, "copy")
      /\ UNCHANGED <<revision, source, crashes>>
      /\ dirs' = {}
    BY DEF ClearStage, At, Busy, checkout
<1>2. /\ staged' = [p \in Packages |-> {}] /\ tars' = [p \in Packages |-> {}]
      /\ tarballs' = [p \in Packages |-> {}] /\ unpacked' = [p \in Packages |-> {}]
    BY DEF ClearStage
<1>3. PICK rec : /\ run' = [run EXCEPT ![r] = rec] /\ Honest(rec) /\ Busy(rec)
                 /\ rec.oldest = run[r].oldest /\ rec.pc = "copy"
    BY <1>1, GoIsHonest
<1>4. run'[r] = rec /\ \A q \in Runs : q # r => run'[q] = run[q]
    BY <1>3, MovesOne
<1>5. CheckoutOK'
    BY <1>1 DEF StageInv, CheckoutOK
<1>6. DirectoryOK'
    BY <1>2 DEF DirectoryOK
<1>7. JudgedAlike'
    <2>1. \A q \in Runs : Busy(run'[q]) => Busy(run[q]) /\ run'[q].oldest = run[q].oldest
        BY <1>1, <1>3, <1>4
    <2> QED BY <1>1, <2>1 DEF StageInv, JudgedAlike, Busy
<1>8. DiskFresh'
    <2>1. \A p \in Packages : OnDisk(p)' = {}
        BY <1>2 DEF OnDisk
    <2> QED BY <2>1 DEF DiskFresh
<1>9. (\A q \in Runs : Honest(run[q]))'
    <2>1. \A q \in Runs : Honest(run'[q])
        BY <1>3, <1>4 DEF StageInv
    <2> QED BY <2>1 DEF Honest, Busy, Linted, Fresh
<1> QED BY <1>5, <1>6, <1>7, <1>8, <1>9 DEF StageInv

\* What is copied is what the checkout holds.
LEMMA CopyIsHonest ==
    ASSUME Inv, StageInv, NEW r \in Runs, CopyPackage(r)
    PROVE  StageInv'
<1> DEFINE p == Package(r)
<1>1. /\ run[r].pc = "copy" /\ Busy(run[r]) /\ Beyond(run[r]) /\ Go(r, "rewrite")
      /\ UNCHANGED <<checkout, crashes, tarballs, unpacked, dirs>>
    BY DEF CopyPackage, At, Busy, Beyond
<1>2. PICK rec : /\ run' = [run EXCEPT ![r] = rec] /\ Honest(rec) /\ Busy(rec)
                 /\ rec.oldest = run[r].oldest /\ rec.pc = "rewrite"
    BY <1>1, GoIsHonest
<1>3. p \in Packages /\ Honest(run[r])
    BY <1>1, AtWork
<1>4. /\ staged' = [staged EXCEPT ![p] = {source[p]}]
      /\ tars' = [tars EXCEPT ![p] = @ \cup {}]
    BY DEF CopyPackage, CopiedTars, ExcludePatterns
<1>5. /\ staged'[p] = {source[p]} /\ \A q \in Packages : q # p => staged'[q] = staged[q]
      /\ staged' = [q \in Packages |-> staged'[q]] /\ tars' = [q \in Packages |-> tars'[q]]
      /\ \A q \in Packages : tars'[q] = tars[q]
    BY <1>3, <1>4 DEF StageInv, DirectoryOK
<1>6. Made(source[p], run[r].oldest[p])
    <2>1. source[p].revision \in Nat /\ "revision" \in DOMAIN source[p]
        BY <1>3 DEF StageInv, CheckoutOK, Made
    <2>2. run[r].oldest[p] <= source[p].revision /\ run[r].oldest[p] \in Nat
        BY <1>1, <1>3 DEF StageInv, JudgedAlike, Honest
    <2> QED BY <2>1, <2>2 DEF Made
<1> HIDE DEF p
<1>7. DirectoryOK'
    BY <1>1, <1>5 DEF StageInv, DirectoryOK
<1>8. \A q \in Packages : \A f \in OnDisk(q)' :
          f \in OnDisk(q) \/ Made(f, run[r].oldest[q])
    <2> SUFFICES ASSUME NEW q \in Packages, NEW f \in OnDisk(q)', f \notin OnDisk(q)
                 PROVE  Made(f, run[r].oldest[q])
        OBVIOUS
    <2>1. f \in staged'[q] /\ f \notin staged[q]
        BY <1>1, <1>5 DEF OnDisk
    <2>2. q = p /\ f = source[p]
        BY <1>5, <2>1
    <2> QED BY <1>6, <2>2
<1>9. Beyond(rec)
    BY <1>2 DEF Beyond
<1> QED BY <1>1, <1>2, <1>7, <1>8, WritingStep

\* Rewriting a mix.exs does not make it older.
LEMMA RewriteIsHonest ==
    ASSUME Inv, StageInv, NEW r \in Runs, RewriteDependencies(r)
    PROVE  StageInv'
<1> DEFINE p == Package(r)
           passed == Ends(run[r], "0")
           next == Loop(run[r], "copy", "tarballs")
<1>1. /\ run[r].pc = "rewrite" /\ Busy(run[r]) /\ Beyond(run[r])
      /\ UNCHANGED <<checkout, crashes, tars, tarballs, unpacked, dirs>>
    BY DEF RewriteDependencies, At, Busy, Beyond
<1>2. /\ Honest(run[r]) /\ Shape(run[r]) /\ run[r].n \in 1 .. Last /\ run[r].n \in Nat \ {0}
      /\ run[r].exit = "none" /\ run[r].built = {} /\ run[r].command # "check"
      /\ p \in Packages
    BY <1>1, AtWork
<1>3. CASE Return(r, "1") /\ UNCHANGED staged
    <2>1. UNCHANGED disk /\ crashes' \in 0 .. MaxCrashes
        BY <1>1, <1>3 DEF disk, StageInv, CheckoutOK
    <2> QED BY <1>1, <1>3, <2>1, ReturnIsHonest
<1>4. ASSUME NEW s \in staged[p], staged' = [staged EXCEPT ![p] = {[s EXCEPT !.form = "hex"]}],
             \/ run[r].command = "stage" /\ run' = [run EXCEPT ![r] = passed]
             \/ run' = [run EXCEPT ![r] = next]
      PROVE  StageInv'
    <2> DEFINE t == [s EXCEPT !.form = "hex"]
    <2>1. Made(t, run[r].oldest[p])
        <3>1. Made(s, run[r].oldest[p])
            BY <1>1, <1>2 DEF StageInv, DiskFresh, OnDisk
        <3>2. "revision" \in DOMAIN t /\ t.revision = s.revision
            BY <3>1 DEF Made
        <3> QED BY <3>1, <3>2 DEF Made
    <2> HIDE DEF t
    <2>2. /\ staged'[p] = {t} /\ \A q \in Packages : q # p => staged'[q] = staged[q]
          /\ staged' = [q \in Packages |-> staged'[q]]
        BY <1>2, <1>4 DEF StageInv, DirectoryOK, t
    <2>3. DirectoryOK'
        BY <1>1, <1>4, <2>2 DEF StageInv, DirectoryOK
    <2>4. \A q \in Packages : \A f \in OnDisk(q)' :
              f \in OnDisk(q) \/ Made(f, run[r].oldest[q])
        <3> SUFFICES ASSUME NEW q \in Packages, NEW f \in OnDisk(q)', f \notin OnDisk(q)
                     PROVE  Made(f, run[r].oldest[q])
            OBVIOUS
        <3>1. f \in staged'[q] /\ f \notin staged[q]
            BY <1>1 DEF OnDisk
        <3>2. q = p /\ f = t
            BY <2>2, <3>1
        <3> QED BY <2>1, <3>2
    <2>5. CASE run[r].command = "stage" /\ run' = [run EXCEPT ![r] = passed]
        <3>1. /\ passed.pc = "done" /\ passed.n = run[r].n /\ passed.exit = "0"
              /\ passed.built = {} /\ passed.oldest = run[r].oldest
              /\ passed.command = "stage"
            BY <1>2, <2>5, EndsType
        <3> HIDE DEF passed
        <3>2. Honest(passed) /\ ~Busy(passed) /\ ~Beyond(passed)
            BY <1>2, <3>1, DoneIsHonest DEF Inspecting
        <3> QED BY <1>1, <2>3, <2>4, <2>5, <3>1, <3>2, WritingStep
    <2>6. CASE run' = [run EXCEPT ![r] = next]
        <3>1. /\ next.command = run[r].command /\ next.exit = run[r].exit
              /\ next.oldest = run[r].oldest /\ next.built = run[r].built
              /\ \/ run[r].n < Last /\ next.n = run[r].n + 1 /\ next.pc = "copy"
                 \/ ~(run[r].n < Last) /\ next.n = 1 /\ next.pc = "tarballs"
            BY <1>2, LoopGoes
        <3> HIDE DEF next
        <3>2. next.n \in 1 .. Last /\ next.pc \in {"copy", "tarballs"}
            BY <1>2, <3>1, PackagesOrdered
        <3>3. Honest(next) /\ Busy(next)
            BY <1>1, <1>2, <3>1, <3>2, StagingIsHonest
        <3>4. Beyond(next)
            BY <3>2 DEF Beyond
        <3> QED BY <1>1, <2>3, <2>4, <2>6, <3>1, <3>3, <3>4, WritingStep
    <2> QED BY <1>4, <2>5, <2>6
<1> QED BY <1>3, <1>4 DEF RewriteDependencies, Ends

-----------------------------------------------------------------------------
(* build: mix hex.build hands on what it has read.                         *)

LEMMA MakeTarballsIsHonest ==
    ASSUME Inv, StageInv, NEW r \in Runs, MakeTarballs(r)
    PROVE  StageInv'
<1>1. /\ run[r].pc = "tarballs" /\ Busy(run[r]) /\ Beyond(run[r]) /\ Go(r, "build")
      /\ UNCHANGED <<checkout, crashes, staged, tars, tarballs, unpacked>>
      /\ dirs' = dirs \cup {"tarballs"}
    BY DEF MakeTarballs, At, Busy, Beyond
<1>2. PICK rec : /\ run' = [run EXCEPT ![r] = rec] /\ Honest(rec) /\ Busy(rec)
                 /\ rec.oldest = run[r].oldest /\ rec.pc = "build"
    BY <1>1, GoIsHonest
<1>3. DirectoryOK'
    BY <1>1 DEF StageInv, DirectoryOK
<1>4. \A q \in Packages : OnDisk(q)' = OnDisk(q)
    BY <1>1 DEF OnDisk
<1> QED BY <1>1, <1>2, <1>3, <1>4, WritingStep

LEMMA HexBuildReadsIsHonest ==
    ASSUME Inv, StageInv, NEW r \in Runs, HexBuildReads(r)
    PROVE  StageInv'
<1> DEFINE p == Package(r)
           rec == Builds(run[r], "building", staged[p])
<1>1. /\ run[r].pc = "build" /\ Busy(run[r]) /\ Beyond(run[r])
      /\ UNCHANGED <<checkout, disk>> /\ crashes' \in 0 .. MaxCrashes
    BY DEF HexBuildReads, At, Busy, Beyond, StageInv, CheckoutOK
<1>2. /\ Honest(run[r]) /\ Shape(run[r]) /\ run[r].n \in 1 .. Last
      /\ run[r].exit = "none" /\ run[r].command # "check" /\ p \in Packages
    BY <1>1, AtWork
<1>3. CASE Return(r, "1")
    BY <1>1, <1>3, ReturnIsHonest
<1>4. CASE run' = [run EXCEPT ![r] = rec]
    <2>1. /\ rec.pc = "building" /\ rec.n = run[r].n /\ rec.exit = "none"
          /\ rec.command = run[r].command /\ rec.oldest = run[r].oldest
          /\ rec.built = staged[p]
        BY <1>2, BuildsType
    <2> HIDE DEF rec
    <2>2. \A f \in rec.built : Made(f, rec.oldest[TopologicalOrder[rec.n]])
        BY <1>1, <1>2, <2>1 DEF StageInv, DiskFresh, OnDisk, Package
    <2>3. Honest(rec) /\ Busy(rec)
        BY <1>1, <1>2, <2>1, <2>2, StagingIsHonest
    <2> QED BY <1>1, <1>4, <2>1, <2>3, QuietRecordStep
<1> QED BY <1>3, <1>4 DEF HexBuildReads, Builds

LEMMA HexBuildWritesIsHonest ==
    ASSUME Inv, StageInv, NEW r \in Runs, HexBuildWrites(r)
    PROVE  StageInv'
<1> DEFINE p == Package(r)
           rec == Builds(run[r], "collect", {})
<1>1. /\ run[r].pc = "building" /\ Busy(run[r]) /\ Beyond(run[r])
      /\ UNCHANGED <<checkout, crashes, staged, tarballs, unpacked, dirs>>
    BY DEF HexBuildWrites, At, Busy, Beyond
<1>2. /\ Honest(run[r]) /\ Shape(run[r]) /\ run[r].n \in 1 .. Last
      /\ run[r].exit = "none" /\ run[r].command # "check" /\ p \in Packages
    BY <1>1, AtWork
<1>3. CASE Return(r, "1") /\ UNCHANGED tars
    <2>1. UNCHANGED disk /\ crashes' \in 0 .. MaxCrashes
        BY <1>1, <1>3 DEF disk, StageInv, CheckoutOK
    <2> QED BY <1>1, <1>3, <2>1, ReturnIsHonest
<1>4. ASSUME staged[p] # {}, NEW t \in run[r].built, tars' = [tars EXCEPT ![p] = Put(@, t)],
             run' = [run EXCEPT ![r] = rec]
      PROVE  StageInv'
    <2>1. /\ rec.pc = "collect" /\ rec.n = run[r].n /\ rec.exit = "none"
          /\ rec.command = run[r].command /\ rec.oldest = run[r].oldest
          /\ rec.built = {}
        BY <1>2, BuildsType
    <2> HIDE DEF rec
    <2>2. Honest(rec) /\ Busy(rec) /\ Beyond(rec)
        BY <1>1, <1>2, <2>1, StagingIsHonest DEF Beyond
    <2>3. Made(t, run[r].oldest[p])
        BY <1>2, <1>4 DEF Honest, Package
    <2> HIDE DEF p
    <2>4. /\ tars'[p] \subseteq tars[p] \cup {t}
          /\ \A q \in Packages : q # p => tars'[q] = tars[q]
          /\ tars' = [q \in Packages |-> tars'[q]]
        BY <1>2, <1>4 DEF StageInv, DirectoryOK, Put
    <2>5. DirectoryOK'
        BY <1>1, <1>4, <2>4 DEF StageInv, DirectoryOK
    <2>6. \A q \in Packages : \A f \in OnDisk(q)' :
              f \in OnDisk(q) \/ Made(f, run[r].oldest[q])
        <3> SUFFICES ASSUME NEW q \in Packages, NEW f \in OnDisk(q)', f \notin OnDisk(q)
                     PROVE  Made(f, run[r].oldest[q])
            OBVIOUS
        <3>1. f \in tars'[q] /\ f \notin tars[q]
            BY <1>1 DEF OnDisk
        <3>2. q = p /\ f = t
            BY <2>4, <3>1
        <3> QED BY <2>3, <3>2
    <2> QED BY <1>1, <1>4, <2>1, <2>2, <2>5, <2>6, WritingStep
<1> QED BY <1>3, <1>4 DEF HexBuildWrites, Builds

LEMMA CollectIsHonest ==
    ASSUME Inv, StageInv, NEW r \in Runs, CollectTar(r)
    PROVE  StageInv'
<1> DEFINE p == Package(r)
           passed == Ends(run[r], "0")
           next == Loop(run[r], "build", "unpack")
<1>1. /\ run[r].pc = "collect" /\ Busy(run[r]) /\ Beyond(run[r])
      /\ UNCHANGED <<checkout, crashes, staged, tars, unpacked, dirs>>
    BY DEF CollectTar, At, Busy, Beyond
<1>2. /\ Honest(run[r]) /\ Shape(run[r]) /\ run[r].n \in 1 .. Last /\ run[r].n \in Nat \ {0}
      /\ run[r].exit = "none" /\ run[r].built = {} /\ run[r].command # "check"
      /\ p \in Packages
    BY <1>1, AtWork
<1>3. CASE Return(r, "1") /\ UNCHANGED tarballs
    <2>1. UNCHANGED disk /\ crashes' \in 0 .. MaxCrashes
        BY <1>1, <1>3 DEF disk, StageInv, CheckoutOK
    <2> QED BY <1>1, <1>3, <2>1, ReturnIsHonest
<1>4. ASSUME "tarballs" \in dirs, NEW t \in tars[p],
             tarballs' = [tarballs EXCEPT ![p] = Put(@, t)],
             \/ run[r].command = "build" /\ run' = [run EXCEPT ![r] = passed]
             \/ run' = [run EXCEPT ![r] = next]
      PROVE  StageInv'
    <2>1. t \in OnDisk(p)
        BY <1>4 DEF OnDisk
    <2>2. Made(t, run[r].oldest[p])
        BY <1>1, <1>2, <2>1 DEF StageInv, DiskFresh
    <2> HIDE DEF p
    <2>3. /\ tarballs'[p] \subseteq tarballs[p] \cup {t}
          /\ \A q \in Packages : q # p => tarballs'[q] = tarballs[q]
          /\ tarballs' = [q \in Packages |-> tarballs'[q]]
        BY <1>2, <1>4 DEF StageInv, DirectoryOK, Put
    <2>4. DirectoryOK'
        BY <1>1, <1>4, <2>3 DEF StageInv, DirectoryOK
    <2>5. \A q \in Packages : \A f \in OnDisk(q)' :
              f \in OnDisk(q) \/ Made(f, run[r].oldest[q])
        <3> SUFFICES ASSUME NEW q \in Packages, NEW f \in OnDisk(q)', f \notin OnDisk(q)
                     PROVE  Made(f, run[r].oldest[q])
            OBVIOUS
        <3>1. f \in tarballs'[q] /\ f \notin tarballs[q]
            BY <1>1 DEF OnDisk
        <3>2. q = p /\ f = t
            BY <2>3, <3>1
        <3> QED BY <2>2, <3>2
    <2>6. CASE run[r].command = "build" /\ run' = [run EXCEPT ![r] = passed]
        <3>1. /\ passed.pc = "done" /\ passed.n = run[r].n /\ passed.exit = "0"
              /\ passed.built = {} /\ passed.oldest = run[r].oldest
              /\ passed.command = "build"
            BY <1>2, <2>6, EndsType
        <3> HIDE DEF passed
        <3>2. Honest(passed) /\ ~Busy(passed) /\ ~Beyond(passed)
            BY <1>2, <3>1, DoneIsHonest DEF Inspecting
        <3> QED BY <1>1, <2>4, <2>5, <2>6, <3>1, <3>2, WritingStep
    <2>7. CASE run' = [run EXCEPT ![r] = next]
        <3>1. /\ next.command = run[r].command /\ next.exit = run[r].exit
              /\ next.oldest = run[r].oldest /\ next.built = run[r].built
              /\ \/ run[r].n < Last /\ next.n = run[r].n + 1 /\ next.pc = "build"
                 \/ ~(run[r].n < Last) /\ next.n = 1 /\ next.pc = "unpack"
            BY <1>2, LoopGoes
        <3> HIDE DEF next
        <3>2. next.n \in 1 .. Last /\ next.pc \in {"build", "unpack"}
            BY <1>2, <3>1, PackagesOrdered
        <3>3. Honest(next) /\ Busy(next)
            BY <1>1, <1>2, <3>1, <3>2, StagingIsHonest
        <3>4. Beyond(next)
            BY <3>2 DEF Beyond
        <3> QED BY <1>1, <2>4, <2>5, <2>7, <3>1, <3>3, <3>4, WritingStep
    <2> QED BY <1>4, <2>6, <2>7
<1> QED BY <1>3, <1>4 DEF CollectTar, Ends

-----------------------------------------------------------------------------
(* inspect and verify: what is read is in the directory.                   *)

LEMMA ClearUnpackedIsHonest ==
    ASSUME Inv, StageInv, NEW r \in Runs, ClearUnpacked(r)
    PROVE  StageInv'
<1>1. /\ run[r].pc = "unpack" /\ Busy(run[r]) /\ Beyond(run[r]) /\ Go(r, "inspect")
      /\ UNCHANGED <<checkout, crashes, staged, tars, tarballs>>
      /\ unpacked' = [p \in Packages |-> {}] /\ dirs' = dirs \cup {"unpacked"}
    BY DEF ClearUnpacked, At, Busy, Beyond
<1>2. run[r].n = 1
    BY <1>1 DEF Inv, Earned
<1>3. PICK rec : /\ run' = [run EXCEPT ![r] = rec] /\ Honest(rec) /\ Busy(rec)
                 /\ rec.oldest = run[r].oldest /\ rec.pc = "inspect"
    BY <1>1, <1>2, GoIsHonest
<1>4. DirectoryOK'
    BY <1>1 DEF StageInv, DirectoryOK
<1>5. \A q \in Packages : OnDisk(q)' \subseteq OnDisk(q)
    BY <1>1 DEF OnDisk
<1> QED BY <1>1, <1>3, <1>4, <1>5, WritingStep

LEMMA InspectIsHonest ==
    ASSUME Inv, StageInv, NEW r \in Runs, InspectPackage(r)
    PROVE  StageInv'
<1> DEFINE p == Package(r)
<1>1. /\ run[r].pc = "inspect" /\ Busy(run[r]) /\ Beyond(run[r])
      /\ UNCHANGED <<checkout, crashes, staged, tars, tarballs>>
    BY DEF InspectPackage, At, Busy, Beyond
<1>2. /\ Honest(run[r]) /\ Shape(run[r]) /\ run[r].n \in 1 .. Last /\ run[r].n \in Nat \ {0}
      /\ run[r].exit = "none" /\ run[r].built = {} /\ run[r].command # "check"
      /\ p \in Packages
    BY <1>1, AtWork
<1>3. CASE Return(r, "1") /\ UNCHANGED <<unpacked, dirs>>
    <2>1. UNCHANGED disk /\ crashes' \in 0 .. MaxCrashes
        BY <1>1, <1>3 DEF disk, StageInv, CheckoutOK
    <2> QED BY <1>1, <1>3, <2>1, ReturnIsHonest
<1>4. ASSUME NEW t \in tarballs[p],
             unpacked' = [unpacked EXCEPT ![p] = {t}], dirs' = dirs \cup {"unpacked"},
             LET ok == run[r].ok /\ MeetsCriteria(t)
                 seen == [q \in DOMAIN run[r].seen \cup {p} |->
                            IF q = p THEN t ELSE run[r].seen[q]]
             IN run' = [run EXCEPT ![r] =
                          Loop([run[r] EXCEPT !.ok = ok, !.seen = seen],
                               "inspect", "inspected")]
      PROVE  StageInv'
    <2> DEFINE ok == run[r].ok /\ MeetsCriteria(t)
               seen == [q \in DOMAIN run[r].seen \cup {p} |->
                          IF q = p THEN t ELSE run[r].seen[q]]
               before == Sees(run[r], ok, seen)
               rec == Loop(before, "inspect", "inspected")
    <2>1. run' = [run EXCEPT ![r] = rec]
        BY <1>4 DEF Sees
    <2>2. /\ p \in DOMAIN seen /\ seen[p] = t
          /\ \A q \in DOMAIN run[r].seen :
                q \in DOMAIN seen /\ (q # p => seen[q] = run[r].seen[q])
        OBVIOUS
    <2> HIDE DEF seen, ok
    <2>3. /\ Shape(before) /\ before.n = run[r].n
          /\ before.command = run[r].command /\ before.exit = run[r].exit
          /\ before.seen = seen /\ before.oldest = run[r].oldest /\ before.built = run[r].built
        BY <1>2, SeesType
    <2> HIDE DEF before
    <2>4. /\ rec.seen = seen /\ rec.command = run[r].command /\ rec.exit = "none"
          /\ rec.oldest = run[r].oldest /\ rec.built = {}
          /\ \/ run[r].n < Last /\ rec.n = run[r].n + 1 /\ rec.pc = "inspect"
             \/ ~(run[r].n < Last) /\ rec.n = 1 /\ rec.pc = "inspected"
        BY <1>2, <2>3, LoopGoes
    <2> HIDE DEF rec
    <2>5. t \in OnDisk(p)
        BY <1>4 DEF OnDisk
    <2>6. Made(t, run[r].oldest[p])
        BY <1>1, <1>2, <2>5 DEF StageInv, DiskFresh
    <2>7. ASSUME NEW i \in 1 .. Last, i <= run[r].n
          PROVE  Fresh(rec, TopologicalOrder[i])
        <3>1. CASE TopologicalOrder[i] = p
            BY <2>2, <2>4, <2>6, <3>1 DEF Fresh
        <3>2. CASE TopologicalOrder[i] # p
            <4>1. i < run[r].n
                BY <1>2, <2>7, <3>2, PackagesOrdered DEF Package
            <4>2. Fresh(run[r], TopologicalOrder[i])
                BY <1>1, <1>2, <4>1 DEF Honest
            <4> QED BY <2>2, <2>4, <3>2, <4>2 DEF Fresh
        <3> QED BY <3>1, <3>2
    <2>8. Honest(rec) /\ Busy(rec) /\ Beyond(rec)
        <3>1. rec.n \in 1 .. Last /\ rec.pc \in {"inspect", "inspected"}
            BY <1>2, <2>4, PackagesOrdered
        <3>2. \A q \in Packages : rec.oldest[q] \in Nat
            BY <1>1, <1>2, <2>4 DEF Honest
        <3>3. ASSUME rec.pc = "inspect", NEW i \in 1 .. Last, i < rec.n
              PROVE  Fresh(rec, TopologicalOrder[i])
            <4>1. i <= run[r].n
                BY <1>2, <2>4, <3>3, PackagesOrdered
            <4> QED BY <2>7, <4>1
        <3>4. ASSUME rec.pc = "inspected", NEW q \in Packages PROVE Fresh(rec, q)
            <4>1. PICK i \in 1 .. Last : TopologicalOrder[i] = q
                BY PackagesOrdered
            <4>2. i <= run[r].n
                BY <1>2, <2>4, <3>4, PackagesOrdered
            <4> QED BY <2>7, <4>1, <4>2
        <3> QED BY <1>2, <2>4, <3>1, <3>2, <3>3, <3>4 DEF Honest, Busy, Beyond
    <2> HIDE DEF p
    <2>9. /\ unpacked'[p] = {t} /\ \A q \in Packages : q # p => unpacked'[q] = unpacked[q]
          /\ unpacked' = [q \in Packages |-> unpacked'[q]]
        BY <1>2, <1>4 DEF StageInv, DirectoryOK
    <2>10. DirectoryOK'
        BY <1>1, <1>4, <2>9 DEF StageInv, DirectoryOK
    <2>11. \A q \in Packages : \A f \in OnDisk(q)' :
              f \in OnDisk(q) \/ Made(f, run[r].oldest[q])
        <3> SUFFICES ASSUME NEW q \in Packages, NEW f \in OnDisk(q)', f \notin OnDisk(q)
                     PROVE  Made(f, run[r].oldest[q])
            OBVIOUS
        <3>1. f \in unpacked'[q] /\ f \notin unpacked[q]
            BY <1>1 DEF OnDisk
        <3>2. q = p /\ f = t
            BY <2>9, <3>1
        <3> QED BY <2>6, <3>2
    <2> QED BY <1>1, <2>1, <2>4, <2>8, <2>10, <2>11, WritingStep
<1> QED BY <1>3, <1>4 DEF InspectPackage

LEMMA InspectReturnsIsHonest ==
    ASSUME Inv, StageInv, NEW r \in Runs, InspectReturns(r)
    PROVE  StageInv'
<1>1. /\ run[r].pc = "inspected" /\ Busy(run[r]) /\ Beyond(run[r])
      /\ UNCHANGED <<checkout, disk>> /\ crashes' \in 0 .. MaxCrashes
    BY DEF InspectReturns, At, Busy, Beyond, StageInv, CheckoutOK
<1>2. \A p \in Packages : Fresh(run[r], p)
    BY <1>1 DEF StageInv, Honest
<1>3. run[r].command # "check"
    BY <1>1, AtWork
<1>4. CASE Go(r, "serve")
    <2>1. PICK rec : /\ run' = [run EXCEPT ![r] = rec] /\ Honest(rec) /\ Busy(rec)
                     /\ rec.oldest = run[r].oldest /\ rec.pc = "serve"
        BY <1>1, <1>2, <1>4, GoIsHonest
    <2> QED BY <1>1, <2>1, QuietRecordStep
<1>5. ASSUME NEW code \in {"0", "1"}, Return(r, code) PROVE StageInv'
    BY <1>1, <1>2, <1>3, <1>5, ReturnIsHonest
<1> QED BY <1>4, <1>5 DEF InspectReturns

LEMMA ServeIsHonest ==
    ASSUME Inv, StageInv, NEW r \in Runs, ServeTarballs(r)
    PROVE  StageInv'
<1>1. /\ run[r].pc = "serve" /\ Busy(run[r]) /\ Beyond(run[r])
      /\ UNCHANGED <<checkout, disk>> /\ crashes' \in 0 .. MaxCrashes
    BY DEF ServeTarballs, At, Busy, Beyond, StageInv, CheckoutOK
<1>2. \A p \in Packages : Fresh(run[r], p)
    BY <1>1 DEF StageInv, Honest
<1>3. CASE Go(r, "isolate")
    <2>1. PICK rec : /\ run' = [run EXCEPT ![r] = rec] /\ Honest(rec) /\ Busy(rec)
                     /\ rec.oldest = run[r].oldest /\ rec.pc = "isolate"
        BY <1>1, <1>2, <1>3, GoIsHonest
    <2> QED BY <1>1, <2>1, QuietRecordStep
<1>4. CASE Return(r, "1")
    BY <1>1, <1>4, ReturnIsHonest
<1> QED BY <1>3, <1>4 DEF ServeTarballs

LEMMA IsolateIsHonest ==
    ASSUME Inv, StageInv, NEW r \in Runs, IsolatePackage(r)
    PROVE  StageInv'
<1> DEFINE p == Package(r)
<1>1. /\ run[r].pc = "isolate" /\ Busy(run[r]) /\ Beyond(run[r])
      /\ UNCHANGED <<checkout, disk>> /\ crashes' \in 0 .. MaxCrashes
    BY DEF IsolatePackage, At, Busy, Beyond, StageInv, CheckoutOK
<1>2. /\ Honest(run[r]) /\ Shape(run[r]) /\ run[r].n \in 1 .. Last /\ run[r].n \in Nat \ {0}
      /\ run[r].exit = "none" /\ run[r].built = {} /\ run[r].command # "check"
      /\ p \in Packages
    BY <1>1, AtWork
<1>3. CASE Return(r, "1")
    BY <1>1, <1>3, ReturnIsHonest
<1>4. ASSUME NEW t \in unpacked[p],
             run' = [run EXCEPT ![r] =
                       IF @.n < Last
                         THEN [@ EXCEPT !.n = run[r].n + 1, !.seen[p] = t]
                         ELSE [@ EXCEPT !.pc = "done", !.exit = "0",
                                        !.seen[p] = t]]
      PROVE  StageInv'
    <2> DEFINE further == Tries(run[r], p, t)
               passed == Passes(run[r], p, t)
               seen == [run[r].seen EXCEPT ![p] = t]
    <2>1. \/ run[r].n < Last /\ run' = [run EXCEPT ![r] = further]
          \/ run' = [run EXCEPT ![r] = passed]
        <3> DEFINE rec == IF run[r].n < Last
                            THEN [run[r] EXCEPT !.n = @ + 1, !.seen[p] = t]
                            ELSE [run[r] EXCEPT !.pc = "done", !.exit = "0",
                                                !.seen[p] = t]
        <3>1. run' = [run EXCEPT ![r] = rec]
            BY <1>4
        <3>2. (run[r].n < Last /\ rec = further) \/ rec = passed
            BY DEF Tries, Passes
        <3> HIDE DEF rec, further, passed
        <3> QED BY <3>1, <3>2
    <2>2. \A q \in Packages : Fresh(run[r], q) /\ run[r].oldest[q] \in Nat
        BY <1>1, <1>2 DEF Honest
    <2>3. Made(t, run[r].oldest[p])
        <3>1. t \in OnDisk(p)
            BY <1>4 DEF OnDisk
        <3> QED BY <1>1, <1>2, <3>1 DEF StageInv, DiskFresh
    <2>4. \A q \in Packages : q \in DOMAIN seen /\ Made(seen[q], run[r].oldest[q])
        <3> SUFFICES ASSUME NEW q \in Packages
                     PROVE  q \in DOMAIN seen /\ Made(seen[q], run[r].oldest[q])
            OBVIOUS
        <3>1. q \in DOMAIN run[r].seen /\ Made(run[r].seen[q], run[r].oldest[q])
            BY <2>2 DEF Fresh
        <3>2. q = p => seen[q] = t
            BY <3>1
        <3>3. q # p => seen[q] = run[r].seen[q]
            BY <3>1
        <3> HIDE DEF p
        <3> QED BY <2>3, <3>1, <3>2, <3>3
    <2>5. /\ further.pc = "isolate" /\ further.n = run[r].n + 1 /\ further.exit = "none"
          /\ further.command = run[r].command /\ further.oldest = run[r].oldest
          /\ further.built = {}
        BY <1>1, <1>2, TriesType
    <2>6. further.seen = seen
        BY <1>2, TriesSeen
    <2>7. /\ passed.pc = "done" /\ passed.n = run[r].n /\ passed.exit = "0"
          /\ passed.command = run[r].command /\ passed.oldest = run[r].oldest
          /\ passed.built = {}
        BY <1>2, PassesType
    <2>8. passed.seen = seen
        BY <1>2, PassesSeen
    <2> HIDE DEF further, passed, seen
    <2>9. CASE run[r].n < Last /\ run' = [run EXCEPT ![r] = further]
        <3>1. further.n \in 1 .. Last
            BY <1>2, <2>5, <2>9, PackagesOrdered
        <3>2. \A q \in Packages : Fresh(further, q)
            BY <2>4, <2>5, <2>6 DEF Fresh
        <3>3. \A q \in Packages : further.oldest[q] \in Nat
            BY <2>2, <2>5
        <3>4. Honest(further) /\ Busy(further)
            BY <1>2, <2>5, <3>1, <3>2, <3>3 DEF Honest, Busy
        <3> QED BY <1>1, <2>5, <2>9, <3>4, QuietRecordStep
    <2>10. CASE run' = [run EXCEPT ![r] = passed]
        <3>1. \A q \in Packages : Fresh(passed, q)
            BY <2>4, <2>7, <2>8 DEF Fresh
        <3>2. Honest(passed) /\ ~Busy(passed) /\ ~Beyond(passed)
            BY <1>2, <2>7, <3>1, DoneIsHonest
        <3> QED BY <1>1, <2>7, <2>10, <3>2, QuietRecordStep
    <2> QED BY <2>1, <2>9, <2>10
<1> QED BY <1>3, <1>4 DEF IsolatePackage

-----------------------------------------------------------------------------
(* Starting, editing, killing.                                             *)

\* What an invocation is judged by is no newer than the checkout, and the same
\* as for the invocations that it overlaps from its start.
LEMMA StartIsHonest ==
    ASSUME Inv, StageInv, NEW r \in Runs, NEW command, Start(r, command)
    PROVE  StageInv'
<1> DEFINE others == {q \in Runs : Working(q)}
           shared == {Revisions} \cup {run[q].oldest : q \in others}
           oldest == [p \in Packages |->
                         CHOOSE v \in {f[p] : f \in shared} :
                             \A f \in shared : v <= f[p]]
           first == IF command = "check" THEN "lint" ELSE "versions"
           rec == [Idle EXCEPT !.command = command, !.pc = first, !.oldest = oldest]
<1>1. /\ run' = [q \in Runs |-> IF q = r THEN rec ELSE run[q]]
      /\ UNCHANGED <<revision, source, staged, tars, tarballs, unpacked, dirs, crashes>>
    BY DEF Start, checkout, disk
<1>2. \A q \in others : q \in Runs /\ Busy(run[q])
    BY DEF Working, Busy
<1>3. ASSUME NEW p \in Packages
      PROVE  /\ oldest[p] \in Nat /\ oldest[p] <= source[p].revision
             /\ \A q \in others : run[q].oldest[p] = oldest[p]
    <2>1. Revisions \in shared /\ Revisions[p] = source[p].revision /\ source[p].revision \in Nat
        BY <1>3 DEF Revisions, StageInv, CheckoutOK, Made
    <2>2. \A q \in others : /\ run[q].oldest[p] \in Nat
                            /\ run[q].oldest[p] <= source[p].revision
                            /\ \A s \in others : run[s].oldest[p] = run[q].oldest[p]
        BY <1>2, <1>3 DEF StageInv, JudgedAlike, Honest
    <2>3. \A f \in shared : f = Revisions \/ \E q \in others : f = run[q].oldest
        OBVIOUS
    <2>4. \A q \in others : run[q].oldest \in shared
        OBVIOUS
    <2>5. oldest[p] = CHOOSE v \in {f[p] : f \in shared} : \A f \in shared : v <= f[p]
        BY <1>3
    <2> HIDE DEF oldest, shared, others
    <2>6. \E v \in {f[p] : f \in shared} : \A f \in shared : v <= f[p]
        <3>1. CASE others = {}
            BY <2>1, <2>3, <3>1
        <3>2. ASSUME NEW q \in others PROVE \A f \in shared : run[q].oldest[p] <= f[p]
            BY <2>1, <2>2, <2>3
        <3> QED BY <2>4, <3>1, <3>2
    <2>7. oldest[p] \in {f[p] : f \in shared} /\ \A f \in shared : oldest[p] <= f[p]
        BY <2>5, <2>6
    <2>8. PICK f \in shared : oldest[p] = f[p]
        BY <2>7
    <2>9. oldest[p] \in Nat
        BY <2>1, <2>2, <2>3, <2>8
    <2>10. oldest[p] <= source[p].revision
        BY <2>1, <2>7
    <2>11. ASSUME NEW q \in others PROVE run[q].oldest[p] = oldest[p]
        <3>1. oldest[p] <= run[q].oldest[p]
            BY <2>4, <2>7
        <3>2. run[q].oldest[p] <= oldest[p]
            <4>1. CASE f = Revisions
                BY <2>1, <2>2, <2>8, <4>1
            <4>2. ASSUME NEW s \in others, f = run[s].oldest PROVE run[q].oldest[p] <= oldest[p]
                BY <2>2, <2>8, <4>2
            <4> QED BY <2>3, <4>1, <4>2
        <3>3. run[q].oldest[p] \in Nat
            BY <2>2
        <3> QED BY <2>9, <3>1, <3>2, <3>3
    <2> QED BY <2>9, <2>10, <2>11
<1>4. /\ rec.pc = first /\ rec.n = 1 /\ rec.exit = "none" /\ rec.built = {}
      /\ rec.command = command /\ rec.oldest = oldest
    BY DEF Idle
<1> HIDE DEF rec, oldest, shared
<1>5. /\ rec.pc \in {"lint", "versions"} /\ (command = "check" => rec.pc = "lint")
      /\ ~Beyond(rec) /\ Busy(rec)
    BY <1>4 DEF Beyond, Busy
<1> HIDE DEF first
<1>6. Honest(rec)
    <2>1. 1 \in 1 .. Last /\ \A i \in 1 .. Last : ~(i < rec.n)
        BY <1>4, PackagesOrdered
    <2>2. \A p \in Packages : rec.oldest[p] \in Nat
        BY <1>3, <1>4
    <2> QED BY <1>4, <1>5, <2>1, <2>2 DEF Honest
<1>7. run'[r] = rec /\ \A q \in Runs : q # r => run'[q] = run[q]
    BY <1>1
<1>8. CheckoutOK' /\ DirectoryOK'
    BY <1>1 DEF StageInv, CheckoutOK, DirectoryOK
<1>9. JudgedAlike'
    <2> SUFFICES ASSUME NEW s \in Runs, Busy(run'[s]), NEW p \in Packages
                 PROVE  /\ run'[s].oldest[p] <= source[p].revision
                        /\ \A q \in Runs : Busy(run'[q]) => run'[q].oldest[p] = run'[s].oldest[p]
        BY <1>1 DEF JudgedAlike, Busy
    <2>1. \A q \in Runs : q # r /\ Busy(run'[q]) => q \in others /\ run'[q].oldest = run[q].oldest
        BY <1>7 DEF Working, Busy
    <2>2. /\ run'[r].oldest[p] <= source[p].revision
          /\ \A q \in others : run[q].oldest[p] = run'[r].oldest[p]
        BY <1>3, <1>4, <1>7
    <2>3. \A q \in Runs : Busy(run'[q]) => run'[q].oldest[p] = run'[r].oldest[p]
        BY <2>1, <2>2
    <2> QED BY <2>2, <2>3
<1>10. DiskFresh'
    <2>1. \A q \in Runs : Beyond(run'[q]) => q # r /\ run'[q] = run[q]
        BY <1>5, <1>7
    <2>2. \A p \in Packages : OnDisk(p)' = OnDisk(p)
        BY <1>1 DEF OnDisk
    <2> QED BY <2>1, <2>2 DEF StageInv, DiskFresh, Beyond
<1>11. (\A q \in Runs : Honest(run[q]))'
    <2>1. \A q \in Runs : Honest(run'[q])
        BY <1>6, <1>7 DEF StageInv
    <2> QED BY <2>1 DEF Honest, Busy, Linted, Fresh
<1> QED BY <1>8, <1>9, <1>10, <1>11 DEF StageInv

\* An edit makes the checkout newer.
LEMMA EditIsHonest ==
    ASSUME Inv, StageInv, NEW p \in Packages, NEW v \in Variants[p], Edit(p, v)
    PROVE  StageInv'
<1>1. /\ revision < MaxRevision /\ revision' = revision + 1
      /\ source' = [source EXCEPT ![p] = Source(v, revision + 1)]
      /\ UNCHANGED <<staged, tars, tarballs, unpacked, dirs, run, crashes>>
    BY DEF Edit, disk
<1>2. /\ revision \in 0 .. MaxRevision /\ MaxRevision \in Nat /\ crashes \in 0 .. MaxCrashes
      /\ source = [q \in Packages |-> source[q]]
      /\ \A q \in Packages : Made(source[q], 0) /\ source[q].revision <= revision
    BY StageAssumption DEF StageInv, CheckoutOK
<1>3. /\ source'[p] = Source(v, revision + 1) /\ \A q \in Packages : q # p => source'[q] = source[q]
      /\ source' = [q \in Packages |-> source'[q]]
    BY <1>1, <1>2
<1>4. Made(source'[p], 0) /\ source'[p].revision = revision + 1
    BY <1>2, <1>3 DEF Made, Source
<1>5. revision' \in 0 .. MaxRevision /\ revision + 1 \in Nat /\ revision \in Nat
    BY <1>1, <1>2
<1>6. \A q \in Packages : source[q].revision \in Nat /\ source[q].revision <= source'[q].revision
    BY <1>2, <1>3, <1>4, <1>5 DEF Made
<1>7. CheckoutOK'
    <2>1. \A q \in Packages : Made(source'[q], 0) /\ source'[q].revision <= revision'
        <3> SUFFICES ASSUME NEW q \in Packages
                     PROVE  Made(source'[q], 0) /\ source'[q].revision <= revision'
            OBVIOUS
        <3>1. CASE q = p
            BY <1>1, <1>4, <1>5, <3>1
        <3>2. CASE q # p
            BY <1>1, <1>2, <1>3, <1>5, <3>2 DEF Made
        <3> QED BY <3>1, <3>2
    <2> QED BY <1>1, <1>2, <1>3, <1>5, <2>1 DEF CheckoutOK, Made
<1>8. DirectoryOK'
    BY <1>1 DEF StageInv, DirectoryOK
<1>9. JudgedAlike'
    <2> SUFFICES ASSUME NEW r \in Runs, Busy(run[r]), NEW q \in Packages
                 PROVE  /\ run[r].oldest[q] <= source'[q].revision
                        /\ \A s \in Runs : Busy(run[s]) => run[s].oldest[q] = run[r].oldest[q]
        BY <1>1 DEF JudgedAlike, Busy
    <2>1. run[r].oldest[q] \in Nat
        BY DEF StageInv, Honest
    <2>2. /\ run[r].oldest[q] <= source[q].revision
          /\ \A s \in Runs : Busy(run[s]) => run[s].oldest[q] = run[r].oldest[q]
        BY DEF StageInv, JudgedAlike
    <2>3. source'[q].revision \in Nat
        BY <1>2, <1>3, <1>4, <1>5 DEF Made
    <2>4. source[q].revision \in Nat /\ source[q].revision <= source'[q].revision
        BY <1>6
    <2>5. run[r].oldest[q] <= source'[q].revision
        BY <2>1, <2>2, <2>3, <2>4
    <2> QED BY <2>2, <2>5
<1>10. DiskFresh'
    BY <1>1 DEF StageInv, DiskFresh, OnDisk, Beyond
<1>11. (\A r \in Runs : Honest(run[r]))'
    BY <1>1 DEF StageInv, Honest, Busy, Linted, Fresh
<1> QED BY <1>7, <1>8, <1>9, <1>10, <1>11 DEF StageInv

LEMMA CrashIsHonest ==
    ASSUME Inv, StageInv, NEW r \in Runs, Crash(r)
    PROVE  StageInv'
<1>1. /\ Busy(run[r]) /\ Return(r, "killed") /\ UNCHANGED <<checkout, disk>>
      /\ crashes < MaxCrashes /\ crashes' = crashes + 1
    BY DEF Crash, Working, Busy
<1>2. crashes' \in 0 .. MaxCrashes
    BY <1>1, StageAssumption DEF StageInv, CheckoutOK
<1> QED BY <1>1, <1>2, ReturnIsHonest

LEMMA InitIsHonest == Init => StageInv
<1> SUFFICES ASSUME Init PROVE StageInv
    OBVIOUS
<1>1. /\ revision = 0 /\ crashes = 0 /\ dirs = {}
      /\ staged = [p \in Packages |-> {}] /\ tars = [p \in Packages |-> {}]
      /\ tarballs = [p \in Packages |-> {}] /\ unpacked = [p \in Packages |-> {}]
      /\ run = [r \in Runs |-> Idle]
      /\ DOMAIN source = Packages /\ source = [p \in Packages |-> source[p]]
      /\ \A p \in Packages : source[p] \in SourcesAt(p, 0)
    BY DEF Init
<1>2. \A p \in Packages : Made(source[p], 0) /\ source[p].revision = 0
    BY <1>1 DEF SourcesAt, Source, Made
<1>3. CheckoutOK
    BY <1>1, <1>2, StageAssumption DEF CheckoutOK
<1>4. DirectoryOK
    BY <1>1 DEF DirectoryOK
<1>5. \A r \in Runs : run[r] = Idle /\ ~Busy(run[r]) /\ ~Beyond(run[r])
    BY <1>1 DEF Busy, Beyond, Idle
<1>6. JudgedAlike /\ DiskFresh
    BY <1>5 DEF JudgedAlike, DiskFresh
<1>7. Honest(Idle)
    <2>1. 1 \in 1 .. Last
        BY PackagesOrdered
    <2> QED BY <2>1 DEF Honest, Busy, Idle
<1>8. \A r \in Runs : Honest(run[r])
    BY <1>5, <1>7
<1> QED BY <1>3, <1>4, <1>6, <1>8 DEF StageInv

LEMMA NextIsHonest == Inv /\ StageInv /\ [Next]_vars => StageInv'
<1> SUFFICES ASSUME Inv, StageInv, [Next]_vars PROVE StageInv'
    OBVIOUS
<1>1. ASSUME NEW r \in Runs, Step(r) PROVE StageInv'
    BY <1>1, LintIsHonest, MetadataIsHonest, ReadVersionsIsHonest, ClearStageIsHonest,
       CopyIsHonest, RewriteIsHonest, MakeTarballsIsHonest, HexBuildReadsIsHonest,
       HexBuildWritesIsHonest, CollectIsHonest, ClearUnpackedIsHonest, InspectIsHonest,
       InspectReturnsIsHonest, ServeIsHonest, IsolateIsHonest DEF Step
<1>2. ASSUME NEW r \in Runs, Crash(r) PROVE StageInv'
    BY <1>2, CrashIsHonest
<1>3. ASSUME NEW r \in Runs, NEW c \in Commands, Start(r, c) PROVE StageInv'
    BY <1>3, StartIsHonest
<1>4. ASSUME NEW p \in Packages, NEW v \in Variants[p], Edit(p, v) PROVE StageInv'
    BY <1>4, EditIsHonest
<1>5. CASE UNCHANGED vars
    <2>1. UNCHANGED <<revision, source, staged, tars, tarballs, unpacked, dirs, run, crashes>>
        BY <1>5 DEF vars, checkout, disk
    <2>2. CheckoutOK' /\ DirectoryOK'
        BY <2>1 DEF StageInv, CheckoutOK, DirectoryOK
    <2>3. JudgedAlike'
        BY <2>1 DEF StageInv, JudgedAlike, Busy
    <2>4. DiskFresh'
        BY <2>1 DEF StageInv, DiskFresh, OnDisk, Beyond
    <2>5. (\A r \in Runs : Honest(run[r]))'
        BY <2>1 DEF StageInv, Honest, Busy, Linted, Fresh
    <2> QED BY <2>2, <2>3, <2>4, <2>5 DEF StageInv
<1> QED BY <1>1, <1>2, <1>3, <1>4, <1>5 DEF Next

\* The invariant the three theorems below rest on.
THEOREM StageInvariant == Spec => [](Inv /\ StageInv)
<1>1. Init => Inv
    BY DEF Init, Inv, Earned, Shape, Idle
<1>2. Inv /\ StageInv /\ [Next]_vars => (Inv /\ StageInv)'
    BY NextKeepsInv, NextIsHonest
<1> QED BY <1>1, <1>2, InitIsHonest, PTL DEF Spec

\* The directory of a version keeps its shape and every invocation ends with one
\* exit status, for any number of invocations, edits and kills (release.py).
THEOREM StageIsTyped == Spec => []StageTypeOK
<1>1. Inv /\ StageInv => StageTypeOK
  <2> SUFFICES ASSUME Inv, StageInv PROVE StageTypeOK
    OBVIOUS
  <2>1. ASSUME NEW p \in Packages
        PROVE  Cardinality(staged[p]) <= 1 /\ Cardinality(unpacked[p]) <= 1
    <3>1. ASSUME NEW x PROVE Cardinality({x}) <= 1
      <4>1. Cardinality({x}) = 1
        BY FS_Singleton
      <4> QED BY <4>1
    <3>2. Cardinality({}) <= 1
      BY FS_EmptySet
    <3> QED BY <3>1, <3>2 DEF StageInv, DirectoryOK
  <2>2. revision \in 0 .. MaxRevision /\ crashes \in 0 .. MaxCrashes
    BY DEF StageInv, CheckoutOK
  <2>3. \A p \in Packages :
          /\ source[p].revision <= revision
          /\ staged[p] = {} => tars[p] = {}
          /\ "tarballs" \notin dirs => tarballs[p] = {}
          /\ "unpacked" \notin dirs => unpacked[p] = {}
    BY DEF StageInv, CheckoutOK, DirectoryOK
  <2>4. \A r \in Runs : run[r].n \in 1 .. Last /\ (run[r].exit = "none" <=> run[r].pc # "done")
    BY DEF StageInv, Honest
  <2> QED BY <2>1, <2>2, <2>3, <2>4 DEF StageTypeOK
<1> QED BY <1>1, StageInvariant, PTL

\* What an inspection or a verification has passed is no older than the sources
\* were when the first invocation that overlaps it began, whatever finished or
\* killed invocations left behind ("never silently reuse stale staging").
THEOREM NothingStaleIsPassed == Spec => []PassedIsFresh
<1>1. Inv /\ StageInv => PassedIsFresh
  BY DEF StageInv, Honest, PassedIsFresh, PassedRuns, Fresh, Made
<1> QED BY <1>1, StageInvariant, PTL

\* A check that passes has read sources no package of which depends on a package
\* that is published after it (TOPOLOGICAL_ORDER, FORBIDDEN_RULES).
THEOREM OrderIsPublishable == Spec => []CheckedOrderIsPublishable
<1>1. ASSUME NEW p \in Packages, NEW s, Lints(p, s)
      PROVE  s.deps \cap (Packages \ {p}) \subseteq Before(p)
  <2>1. p \in DOMAIN ForbiddenRules /\ Packages \subseteq DOMAIN ForbiddenRules
    BY OrderAssumption
  <2>2. DOMAIN ForbiddenRules =
            {"autonomic", "autonomic_linux", "autonomic_postgres", "autonomic_typesafe"}
    BY DEF ForbiddenRules
  <2>3. s.deps \cap ForbiddenRules[p] = {}
    BY <1>1 DEF Lints
  <2>4. \A q \in Packages : q # p /\ q \in s.deps => q = "autonomic" /\ p # "autonomic"
    BY <2>1, <2>2, <2>3 DEF ForbiddenRules
  <2>5. p # "autonomic" => "autonomic" \in Before(p)
    <3> SUFFICES ASSUME p # "autonomic" PROVE "autonomic" \in Before(p)
      OBVIOUS
    <3>1. PICK k \in 1 .. Last : TopologicalOrder[k] = p
      BY PackagesOrdered
    <3>2. k # 1 /\ TopologicalOrder[1] = "autonomic"
      BY <3>1, OrderAssumption
    <3>3. 1 \in 1 .. Last /\ k \in 1 + 1 .. Last
      BY <3>1, <3>2, PackagesOrdered
    <3> QED BY <3>1, <3>2, <3>3 DEF Before
  <2> QED BY <2>4, <2>5
<1>2. Inv /\ StageInv => CheckedOrderIsPublishable
  BY <1>1 DEF StageInv, Honest, CheckedOrderIsPublishable, PassedRuns, Linted
<1> QED BY <1>2, StageInvariant, PTL
=============================================================================
