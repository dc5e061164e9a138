--------------------------- MODULE SystemRegulator ---------------------------
(***************************************************************************)
(* Autonomic.SystemRegulator: the node's pressure readings, the health of  *)
(* the parts it depends on, and the autonomy mode it derives from them.    *)
(* A worsening takes effect at once, a recovery after three equal          *)
(* recalculations. Pressures are hundredths; a source that never reported  *)
(* reads 0, which is also what the maximum of no readings is.              *)
(***************************************************************************)
EXTENDS Integers

CONSTANTS Sources,      \* who reports a pressure
          Levels        \* the pressures they report, in hundredths

ASSUME LevelsAssumption == Levels \subseteq 0..100 /\ 0 \in Levels

VARIABLES pressures, health, mode, candidate, count,
          streak        \* history: the target of the last recalculation, and
                        \* how many in a row had it (counted up to 3)

regulatorVars == <<pressures, health, mode, candidate, count, streak>>

Modes == {"normal", "constrained", "read_only_autonomy",
          "no_sensitive_commits", "admission_closed"}
Parts == {"semantic", "store", "launcher"}
Statuses == {"healthy", "degraded", "unavailable"}

Severity ==
    [m \in Modes |-> CASE m = "normal" -> 0
                       [] m = "constrained" -> 1
                       [] m = "read_only_autonomy" -> 2
                       [] m = "no_sensitive_commits" -> 3
                       [] m = "admission_closed" -> 4]

Reaches(p, level) == \E s \in Sources : p[s] >= level

\* The clauses are tried in the code's order: an unavailable store hides an
\* unavailable launcher and any pressure.
Target(h, p) ==
    IF h["store"] = "unavailable" THEN "no_sensitive_commits"
    ELSE IF h["launcher"] = "unavailable" \/ Reaches(p, 95) THEN "admission_closed"
    ELSE IF h["semantic"] = "unavailable" \/ Reaches(p, 85) THEN "no_sensitive_commits"
    ELSE IF Reaches(p, 72) THEN "read_only_autonomy"
    ELSE IF h["semantic"] = "degraded" \/ Reaches(p, 52) THEN "constrained"
    ELSE "normal"

\* Slip: any milder target continues the count.
NextCountOfAny(target) == count + 1

NextCount(target) == IF candidate = target THEN count + 1 ELSE 1

Settle(m, c, n) == mode' = m /\ candidate' = c /\ count' = n

\* Slip: a worsening waits for three recalculations as well.
HysteresisBothWays(target) ==
    \/ target = mode /\ Settle(mode, mode, 0)
    \/ /\ target # mode
       /\ IF NextCount(target) >= 3
          THEN Settle(target, target, 0)
          ELSE Settle(mode, target, NextCount(target))

Hysteresis(target) ==
    \/ target = mode /\ Settle(mode, mode, 0)
    \/ Severity[target] > Severity[mode] /\ Settle(target, target, 0)
    \/ /\ target # mode
       /\ Severity[target] <= Severity[mode]
       /\ IF NextCount(target) >= 3
          THEN Settle(target, target, 0)
          ELSE Settle(mode, target, NextCount(target))

Recalculate ==
    LET target == Target(health', pressures')
        n == IF streak.target = target /\ streak.n > 0 THEN streak.n + 1 ELSE 1
    IN  /\ Hysteresis(target)
        /\ streak' = [target |-> target, n |-> IF n > 3 THEN 3 ELSE n]

RegulatorInit ==
    /\ pressures = [s \in Sources |-> 0]
    /\ health = [part \in Parts |-> "healthy"]
    /\ mode = "normal"
    /\ candidate = "normal"
    /\ count = 0
    /\ streak = [target |-> "normal", n |-> 0]

Pressure(source, value) ==
    /\ pressures' = [pressures EXCEPT ![source] = value]
    /\ UNCHANGED health
    /\ Recalculate

Health(part, status) ==
    /\ health' = [health EXCEPT ![part] = status]
    /\ UNCHANGED pressures
    /\ Recalculate

\* Every 250 ms.
Tick ==
    /\ UNCHANGED <<pressures, health>>
    /\ Recalculate

RegulatorNext ==
    \/ \E s \in Sources, v \in Levels : Pressure(s, v)
    \/ \E part \in Parts, status \in Statuses : Health(part, status)
    \/ Tick

RegulatorSpec == RegulatorInit /\ [][RegulatorNext]_regulatorVars

-----------------------------------------------------------------------------
(* Whom the mode lets in: the class of an effect or the ceiling of an      *)
(* episode is a rank 0..4.                                                 *)

Admits(rank) ==
    \/ mode = "normal"
    \/ mode \in {"constrained", "no_sensitive_commits"} /\ rank <= 2
    \/ mode = "read_only_autonomy" /\ rank = 0

SensitiveCommitAllowed ==
    /\ mode \in {"normal", "constrained"}
    /\ health["store"] = "healthy"
    /\ health["semantic"] = "healthy"

-----------------------------------------------------------------------------
(* Properties.                                                             *)

RegulatorTypeOK ==
    /\ pressures \in [Sources -> 0..100]
    /\ health \in [Parts -> Statuses]
    /\ mode \in Modes
    /\ candidate \in Modes
    /\ count \in 0..2
    /\ streak \in [target : Modes, n : 0..3]

\* The mode in force is never milder than what the readings call for, in
\* whatever order reports, health changes and ticks arrive and however far a
\* recovery has counted (system_regulator.ex:113-124).
NeverBelowTarget == Severity[Target(health, pressures)] <= Severity[mode]

\* A mode gets milder only when three recalculations in a row, the last one
\* included, called for exactly the mode it moves to; the counter of an
\* earlier candidate never pays for a later one (system_regulator.ex:112).
RecoveryIsEarned ==
    [][Severity[mode'] < Severity[mode]
         => streak'.n = 3 /\ streak'.target = mode']_regulatorVars
=============================================================================
