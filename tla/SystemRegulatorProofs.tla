------------------------ MODULE SystemRegulatorProofs ------------------------
(* What holds of the regulator for every set of sources and of levels.     *)
EXTENDS SystemRegulator, TLAPS

\* The order of the modes by severity is total and tells them apart.
LEMMA SeverityOfModes ==
    /\ \A m \in Modes : Severity[m] \in 0..4
    /\ \A m, n \in Modes : Severity[m] = Severity[n] => m = n
<1>1. /\ Severity["normal"] = 0
      /\ Severity["constrained"] = 1
      /\ Severity["read_only_autonomy"] = 2
      /\ Severity["no_sensitive_commits"] = 3
      /\ Severity["admission_closed"] = 4
  BY DEF Severity, Modes
<1> QED BY <1>1 DEF Modes

\* Whatever the readings, they call for one of the modes.
LEMMA TargetIsMode ==
    ASSUME NEW h, NEW p PROVE Target(h, p) \in Modes
BY DEF Target, Modes

\* What recalculate/1 leaves behind, from any state: a mode no milder than the
\* target, a candidate that is the mode or the target, and a count that is
\* below three.
LEMMA HysteresisSettles ==
    ASSUME mode \in Modes, candidate \in Modes, count \in 0..2,
           NEW target \in Modes, Hysteresis(target)
    PROVE  /\ mode' \in Modes /\ candidate' \in Modes /\ count' \in 0..2
           /\ Severity[target] <= Severity[mode']
           /\ mode' \in {mode, target}
           /\ candidate' \in {mode', target}
<1>1. CASE target = mode /\ Settle(mode, mode, 0)
  BY <1>1, SeverityOfModes DEF Settle
<1>2. CASE Severity[target] > Severity[mode] /\ Settle(target, target, 0)
  BY <1>2, SeverityOfModes DEF Settle
<1>3. CASE /\ target # mode
           /\ Severity[target] <= Severity[mode]
           /\ IF NextCount(target) >= 3
              THEN Settle(target, target, 0)
              ELSE Settle(mode, target, NextCount(target))
  <2>1. NextCount(target) \in 1..3
    BY DEF NextCount
  <2>2. CASE NextCount(target) >= 3
    BY <1>3, <2>2, SeverityOfModes DEF Settle
  <2>3. CASE ~(NextCount(target) >= 3)
    BY <1>3, <2>1, <2>3, SeverityOfModes DEF Settle
  <2> QED BY <2>2, <2>3
<1> QED BY <1>1, <1>2, <1>3 DEF Hysteresis

\* A step of the regulator is a change of its readings followed by recalculate.
LEMMA StepRecalculates ==
    ASSUME RegulatorTypeOK, RegulatorNext
    PROVE  /\ Recalculate
           /\ pressures' \in [Sources -> 0..100]
           /\ health' \in [Parts -> Statuses]
<1>1. ASSUME NEW s \in Sources, NEW v \in Levels, Pressure(s, v)
      PROVE  /\ Recalculate /\ pressures' \in [Sources -> 0..100]
             /\ health' \in [Parts -> Statuses]
  <2>1. v \in 0..100
    BY LevelsAssumption
  <2> QED BY <1>1, <2>1 DEF Pressure, RegulatorTypeOK
<1>2. ASSUME NEW part \in Parts, NEW status \in Statuses, Health(part, status)
      PROVE  /\ Recalculate /\ pressures' \in [Sources -> 0..100]
             /\ health' \in [Parts -> Statuses]
  BY <1>2 DEF Health, RegulatorTypeOK
<1>3. CASE Tick
  BY <1>3 DEF Tick, RegulatorTypeOK
<1> QED BY <1>1, <1>2, <1>3 DEF RegulatorNext

-----------------------------------------------------------------------------
\* The shape of the state is kept.
THEOREM RegulatorTypeCorrect == RegulatorSpec => []RegulatorTypeOK
<1>1. RegulatorInit => RegulatorTypeOK
  BY DEF RegulatorInit, RegulatorTypeOK, Modes, Statuses
<1>2. RegulatorTypeOK /\ [RegulatorNext]_regulatorVars => RegulatorTypeOK'
  <2> SUFFICES ASSUME RegulatorTypeOK, [RegulatorNext]_regulatorVars
               PROVE  RegulatorTypeOK'
    OBVIOUS
  <2>1. CASE UNCHANGED regulatorVars
    BY <2>1 DEF regulatorVars, RegulatorTypeOK
  <2>2. CASE RegulatorNext
    <3> DEFINE target == Target(health', pressures')
    <3>1. /\ Recalculate /\ pressures' \in [Sources -> 0..100]
          /\ health' \in [Parts -> Statuses]
      BY <2>2, StepRecalculates
    <3>2. target \in Modes
      BY TargetIsMode
    <3>3. Hysteresis(target)
      BY <3>1 DEF Recalculate
    <3>4. mode \in Modes /\ candidate \in Modes /\ count \in 0..2
      BY DEF RegulatorTypeOK
    <3> HIDE DEF target
    <3>5. mode' \in Modes /\ candidate' \in Modes /\ count' \in 0..2
      BY <3>2, <3>3, <3>4, HysteresisSettles
    <3>6. streak' \in [target : Modes, n : 0..3]
      <4>1. streak \in [target : Modes, n : 0..3]
        BY DEF RegulatorTypeOK
      <4> QED BY <3>1, <3>2, <4>1 DEF Recalculate, target
    <3> QED BY <3>1, <3>5, <3>6 DEF RegulatorTypeOK
  <2> QED BY <2>1, <2>2
<1> QED BY <1>1, <1>2, PTL DEF RegulatorSpec

\* A worsening takes effect at once: the mode in force is never milder than
\* what the present readings call for (system_regulator.ex:112-124).
THEOREM WorseningIsImmediate == RegulatorSpec => []NeverBelowTarget
<1>1. RegulatorInit => NeverBelowTarget
  BY SeverityOfModes DEF RegulatorInit, NeverBelowTarget, Target, Reaches,
     Modes, Parts
<1>2. RegulatorTypeOK /\ NeverBelowTarget /\ [RegulatorNext]_regulatorVars
        => NeverBelowTarget'
  <2> SUFFICES ASSUME RegulatorTypeOK, NeverBelowTarget,
                      [RegulatorNext]_regulatorVars
               PROVE  NeverBelowTarget'
    OBVIOUS
  <2>1. CASE UNCHANGED regulatorVars
    BY <2>1 DEF regulatorVars, NeverBelowTarget, Target, Reaches
  <2>2. CASE RegulatorNext
    <3> DEFINE target == Target(health', pressures')
    <3>1. target \in Modes
      BY TargetIsMode
    <3>2. Hysteresis(target)
      BY <2>2, StepRecalculates DEF Recalculate
    <3>3. mode \in Modes /\ candidate \in Modes /\ count \in 0..2
      BY DEF RegulatorTypeOK
    <3> HIDE DEF target
    <3>4. Severity[target] <= Severity[mode']
      BY <3>1, <3>2, <3>3, HysteresisSettles
    <3> QED BY <3>4 DEF NeverBelowTarget, target
  <2> QED BY <2>1, <2>2
<1> QED BY <1>1, <1>2, RegulatorTypeCorrect, PTL DEF RegulatorSpec

-----------------------------------------------------------------------------
\* Why a recovery is earned: the counter never says more than the history of
\* targets does. While it counts, the candidate is the last target and no
\* more recalculations are counted than in fact had it; otherwise the
\* candidate is the mode itself, and any milder target starts from one.
CountIsHonest ==
    /\ count = 0 => candidate = mode
    /\ count > 0 => /\ candidate = streak.target
                    /\ candidate # mode
                    /\ count <= streak.n

\* One recalculation keeps the counter honest and moves to a milder mode only
\* on a third target in a row.
LEMMA RecalculateEarns ==
    ASSUME RegulatorTypeOK, CountIsHonest, Recalculate
    PROVE  /\ CountIsHonest'
           /\ Severity[mode'] < Severity[mode]
                => streak'.n = 3 /\ streak'.target = mode'
<1> DEFINE target == Target(health', pressures')
           n == IF streak.target = target /\ streak.n > 0 THEN streak.n + 1 ELSE 1
<1>1. target \in Modes
  BY TargetIsMode
<1>2. Hysteresis(target)
  BY DEF Recalculate
<1>3. streak' = [target |-> target, n |-> IF n > 3 THEN 3 ELSE n]
  BY DEF Recalculate
<1>4. /\ mode \in Modes /\ candidate \in Modes /\ count \in 0..2
      /\ streak.target \in Modes /\ streak.n \in 0..3
  BY DEF RegulatorTypeOK
<1> HIDE DEF target
<1>5. streak'.target = target /\ streak'.n = IF n > 3 THEN 3 ELSE n
  BY <1>3
<1>6. n \in 1..4
  BY <1>4
<1>7. CASE target = mode /\ Settle(mode, mode, 0)
  BY <1>4, <1>7, SeverityOfModes DEF Settle, CountIsHonest
<1>8. CASE Severity[target] > Severity[mode] /\ Settle(target, target, 0)
  BY <1>1, <1>4, <1>8, SeverityOfModes DEF Settle, CountIsHonest
<1>9. CASE /\ target # mode
           /\ Severity[target] <= Severity[mode]
           /\ IF NextCount(target) >= 3
              THEN Settle(target, target, 0)
              ELSE Settle(mode, target, NextCount(target))
  <2>1. NextCount(target) \in 1..3 /\ NextCount(target) <= n
    <3>1. CASE candidate = target
      <4>1. count > 0
        BY <1>4, <1>9, <3>1 DEF CountIsHonest
      <4> QED BY <1>4, <3>1, <4>1 DEF CountIsHonest, NextCount
    <3>2. CASE candidate # target
      BY <1>6, <3>2 DEF NextCount
    <3> QED BY <3>1, <3>2
  <2> HIDE DEF n
  <2>2. CASE NextCount(target) >= 3
    <3>1. mode' = target /\ candidate' = target /\ count' = 0
      BY <1>9, <2>2 DEF Settle
    <3>2. streak'.n = 3
      BY <1>5, <1>6, <2>1, <2>2
    <3> QED BY <1>5, <3>1, <3>2 DEF CountIsHonest
  <2>3. CASE ~(NextCount(target) >= 3)
    <3>1. mode' = mode /\ candidate' = target /\ count' = NextCount(target)
      BY <1>9, <2>3 DEF Settle
    <3>2. count' <= streak'.n /\ count' > 0
      BY <1>5, <1>6, <2>1, <2>3, <3>1
    <3>3. ~(Severity[mode'] < Severity[mode])
      BY <1>4, <3>1, SeverityOfModes
    <3> QED BY <1>5, <1>9, <3>1, <3>2, <3>3 DEF CountIsHonest
  <2> QED BY <2>2, <2>3
<1> QED BY <1>2, <1>7, <1>8, <1>9 DEF Hysteresis

\* The counter is honest in every reachable state.
THEOREM CounterIsHonest == RegulatorSpec => []CountIsHonest
<1>1. RegulatorInit => CountIsHonest
  BY DEF RegulatorInit, CountIsHonest
<1>2. RegulatorTypeOK /\ CountIsHonest /\ [RegulatorNext]_regulatorVars
        => CountIsHonest'
  <2>1. ASSUME CountIsHonest, UNCHANGED regulatorVars PROVE CountIsHonest'
    BY <2>1 DEF regulatorVars, CountIsHonest
  <2>2. ASSUME RegulatorTypeOK, CountIsHonest, RegulatorNext PROVE CountIsHonest'
    BY <2>2, StepRecalculates, RecalculateEarns
  <2> QED BY <2>1, <2>2
<1> QED BY <1>1, <1>2, RegulatorTypeCorrect, PTL DEF RegulatorSpec

\* A mode gets milder only after three recalculations in a row that called for
\* it, whatever reports, health changes and ticks they were.
THEOREM RecoveryTakesThree == RegulatorSpec => RecoveryIsEarned
<1>1. RegulatorTypeOK /\ CountIsHonest /\ [RegulatorNext]_regulatorVars
        => [Severity[mode'] < Severity[mode]
              => streak'.n = 3 /\ streak'.target = mode']_regulatorVars
  <2>1. ASSUME RegulatorTypeOK, CountIsHonest, RegulatorNext
        PROVE  Severity[mode'] < Severity[mode]
                 => streak'.n = 3 /\ streak'.target = mode'
    BY <2>1, StepRecalculates, RecalculateEarns
  <2> QED BY <2>1
<1> QED BY <1>1, RegulatorTypeCorrect, CounterIsHonest, PTL
        DEF RegulatorSpec, RecoveryIsEarned
=============================================================================
