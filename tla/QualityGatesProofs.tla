------------------------- MODULE QualityGatesProofs -------------------------
(* What holds of a conformance run in every environment and however its    *)
(* commands behave: a command it leaves behind has been killed, and        *)
(* neither a gate's status nor the run's own says more than they did.      *)
EXTENDS QualityGates, SequenceTheorems, TLAPS

\* How far the runner has gone with a command: it is sent no SIGKILL before the
\* five seconds after a SIGTERM are over, a second one only after a deadline,
\* and a command that is still there was sent all that are due.
Watched ==
    /\ pc = "start" => ~child.up
    /\ pc \in {"gates", "exited"} /\ child.up => child.kills = 2
    /\ pc \in {"running", "terminating"} => child.kills = 0
    /\ pc = "terminating" => why \in {"deadline", "interrupt"}
    /\ pc = "killing" => child.kills = 1
    /\ pc = "aborted" /\ child.up /\ why # "interrupted twice" => child.kills = 1
    /\ child \in [outcome : Outcomes, up : BOOLEAN, kills : 0 .. 2]

\* Recording a status is no step of the watch.
LEMMA RecordKeepsWatched ==
    ASSUME Watched, NEW id, NEW status, Record(id, status)
    PROVE  Watched'
BY DEF Watched, Record, watch

\* Every step of the runner, of a command or of the operator keeps it.
LEMMA StepKeepsWatched ==
    ASSUME Watched, Next PROVE Watched'
<1>1. CASE Start
  BY <1>1 DEF Start, Watched, watch
<1>2. CASE Pending
  <2>1. CASE Current.id \in Unmentioned
    BY <1>2, <2>1 DEF Pending, Watched, watch
  <2>2. CASE Current.id \notin Unmentioned
    BY <1>2, <2>2, RecordKeepsWatched DEF Pending
  <2> QED BY <2>1, <2>2
<1>3. CASE InspectTree
  BY <1>3, RecordKeepsWatched DEF InspectTree
<1>4. CASE AddAliasGate
  BY <1>4, RecordKeepsWatched DEF AddAliasGate
<1>5. ASSUME NEW outcome \in Outcomes, Launch(outcome) PROVE Watched'
  <2>1. CASE outcome = "unstartable"
    BY <1>5, <2>1 DEF Launch, Watched
  <2>2. CASE outcome # "unstartable"
    <3>1. pc' = "running" /\ child' = [outcome |-> outcome, up |-> TRUE, kills |-> 0]
      BY <1>5, <2>2 DEF Launch
    <3>2. child' \in [outcome : Outcomes, up : BOOLEAN, kills : 0 .. 2] /\ child'.kills = 0
      BY <3>1
    <3> QED BY <3>1, <3>2 DEF Watched
  <2> QED BY <2>1, <2>2
<1>6. CASE Reap
  BY <1>6 DEF Reap, Watched, watch
<1>7. CASE TimesOut
  BY <1>7 DEF TimesOut, Watched
<1>8. CASE Terminated
  <2>1. CASE why = "interrupt"
    BY <1>8, <2>1 DEF Terminated, Watched, Abort
  <2>2. CASE why # "interrupt"
    BY <1>8, <2>2 DEF Terminated, Watched, GateFails
  <2> QED BY <2>1, <2>2
<1>9. CASE GraceOver
  <2>1. /\ pc = "terminating" /\ child.up /\ child.kills = 0
        /\ child' \in [outcome : Outcomes, up : BOOLEAN, kills : 0 .. 2] /\ child'.kills = 1
    BY <1>9 DEF GraceOver, SigKill, Watched
  <2>2. CASE why = "interrupt"
    BY <1>9, <2>1, <2>2 DEF GraceOver, Watched, Abort
  <2>3. CASE why # "interrupt"
    BY <1>9, <2>1, <2>3 DEF GraceOver, Watched
  <2> QED BY <2>2, <2>3
<1>10. CASE Killed
  <2>1. CASE child.up
    <3>1. /\ pc' = "gates" /\ child.kills = 1
          /\ child' \in [outcome : Outcomes, up : BOOLEAN, kills : 0 .. 2] /\ child'.kills = 2
      BY <1>10, <2>1 DEF Killed, SigKill, GateFails, Watched
    <3> QED BY <3>1 DEF Watched
  <2>2. CASE ~child.up
    BY <1>10, <2>2 DEF Killed, GateFails, Watched
  <2> QED BY <2>1, <2>2
<1>11. CASE Conclude
  BY <1>11, RecordKeepsWatched DEF Conclude
<1>12. CASE WriteReport
  BY <1>12 DEF WriteReport, Watched, watch
<1>13. CASE CommandEnds
  BY <1>13 DEF CommandEnds, Watched
<1>14. CASE Dies
  BY <1>14 DEF Dies, Watched
<1>15. CASE Interrupt
  <2>1. UNCHANGED child
    BY <1>15 DEF Interrupt
  <2>2. CASE pc \in {"running", "terminating"} /\ pc' = "terminating" /\ why' = "interrupt"
    BY <2>1, <2>2 DEF Watched
  <2>3. CASE Abort("interrupted twice")
    BY <2>1, <2>3 DEF Watched, Abort
  <2>4. CASE pc = "killing" /\ Abort("interrupt")
    BY <2>1, <2>4 DEF Watched, Abort
  <2> QED BY <1>15, <2>2, <2>3, <2>4 DEF Interrupt
<1> QED
  BY <1>1, <1>2, <1>3, <1>4, <1>5, <1>6, <1>7, <1>8, <1>9, <1>10, <1>11,
     <1>12, <1>13, <1>14, <1>15 DEF Next, Runner

\* A command the runner has left behind and that is still there has outlived two
\* SIGKILLs, or one if it was interrupted, in every environment and however many
\* commands hang or refuse to die (qc.py:249-307).
THEOREM SurvivorsAreKilled == Spec => []SurvivorsWereKilled
<1>1. Init => Watched
  BY DEF Init, Watched, NoChild, Outcomes
<1>2. Watched /\ [Next]_vars => Watched'
  <2>1. ASSUME Watched, UNCHANGED vars PROVE Watched'
    BY <2>1 DEF vars, Watched
  <2> QED BY <2>1, StepKeepsWatched
<1>3. Watched => SurvivorsWereKilled
  <2>1. child.kills = 1 => child.kills > 0
    OBVIOUS
  <2> QED BY <2>1 DEF Watched, SurvivorsWereKilled
<1> QED BY <1>1, <1>2, <1>3, PTL DEF Spec

-----------------------------------------------------------------------------
(* What the statuses and the exit status say of the commands.              *)

AtRow == row <= Len(Plan)

InGate == pc \in {"running", "terminating", "killing", "aborted"}

ShapeOK ==
    /\ setup \in Setups /\ row \in 1 .. Len(Plan) + 1 /\ step \in Nat \ {0}
    /\ child.outcome \in Outcomes
    /\ pc \in {"start", "gates", "exited"} \/ InGate
    /\ InGate => /\ AtRow /\ Current.how \in {"command", "compound"}
                 /\ step <= Len(Steps(Current))
    /\ pc = "running" /\ ~child.up => child.outcome \in {"ok", "bad", "empty"}
    /\ setup.target = << >> => pc \in {"start", "exited"}

\* A command that misbehaved belongs to a row that was reached, and one that did
\* not just print nothing has failed its gate if that row is behind.
DirtyOK ==
    \A d \in dirty :
        /\ d = <<d[1], d[2]>> /\ d[2] \in Outcomes \ {"ok"}
        /\ \E i \in 1 .. Len(Plan) :
             /\ i <= row /\ d[1] = Plan[i].id
             /\ i < row /\ d[2] # "empty" =>
                  Plan[i].id \in DOMAIN gates /\ gates[Plan[i].id] = "failed"

\* What a passed gate owes to the row it has its status from.
EarnedBy(r) ==
    r.how # "check" =>
      /\ \A p \in ToSet(Steps(r)) : <<r.id, p>> \in clean
      /\ \A outcome \in Outcomes :
           <<r.id, outcome>> \in dirty => outcome = "empty" /\ r.how = "compound"

\* Only rows that are behind have been decided, and the passed ones earned it.
GatesOK ==
    /\ \A id \in DOMAIN gates :
          gates[id] # "not_run" => \E i \in 1 .. row - 1 : Plan[i].id = id
    /\ \A i \in 1 .. row - 1 :
          Plan[i].id \in DOMAIN gates /\ gates[Plan[i].id] = "passed" =>
              EarnedBy(RowOf(Plan[i].source))

\* The row that is being worked on: unless something failed, the projects behind
\* are clean; what misbehaved failed it, is being watched, or printed nothing;
\* a gate of one command has no test counted next to one that printed nothing.
CurrentOK ==
    AtRow =>
      /\ step > 1 \/ InGate => Holds(Current.when)
      /\ step = 1 => ~tested
      /\ ~failing => \A j \in 1 .. Len(Steps(Current)) :
                        j < step => <<Current.id, Steps(Current)[j]>> \in clean
      /\ \A outcome \in Outcomes :
           <<Current.id, outcome>> \in dirty =>
             /\ Holds(Current.when) /\ Current.how \in {"command", "compound"}
             /\ outcome = "empty" \/ failing \/ (InGate /\ child.outcome = outcome)
             /\ outcome = "empty" => Current.tests
             /\ Current.how = "command" => step > 1 \/ InGate
             /\ outcome = "empty" /\ Current.how = "command" =>
                  ~tested /\ (InGate => child.outcome = "empty")

ExitOK ==
    exit = "0" => pc = "exited" /\ ExitTellsFailures

RunInv == ShapeOK /\ DirtyOK /\ GatesOK /\ CurrentOK /\ ExitOK

\* A row is found by its gate, and a row with a status of its own is its source.
LEMMA RowFound ==
    ASSUME NEW i \in 1 .. Len(Plan)
    PROVE  /\ RowOf(Plan[i].id) = Plan[i]
           /\ \E j \in 1 .. i :
                /\ j \in 1 .. Len(Plan) /\ RowOf(Plan[i].source) = Plan[j]
                /\ Plan[j].id = Plan[i].source /\ Plan[j].source = Plan[j].id
                /\ Plan[i].how # "alias" => j = i
<1>1. Len(Plan) \in Nat /\ DOMAIN Plan = 1 .. Len(Plan)
    BY PlanAssumption, LenProperties
<1>2. ASSUME NEW k \in 1 .. Len(Plan) PROVE RowOf(Plan[k].id) = Plan[k]
    <2>1. Plan[k] \in ToSet(Plan)
        BY <1>1 DEF ToSet
    <2>2. \A r \in ToSet(Plan) : r.id = Plan[k].id => r = Plan[k]
        BY <1>1, PlanAssumption DEF ToSet
    <2> HIDE DEF Plan
    <2> QED BY <2>1, <2>2 DEF RowOf
<1>3. PICK j \in 1 .. i : /\ Plan[j].id = Plan[i].source /\ Plan[j].how # "alias"
                          /\ Plan[i].how # "alias" => j = i
    BY PlanAssumption
<1>4. j \in 1 .. Len(Plan)
    BY <1>1
<1>5. PICK k \in 1 .. j : /\ Plan[k].id = Plan[j].source /\ Plan[k].how # "alias"
                          /\ Plan[j].how # "alias" => k = j
    BY <1>4, PlanAssumption
<1>6. Plan[j].source = Plan[j].id
    BY <1>3, <1>5
<1>7. RowOf(Plan[i].source) = Plan[j]
    BY <1>2, <1>3, <1>4
<1> QED BY <1>2, <1>3, <1>4, <1>6, <1>7

\* The commands of a row are a list.
LEMMA StepsListed ==
    ASSUME setup \in Setups, NEW r
    PROVE  /\ Len(Steps(r)) \in Nat /\ DOMAIN Steps(r) = 1 .. Len(Steps(r))
           /\ r.how # "compound" => Len(Steps(r)) = 1
<1>1. setup.target \in Seq(ToSet(AllProjects)) /\ Published(setup.target) \in Seq(ToSet(AllProjects))
    BY SetupsAssumption
<1>2. Projects(r.id) \in Seq(ToSet(AllProjects))
    BY <1>1 DEF Projects
<1>3. CASE r.how = "compound"
    BY <1>2, <1>3, LenProperties DEF Steps
<1>4. CASE r.how # "compound"
    BY <1>4 DEF Steps
<1> QED BY <1>3, <1>4

\* The steps that only watch a command leave the plan, the conditions and the
\* statuses alone.
LEMMA Unmoved ==
    ASSUME UNCHANGED <<setup, gates>>
    PROVE  /\ \A when : Holds(when)' <=> Holds(when)
           /\ \A r : Steps(r)' = Steps(r)
<1>1. ASSUME NEW when PROVE Holds(when)' <=> Holds(when)
    BY DEF Holds, Has, Green, DbReady, LinuxReady, PgServerTools
<1>2. ASSUME NEW r PROVE Steps(r)' = Steps(r)
    BY DEF Steps, Projects
<1> QED BY <1>1, <1>2

LEMMA PlanIsAList ==
    /\ Len(Plan) \in Nat /\ DOMAIN Plan = 1 .. Len(Plan)
    /\ \A i, j \in 1 .. Len(Plan) : Plan[i].id = Plan[j].id => i = j
BY PlanAssumption, LenProperties

\* A gate is decided once: before its row is behind, it is not.
LEMMA NotDecidedYet ==
    ASSUME RunInv, AtRow, Current.id \in DOMAIN gates
    PROVE  gates[Current.id] = "not_run"
<1>1. row \in 1 .. Len(Plan)
    BY PlanIsAList DEF RunInv, ShapeOK, AtRow
<1>2. \A i \in 1 .. row - 1 : i \in 1 .. Len(Plan) /\ i # row
    BY <1>1, PlanIsAList
<1>3. \A i \in 1 .. row - 1 : Plan[i].id # Current.id
    BY <1>1, <1>2, PlanIsAList DEF Current
<1> QED BY <1>3 DEF RunInv, GatesOK

\* The runner goes on to the next row: the one behind has failed if a command
\* of it misbehaved, and has earned its status if it passed.
LEMMA MovedOn ==
    ASSUME RunInv, pc = "gates", AtRow,
           row' = row + 1, step' = 1, ~tested',
           UNCHANGED <<setup, pc, child, report, exit, clean, dirty>>,
           DOMAIN gates' \subseteq DOMAIN gates \cup {Current.id},
           DOMAIN gates \subseteq DOMAIN gates',
           \A g \in DOMAIN gates \ {Current.id} : gates'[g] = gates[g],
           \A outcome \in Outcomes :
               <<Current.id, outcome>> \in dirty /\ outcome # "empty" =>
                   Current.id \in DOMAIN gates' /\ gates'[Current.id] = "failed",
           Current.id \in DOMAIN gates' /\ gates'[Current.id] = "passed" =>
               EarnedBy(RowOf(Current.source))
    PROVE  RunInv'
<1>1. row \in 1 .. Len(Plan) /\ row' \in 1 .. Len(Plan) + 1 /\ row' = row + 1
    BY PlanIsAList DEF RunInv, ShapeOK, AtRow
<1>2. \A i \in 1 .. row' - 1 : i \in 1 .. Len(Plan) /\ (i = row \/ i \in 1 .. row - 1)
    BY <1>1, PlanIsAList
<1>3. \A i \in 1 .. row - 1 : Plan[i].id # Current.id
    BY <1>1, PlanIsAList DEF Current
<1>4. ShapeOK'
    <2>1. Steps(Current)' = Steps(Current)'
        OBVIOUS
    <2>2. ~InGate' /\ setup' \in Setups /\ row' \in 1 .. Len(Plan) + 1 /\ step' \in Nat \ {0}
        BY <1>1 DEF InGate, RunInv, ShapeOK
    <2>3. child'.outcome \in Outcomes /\ (setup.target = << >> => pc \in {"start", "exited"})
        BY DEF RunInv, ShapeOK
    <2> QED BY <2>2, <2>3 DEF ShapeOK
<1>5. DirtyOK'
    <2> SUFFICES ASSUME NEW d \in dirty
                 PROVE  /\ d = <<d[1], d[2]>> /\ d[2] \in Outcomes \ {"ok"}
                        /\ \E i \in 1 .. Len(Plan) :
                             /\ i <= row' /\ d[1] = Plan[i].id
                             /\ i < row' /\ d[2] # "empty" =>
                                  Plan[i].id \in DOMAIN gates' /\ gates'[Plan[i].id] = "failed"
        BY DEF DirtyOK
    <2>1. d = <<d[1], d[2]>> /\ d[2] \in Outcomes \ {"ok"}
        BY DEF RunInv, DirtyOK
    <2>2. PICK i \in 1 .. Len(Plan) :
              /\ i <= row /\ d[1] = Plan[i].id
              /\ i < row /\ d[2] # "empty" =>
                   Plan[i].id \in DOMAIN gates /\ gates[Plan[i].id] = "failed"
        BY DEF RunInv, DirtyOK
    <2>3. i <= row'
        BY <1>1, <2>2
    <2>4. CASE i = row
        <3>1. d = <<Current.id, d[2]>>
            BY <2>1, <2>2, <2>4 DEF Current
        <3>2. d[2] # "empty" => Plan[i].id \in DOMAIN gates' /\ gates'[Plan[i].id] = "failed"
            BY <2>1, <2>4, <3>1 DEF Current
        <3> QED BY <2>1, <2>2, <2>3, <3>2
    <2>5. CASE i # row
        <3>1. i \in 1 .. row - 1 /\ i < row
            BY <1>1, <2>2, <2>5
        <3>2. Plan[i].id # Current.id
            BY <1>3, <3>1
        <3>3. d[2] # "empty" => Plan[i].id \in DOMAIN gates' /\ gates'[Plan[i].id] = "failed"
            BY <2>2, <3>1, <3>2
        <3> QED BY <2>1, <2>2, <2>3, <3>3
    <2> QED BY <2>4, <2>5
<1>6. GatesOK'
    <2>1. ASSUME NEW id \in DOMAIN gates', gates'[id] # "not_run"
          PROVE  \E i \in 1 .. row' - 1 : Plan[i].id = id
        <3>1. CASE id = Current.id
            BY <1>1, <3>1 DEF Current
        <3>2. CASE id # Current.id
            <4>1. PICK i \in 1 .. row - 1 : Plan[i].id = id
                BY <2>1, <3>2 DEF RunInv, GatesOK
            <4> QED BY <1>1, <4>1
        <3> QED BY <3>1, <3>2
    <2>2. ASSUME NEW i \in 1 .. row' - 1, Plan[i].id \in DOMAIN gates', gates'[Plan[i].id] = "passed"
          PROVE  EarnedBy(RowOf(Plan[i].source))'
        <3>1. EarnedBy(RowOf(Plan[i].source))
            <4>1. CASE i = row
                BY <2>2, <4>1 DEF Current
            <4>2. CASE i \in 1 .. row - 1
                BY <1>3, <2>2, <4>2 DEF RunInv, GatesOK
            <4> QED BY <1>2, <4>1, <4>2
        <3>2. Steps(RowOf(Plan[i].source))' = Steps(RowOf(Plan[i].source))
            BY DEF Steps, Projects
        <3> QED BY <3>1, <3>2 DEF EarnedBy
    <2> QED BY <2>1, <2>2 DEF GatesOK
<1>7. CurrentOK'
    <2>1. ASSUME AtRow', NEW outcome PROVE <<Current'.id, outcome>> \notin dirty
        <3>1. row' \in 1 .. Len(Plan) /\ Current' = Plan[row']
            BY <1>1, <2>1, PlanIsAList DEF AtRow, Current
        <3>2. ASSUME <<Current'.id, outcome>> \in dirty PROVE FALSE
            <4>1. PICK i \in 1 .. Len(Plan) : i <= row /\ Current'.id = Plan[i].id
                BY <3>2 DEF RunInv, DirtyOK
            <4>2. i = row'
                BY <3>1, <4>1, PlanIsAList
            <4> QED BY <1>1, <4>1, <4>2
        <3> QED BY <3>2
    <2>2. \A j \in 1 .. Len(Steps(Current))' : ~(j < step')
        OBVIOUS
    <2>3. ~InGate' /\ ~(step' > 1)
        BY DEF InGate
    <2> QED BY <2>1, <2>2, <2>3 DEF CurrentOK
<1>8. ExitOK'
    BY DEF RunInv, ExitOK
<1> QED BY <1>4, <1>5, <1>6, <1>7, <1>8 DEF RunInv

\* Recording a status moves on to the next row.
LEMMA RecordKeepsRun ==
    ASSUME RunInv, pc = "gates", AtRow, NEW status, Record(Current.id, status),
           \A outcome \in Outcomes :
               <<Current.id, outcome>> \in dirty /\ outcome # "empty" => status = "failed",
           status = "passed" => EarnedBy(RowOf(Current.source))
    PROVE  RunInv'
<1>1. /\ DOMAIN gates' = DOMAIN gates \cup {Current.id} /\ gates'[Current.id] = status
      /\ \A g \in DOMAIN gates \ {Current.id} : gates'[g] = gates[g]
      /\ row' = row + 1 /\ step' = 1 /\ ~tested'
      /\ UNCHANGED <<setup, child, report, exit, clean, dirty>>
    BY DEF Record, watch, history
<1>2. pc' = pc
    BY DEF Record
<1>3. /\ DOMAIN gates' \subseteq DOMAIN gates \cup {Current.id}
      /\ DOMAIN gates \subseteq DOMAIN gates'
      /\ Current.id \in DOMAIN gates'
    BY <1>1
<1> QED BY <1>1, <1>2, <1>3, MovedOn

\* While a row is being worked on, its commands and its condition stay.
LEMMA SameRow ==
    ASSUME UNCHANGED <<setup, row, gates>>
    PROVE  /\ Current' = Current /\ (AtRow' <=> AtRow)
           /\ (Holds(Current.when)' <=> Holds(Current.when))
           /\ Steps(Current)' = Steps(Current)
<1>1. Current' = Current /\ (AtRow' <=> AtRow)
    BY DEF Current, AtRow
<1>2. Holds(Current.when)' <=> Holds(Current.when)
    BY <1>1 DEF Holds, Has, Green, DbReady, LinuxReady, PgServerTools
<1>3. Steps(Current)' = Steps(Current)
    BY <1>1 DEF Steps, Projects
<1> QED BY <1>1, <1>2, <1>3

\* What the rows behind have earned stays earned while their successor runs.
LEMMA RowsBehindStay ==
    ASSUME RunInv, AtRow, UNCHANGED <<setup, row, gates>>, clean \subseteq clean',
           NEW misbehaved, dirty' \in {dirty, dirty \cup {<<Current.id, misbehaved>>}}
    PROVE  GatesOK'
<1>1. row \in 1 .. Len(Plan)
    BY PlanIsAList DEF RunInv, ShapeOK, AtRow
<1>2. ASSUME NEW i \in 1 .. row - 1, Plan[i].id \in DOMAIN gates, gates[Plan[i].id] = "passed"
      PROVE  EarnedBy(RowOf(Plan[i].source))'
    <2>1. i \in 1 .. Len(Plan) /\ i < row
        BY <1>1, PlanIsAList
    <2>2. EarnedBy(RowOf(Plan[i].source))
        BY <1>2 DEF RunInv, GatesOK
    <2>3. PICK j \in 1 .. i : j \in 1 .. Len(Plan) /\ RowOf(Plan[i].source) = Plan[j]
        BY <2>1, RowFound
    <2>4. Plan[j].id # Current.id
        BY <1>1, <2>1, <2>3, PlanIsAList DEF Current
    <2>5. Steps(Plan[j])' = Steps(Plan[j])
        BY DEF Steps, Projects
    <2>6. \A outcome : <<Plan[j].id, outcome>> \in dirty' => <<Plan[j].id, outcome>> \in dirty
        BY <2>4
    <2> QED BY <2>2, <2>3, <2>5, <2>6 DEF EarnedBy
<1> QED BY <1>2 DEF RunInv, GatesOK

\* So does what is known of the misbehaving commands.
LEMMA MisbehaviourIsKept ==
    ASSUME RunInv, AtRow, UNCHANGED <<row, gates>>,
           NEW misbehaved \in Outcomes \ {"ok"},
           dirty' \in {dirty, dirty \cup {<<Current.id, misbehaved>>}}
    PROVE  DirtyOK'
<1>1. row \in 1 .. Len(Plan) /\ row <= row /\ ~(row < row)
    BY PlanIsAList DEF RunInv, ShapeOK, AtRow
<1>2. ASSUME NEW d \in dirty', d \notin dirty
      PROVE  /\ d = <<d[1], d[2]>> /\ d[2] \in Outcomes \ {"ok"}
             /\ d[1] = Plan[row].id
    BY <1>2 DEF Current
<1> QED BY <1>1, <1>2 DEF RunInv, DirtyOK

\* A step of the watch: nothing is known of the command that was not before.
LEMMA WatchKeepsRun ==
    ASSUME RunInv, InGate, InGate',
           UNCHANGED <<setup, row, step, failing, tested, gates, report, clean, dirty>>,
           child'.outcome = child.outcome, exit' # "0",
           pc' = "running" /\ ~child'.up => child.outcome \in {"ok", "bad", "empty"}
    PROVE  RunInv'
<1>1. AtRow /\ AtRow' /\ Current' = Current
    BY SameRow DEF RunInv, ShapeOK
<1>2. (Holds(Current.when)' <=> Holds(Current.when)) /\ Steps(Current)' = Steps(Current)
    BY SameRow
<1>3. ShapeOK'
    BY <1>1, <1>2 DEF RunInv, ShapeOK, InGate
<1>4. DirtyOK'
    BY DEF RunInv, DirtyOK
<1>5. GatesOK'
    BY <1>1, RowsBehindStay
<1>6. CurrentOK'
    BY <1>1, <1>2 DEF RunInv, CurrentOK
<1>7. ExitOK'
    BY DEF ExitOK
<1> QED BY <1>3, <1>4, <1>5, <1>6, <1>7 DEF RunInv

\* The runner leaves a command that failed, or was given up, and goes on in the
\* gate; a command that ended well is clean.
LEMMA GateGoesOn ==
    ASSUME RunInv, InGate, pc' = "gates",
           UNCHANGED <<setup, row, gates, report, exit, dirty>>, clean \subseteq clean',
           child'.outcome = child.outcome,
           step' \in Nat, step' > step, failing' \in BOOLEAN,
           failing => failing',
           child.outcome \notin {"ok", "empty"} => failing',
           ~failing' => step' = step + 1 /\ <<Current.id, Steps(Current)[step]>> \in clean',
           child.outcome = "empty" /\ tested' => tested,
           setup.target # << >>
    PROVE  RunInv'
<1>1. /\ AtRow /\ AtRow' /\ Current' = Current /\ step \in Nat \ {0}
      /\ Current.how \in {"command", "compound"} /\ child.outcome \in Outcomes
    BY SameRow DEF RunInv, ShapeOK
<1>2. (Holds(Current.when)' <=> Holds(Current.when)) /\ Steps(Current)' = Steps(Current)
    BY SameRow
<1>3. ~InGate' /\ step' # 1 /\ step' > 1 /\ step' \in Nat \ {0}
    BY <1>1 DEF InGate
<1>4. ShapeOK'
    BY <1>1, <1>3 DEF RunInv, ShapeOK
<1>5. DirtyOK'
    BY DEF RunInv, DirtyOK
<1>6. GatesOK'
    BY <1>1, RowsBehindStay
<1>7. CurrentOK'
    <2>1. Holds(Current.when) /\ CurrentOK
        BY <1>1 DEF RunInv, CurrentOK
    <2>2. ASSUME ~failing' PROVE \A j \in 1 .. Len(Steps(Current)) :
                        j < step' => <<Current.id, Steps(Current)[j]>> \in clean'
        <3>1. ~failing /\ step' = step + 1 /\ <<Current.id, Steps(Current)[step]>> \in clean'
            BY <2>2
        <3>2. \A j \in 1 .. Len(Steps(Current)) : j < step' => j < step \/ j = step
            BY <1>1, <3>1
        <3>3. \A j \in 1 .. Len(Steps(Current)) :
                  j < step => <<Current.id, Steps(Current)[j]>> \in clean
            BY <1>1, <2>1, <3>1 DEF CurrentOK
        <3> QED BY <3>1, <3>2, <3>3
    <2>3. ASSUME NEW outcome \in Outcomes, <<Current.id, outcome>> \in dirty
          PROVE  /\ outcome = "empty" \/ failing'
                 /\ outcome = "empty" => Current.tests
                 /\ outcome = "empty" /\ Current.how = "command" => ~tested'
        <3>1. /\ outcome = "empty" \/ failing \/ child.outcome = outcome
              /\ outcome = "empty" => Current.tests
              /\ outcome = "empty" /\ Current.how = "command" =>
                   ~tested /\ child.outcome = "empty"
            BY <1>1, <2>1, <2>3 DEF CurrentOK
        <3>2. outcome # "ok"
            BY <2>3 DEF RunInv, DirtyOK
        <3> QED BY <3>1, <3>2
    <2> QED BY <1>1, <1>2, <1>3, <2>1, <2>2, <2>3 DEF CurrentOK
<1>8. ExitOK'
    BY DEF RunInv, ExitOK, InGate
<1> QED BY <1>4, <1>5, <1>6, <1>7, <1>8 DEF RunInv

LEMMA InitRuns == Init => RunInv
<1> SUFFICES ASSUME Init PROVE RunInv
    OBVIOUS
<1>1. 1 \in 1 .. Len(Plan) + 1 /\ 1 \in Nat \ {0} /\ 1 .. 1 - 1 = {}
    BY PlanIsAList
<1>2. ShapeOK
    BY <1>1 DEF Init, ShapeOK, InGate, NoChild, Outcomes
<1>3. DirtyOK
    BY DEF Init, DirtyOK
<1>4. GatesOK
    <2>1. DOMAIN gates = {}
        BY DEF Init
    <2> QED BY <1>1, <2>1 DEF Init, GatesOK
<1>5. CurrentOK
    <2>1. \A j \in 1 .. Len(Steps(Current)) : ~(j < step)
        BY DEF Init
    <2> QED BY <2>1 DEF Init, CurrentOK, InGate
<1>6. ExitOK
    BY DEF Init, ExitOK
<1> QED BY <1>2, <1>3, <1>4, <1>5, <1>6 DEF RunInv

\* A launched command is watched; one that cannot be launched fails its gate.
LEMMA LaunchKeepsRun ==
    ASSUME RunInv, NEW outcome \in Outcomes, Launch(outcome) PROVE RunInv'
<1>1. /\ pc = "gates" /\ AtRow /\ AtRow' /\ Current' = Current
      /\ row \in 1 .. Len(Plan) /\ step \in Nat \ {0}
      /\ step <= Len(Steps(Current)) /\ Holds(Current.when) /\ ~InGate
      /\ Current.how \in {"command", "compound"} /\ CurrentOK
      /\ UNCHANGED <<setup, row, tested, why, gates, report, exit, clean>>
      /\ (outcome = "empty" => Current.tests)
    BY SameRow, PlanIsAList DEF RunInv, ShapeOK, Launch, AtGate, InGate, AtRow
<1>2. (Holds(Current.when)' <=> Holds(Current.when)) /\ Steps(Current)' = Steps(Current)
    BY <1>1, SameRow
<1>3. dirty' = IF outcome = "ok" THEN dirty ELSE dirty \cup {<<Current.id, outcome>>}
    BY DEF Launch
<1>4. /\ Len(Steps(Current)) \in Nat
      /\ (Current.how = "command" => Len(Steps(Current)) = 1)
    BY <1>1, StepsListed DEF RunInv, ShapeOK
<1>5. /\ pc' \in {"gates", "running"} /\ step' \in Nat \ {0} /\ child'.outcome \in Outcomes
      /\ step' >= step
      /\ pc' = "running" => /\ child'.outcome = outcome /\ child'.up
                            /\ UNCHANGED <<failing, step>>
      /\ pc' = "gates" => outcome = "unstartable" /\ failing' /\ step' > 1
    <2>1. CASE outcome = "unstartable"
        <3>1. pc' = "gates" /\ failing' = TRUE /\ step' = Len(Steps(Current)) + 1 /\ child' = child
            BY <1>1, <2>1 DEF Launch
        <3>2. step' > 1 /\ step' \in Nat \ {0} /\ step' >= step
            BY <1>1, <1>4, <3>1
        <3> QED BY <1>1, <2>1, <3>1, <3>2 DEF RunInv, ShapeOK
    <2>2. CASE outcome # "unstartable"
        <3>1. /\ pc' = "running" /\ child' = [outcome |-> outcome, up |-> TRUE, kills |-> 0]
              /\ UNCHANGED <<failing, step>>
            BY <2>2 DEF Launch
        <3> QED BY <1>1, <3>1
    <2> QED BY <2>1, <2>2
<1>6. ShapeOK'
    <2>1. pc' = "running" => step' <= Len(Steps(Current))
        BY <1>1, <1>5
    <2> QED BY <1>1, <1>2, <1>5, <2>1 DEF RunInv, ShapeOK, InGate
<1>7. DirtyOK'
    <2>1. CASE outcome = "ok"
        BY <1>1, <1>3, <2>1 DEF RunInv, DirtyOK
    <2>2. CASE outcome # "ok"
        BY <1>1, <1>3, <2>2, MisbehaviourIsKept
    <2> QED BY <2>1, <2>2
<1>8. GatesOK'
    BY <1>1, <1>3, RowsBehindStay
<1>9. CurrentOK'
    <2>1. \A o : <<Current.id, o>> \in dirty' => <<Current.id, o>> \in dirty \/ (o = outcome /\ o # "ok")
        BY <1>3
    <2>2. step' = 1 => ~tested
        BY <1>1, <1>5 DEF CurrentOK
    <2>3. ~failing' => \A j \in 1 .. Len(Steps(Current)) :
                        j < step' => <<Current.id, Steps(Current)[j]>> \in clean
        BY <1>1, <1>5 DEF CurrentOK
    <2>4. ASSUME Current.how = "command" PROVE step = 1 /\ ~tested /\ \A o \in Outcomes : <<Current.id, o>> \notin dirty
        <3>1. Len(Steps(Current)) = 1 /\ step <= Len(Steps(Current)) /\ step \in Nat \ {0}
            BY <1>1, <1>4, <2>4
        <3>2. step = 1
            BY <3>1
        <3> QED BY <1>1, <2>4, <3>2 DEF CurrentOK
    <2>5. ASSUME NEW o \in Outcomes, <<Current.id, o>> \in dirty'
          PROVE  /\ o = "empty" \/ failing' \/ (InGate' /\ child'.outcome = o)
                 /\ o = "empty" => Current.tests
                 /\ Current.how = "command" => step' > 1 \/ InGate'
                 /\ o = "empty" /\ Current.how = "command" =>
                      ~tested /\ (InGate' => child'.outcome = "empty")
        <3>1. InGate' <=> pc' = "running"
            BY <1>5 DEF InGate
        <3>2. CASE o = outcome
            BY <1>1, <1>5, <2>4, <3>1, <3>2
        <3>3. CASE o # outcome
            <4>1. <<Current.id, o>> \in dirty
                BY <2>1, <2>5, <3>3
            <4>2. Current.how # "command"
                BY <2>4, <4>1
            <4>3. (o = "empty" \/ failing) /\ (o = "empty" => Current.tests)
                BY <1>1, <4>1 DEF CurrentOK
            <4> QED BY <1>5, <4>2, <4>3
        <3> QED BY <3>2, <3>3
    <2> QED BY <1>1, <1>2, <2>2, <2>3, <2>5 DEF CurrentOK
<1>10. ExitOK'
    BY <1>1 DEF RunInv, ExitOK
<1> QED BY <1>6, <1>7, <1>8, <1>9, <1>10 DEF RunInv

\* A deadline fails the gate, whatever becomes of the command.
LEMMA GateFailsKeepsRun ==
    ASSUME RunInv, InGate, GateFails, child'.outcome = child.outcome,
           UNCHANGED <<setup, row, tested, gates, report, history>>
    PROVE  RunInv'
<1>1. /\ setup.target # << >> /\ step \in Nat \ {0} /\ step <= Len(Steps(Current))
      /\ Len(Steps(Current)) \in Nat
    BY StepsListed DEF RunInv, ShapeOK, InGate
<1>2. UNCHANGED <<setup, row, tested, gates, report, exit, clean, dirty>>
    BY DEF history, GateFails
<1>3. pc' = "gates" /\ failing' = TRUE /\ step' = Len(Steps(Current)) + 1
    BY DEF GateFails
<1>4. step' \in Nat /\ step' > step
    BY <1>1, <1>3
<1> QED BY <1>1, <1>2, <1>3, <1>4, GateGoesOn

\* An interrupt ends the run without a verdict.
LEMMA AbortKeepsRun ==
    ASSUME RunInv, InGate, NEW reason, Abort(reason), child'.outcome = child.outcome,
           UNCHANGED <<setup, row, tested, gates, report, history>>
    PROVE  RunInv'
<1>1. /\ pc' = "aborted" /\ InGate' /\ exit' # "0"
      /\ UNCHANGED <<setup, row, step, failing, tested, gates, report, clean, dirty>>
    BY DEF history, Abort, InGate
<1>2. ~(pc' = "running")
    BY <1>1
<1> QED BY <1>1, <1>2, WatchKeepsRun

\* That a killed command is gone at last changes nothing that was concluded.
LEMMA DiesKeepsRun == ASSUME RunInv, Dies PROVE RunInv'
<1>1. /\ UNCHANGED <<setup, pc, row, step, failing, tested, gates, report, exit, clean, dirty>>
      /\ pc # "running" /\ child'.outcome = child.outcome
    BY DEF Dies, history
<1>2. /\ Current' = Current /\ (AtRow' <=> AtRow)
      /\ (Holds(Current.when)' <=> Holds(Current.when))
      /\ Steps(Current)' = Steps(Current) /\ (InGate' <=> InGate)
    BY <1>1, SameRow DEF InGate
<1>3. ShapeOK'
    BY <1>1, <1>2 DEF RunInv, ShapeOK
<1>4. DirtyOK'
    BY <1>1 DEF RunInv, DirtyOK
<1>5. GatesOK'
    <2>1. \A r : EarnedBy(r)' <=> EarnedBy(r)
        BY <1>1 DEF EarnedBy, Steps, Projects
    <2> QED BY <1>1, <2>1 DEF RunInv, GatesOK
<1>6. CurrentOK'
    BY <1>1, <1>2 DEF RunInv, CurrentOK
<1>7. ExitOK'
    BY <1>1 DEF RunInv, ExitOK, ExitTellsFailures
<1> QED BY <1>3, <1>4, <1>5, <1>6, <1>7 DEF RunInv

\* The verdict of a gate of commands is earned.
LEMMA ConcludeKeepsRun == ASSUME RunInv, Conclude PROVE RunInv'
<1>1. /\ pc = "gates" /\ AtRow /\ row \in 1 .. Len(Plan) /\ step \in Nat \ {0} /\ ~InGate
      /\ Current.how \in {"command", "compound"} /\ Holds(Current.when)
      /\ step > Len(Steps(Current)) /\ Record(Current.id, Verdict(Current)) /\ CurrentOK
      /\ Len(Steps(Current)) \in Nat /\ DOMAIN Steps(Current) = 1 .. Len(Steps(Current))
    BY PlanIsAList, StepsListed DEF RunInv, ShapeOK, Conclude, AtGate, AtRow, InGate
<1>2. ASSUME NEW outcome \in Outcomes, <<Current.id, outcome>> \in dirty, outcome # "empty"
      PROVE  Verdict(Current) = "failed"
    <2>1. failing
        BY <1>1, <1>2 DEF CurrentOK
    <2> QED BY <2>1 DEF Verdict
<1>3. ASSUME Verdict(Current) = "passed" PROVE EarnedBy(RowOf(Current.source))
    <2>1. RowOf(Current.source) = Current
        BY <1>1, RowFound DEF Current
    <2>2. ~failing /\ (Current.tests => tested)
        BY <1>3 DEF Verdict
    <2>3. \A j \in 1 .. Len(Steps(Current)) : <<Current.id, Steps(Current)[j]>> \in clean
        BY <1>1, <2>2 DEF CurrentOK
    <2>4. \A p \in ToSet(Steps(Current)) : <<Current.id, p>> \in clean
        BY <1>1, <2>3 DEF ToSet
    <2>5. ASSUME NEW outcome \in Outcomes, <<Current.id, outcome>> \in dirty
          PROVE  outcome = "empty" /\ Current.how = "compound"
        <3>1. outcome = "empty" /\ Current.tests
            BY <1>1, <2>2, <2>5 DEF CurrentOK
        <3>2. Current.how = "command" => ~tested
            BY <1>1, <2>5, <3>1 DEF CurrentOK
        <3> QED BY <1>1, <2>2, <3>1, <3>2
    <2> QED BY <2>1, <2>4, <2>5 DEF EarnedBy
<1> QED BY <1>1, <1>2, <1>3, RecordKeepsRun

\* The report ends the run; it returns 0 only if nothing failed.
LEMMA ReportKeepsRun == ASSUME RunInv, WriteReport PROVE RunInv'
<1>1. /\ pc = "gates" /\ pc' = "exited" /\ row \in Nat /\ ~AtRow /\ ~AtRow'
      /\ row = Len(Plan) + 1 /\ Len(Plan) \in Nat /\ ~InGate'
      /\ UNCHANGED <<setup, row, step, failing, tested, child, clean, dirty>>
      /\ setup.target # << >>
    BY PlanIsAList DEF RunInv, ShapeOK, WriteReport, AtRow, InGate, watch, history
<1>2. /\ DOMAIN gates \subseteq DOMAIN gates'
      /\ \A id \in DOMAIN gates : gates'[id] = gates[id]
      /\ \A id \in DOMAIN gates' : id \notin DOMAIN gates => gates'[id] = "not_run"
    BY DEF WriteReport
<1>3. ShapeOK'
    BY <1>1 DEF RunInv, ShapeOK
<1>4. DirtyOK'
    BY <1>1, <1>2 DEF RunInv, DirtyOK
<1>5. GatesOK'
    <2>1. \A r : EarnedBy(r)' <=> EarnedBy(r)
        BY <1>1 DEF EarnedBy, Steps, Projects
    <2> QED BY <1>1, <1>2, <2>1 DEF RunInv, GatesOK
<1>6. CurrentOK'
    BY <1>1 DEF CurrentOK
<1>7. ExitOK'
    <2> SUFFICES ASSUME exit' = "0" PROVE ExitTellsFailures'
        BY <1>1 DEF ExitOK
    <2>1. /\ \A id \in DOMAIN gates' : gates'[id] # "failed"
          /\ setup.mode = "strict" => NotGreen(gates') = {}
          /\ report' # {}
        BY DEF WriteReport
    <2>2. ASSUME NEW d \in dirty PROVE d[2] = "empty"
        <3>1. PICK i \in 1 .. Len(Plan) :
                  /\ i <= row /\ d[1] = Plan[i].id
                  /\ i < row /\ d[2] # "empty" =>
                       Plan[i].id \in DOMAIN gates /\ gates[Plan[i].id] = "failed"
            BY DEF RunInv, DirtyOK
        <3>2. i < row
            BY <1>1, <3>1
        <3> QED BY <1>2, <2>1, <3>1, <3>2
    <2>3. setup.mode = "strict" => \A id \in Mandatory : gates'[id] = "passed"
        BY <2>1 DEF NotGreen
    <2> QED BY <1>1, <2>1, <2>2, <2>3 DEF ExitTellsFailures
<1> QED BY <1>3, <1>4, <1>5, <1>6, <1>7 DEF RunInv

\* Every step of the runner, of a command or of the operator keeps what is known.
LEMMA StepRuns == ASSUME RunInv, Next PROVE RunInv'
<1>1. CASE Start
  <2>1. /\ pc = "start" /\ pc' \in {"gates", "exited"} /\ ~InGate /\ ~InGate'
        /\ UNCHANGED <<setup, row, step, failing, tested, child, gates, report, clean, dirty>>
        /\ (setup.target = << >> => pc' = "exited")
        /\ (exit' = "0" => exit = "0")
    BY <1>1 DEF Start, InGate, watch, history
  <2>2. /\ Current' = Current /\ (AtRow' <=> AtRow)
        /\ (Holds(Current.when)' <=> Holds(Current.when))
        /\ Steps(Current)' = Steps(Current)
    BY <2>1, SameRow
  <2>3. ShapeOK'
    BY <2>1 DEF RunInv, ShapeOK
  <2>4. DirtyOK'
    BY <2>1 DEF RunInv, DirtyOK
  <2>5. GatesOK'
    <3>1. \A r : EarnedBy(r)' <=> EarnedBy(r)
      BY <2>1 DEF EarnedBy, Steps, Projects
    <3> QED BY <2>1, <3>1 DEF RunInv, GatesOK
  <2>6. CurrentOK'
    BY <2>1, <2>2 DEF RunInv, CurrentOK
  <2>7. ExitOK'
    BY <2>1 DEF RunInv, ExitOK
  <2> QED BY <2>3, <2>4, <2>5, <2>6, <2>7 DEF RunInv
<1>2. CASE Pending
  <2>1. pc = "gates" /\ AtRow /\ ~Holds(Current.when) /\ row \in 1 .. Len(Plan)
    BY <1>2, PlanIsAList DEF Pending, AtGate, AtRow, RunInv, ShapeOK
  <2>2. \A outcome \in Outcomes : <<Current.id, outcome>> \notin dirty
    BY <2>1 DEF RunInv, CurrentOK
  <2>3. CASE Current.id \in Unmentioned
    <3>1. /\ row' = row + 1
          /\ UNCHANGED <<setup, pc, step, tested, child, gates, report, exit, clean, dirty>>
      BY <1>2, <2>3 DEF Pending, watch, history
    <3>2. step' = 1 /\ ~tested'
      <4>1. step \in Nat \ {0} /\ ~(step > 1)
        BY <2>1 DEF RunInv, ShapeOK, CurrentOK
      <4>2. step = 1
        BY <4>1
      <4> QED BY <2>1, <3>1, <4>2 DEF RunInv, CurrentOK
    <3>3. Current.id \in DOMAIN gates => gates[Current.id] # "passed"
      BY <2>1, NotDecidedYet
    <3> QED BY <2>1, <2>2, <3>1, <3>2, <3>3, MovedOn
  <2>4. CASE Current.id \notin Unmentioned
    <3>1. Record(Current.id, "not_run")
      BY <1>2, <2>4 DEF Pending
    <3> QED BY <2>1, <2>2, <3>1, RecordKeepsRun
  <2> QED BY <2>3, <2>4
<1>3. CASE InspectTree
  <2>1. /\ pc = "gates" /\ AtRow /\ row \in 1 .. Len(Plan) /\ Current.how = "check"
        /\ Record(Current.id, IF Current.id = "secret_scan" THEN SecretScan ELSE StaticInventory)
    BY <1>3, PlanIsAList DEF InspectTree, AtGate, AtRow, RunInv, ShapeOK
  <2>2. \A outcome \in Outcomes : <<Current.id, outcome>> \notin dirty
    BY <2>1 DEF RunInv, CurrentOK
  <2>3. RowOf(Current.source) = Current
    BY <2>1, RowFound DEF Current
  <2>4. EarnedBy(RowOf(Current.source))
    BY <2>1, <2>3 DEF EarnedBy
  <2> QED BY <2>1, <2>2, <2>4, RecordKeepsRun
<1>4. CASE AddAliasGate
  <2>1. /\ pc = "gates" /\ AtRow /\ row \in 1 .. Len(Plan) /\ Current.how = "alias"
        /\ Record(Current.id, IF Current.source \in DOMAIN gates
                                THEN gates[Current.source] ELSE "not_run")
    BY <1>4, PlanIsAList DEF AddAliasGate, AtGate, AtRow, RunInv, ShapeOK
  <2>2. \A outcome \in Outcomes : <<Current.id, outcome>> \notin dirty
    BY <2>1 DEF RunInv, CurrentOK
  <2>3. PICK j \in 1 .. row : /\ j \in 1 .. Len(Plan) /\ Plan[j].id = Current.source
                              /\ Plan[j].how # "alias"
    BY <2>1, PlanAssumption, PlanIsAList DEF Current
  <2>4. j \in 1 .. row - 1
    <3>1. j # row
      BY <2>1, <2>3 DEF Current
    <3>2. j \in 1 .. row /\ row \in Nat
      BY <2>1, PlanIsAList
    <3> QED BY <3>1, <3>2
  <2>5. RowOf(Plan[j].source) = Plan[j] /\ RowOf(Plan[j].id) = Plan[j]
    BY <2>3, RowFound
  <2>6. Current.source \in DOMAIN gates /\ gates[Current.source] = "passed" =>
            EarnedBy(RowOf(Current.source))
    BY <2>3, <2>4, <2>5 DEF RunInv, GatesOK
  <2> QED BY <2>1, <2>2, <2>6, RecordKeepsRun
<1>5. ASSUME NEW outcome \in Outcomes, Launch(outcome) PROVE RunInv'
  BY <1>5, LaunchKeepsRun
<1>6. CASE Reap
  <2>1. /\ pc = "running" /\ InGate /\ ~child.up /\ pc' = "gates" /\ step' = step + 1
        /\ UNCHANGED <<setup, row, child, gates, report, exit, dirty>>
        /\ failing' = (failing \/ child.outcome = "bad")
        /\ tested' = (tested \/ (child.outcome = "ok" /\ Current.tests))
        /\ clean' = IF child.outcome = "bad" THEN clean
                    ELSE clean \cup {<<Current.id, Steps(Current)[step]>>}
    BY <1>6 DEF Reap, InGate, watch
  <2>2. /\ setup.target # << >> /\ step \in Nat \ {0}
        /\ child.outcome \in {"ok", "bad", "empty"}
    BY <2>1 DEF RunInv, ShapeOK
  <2>3. step' \in Nat /\ step' > step
    BY <2>1, <2>2
  <2>4. failing' \in BOOLEAN /\ (failing => failing')
        /\ (child.outcome \notin {"ok", "empty"} => failing')
    BY <2>1, <2>2
  <2>5. clean \subseteq clean'
        /\ (~failing' => <<Current.id, Steps(Current)[step]>> \in clean')
    BY <2>1
  <2>6. child.outcome = "empty" /\ tested' => tested
    BY <2>1
  <2> QED BY <2>1, <2>2, <2>3, <2>4, <2>5, <2>6, GateGoesOn
<1>7. CASE TimesOut
  BY <1>7, WatchKeepsRun DEF TimesOut, InGate, history, RunInv, ExitOK
<1>8. CASE Terminated
  <2>1. InGate /\ UNCHANGED <<setup, row, tested, child, gates, report, history>>
    BY <1>8 DEF Terminated, InGate
  <2> QED BY <1>8, <2>1, AbortKeepsRun, GateFailsKeepsRun DEF Terminated
<1>9. CASE GraceOver
  <2>1. /\ InGate /\ child'.outcome = child.outcome
        /\ UNCHANGED <<setup, row, tested, gates, report, history>>
    BY <1>9 DEF GraceOver, SigKill, InGate
  <2>2. CASE why = "interrupt"
    BY <1>9, <2>1, <2>2, AbortKeepsRun DEF GraceOver
  <2>3. CASE why # "interrupt"
    <3>1. pc' = "killing" /\ UNCHANGED <<failing, step, exit>>
      BY <1>9, <2>3 DEF GraceOver
    <3> QED BY <2>1, <3>1, WatchKeepsRun DEF InGate, history, RunInv, ExitOK
  <2> QED BY <2>2, <2>3
<1>10. CASE Killed
  <2>1. InGate /\ GateFails /\ UNCHANGED <<setup, row, tested, gates, report, history>>
    BY <1>10 DEF Killed, InGate
  <2>2. child'.outcome = child.outcome
    <3>1. SigKill => child'.outcome = child.outcome
      BY DEF SigKill
    <3> QED BY <1>10, <3>1 DEF Killed
  <2> QED BY <2>1, <2>2, GateFailsKeepsRun
<1>11. CASE Conclude
  BY <1>11, ConcludeKeepsRun
<1>12. CASE WriteReport
  BY <1>12, ReportKeepsRun
<1>13. CASE CommandEnds
  BY <1>13, WatchKeepsRun DEF CommandEnds, InGate, history, RunInv, ExitOK
<1>14. CASE Dies
  BY <1>14, DiesKeepsRun
<1>15. CASE Interrupt
  <2>1. /\ InGate /\ UNCHANGED <<setup, row, tested, child, gates, report, history>>
    BY <1>15 DEF Interrupt, InGate
  <2>2. CASE pc' = "terminating" /\ UNCHANGED <<failing, step, exit>>
    BY <2>1, <2>2, WatchKeepsRun DEF InGate, history, RunInv, ExitOK
  <2>3. CASE Abort("interrupted twice") \/ Abort("interrupt")
    BY <2>1, <2>3, AbortKeepsRun
  <2> QED BY <1>15, <2>2, <2>3 DEF Interrupt
<1> QED
  BY <1>1, <1>2, <1>3, <1>4, <1>5, <1>6, <1>7, <1>8, <1>9, <1>10, <1>11,
     <1>12, <1>13, <1>14, <1>15 DEF Next, Runner

\* What a run has recorded was earned, and what it returns tells: the invariant
\* behind the two theorems below.
THEOREM RunInvariant == Spec => []RunInv
<1>1. ASSUME RunInv, UNCHANGED vars PROVE RunInv'
  <2>1. /\ UNCHANGED <<setup, pc, row, step, failing, tested, child, gates, report, exit>>
        /\ UNCHANGED <<clean, dirty>>
    BY <1>1 DEF vars
  <2>2. /\ Current' = Current /\ (AtRow' <=> AtRow) /\ (InGate' <=> InGate)
        /\ (Holds(Current.when)' <=> Holds(Current.when))
        /\ Steps(Current)' = Steps(Current)
    BY <2>1, SameRow DEF InGate
  <2>3. ShapeOK' /\ DirtyOK' /\ CurrentOK'
    BY <1>1, <2>1, <2>2 DEF RunInv, ShapeOK, DirtyOK, CurrentOK
  <2>4. GatesOK'
    <3>1. \A r : EarnedBy(r)' <=> EarnedBy(r)
      BY <2>1 DEF EarnedBy, Steps, Projects
    <3> QED BY <1>1, <2>1, <3>1 DEF RunInv, GatesOK
  <2>5. ExitOK'
    BY <1>1, <2>1 DEF RunInv, ExitOK, ExitTellsFailures
  <2> QED BY <2>3, <2>4, <2>5 DEF RunInv
<1>2. RunInv /\ [Next]_vars => RunInv'
  BY <1>1, StepRuns
<1> QED BY <1>2, InitRuns, PTL DEF Spec

\* In every environment and however many commands misbehave, a gate recorded as
\* passed had each of its commands, or of the gate it takes its status from, run
\* and exit 0 in this very run (qc.py: run_gate, run_compound_gate,
\* add_alias_gate).
THEOREM GreenIsEarned == Spec => []GreenMeansExecuted
<1>1. RunInv => GreenMeansExecuted
  <2> SUFFICES ASSUME RunInv, NEW id \in DOMAIN gates, gates[id] = "passed",
                      RowOf(RowOf(id).source).how # "check"
               PROVE  LET source == RowOf(RowOf(id).source)
                      IN /\ \A p \in ToSet(Steps(source)) : <<source.id, p>> \in clean
                         /\ \A outcome \in Outcomes :
                              <<source.id, outcome>> \in dirty =>
                                  outcome = "empty" /\ source.how = "compound"
    BY DEF GreenMeansExecuted
  <2>1. PICK i \in 1 .. row - 1 : Plan[i].id = id
    BY DEF RunInv, GatesOK
  <2>2. i \in 1 .. Len(Plan)
    BY PlanIsAList DEF RunInv, ShapeOK
  <2>3. RowOf(id) = Plan[i]
    BY <2>1, <2>2, RowFound
  <2>4. EarnedBy(RowOf(RowOf(id).source))
    BY <2>1, <2>3 DEF RunInv, GatesOK
  <2> QED BY <2>4 DEF EarnedBy
<1> QED BY <1>1, RunInvariant, PTL

\* The run returns 0 only if it wrote a report, nothing failed, hung or could not
\* be launched and, in strict mode, every mandatory gate is green (qc.py: main).
THEOREM ExitStatusTells == Spec => []ExitTellsFailures
<1>1. RunInv => ExitTellsFailures
  BY DEF RunInv, ExitOK, ExitTellsFailures
<1> QED BY <1>1, RunInvariant, PTL
=============================================================================
