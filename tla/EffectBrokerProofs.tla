-------------------------- MODULE EffectBrokerProofs --------------------------
(***************************************************************************)
(* Theorems about EffectBroker for any number of tasks, effects, payloads, *)
(* kinds of decision and restarts: the tasks write through the store's     *)
(* transactions only, and what the target sees follows from that.          *)
(***************************************************************************)
EXTENDS EffectBroker, EffectStoreProofs, FiniteSetTheorems

-----------------------------------------------------------------------------
(* What the rows hold, as far as the bounds of StoreNext speak of it.      *)

\* A row that exists holds a revision, an epoch, a trajectory version and a
\* payload that a decision may name (Bindings).
RowsAreBindable ==
    \A e \in Effects : effects[e].state # "absent" =>
        /\ effects[e].revision \in 1..MaxRevision
        /\ effects[e].epoch \in 1..MaxEpoch
        /\ effects[e].vector.trajectory \in 0..MaxTrajectory
        /\ effects[e].payload \in Payloads

RowBounds ==
    /\ epoch \in 1..MaxEpoch
    /\ trajectory \in 0..MaxTrajectory
    /\ RowsAreBindable

\* A change of state of a row that exists leaves what it holds.
LEMMA SetStateBindable ==
    ASSUME StoreTypeOK, RowsAreBindable, NEW e \in Effects, NEW to,
           effects[e].state # "absent", SetState(e, to)
    PROVE  RowsAreBindable'
BY SetStateRows DEF RowsAreBindable

LEMMA StoreStepBounds ==
    ASSUME StoreTypeOK, RowBounds, [StoreNext]_storeVars
    PROVE  RowBounds'
<1> USE StoreAssumption
<1>1. CASE EpisodeStep
    <2>1. ASSUME NEW s \in EpisodeStates, SetEpisodeState(s) PROVE RowBounds'
        BY <2>1 DEF SetEpisodeState, rowVars, RowBounds, RowsAreBindable
    <2>2. CASE AdvanceEpoch
        <3>1. \A e \in Effects :
                  /\ effects'[e] \in {effects[e], [effects[e] EXCEPT !.state = "stale"]}
                  /\ effects'[e].state # "absent" => effects[e].state # "absent"
            BY <2>2 DEF AdvanceEpoch, StaleOlder, Uncommitted
        <3>2. RowsAreBindable'
            BY <3>1 DEF RowBounds, RowsAreBindable, StoreTypeOK, EffectRows
        <3> QED BY <2>2, <3>2 DEF AdvanceEpoch, RowBounds
    <2>3. ASSUME NEW ep \in 1..epoch, NEW v \in 0..MaxTrajectory, UpdateTrajectory(ep, v)
          PROVE  RowBounds'
        BY <2>3 DEF UpdateTrajectory, rowVars, RowBounds, RowsAreBindable
    <2> QED BY <1>1, <2>1, <2>2, <2>3 DEF EpisodeStep
<1>2. ASSUME NEW l \in Leases, LeaseStep(l) PROVE RowBounds'
    BY <1>2 DEF LeaseStep, PutLease, RevokeLease, ExpireLease, RowBounds, RowsAreBindable
<1>3. ASSUME NEW d \in decisions, ExpireDecision(d) PROVE RowBounds'
    BY <1>3 DEF ExpireDecision, RowBounds, RowsAreBindable
<1>4. ASSUME NEW e \in Effects, EvaluationStep(e) PROVE RowBounds'
    <2>1. ASSUME NEW l \in Leases, NEW p \in Payloads, NEW ep \in 1..epoch,
                 NEW tv \in 0..trajectory, PutEffect(e, l, p, ep, tv)
          PROVE  RowBounds'
        <3>1. \A f \in Effects : f # e => effects'[f] = effects[f]
            BY <2>1 DEF PutEffect, StoreTypeOK
        <3>2. /\ effects'[e].revision = 1 /\ effects'[e].epoch = epoch
              /\ effects'[e].vector.trajectory = tv /\ effects'[e].payload = p
            BY <2>1 DEF PutEffect, StoreTypeOK
        <3>3. tv \in 0..MaxTrajectory
            BY DEF RowBounds
        <3>4. RowsAreBindable'
            BY <3>1, <3>2, <3>3 DEF RowBounds, RowsAreBindable
        <3> QED BY <2>1, <3>4 DEF PutEffect, RowBounds
    <2>2. CASE PrepareExistingEffect(e)
        BY <2>2, SetStateBindable DEF PrepareExistingEffect, Preparable, RowBounds
    <2>3. CASE MarkEvaluating(e) \/ MarkReady(e)
        BY <2>3, SetStateBindable DEF MarkEvaluating, MarkReady, Transition, Allowed, RowBounds
    <2>4. ASSUME NEW p \in Payloads, UpdateEffectRevision(e, p) PROVE RowBounds'
        <3>1. \A f \in Effects : f # e => effects'[f] = effects[f]
            BY <2>4 DEF UpdateEffectRevision, StoreTypeOK
        <3>2. /\ effects'[e].revision = effects[e].revision + 1
              /\ effects'[e].epoch = effects[e].epoch
              /\ effects'[e].vector.trajectory = effects[e].vector.trajectory
              /\ effects'[e].payload = p
            BY <2>4 DEF UpdateEffectRevision, Revised, StoreTypeOK
        <3>3. effects[e].state # "absent" /\ effects[e].revision < MaxRevision
            BY <2>4 DEF UpdateEffectRevision
        <3>4. RowsAreBindable'
            BY <3>1, <3>2, <3>3 DEF RowBounds, RowsAreBindable
        <3> QED BY <2>4, <3>4 DEF UpdateEffectRevision, RowBounds
    <2>5. ASSUME NEW r \in Bindings, NEW k \in Kinds, NEW o \in {"allow", "deny"},
                 NEW s \in Sources, RecordDecision(e, r, k, o, s)
          PROVE  RowBounds'
        BY <2>5 DEF RecordDecision, RowBounds, RowsAreBindable
    <2>6. CASE AbortEffect(e)
        BY <2>6, SetStateBindable DEF AbortEffect, Allowed, RowBounds
    <2>7. CASE ExpireEffect(e)
        BY <2>7 DEF ExpireEffect, RowBounds, RowsAreBindable
    <2> QED BY <1>4, <2>1, <2>2, <2>3, <2>4, <2>5, <2>6, <2>7 DEF EvaluationStep
<1>5. ASSUME NEW e \in Effects, CommitStep(e) PROVE RowBounds'
    <2>1. CASE BeginEffectCommit(e)
        BY <2>1, SetStateBindable DEF BeginEffectCommit, HorizonHolds, RowBounds
    <2>2. CASE MarkCommitting(e)
        BY <2>2, SetStateBindable DEF MarkCommitting, Allowed, RowBounds
    <2>3. ASSUME NEW o \in {"committed", "failed", "commit_unknown"}, CompleteEffect(e, o)
          PROVE  RowBounds'
        BY <2>3, SetStateBindable DEF CompleteEffect, Allowed, RowBounds
    <2>4. ASSUME NEW o \in Outcomes, ReconcileEffect(e, o) PROVE RowBounds'
        BY <2>4, SetStateBindable DEF ReconcileEffect, Reconcilable, InFlight, RowBounds
    <2> QED BY <1>5, <2>1, <2>2, <2>3, <2>4 DEF CommitStep
<1>6. CASE UNCHANGED storeVars
    BY <1>6 DEF storeVars, rowVars, RowBounds, RowsAreBindable
<1> QED BY <1>1, <1>2, <1>3, <1>4, <1>5, <1>6 DEF StoreNext

-----------------------------------------------------------------------------
(* What no transaction takes back.                                         *)

\* A recorded decision stays, whatever becomes of its lifetime.
LEMMA DecisionsStay ==
    ASSUME StoreTypeOK, [StoreNext]_storeVars, NEW d \in decisions
    PROVE  \E c \in decisions' : SameSay(d, c)
<1>1. CASE \E x \in decisions : ExpireDecision(x)
    <2> PICK x \in decisions : ExpireDecision(x)
        BY <1>1
    <2>1. CASE d = x
        <3> DEFINE c == [x EXCEPT !.fresh = FALSE]
        <3>1. c \in decisions'
            BY DEF ExpireDecision
        <3>2. SameSay(d, c)
            BY <2>1 DEF SameSay, StoreTypeOK, DecisionRows
        <3> QED BY <3>1, <3>2
    <2>2. CASE d # x
        BY <2>2 DEF ExpireDecision, SameSay
    <2> QED BY <2>1, <2>2
<1>2. CASE ~\E x \in decisions : ExpireDecision(x)
    <2>1. d \in decisions'
        BY <1>2 DEF StoreNext, storeVars, rowVars, EpisodeStep, SetEpisodeState, AdvanceEpoch,
           UpdateTrajectory, LeaseStep, PutLease, RevokeLease, ExpireLease, EvaluationStep,
           PutEffect, PrepareExistingEffect, MarkEvaluating, MarkReady, Transition,
           UpdateEffectRevision, RecordDecision, AbortEffect, ExpireEffect, CommitStep,
           BeginEffectCommit, MarkCommitting, CompleteEffect, ReconcileEffect
    <2> QED BY <2>1 DEF SameSay
<1> QED BY <1>1, <1>2

\* The trajectory version and the number of licences only grow.
LEMMA CountsGrow ==
    ASSUME StoreTypeOK, [StoreNext]_storeVars
    PROVE  /\ trajectory <= trajectory'
           /\ \A e \in Effects : permits[e] <= permits'[e]
<1>1. trajectory <= trajectory'
    BY StoreAssumption DEF StoreTypeOK, StoreNext, storeVars, rowVars, EpisodeStep,
       SetEpisodeState, AdvanceEpoch, UpdateTrajectory, LeaseStep, PutLease, RevokeLease,
       ExpireLease, ExpireDecision, EvaluationStep, PutEffect, PrepareExistingEffect,
       MarkEvaluating, MarkReady, Transition, UpdateEffectRevision, RecordDecision,
       AbortEffect, ExpireEffect, CommitStep, BeginEffectCommit, MarkCommitting,
       CompleteEffect, ReconcileEffect
<1>2. CASE \E f \in Effects : MarkCommitting(f)
    BY <1>1, <1>2 DEF MarkCommitting, StoreTypeOK
<1>3. CASE ~\E f \in Effects : MarkCommitting(f)
    <2>1. permits' = permits
        BY <1>3 DEF StoreNext, storeVars, rowVars, EpisodeStep, SetEpisodeState,
           AdvanceEpoch, UpdateTrajectory, LeaseStep, PutLease, RevokeLease, ExpireLease,
           ExpireDecision, EvaluationStep, PutEffect, PrepareExistingEffect,
           MarkEvaluating, MarkReady, Transition, UpdateEffectRevision, RecordDecision,
           AbortEffect, ExpireEffect, CommitStep, BeginEffectCommit, CompleteEffect,
           ReconcileEffect
    <2> QED BY <1>1, <2>1 DEF StoreTypeOK
<1> QED BY <1>2, <1>3

\* A change of state is none of what the row holds.
LEMMA SetStateStays ==
    ASSUME StoreTypeOK, NEW f \in Effects, NEW to, SetState(f, to), to # "absent",
           NEW e \in Effects, effects[e].state # "absent"
    PROVE  effects'[e].state # "absent" /\ UNCHANGED <<effects[e].revision, effects[e].payload>>
BY SetStateRows

\* A row stays; its payload changes with its revision only, which grows.
LEMMA RowsStay ==
    ASSUME StoreTypeOK, [StoreNext]_storeVars, NEW e \in Effects, effects[e].state # "absent"
    PROVE  /\ effects'[e].state # "absent"
           /\ \/ UNCHANGED <<effects[e].revision, effects[e].payload>>
              \/ effects'[e].revision = effects[e].revision + 1
<1>1. CASE EpisodeStep
    <2>1. CASE AdvanceEpoch
        <3>1. effects'[e] \in {effects[e], [effects[e] EXCEPT !.state = "stale"]}
            BY <2>1 DEF AdvanceEpoch, StaleOlder
        <3> QED BY <3>1 DEF StoreTypeOK, EffectRows
    <2>2. CASE effects' = effects
        BY <2>2
    <2> QED BY <1>1, <2>1, <2>2 DEF EpisodeStep, SetEpisodeState, UpdateTrajectory, rowVars
<1>2. ASSUME NEW l \in Leases, LeaseStep(l) PROVE effects' = effects
    BY <1>2 DEF LeaseStep, PutLease, RevokeLease, ExpireLease
<1>3. ASSUME NEW d \in decisions, ExpireDecision(d) PROVE effects' = effects
    BY <1>3 DEF ExpireDecision
<1>4. ASSUME NEW f \in Effects, NEW l, NEW p, NEW ep, NEW tv, PutEffect(f, l, p, ep, tv)
      PROVE  effects'[e] = effects[e]
    BY <1>4 DEF PutEffect, StoreTypeOK
<1>5. ASSUME NEW f \in Effects, NEW p, UpdateEffectRevision(f, p)
      PROVE  /\ effects'[e].state # "absent"
             /\ effects'[e] = effects[e] \/ effects'[e].revision = effects[e].revision + 1
    BY <1>5 DEF UpdateEffectRevision, Revised, StoreTypeOK
<1>6. ASSUME NEW f \in Effects,
             \/ PrepareExistingEffect(f) \/ MarkEvaluating(f) \/ MarkReady(f)
             \/ AbortEffect(f) \/ CommitStep(f)
      PROVE  effects'[e].state # "absent" /\ UNCHANGED <<effects[e].revision, effects[e].payload>>
    <2>1. \E to : to # "absent" /\ SetState(f, to)
        BY <1>6 DEF PrepareExistingEffect, MarkEvaluating, MarkReady, Transition, AbortEffect,
           CommitStep, BeginEffectCommit, MarkCommitting, CompleteEffect, ReconcileEffect,
           Reconciled
    <2> QED BY <2>1, SetStateStays
<1>7. ASSUME NEW f \in Effects, NEW r, NEW k, NEW o, NEW s, RecordDecision(f, r, k, o, s)
      PROVE  effects' = effects
    BY <1>7 DEF RecordDecision
<1>8. ASSUME NEW f \in Effects, ExpireEffect(f) PROVE effects' = effects
    BY <1>8 DEF ExpireEffect
<1>9. UNCHANGED storeVars => effects' = effects
    BY DEF storeVars, rowVars
<1> QED BY <1>1, <1>2, <1>3, <1>4, <1>5, <1>6, <1>7, <1>8, <1>9 DEF StoreNext, EvaluationStep

-----------------------------------------------------------------------------
(* The invariant of the broker.                                            *)

\* What a task believes of the target and of the approvals is true, and stays so.
TaskKnows(t) ==
    /\ tasks[t].at = "complete" /\ tasks[t].answer = "receipt" =>
          applied[tasks[t].effect] > 0
    /\ tasks[t].at = "settle" /\ tasks[t].answer = "committed" =>
          applied[tasks[t].effect] > 0
    /\ tasks[t].at = "call" =>
          \A k \in Required[tasks[t].effect] : \E d \in decisions :
              /\ d.effect = tasks[t].effect /\ d.kind = k /\ d.decision = "allow"
              /\ d.revision = tasks[t].row.revision
              /\ d.payload = tasks[t].row.payload

\* The tasks about to call the adapter for an effect.
Callers(e) == {t \in Tasks : tasks[t].at = "call" /\ tasks[t].effect = e}

\* Each mutation used a licence of its own, and each caller still holds one.
WithinPermits == \A e \in Effects : applied[e] + Cardinality(Callers(e)) <= permits[e]

\* The store knows "failed", the broker never records it: an attempt without a
\* receipt is unknown.
NoneFailed == \A e \in Effects : effects[e].state # "failed"

BrokerInv ==
    /\ BrokerTypeOK
    /\ StoreInv
    /\ RowBounds
    /\ \A t \in Tasks : TaskReady(t) /\ TaskKnows(t)
    /\ WithinPermits
    /\ CommittedWasApplied
    /\ NoneFailed

\* Task t goes on without reaching the adapter.
Moves(t) ==
    /\ \E next \in TaskStates : next.at # "call" /\ Run(t, next)
    /\ TaskReady(t)' /\ TaskKnows(t)'

\* "committed" is written on evidence only, and no attempt in doubt is written off.
Evidence ==
    \A e \in Effects :
        /\ effects'[e].state = "committed" => effects[e].state = "committed" \/ applied'[e] > 0
        /\ effects'[e].state \in Abandoned => effects[e].state \in Abandoned \cup Uncommitted
        /\ effects'[e].state = "failed" => effects[e].state = "failed"

StoreStep == StoreNext \/ UNCHANGED storeVars

\* What every step of a task but mark_committing and the call itself does.
Quiet(t) ==
    /\ Moves(t)
    /\ StoreStep
    /\ Evidence
    /\ UNCHANGED <<applied, crashes>>
    /\ boot' \in BootStates

-----------------------------------------------------------------------------
(* How tasks move.                                                         *)

LEMMA IdleTyped == Idle \in TaskStates /\ NoRow \in TaskRows
BY StoreAssumption DEF Idle, NoRow, TaskStates, TaskRows, Steps

\* Only the row of the task that runs changes.
LEMMA RunMoves ==
    ASSUME tasks \in [Tasks -> TaskStates], NEW t \in Tasks, NEW next \in TaskStates,
           Run(t, next)
    PROVE  /\ tasks' \in [Tasks -> TaskStates]
           /\ tasks'[t] = next
           /\ \A u \in Tasks : u # t => tasks'[u] = tasks[u]
BY DEF Run

\* A task that ends an operation, or has the rest of a list to look at.
LEMMA IdleMoves ==
    ASSUME tasks \in [Tasks -> TaskStates], NEW t \in Tasks, NEW next \in TaskStates,
           next.at \in {"idle", "pick"}, Run(t, next)
    PROVE  Moves(t)
<1>1. tasks'[t] = next
    BY RunMoves
<1>2. TaskReady(t)' /\ TaskKnows(t)'
    BY <1>1 DEF TaskReady, TaskKnows
<1>3. next.at # "call"
    OBVIOUS
<1> QED BY <1>2, <1>3 DEF Moves

LEMMA DoneMoves ==
    ASSUME tasks \in [Tasks -> TaskStates], NEW t \in Tasks, Done(t)
    PROVE  Moves(t)
<1> DEFINE next == IF tasks[t].queue = {} THEN Idle
                   ELSE [Idle EXCEPT !.at = "pick", !.queue = tasks[t].queue]
<1>1. tasks[t].queue \in SUBSET Effects
    BY DEF TaskStates
<1>2. next \in TaskStates /\ next.at \in {"idle", "pick"}
    BY <1>1, IdleTyped DEF Idle, TaskStates, Steps
<1>3. Run(t, next)
    BY DEF Done
<1> HIDE DEF next
<1> QED BY <1>2, <1>3, IdleMoves

LEMMA GiveUpIsQuiet ==
    ASSUME BrokerInv, NEW t \in Tasks, GiveUp(t)
    PROVE  Quiet(t)
<1>1. Moves(t)
    BY DoneMoves DEF BrokerInv, BrokerTypeOK, GiveUp
<1>2. Evidence
    BY DEF GiveUp, Evidence, storeVars, rowVars
<1> QED BY <1>1, <1>2 DEF GiveUp, Quiet, StoreStep, BrokerInv, BrokerTypeOK

-----------------------------------------------------------------------------
(* prepare                                                                 *)

\* A task that only changes its step, keeping what it has read.
LEMMA GotoTyped ==
    ASSUME tasks \in [Tasks -> TaskStates], NEW t \in Tasks, NEW step \in Steps,
           Goto(t, step)
    PROVE  /\ \E next \in TaskStates : next.at = step /\ Run(t, next)
           /\ tasks'[t].at = step
           /\ tasks'[t].effect = tasks[t].effect
           /\ tasks'[t].row = tasks[t].row
           /\ tasks'[t].answer = tasks[t].answer
<1> DEFINE next == [tasks[t] EXCEPT !.at = step]
<1>1. tasks[t] \in TaskStates
    OBVIOUS
<1>2. /\ next \in TaskStates /\ next.at = step
      /\ next.effect = tasks[t].effect /\ next.row = tasks[t].row
      /\ next.answer = tasks[t].answer
    BY <1>1 DEF TaskStates
<1>3. Run(t, next)
    BY DEF Goto
<1> HIDE DEF next
<1> QED BY <1>2, <1>3, RunMoves

\* Such a task may go on to any step that asks for no more than it has.
LEMMA GotoMoves ==
    ASSUME tasks \in [Tasks -> TaskStates], NEW t \in Tasks, TaskReady(t),
           tasks[t].at \notin {"idle", "pick"},
           NEW step \in {"prepare_row", "mark_ready", "mark_committing"},
           Goto(t, step)
    PROVE  Moves(t)
<1>1. step \in Steps
    BY DEF Steps
<1>2. /\ tasks'[t].at = step
      /\ tasks'[t].effect = tasks[t].effect
    BY <1>1, GotoTyped
<1>3. TaskReady(t)' /\ TaskKnows(t)'
    BY <1>2 DEF TaskReady, TaskKnows
<1> QED BY <1>1, <1>3, GotoTyped DEF Moves

\* A step that only reads.
LEMMA ReadIsQuiet ==
    ASSUME BrokerInv, NEW t \in Tasks, Moves(t),
           UNCHANGED <<storeVars, applied, crashes>>, boot' \in BootStates
    PROVE  Quiet(t)
<1>1. Evidence
    BY DEF Evidence, storeVars, rowVars
<1> QED BY <1>1 DEF Quiet, StoreStep

\* A transaction that leaves every row short of committed.
LEMMA WriteIsQuiet ==
    ASSUME BrokerInv, NEW t \in Tasks, Moves(t), NEW e \in Effects,
           EvaluationStep(e) \/ CommitStep(e),
           effects'[e].state \in Uncommitted \cup InFlight,
           \A f \in Effects \ {e} : effects'[f] = effects[f],
           UNCHANGED <<applied, boot, crashes>>
    PROVE  Quiet(t)
<1>1. StoreStep
    BY DEF StoreStep, StoreNext
<1>2. effects'[e].state # "committed" /\ effects'[e].state \notin Abandoned
    BY DEF Uncommitted, InFlight, Abandoned
<1>3. Evidence
    BY <1>2 DEF Evidence, Abandoned
<1> QED BY <1>1, <1>3 DEF Quiet, BrokerInv, BrokerTypeOK

LEMMA PrepareFetchIsQuiet ==
    ASSUME BrokerInv, NEW t \in Tasks, NEW e \in Effects, NEW l \in Leases,
           NEW p \in Payloads, PrepareFetch(t, e, l, p)
    PROVE  Quiet(t)
<1> DEFINE row == [NoRow EXCEPT !.epoch = epoch, !.lease = l,
                                !.payload = p, !.trajectory = trajectory]
           next == [Idle EXCEPT !.at = "authorise", !.effect = e, !.row = row]
<1>1. epoch \in Nat /\ trajectory \in Nat
    BY DEF BrokerInv, BrokerTypeOK, StoreTypeOK
<1>2. row \in TaskRows
    BY <1>1, IdleTyped DEF NoRow, TaskRows
<1>3. next \in TaskStates
    BY <1>2, IdleTyped DEF Idle, TaskStates, Steps
<1>4. Run(t, next) /\ UNCHANGED <<storeVars, applied, boot, crashes>>
    BY DEF PrepareFetch, Start
<1>5. tasks'[t] = next
    BY <1>3, <1>4, RunMoves DEF BrokerInv, BrokerTypeOK
<1>6. row.lease = l /\ row.payload = p /\ row.trajectory = trajectory
    BY DEF NoRow
<1>7. next.at = "authorise" /\ next.effect = e /\ next.row = row
    BY DEF Idle
<1>8. /\ tasks'[t].at = "authorise" /\ tasks'[t].effect = e
      /\ tasks'[t].row.lease = l /\ tasks'[t].row.payload = p
      /\ tasks'[t].row.trajectory = trajectory
    BY <1>5, <1>6, <1>7
<1>9. TaskReady(t)' /\ TaskKnows(t)'
    BY <1>1, <1>4, <1>8 DEF TaskReady, TaskKnows, storeVars
<1>10. next.at # "call"
    BY DEF Idle
<1>11. Moves(t)
    BY <1>3, <1>4, <1>9, <1>10 DEF Moves
<1> QED BY <1>4, <1>11, ReadIsQuiet DEF BrokerInv, BrokerTypeOK

LEMMA PrepareAuthoriseIsQuiet ==
    ASSUME BrokerInv, NEW t \in Tasks, PrepareAuthorise(t)
    PROVE  Quiet(t)
<1>1. CASE Goto(t, "put") /\ UNCHANGED <<storeVars, applied, boot, crashes>>
    <2>1. tasks \in [Tasks -> TaskStates] /\ "put" \in Steps
        BY DEF BrokerInv, BrokerTypeOK, Steps
    <2>2. tasks[t].at = "authorise" /\ TaskReady(t)
        BY DEF PrepareAuthorise, AtStep, BrokerInv
    <2>3. /\ tasks'[t].at = "put" /\ tasks'[t].effect = tasks[t].effect
          /\ tasks'[t].row = tasks[t].row
        BY <1>1, <2>1, GotoTyped
    <2>4. TaskReady(t)' /\ TaskKnows(t)'
        BY <1>1, <2>2, <2>3 DEF TaskReady, TaskKnows, storeVars
    <2>6. Moves(t)
        BY <1>1, <2>1, <2>4, GotoTyped DEF Moves
    <2> QED BY <1>1, <2>6, ReadIsQuiet DEF BrokerInv, BrokerTypeOK
<1>2. CASE GiveUp(t)
    BY <1>2, GiveUpIsQuiet
<1> QED BY <1>1, <1>2 DEF PrepareAuthorise

LEMMA PreparePutIsQuiet ==
    ASSUME BrokerInv, NEW t \in Tasks, PreparePut(t)
    PROVE  Quiet(t)
<1> DEFINE e == tasks[t].effect
           r == tasks[t].row
<1>1. CASE /\ PutEffect(e, r.lease, r.payload, r.epoch, r.trajectory)
           /\ Goto(t, "prepare_row")
           /\ UNCHANGED <<applied, boot, crashes>>
    <2>1. tasks \in [Tasks -> TaskStates] /\ "prepare_row" \in Steps
        BY DEF BrokerInv, BrokerTypeOK, Steps
    <2>2. tasks[t].at = "put" /\ TaskReady(t)
        BY DEF PreparePut, AtStep, BrokerInv
    <2>3. /\ e \in Effects /\ r.lease \in Leases /\ r.payload \in Payloads
          /\ r.trajectory <= trajectory
        BY <2>2 DEF TaskReady
    <2>4. r.trajectory \in Nat /\ r.epoch \in Nat
        BY <2>1 DEF TaskStates, TaskRows
    <2>5. r.trajectory \in 0..trajectory /\ r.epoch \in 1..epoch
        BY <1>1, <2>3, <2>4 DEF PutEffect, BrokerInv, BrokerTypeOK, StoreTypeOK
    <2>6. EvaluationStep(e)
        BY <1>1, <2>3, <2>5 DEF EvaluationStep
    <2>7. effects'[e].state = "proposed" /\ \A f \in Effects \ {e} : effects'[f] = effects[f]
        BY <1>1, <2>3 DEF PutEffect, BrokerInv, BrokerTypeOK, StoreTypeOK
    <2>8. Moves(t)
        BY <1>1, <2>1, <2>2, GotoMoves
    <2> QED BY <1>1, <2>3, <2>6, <2>7, <2>8, WriteIsQuiet DEF Uncommitted
<1>2. CASE GiveUp(t)
    BY <1>2, GiveUpIsQuiet
<1> QED BY <1>1, <1>2 DEF PreparePut, Target

LEMMA PrepareRowIsQuiet ==
    ASSUME BrokerInv, NEW t \in Tasks, PrepareRow(t)
    PROVE  Quiet(t)
<1> DEFINE e == tasks[t].effect
<1>1. CASE PrepareExistingEffect(e) /\ Done(t) /\ UNCHANGED <<applied, boot, crashes>>
    <2>1. e \in Effects
        BY DEF PrepareRow, AtStep, BrokerInv, TaskReady
    <2>2. Moves(t)
        BY <1>1, DoneMoves DEF BrokerInv, BrokerTypeOK
    <2>3. effects'[e].state = "prepared" /\ \A f \in Effects \ {e} : effects'[f] = effects[f]
        BY <1>1, <2>1, SetStateRows DEF PrepareExistingEffect, BrokerInv, BrokerTypeOK
    <2> QED BY <1>1, <2>1, <2>2, <2>3, WriteIsQuiet DEF EvaluationStep, Uncommitted
<1>2. CASE GiveUp(t)
    BY <1>2, GiveUpIsQuiet
<1> QED BY <1>1, <1>2 DEF PrepareRow, Target

-----------------------------------------------------------------------------
(* evaluate                                                                *)

\* What a task reads of a row is a row.
LEMMA RowOfTyped ==
    ASSUME NEW r \in EffectRows
    PROVE  RowOf(r) \in TaskRows
BY DEF RowOf, TaskRows, EffectRows, Vectors

LEMMA EvaluateFetchIsQuiet ==
    ASSUME BrokerInv, NEW t \in Tasks, NEW e \in Effects, NEW approval \in BOOLEAN,
           EvaluateFetch(t, e, approval)
    PROVE  Quiet(t)
<1> DEFINE row == RowOf(effects[e])
           next == [Idle EXCEPT !.at = "ensure_evaluating", !.effect = e,
                                !.row = row, !.approval = approval]
<1>1. row \in TaskRows
    BY RowOfTyped DEF BrokerInv, BrokerTypeOK, StoreTypeOK
<1>2. Run(t, next) /\ UNCHANGED <<storeVars, applied, boot, crashes>>
    BY DEF EvaluateFetch
<1> HIDE DEF row
<1>3. /\ next \in TaskStates /\ next.at = "ensure_evaluating" /\ next.effect = e
      /\ next.row = row
    BY <1>1, IdleTyped DEF Idle, TaskStates, Steps
<1> HIDE DEF next
<1>4. tasks'[t] = next
    BY <1>2, <1>3, RunMoves DEF BrokerInv, BrokerTypeOK
<1>5. RowWasRead(t)'
    <2>1. tasks'[t].effect = e /\ tasks'[t].row = row /\ effects' = effects
        BY <1>2, <1>3, <1>4 DEF storeVars, rowVars
    <2>2. row.revision = effects[e].revision /\ row.payload = effects[e].payload
        BY DEF row, RowOf
    <2>3. effects[e].state # "absent" /\ effects[e].revision \in Nat
        BY DEF EvaluateFetch, BrokerInv, BrokerTypeOK, StoreTypeOK, EffectRows
    <2> QED BY <2>1, <2>2, <2>3 DEF RowWasRead
<1>6. TaskReady(t)' /\ TaskKnows(t)'
    BY <1>3, <1>4, <1>5 DEF TaskReady, TaskKnows
<1>7. Moves(t)
    BY <1>2, <1>3, <1>6 DEF Moves
<1> QED BY <1>2, <1>7, ReadIsQuiet DEF BrokerInv, BrokerTypeOK

\* The first decision is the kernel's own.
LEMMA DecideMoves ==
    ASSUME BrokerInv, NEW t \in Tasks, NEW row \in TaskRows, NEW stage \in 1..4,
           tasks[t].effect \in Effects, KindOrder[stage] \in Kinds,
           effects'[tasks[t].effect].state # "absent",
           row.revision <= effects'[tasks[t].effect].revision,
           row.revision = effects'[tasks[t].effect].revision =>
               row.payload = effects'[tasks[t].effect].payload,
           Run(t, [tasks[t] EXCEPT !.at = "decide", !.stage = stage, !.row = row])
    PROVE  Moves(t)
<1> DEFINE next == [tasks[t] EXCEPT !.at = "decide", !.stage = stage, !.row = row]
<1>1. tasks \in [Tasks -> TaskStates] /\ tasks[t] \in TaskStates
    BY DEF BrokerInv, BrokerTypeOK
<1>2. /\ next \in TaskStates /\ next.at = "decide"
      /\ next.stage = stage /\ next.effect = tasks[t].effect /\ next.row = row
    <2>1. stage \in 0..4 /\ "decide" \in Steps
        BY DEF Steps
    <2>2. next \in TaskStates
        BY <1>1, <2>1 DEF TaskStates
    <2>3. /\ next.at = "decide" /\ next.stage = stage
          /\ next.effect = tasks[t].effect /\ next.row = row
        BY <1>1 DEF TaskStates
    <2> QED BY <2>2, <2>3
<1>3. Run(t, next)
    OBVIOUS
<1> HIDE DEF next
<1>4. tasks'[t] = next
    BY <1>1, <1>2, <1>3, RunMoves
<1>5. TaskReady(t)' /\ TaskKnows(t)'
    BY <1>2, <1>4 DEF TaskReady, RowWasRead, TaskKnows
<1> QED BY <1>2, <1>3, <1>5 DEF Moves

LEMMA EnsureEvaluatingIsQuiet ==
    ASSUME BrokerInv, NEW t \in Tasks, EnsureEvaluating(t)
    PROVE  Quiet(t)
<1> DEFINE e == tasks[t].effect
<1>1. e \in Effects
    BY DEF EnsureEvaluating, AtStep, BrokerInv, TaskReady
<1>2. KindOrder[1] \in Kinds /\ 1 \in 1..4
    BY BrokerAssumption DEF KindOrder
<1>3. tasks \in [Tasks -> TaskStates] /\ tasks[t] \in TaskStates
    BY DEF BrokerInv, BrokerTypeOK
<1>4. CASE /\ Run(t, [tasks[t] EXCEPT !.at = "decide", !.stage = 1])
           /\ UNCHANGED <<storeVars, applied, boot, crashes>>
    <2>1. /\ tasks[t].row \in TaskRows
          /\ [tasks[t] EXCEPT !.at = "decide", !.stage = 1]
             = [tasks[t] EXCEPT !.at = "decide", !.stage = 1, !.row = tasks[t].row]
        BY <1>3 DEF TaskStates
    <2>2. RowWasRead(t) /\ effects' = effects
        BY <1>4 DEF EnsureEvaluating, AtStep, BrokerInv, TaskReady, storeVars, rowVars
    <2>3. Moves(t)
        BY <1>1, <1>2, <1>4, <2>1, <2>2, DecideMoves DEF RowWasRead
    <2> QED BY <1>4, <2>3, ReadIsQuiet DEF BrokerInv, BrokerTypeOK
<1>5. CASE /\ MarkEvaluating(e)
           /\ Run(t, [tasks[t] EXCEPT !.at = "decide", !.stage = 1, !.row = RowOf(effects'[e])])
           /\ UNCHANGED <<applied, boot, crashes>>
    <2>1. EvaluationStep(e)
        BY <1>5 DEF EvaluationStep
    <2>2. StoreTypeOK'
        BY <1>1, <2>1, StoreStepTypes DEF StoreNext, BrokerInv, BrokerTypeOK
    <2>3. RowOf(effects'[e]) \in TaskRows
        BY <1>1, <2>2, RowOfTyped DEF StoreTypeOK
    <2>4. effects'[e].state = "evaluating" /\ \A f \in Effects \ {e} : effects'[f] = effects[f]
        BY <1>1, <1>5, SetStateRows DEF MarkEvaluating, Transition, BrokerInv, BrokerTypeOK
    <2>5. /\ RowOf(effects'[e]).revision = effects'[e].revision
          /\ RowOf(effects'[e]).payload = effects'[e].payload
          /\ effects'[e].revision \in Nat
        BY <1>1, <2>2 DEF RowOf, StoreTypeOK, EffectRows
    <2>6. effects'[e].revision <= effects'[e].revision
        BY <2>5
    <2>7. Moves(t)
        BY <1>1, <1>2, <1>5, <2>3, <2>4, <2>5, <2>6, DecideMoves
    <2> QED BY <1>1, <1>5, <2>1, <2>4, <2>7, WriteIsQuiet DEF Uncommitted
<1>6. CASE GiveUp(t)
    BY <1>6, GiveUpIsQuiet
<1> QED BY <1>4, <1>5, <1>6 DEF EnsureEvaluating, Target

\* After a decision the task takes the next kind in order, or looks at them all.
LEMMA AdvanceMoves ==
    ASSUME BrokerInv, NEW t \in Tasks, tasks[t].at = "decide", Advance(t), effects' = effects
    PROVE  Moves(t)
<1> DEFINE e == tasks[t].effect
           later == LaterStages(e, tasks[t].stage)
           j == CHOOSE i \in later : \A k \in later : i <= k
<1>1. tasks \in [Tasks -> TaskStates] /\ tasks[t] \in TaskStates
    BY DEF BrokerInv, BrokerTypeOK
<1>2. e \in Effects /\ tasks[t].stage \in 1..4 /\ RowWasRead(t)
    BY DEF BrokerInv, TaskReady
<1>3. CASE later = {}
    <2>1. Goto(t, "ensure_allows") /\ "ensure_allows" \in Steps
        BY <1>3 DEF Advance, Target, Steps
    <2>2. /\ tasks'[t].at = "ensure_allows" /\ tasks'[t].effect = e
          /\ tasks'[t].row = tasks[t].row
        BY <1>1, <2>1, GotoTyped
    <2>3. RowWasRead(t)'
        BY <1>2, <2>2 DEF RowWasRead
    <2>4. TaskReady(t)' /\ TaskKnows(t)'
        BY <1>2, <2>2, <2>3 DEF TaskReady, TaskKnows
    <2> QED BY <1>1, <2>1, <2>4, GotoTyped DEF Moves
<1>4. CASE later # {}
    <2>1. later \subseteq 1..4 /\ \A k \in later : KindOrder[k] \in Kinds
        <3>1. Len(KindOrder) = 4
            BY DEF KindOrder
        <3>2. Required[e] \subseteq Kinds
            BY <1>2, StoreAssumption
        <3> QED BY <1>2, <3>1, <3>2 DEF LaterStages
    <2>2. \E i \in later : \A k \in later : i <= k
        <3> HIDE DEF later
        <3>1. CASE 1 \in later
            BY <2>1, <3>1
        <3>2. CASE 1 \notin later /\ 2 \in later
            BY <2>1, <3>2
        <3>3. CASE 1 \notin later /\ 2 \notin later /\ 3 \in later
            BY <2>1, <3>3
        <3>4. CASE 1 \notin later /\ 2 \notin later /\ 3 \notin later
            <4>1. \A k \in later : k = 4
                BY <2>1, <3>4
            <4> QED BY <1>4, <4>1
        <3> QED BY <3>1, <3>2, <3>3, <3>4
    <2>3. j \in later
        BY <2>2
    <2>4. Run(t, [tasks[t] EXCEPT !.stage = j])
        BY <1>4 DEF Advance, Target
    <2>5. j \in 1..4 /\ KindOrder[j] \in Kinds
        BY <2>1, <2>3
    <2> HIDE DEF j, later
    <2>6. /\ tasks[t].row \in TaskRows
          /\ [tasks[t] EXCEPT !.stage = j]
             = [tasks[t] EXCEPT !.at = "decide", !.stage = j, !.row = tasks[t].row]
        BY <1>1 DEF TaskStates
    <2>7. /\ effects'[e].state # "absent" /\ tasks[t].row.revision <= effects'[e].revision
          /\ tasks[t].row.revision = effects'[e].revision =>
                 tasks[t].row.payload = effects'[e].payload
        BY <1>2 DEF RowWasRead
    <2> QED BY <1>2, <2>4, <2>5, <2>6, <2>7, DecideMoves
<1> QED BY <1>3, <1>4

LEMMA DecideIsQuiet ==
    ASSUME BrokerInv, NEW t \in Tasks, Decide(t)
    PROVE  Quiet(t)
<1> DEFINE e == tasks[t].effect
           kind == KindOrder[tasks[t].stage]
<1>1. e \in Effects /\ kind \in Kinds /\ tasks[t].at = "decide"
    BY DEF Decide, AtStep, BrokerInv, TaskReady
<1>2. ASSUME NEW outcome \in Says(t, kind), NEW source \in Sources,
             RecordDecision(e, Reading(t), kind, outcome, source),
             Advance(t), UNCHANGED <<applied, boot, crashes>>
      PROVE  Quiet(t)
    <2>1. effects[e].state # "absent" /\ Binds(e, Reading(t)) /\ effects' = effects
        BY <1>2 DEF RecordDecision
    <2>2. Reading(t) \in Bindings
        BY <1>1, <2>1 DEF Binds, Bindings, Reading, BrokerInv, RowBounds, RowsAreBindable
    <2>3. outcome \in {"allow", "deny"}
        BY DEF Says
    <2>4. EvaluationStep(e)
        BY <1>1, <1>2, <2>2, <2>3 DEF EvaluationStep
    <2>5. StoreStep /\ Evidence
        BY <1>1, <2>1, <2>4 DEF StoreStep, StoreNext, Evidence
    <2> QED BY <1>1, <1>2, <2>1, <2>5, AdvanceMoves DEF Quiet, BrokerInv, BrokerTypeOK
<1>3. CASE Advance(t) /\ UNCHANGED <<storeVars, applied, boot, crashes>>
    <2>1. effects' = effects
        BY <1>3 DEF storeVars, rowVars
    <2> QED BY <1>1, <1>3, <2>1, AdvanceMoves, ReadIsQuiet DEF BrokerInv, BrokerTypeOK
<1>4. CASE GiveUp(t)
    BY <1>4, GiveUpIsQuiet
<1> QED BY <1>2, <1>3, <1>4 DEF Decide, Target

LEMMA EnsureAllowsIsQuiet ==
    ASSUME BrokerInv, NEW t \in Tasks, EnsureAllows(t)
    PROVE  Quiet(t)
<1>1. CASE Goto(t, "mark_ready") /\ UNCHANGED <<storeVars, applied, boot, crashes>>
    <2>1. tasks \in [Tasks -> TaskStates] /\ "mark_ready" \in Steps
        BY DEF BrokerInv, BrokerTypeOK, Steps
    <2>2. tasks[t].at = "ensure_allows" /\ TaskReady(t)
        BY DEF EnsureAllows, AtStep, BrokerInv
    <2>3. Moves(t)
        BY <1>1, <2>1, <2>2, GotoMoves
    <2> QED BY <1>1, <2>3, ReadIsQuiet DEF BrokerInv, BrokerTypeOK
<1>2. CASE GiveUp(t)
    BY <1>2, GiveUpIsQuiet
<1> QED BY <1>1, <1>2 DEF EnsureAllows

LEMMA EvaluateReadyIsQuiet ==
    ASSUME BrokerInv, NEW t \in Tasks, EvaluateReady(t)
    PROVE  Quiet(t)
<1> DEFINE e == tasks[t].effect
<1>1. CASE MarkReady(e) /\ Done(t) /\ UNCHANGED <<applied, boot, crashes>>
    <2>1. e \in Effects
        BY DEF EvaluateReady, AtStep, BrokerInv, TaskReady
    <2>2. Moves(t)
        BY <1>1, DoneMoves DEF BrokerInv, BrokerTypeOK
    <2>3. effects'[e].state = "ready" /\ \A f \in Effects \ {e} : effects'[f] = effects[f]
        BY <1>1, <2>1, SetStateRows DEF MarkReady, Transition, BrokerInv, BrokerTypeOK
    <2> QED BY <1>1, <2>1, <2>2, <2>3, WriteIsQuiet DEF EvaluationStep, Uncommitted
<1>2. CASE GiveUp(t)
    BY <1>2, GiveUpIsQuiet
<1> QED BY <1>1, <1>2 DEF EvaluateReady, Target

-----------------------------------------------------------------------------
(* commit up to the horizon, and what follows the call                     *)

\* A task that starts on an effect without having read it.
LEMMA StartMoves ==
    ASSUME tasks \in [Tasks -> TaskStates], NEW t \in Tasks, NEW e \in Effects,
           NEW step \in {"begin", "query"}, Start(t, e, step, NoRow)
    PROVE  Moves(t)
<1> DEFINE next == [Idle EXCEPT !.at = step, !.effect = e, !.row = NoRow]
<1>1. next \in TaskStates /\ next.at = step /\ next.effect = e
    BY IdleTyped DEF Idle, TaskStates, Steps
<1>2. Run(t, next)
    BY DEF Start
<1> HIDE DEF next
<1>3. tasks'[t] = next
    BY <1>1, <1>2, RunMoves
<1>4. TaskReady(t)' /\ TaskKnows(t)'
    BY <1>1, <1>3 DEF TaskReady, TaskKnows
<1> QED BY <1>1, <1>2, <1>4 DEF Moves

LEMMA CommitFetchIsQuiet ==
    ASSUME BrokerInv, NEW t \in Tasks, NEW e \in Effects, CommitFetch(t, e)
    PROVE  Quiet(t)
<1>1. Moves(t)
    BY StartMoves DEF CommitFetch, BrokerInv, BrokerTypeOK
<1> QED BY <1>1, ReadIsQuiet DEF CommitFetch, BrokerInv, BrokerTypeOK

LEMMA CommitBeginIsQuiet ==
    ASSUME BrokerInv, NEW t \in Tasks, CommitBegin(t)
    PROVE  Quiet(t)
<1> DEFINE e == tasks[t].effect
<1>1. CASE /\ BeginEffectCommit(e) /\ Goto(t, "mark_committing")
           /\ UNCHANGED <<applied, boot, crashes>>
    <2>1. tasks \in [Tasks -> TaskStates] /\ "mark_committing" \in Steps
        BY DEF BrokerInv, BrokerTypeOK, Steps
    <2>2. tasks[t].at = "begin" /\ TaskReady(t) /\ e \in Effects
        BY DEF CommitBegin, AtStep, BrokerInv, TaskReady
    <2>3. Moves(t)
        BY <1>1, <2>1, <2>2, GotoMoves
    <2>4. /\ effects'[e].state = "commit_intent"
          /\ \A f \in Effects \ {e} : effects'[f] = effects[f]
        BY <1>1, <2>2, SetStateRows DEF BeginEffectCommit, BrokerInv, BrokerTypeOK
    <2> QED BY <1>1, <2>2, <2>3, <2>4, WriteIsQuiet DEF CommitStep, InFlight
<1>2. CASE GiveUp(t)
    BY <1>2, GiveUpIsQuiet
<1> QED BY <1>1, <1>2 DEF CommitBegin, Target

\* Only a receipt makes the effect committed.
LEMMA CommitCompleteIsQuiet ==
    ASSUME BrokerInv, NEW t \in Tasks, CommitComplete(t)
    PROVE  Quiet(t)
<1> DEFINE e == tasks[t].effect
           outcome == IF tasks[t].answer = "receipt" THEN "committed" ELSE "commit_unknown"
<1>1. CASE CompleteEffect(e, outcome) /\ Done(t) /\ UNCHANGED <<applied, boot, crashes>>
    <2>1. tasks[t].at = "complete" /\ e \in Effects /\ TaskKnows(t)
        BY DEF CommitComplete, AtStep, BrokerInv, TaskReady
    <2>2. Moves(t)
        BY <1>1, DoneMoves DEF BrokerInv, BrokerTypeOK
    <2>3. StoreStep
        BY <1>1, <2>1 DEF CommitStep, StoreNext, StoreStep
    <2>4. effects'[e].state = outcome /\ \A f \in Effects \ {e} : effects'[f] = effects[f]
        BY <1>1, <2>1, SetStateRows DEF CompleteEffect, BrokerInv, BrokerTypeOK
    <2>5. Evidence
        BY <1>1, <2>1, <2>4 DEF Evidence, TaskKnows, Abandoned
    <2> QED BY <1>1, <2>2, <2>3, <2>5 DEF Quiet, BrokerInv, BrokerTypeOK
<1>2. CASE GiveUp(t)
    BY <1>2, GiveUpIsQuiet
<1> QED BY <1>1, <1>2 DEF CommitComplete, Target

-----------------------------------------------------------------------------
(* reconcile, reconcile_pending and failures                               *)

LEMMA ReconcileFetchIsQuiet ==
    ASSUME BrokerInv, NEW t \in Tasks, NEW e \in Effects, ReconcileFetch(t, e)
    PROVE  Quiet(t)
<1>1. Moves(t)
    BY StartMoves DEF ReconcileFetch, BrokerInv, BrokerTypeOK
<1> QED BY <1>1, ReadIsQuiet DEF ReconcileFetch, BrokerInv, BrokerTypeOK

LEMMA PendingMoves ==
    ASSUME BrokerInv, NEW t \in Tasks, PendingFetch(t)
    PROVE  Moves(t)
<1> DEFINE next == [Idle EXCEPT !.at = "pick", !.queue = Pending]
<1>1. next \in TaskStates /\ next.at = "pick"
    BY IdleTyped DEF Idle, TaskStates, Steps, Pending
<1>2. Run(t, next)
    BY DEF PendingFetch
<1> HIDE DEF next
<1> QED BY <1>1, <1>2, IdleMoves DEF BrokerInv, BrokerTypeOK

LEMMA ReconcilePendingIsQuiet ==
    ASSUME BrokerInv, NEW t \in Tasks, ReconcilePending(t)
    PROVE  Quiet(t)
BY PendingMoves, ReadIsQuiet DEF ReconcilePending, BrokerInv, BrokerTypeOK

LEMMA PickPendingIsQuiet ==
    ASSUME BrokerInv, NEW t \in Tasks, PickPending(t)
    PROVE  Quiet(t)
<1>1. PICK e \in tasks[t].queue :
          LET rest == tasks[t].queue \ {e} IN
          Run(t, IF effects[e].state \in InFlight
                 THEN [tasks[t] EXCEPT !.at = "query", !.effect = e, !.queue = rest]
                 ELSE IF rest = {} THEN Idle ELSE [tasks[t] EXCEPT !.queue = rest])
    BY DEF PickPending
<1> DEFINE rest == tasks[t].queue \ {e}
<1>2. /\ tasks \in [Tasks -> TaskStates] /\ tasks[t] \in TaskStates
      /\ tasks[t].at = "pick"
    BY DEF BrokerInv, BrokerTypeOK, PickPending, AtStep
<1>3. tasks[t].queue \subseteq Effects /\ e \in Effects /\ rest \subseteq Effects
    BY <1>2 DEF TaskStates
<1>4. CASE effects[e].state \in InFlight
    <2> DEFINE next == [tasks[t] EXCEPT !.at = "query", !.effect = e, !.queue = rest]
    <2>1. next \in TaskStates
        BY <1>2, <1>3 DEF TaskStates, Steps
    <2>2. next.at = "query" /\ next.effect = e
        BY <1>2 DEF TaskStates
    <2>3. Run(t, next)
        BY <1>1, <1>4
    <2> HIDE DEF next
    <2>4. tasks'[t] = next
        BY <1>2, <2>1, <2>3, RunMoves
    <2>5. TaskReady(t)' /\ TaskKnows(t)'
        BY <1>3, <2>2, <2>4 DEF TaskReady, TaskKnows
    <2>6. Moves(t)
        BY <2>1, <2>2, <2>3, <2>5 DEF Moves
    <2> QED BY <2>6, ReadIsQuiet DEF PickPending, BrokerInv, BrokerTypeOK
<1>5. CASE effects[e].state \notin InFlight
    <2> DEFINE next == IF rest = {} THEN Idle ELSE [tasks[t] EXCEPT !.queue = rest]
    <2>1. [tasks[t] EXCEPT !.queue = rest] \in TaskStates
        BY <1>2, <1>3 DEF TaskStates
    <2>2. [tasks[t] EXCEPT !.queue = rest].at = "pick"
        BY <1>2 DEF TaskStates
    <2>3. next \in TaskStates /\ next.at \in {"idle", "pick"}
        BY <2>1, <2>2, IdleTyped DEF Idle
    <2>4. Run(t, next)
        BY <1>1, <1>5
    <2> HIDE DEF next
    <2>5. Moves(t)
        BY <1>2, <2>3, <2>4, IdleMoves
    <2> QED BY <2>5, ReadIsQuiet DEF PickPending, BrokerInv, BrokerTypeOK
<1> QED BY <1>4, <1>5

\* The answer committed is given by a target that shows the mutation.
LEMMA ReconcileQueryIsQuiet ==
    ASSUME BrokerInv, NEW t \in Tasks, ReconcileQuery(t)
    PROVE  Quiet(t)
<1> DEFINE e == tasks[t].effect
           shown == IF applied[e] > 0 THEN "committed" ELSE "not_committed"
<1>1. PICK answer \in {"unknown", shown} :
          Run(t, [tasks[t] EXCEPT !.at = "settle", !.answer = answer])
    BY DEF ReconcileQuery, Target
<1>2. UNCHANGED <<storeVars, applied, boot, crashes>>
    BY DEF ReconcileQuery
<1>3. /\ tasks \in [Tasks -> TaskStates] /\ tasks[t] \in TaskStates
      /\ e \in Effects
    BY DEF BrokerInv, BrokerTypeOK, ReconcileQuery, AtStep, TaskReady
<1> DEFINE next == [tasks[t] EXCEPT !.at = "settle", !.answer = answer]
<1>4. next \in TaskStates
    BY <1>3 DEF TaskStates, Steps
<1>5. next.at = "settle" /\ next.effect = e /\ next.answer = answer
    BY <1>3 DEF TaskStates
<1>6. Run(t, next)
    BY <1>1
<1> HIDE DEF next
<1>7. tasks'[t] = next
    BY <1>3, <1>4, <1>6, RunMoves
<1>8. TaskReady(t)' /\ TaskKnows(t)'
    BY <1>2, <1>3, <1>5, <1>7 DEF TaskReady, TaskKnows
<1>9. Moves(t)
    BY <1>4, <1>5, <1>6, <1>8 DEF Moves
<1> QED BY <1>2, <1>9, ReadIsQuiet DEF BrokerInv, BrokerTypeOK

LEMMA ReconcileSettleIsQuiet ==
    ASSUME BrokerInv, NEW t \in Tasks, ReconcileSettle(t)
    PROVE  Quiet(t)
<1> DEFINE e == tasks[t].effect
           answer == tasks[t].answer
<1>1. CASE ReconcileEffect(e, answer) /\ Done(t) /\ UNCHANGED <<applied, boot, crashes>>
    <2>1. /\ tasks[t].at = "settle" /\ e \in Effects /\ TaskKnows(t)
          /\ answer \in {"committed", "not_committed", "unknown"}
        BY DEF ReconcileSettle, AtStep, BrokerInv, TaskReady
    <2>2. Moves(t)
        BY <1>1, DoneMoves DEF BrokerInv, BrokerTypeOK
    <2>3. StoreStep
        BY <1>1, <2>1 DEF CommitStep, StoreNext, StoreStep, Outcomes
    <2>4. /\ effects'[e].state = Reconciled(answer)
          /\ \A f \in Effects \ {e} : effects'[f] = effects[f]
        BY <1>1, <2>1, SetStateRows DEF ReconcileEffect, BrokerInv, BrokerTypeOK
    <2>5. /\ Reconciled(answer) = "committed" => answer = "committed"
          /\ Reconciled(answer) \in {"committed", "ready", "commit_unknown"}
        BY <2>1 DEF Reconciled
    <2>6. Evidence
        BY <1>1, <2>1, <2>4, <2>5 DEF Evidence, TaskKnows, Abandoned
    <2> QED BY <1>1, <2>2, <2>3, <2>6 DEF Quiet, BrokerInv, BrokerTypeOK
<1>2. CASE GiveUp(t)
    BY <1>2, GiveUpIsQuiet
<1> QED BY <1>1, <1>2 DEF ReconcileSettle, Target

LEMMA TaskFailsIsQuiet ==
    ASSUME BrokerInv, NEW t \in Tasks, TaskFails(t)
    PROVE  Quiet(t)
<1>1. tasks \in [Tasks -> TaskStates]
    BY DEF BrokerInv, BrokerTypeOK
<1>2. CASE Run(t, Idle)
    <2>1. Idle \in TaskStates /\ Idle.at \in {"idle", "pick"}
        BY IdleTyped DEF Idle
    <2>2. Moves(t)
        BY <1>1, <1>2, <2>1, IdleMoves
    <2> QED BY <2>2, ReadIsQuiet DEF TaskFails, BrokerInv, BrokerTypeOK
<1>3. CASE Done(t)
    BY <1>1, <1>3, DoneMoves, ReadIsQuiet DEF TaskFails, BrokerInv, BrokerTypeOK
<1> QED BY <1>2, <1>3 DEF TaskFails

-----------------------------------------------------------------------------
(* What a step leaves of the invariant.                                    *)

LEMMA StorePartKept ==
    ASSUME BrokerInv, StoreStep
    PROVE  StoreTypeOK' /\ StoreInv' /\ RowBounds'
BY StoreStepTypes, StoreStepInv, StoreStepBounds DEF BrokerInv, BrokerTypeOK, StoreStep

\* What a task holds and believes survives the steps of all others.
LEMMA OtherTasksKept ==
    ASSUME BrokerInv, StoreStep, \A e \in Effects : applied[e] <= applied'[e],
           applied' \in [Effects -> Nat], NEW u \in Tasks, tasks'[u] = tasks[u]
    PROVE  TaskReady(u)' /\ TaskKnows(u)'
<1>1. tasks[u] \in TaskStates /\ TaskReady(u) /\ TaskKnows(u) /\ StoreTypeOK
    BY DEF BrokerInv, BrokerTypeOK
<1>2. trajectory <= trajectory' /\ trajectory \in Nat /\ trajectory' \in Nat
    BY <1>1, CountsGrow, StorePartKept DEF StoreStep, StoreTypeOK
<1>3. TaskReady(u)'
    <2>1. tasks[u].row.trajectory \in Nat /\ tasks[u].row.revision \in Nat
        BY <1>1 DEF TaskStates, TaskRows
    <2>2. ASSUME tasks[u].effect \in Effects, RowWasRead(u) PROVE RowWasRead(u)'
        <3> DEFINE now == effects[tasks[u].effect]
        <3>1. /\ now'.state # "absent"
              /\ \/ UNCHANGED <<now.revision, now.payload>>
                 \/ now'.revision = now.revision + 1
            BY <1>1, <2>2, RowsStay DEF RowWasRead, StoreStep
        <3>2. now.revision \in Nat
            BY <1>1, <2>2 DEF StoreTypeOK, EffectRows
        <3>3. now.state # "absent" /\ tasks[u].row.revision <= now.revision
            BY <2>2 DEF RowWasRead
        <3>4. tasks[u].row.revision = now.revision => tasks[u].row.payload = now.payload
            BY <2>2 DEF RowWasRead
        <3> HIDE DEF now
        <3>5. /\ tasks[u].row.revision <= now'.revision
              /\ tasks[u].row.revision = now'.revision => tasks[u].row.payload = now'.payload
            BY <2>1, <3>1, <3>2, <3>3, <3>4
        <3> QED BY <3>1, <3>5 DEF RowWasRead, now
    <2>3. tasks[u].row.trajectory <= trajectory => tasks[u].row.trajectory <= trajectory'
        BY <1>2, <2>1
    <2> QED BY <1>1, <2>2, <2>3 DEF TaskReady
<1>4. TaskKnows(u)'
    <2>1. /\ tasks[u].at = "complete" /\ tasks[u].answer = "receipt" =>
                applied'[tasks[u].effect] > 0
          /\ tasks[u].at = "settle" /\ tasks[u].answer = "committed" =>
                applied'[tasks[u].effect] > 0
        BY <1>1 DEF TaskReady, TaskKnows, BrokerInv, BrokerTypeOK
    <2>2. ASSUME tasks[u].at = "call", NEW k \in Required[tasks[u].effect]
          PROVE  \E d \in decisions' :
                     /\ d.effect = tasks[u].effect /\ d.kind = k /\ d.decision = "allow"
                     /\ d.revision = tasks[u].row.revision
                     /\ d.payload = tasks[u].row.payload
        <3>1. PICK d \in decisions :
                     /\ d.effect = tasks[u].effect /\ d.kind = k /\ d.decision = "allow"
                     /\ d.revision = tasks[u].row.revision
                     /\ d.payload = tasks[u].row.payload
            BY <1>1, <2>2 DEF TaskKnows
        <3>2. PICK c \in decisions' : SameSay(d, c)
            BY <1>1, DecisionsStay DEF StoreStep
        <3> QED BY <3>1, <3>2 DEF SameSay
    <2> QED BY <2>1, <2>2 DEF TaskKnows
<1> QED BY <1>3, <1>4

LEMMA CallersFinite ==
    ASSUME NEW e
    PROVE  IsFiniteSet(Callers(e)) /\ Cardinality(Callers(e)) \in Nat
<1>1. Callers(e) \in SUBSET Tasks
    BY DEF Callers
<1> QED BY <1>1, FS_Subset, FS_CardinalityType, BrokerAssumption

\* A step that sends no new task to the adapter and does not touch the target.
LEMMA StepKeepsInv ==
    ASSUME BrokerInv, StoreStep, Evidence, applied' = applied, boot' \in BootStates,
           crashes' \in 0..MaxCrashes, tasks' \in [Tasks -> TaskStates],
           \A u \in Tasks : TaskReady(u)' /\ TaskKnows(u)',
           \A u \in Tasks : tasks'[u].at = "call" => tasks'[u] = tasks[u]
    PROVE  BrokerInv'
<1>1. BrokerTypeOK'
    BY StorePartKept DEF BrokerInv, BrokerTypeOK
<1>2. WithinPermits'
    <2> SUFFICES ASSUME NEW e \in Effects
                 PROVE  applied'[e] + Cardinality(Callers(e)') <= permits'[e]
        BY DEF WithinPermits
    <2>1. Callers(e)' \in SUBSET Callers(e)
        BY DEF Callers
    <2>2. Cardinality(Callers(e)') <= Cardinality(Callers(e)) /\ IsFiniteSet(Callers(e)')
        BY <2>1, CallersFinite, FS_Subset
    <2>3. Cardinality(Callers(e)') \in Nat /\ Cardinality(Callers(e)) \in Nat
        BY <2>2, CallersFinite, FS_CardinalityType
    <2>4. permits[e] <= permits'[e] /\ permits[e] \in Nat /\ permits'[e] \in Nat
        BY CountsGrow, StorePartKept DEF BrokerInv, BrokerTypeOK, StoreStep, StoreTypeOK
    <2>5. applied[e] \in Nat /\ applied[e] + Cardinality(Callers(e)) <= permits[e]
        BY DEF BrokerInv, BrokerTypeOK, WithinPermits
    <2> QED BY <2>2, <2>3, <2>4, <2>5
<1>3. CommittedWasApplied' /\ NoneFailed'
    BY DEF Evidence, BrokerInv, CommittedWasApplied, NoneFailed
<1> QED BY <1>1, <1>2, <1>3, StorePartKept DEF BrokerInv

LEMMA QuietKeepsInv ==
    ASSUME BrokerInv, NEW t \in Tasks, Quiet(t)
    PROVE  BrokerInv'
<1>1. PICK next \in TaskStates : next.at # "call" /\ Run(t, next)
    BY DEF Quiet, Moves
<1>2. /\ tasks' \in [Tasks -> TaskStates] /\ tasks'[t] = next
      /\ \A u \in Tasks : u # t => tasks'[u] = tasks[u]
    BY <1>1, RunMoves DEF BrokerInv, BrokerTypeOK
<1>3. applied' = applied /\ applied \in [Effects -> Nat]
    BY DEF Quiet, BrokerInv, BrokerTypeOK
<1>4. \A e \in Effects : applied[e] <= applied'[e]
    BY <1>3
<1>5. \A u \in Tasks : TaskReady(u)' /\ TaskKnows(u)'
    BY <1>2, <1>3, <1>4, OtherTasksKept DEF Quiet, Moves
<1> QED BY <1>1, <1>2, <1>3, <1>5, StepKeepsInv DEF Quiet, BrokerInv, BrokerTypeOK

\* mark_committing hands out one licence and sends one task to the adapter, with
\* the row that passed the horizon.
LEMMA CommitMarkKeepsInv ==
    ASSUME BrokerInv, NEW t \in Tasks, CommitMark(t)
    PROVE  StoreStep /\ BrokerInv'
<1>1. PICK e \in Effects : e = tasks[t].effect
    BY DEF CommitMark, AtStep, BrokerInv, TaskReady
<1> DEFINE row == RowOf(effects'[e])
           next == [tasks[t] EXCEPT !.at = "call", !.row = row]
<1>2. CASE GiveUp(t)
    BY <1>2, GiveUpIsQuiet, QuietKeepsInv DEF Quiet
<1>3. CASE MarkCommitting(e) /\ Run(t, next) /\ UNCHANGED <<applied, boot, crashes>>
    <2>1. /\ tasks[t].effect = e /\ tasks[t].at = "mark_committing" /\ StoreTypeOK
          /\ tasks \in [Tasks -> TaskStates] /\ tasks[t] \in TaskStates
        BY <1>1 DEF CommitMark, AtStep, BrokerInv, BrokerTypeOK
    <2>2. StoreStep
        BY <1>3, <2>1 DEF CommitStep, StoreNext, StoreStep
    <2>3. row \in TaskRows
        BY <2>1, <2>2, StorePartKept, RowOfTyped DEF StoreTypeOK
    <2>4. /\ row.revision = effects'[e].revision /\ row.payload = effects'[e].payload
          /\ row.state = effects'[e].state
        BY DEF RowOf
    <2>5. /\ effects'[e].revision = effects[e].revision
          /\ effects'[e].payload = effects[e].payload
          /\ effects'[e].state = "committing"
          /\ \A f \in Effects \ {e} : effects'[f] = effects[f]
        BY <1>3, <2>1, SetStateRows DEF MarkCommitting
    <2> HIDE DEF row
    <2>6. /\ next \in TaskStates
          /\ next.at = "call" /\ next.effect = e /\ next.row = row
        BY <2>1, <2>3 DEF TaskStates, Steps
    <2> HIDE DEF next
    <2>7. /\ tasks' \in [Tasks -> TaskStates] /\ tasks'[t] = next
          /\ \A u \in Tasks : u # t => tasks'[u] = tasks[u]
        BY <1>3, <2>1, <2>6, RunMoves
    <2>8. TaskReady(t)' /\ TaskKnows(t)'
        <3>1. effects[e].state = "commit_intent"
            BY <1>3, CommittingOnlyFromIntent DEF MarkCommitting
        <3>2. \A k \in Required[e] : \E d \in decisions :
                  /\ d.effect = e /\ d.kind = k /\ d.decision = "allow"
                  /\ d.revision = effects[e].revision /\ d.payload = effects[e].payload
            BY <2>1, <3>1 DEF BrokerInv, StoreInv, ApprovedAsCommitted, PastHorizon, InFlight
        <3>3. decisions' = decisions
            BY <1>3 DEF MarkCommitting
        <3>4. effects'[e].revision \in Nat
            BY <2>1, <2>5 DEF StoreTypeOK, EffectRows
        <3>5. RowWasRead(t)'
            BY <2>4, <2>5, <2>6, <2>7, <3>4 DEF RowWasRead
        <3>6. TaskReady(t)'
            BY <2>4, <2>5, <2>6, <2>7, <3>5 DEF TaskReady
        <3> QED BY <2>1, <2>4, <2>5, <2>6, <2>7, <3>2, <3>3, <3>6 DEF TaskKnows
    <2>9. \A u \in Tasks : TaskReady(u)' /\ TaskKnows(u)'
        BY <1>3, <2>2, <2>7, <2>8, OtherTasksKept DEF BrokerInv, BrokerTypeOK
    <2>10. WithinPermits'
        <3>1. ASSUME NEW f \in Effects \ {e}
              PROVE  applied'[f] + Cardinality(Callers(f)') <= permits'[f]
            <4>1. Callers(f)' = Callers(f)
                BY <2>1, <2>6, <2>7 DEF Callers
            <4>2. permits'[f] = permits[f]
                BY <1>3, <2>1 DEF MarkCommitting, StoreTypeOK
            <4> QED BY <1>3, <4>1, <4>2 DEF BrokerInv, WithinPermits
        <3>2. applied'[e] + Cardinality(Callers(e)') <= permits'[e]
            <4>1. Callers(e)' = Callers(e) \cup {t} /\ t \notin Callers(e)
                BY <2>1, <2>6, <2>7 DEF Callers
            <4>2. Cardinality(Callers(e)') = Cardinality(Callers(e)) + 1
                BY <4>1, CallersFinite, FS_AddElement
            <4>3. permits'[e] = permits[e] + 1 /\ permits[e] \in Nat
                BY <1>3, <2>1 DEF MarkCommitting, StoreTypeOK
            <4>4. /\ applied'[e] = applied[e] /\ applied[e] \in Nat
                  /\ applied[e] + Cardinality(Callers(e)) <= permits[e]
                BY <1>3, <2>1 DEF BrokerInv, BrokerTypeOK, WithinPermits
            <4> QED BY <4>2, <4>3, <4>4, CallersFinite
        <3>3. \A f \in Effects : applied'[f] + Cardinality(Callers(f)') <= permits'[f]
            BY <3>1, <3>2
        <3> QED BY <3>3 DEF WithinPermits
    <2>11. CommittedWasApplied' /\ NoneFailed'
        BY <1>3, <2>5 DEF BrokerInv, CommittedWasApplied, NoneFailed
    <2>12. BrokerTypeOK'
        BY <1>3, <2>2, <2>7, <2>9, StorePartKept DEF BrokerInv, BrokerTypeOK
    <2> QED BY <2>2, <2>9, <2>10, <2>11, <2>12, StorePartKept DEF BrokerInv
<1> QED BY <1>2, <1>3, <1>1 DEF CommitMark, Target

\* A call spends the licence its task holds.
LEMMA CommitCallKeepsInv ==
    ASSUME BrokerInv, NEW t \in Tasks, CommitCall(t)
    PROVE  StoreStep /\ BrokerInv'
<1>1. PICK e \in Effects : e = tasks[t].effect
    BY DEF CommitCall, AtStep, BrokerInv, TaskReady
<1>2. PICK happens \in BOOLEAN, answer \in {"receipt", "unknown"} :
          /\ answer = "receipt" => happens
          /\ applied' = IF happens THEN [applied EXCEPT ![e] = @ + 1] ELSE applied
          /\ Run(t, [tasks[t] EXCEPT !.at = "complete", !.answer = answer])
    BY <1>1 DEF CommitCall, Target
<1> DEFINE next == [tasks[t] EXCEPT !.at = "complete", !.answer = answer]
<1>3. /\ tasks[t].effect = e /\ tasks[t].at = "call"
      /\ tasks \in [Tasks -> TaskStates] /\ tasks[t] \in TaskStates
      /\ applied \in [Effects -> Nat]
    BY <1>1 DEF CommitCall, AtStep, BrokerInv, BrokerTypeOK
<1>4. UNCHANGED <<storeVars, boot, crashes>>
    BY DEF CommitCall
<1>5. next \in TaskStates
    BY <1>3 DEF TaskStates, Steps
<1>6. next.at = "complete" /\ next.effect = e /\ next.answer = answer
    BY <1>3 DEF TaskStates
<1>7. Run(t, next)
    BY <1>2
<1> HIDE DEF next
<1>8. /\ tasks' \in [Tasks -> TaskStates] /\ tasks'[t] = next
      /\ \A u \in Tasks : u # t => tasks'[u] = tasks[u]
    BY <1>3, <1>5, <1>7, RunMoves
<1>9. /\ applied' \in [Effects -> Nat]
      /\ \A f \in Effects : applied[f] <= applied'[f]
      /\ \A f \in Effects \ {e} : applied'[f] = applied[f]
      /\ applied'[e] <= applied[e] + 1
      /\ answer = "receipt" => applied'[e] > 0
    BY <1>2, <1>3
<1>10. StoreStep
    BY <1>4 DEF StoreStep
<1>11. TaskReady(t)' /\ TaskKnows(t)'
    BY <1>3, <1>6, <1>8, <1>9 DEF TaskReady, TaskKnows
<1>12. \A u \in Tasks : TaskReady(u)' /\ TaskKnows(u)'
    BY <1>8, <1>9, <1>10, <1>11, OtherTasksKept
<1>13. permits' = permits /\ effects' = effects
    BY <1>4 DEF storeVars, rowVars
<1>14. WithinPermits'
    <2>1. ASSUME NEW f \in Effects \ {e}
          PROVE  applied'[f] + Cardinality(Callers(f)') <= permits'[f]
        <3>1. Callers(f)' = Callers(f)
            BY <1>3, <1>6, <1>8 DEF Callers
        <3> QED BY <1>9, <1>13, <3>1 DEF BrokerInv, WithinPermits
    <2>2. applied'[e] + Cardinality(Callers(e)') <= permits'[e]
        <3>1. Callers(e)' = Callers(e) \ {t} /\ t \in Callers(e)
            BY <1>3, <1>6, <1>8 DEF Callers
        <3>2. Cardinality(Callers(e)') = Cardinality(Callers(e)) - 1
            BY <3>1, CallersFinite, FS_RemoveElement
        <3>3. /\ applied[e] \in Nat /\ applied'[e] \in Nat /\ permits[e] \in Nat
              /\ applied[e] + Cardinality(Callers(e)) <= permits[e]
            BY <1>3, <1>9 DEF BrokerInv, BrokerTypeOK, StoreTypeOK, WithinPermits
        <3>4. Cardinality(Callers(e)) \in Nat
            BY CallersFinite
        <3>5. applied'[e] <= applied[e] + 1 /\ permits'[e] = permits[e]
            BY <1>9, <1>13
        <3> QED BY <3>2, <3>3, <3>4, <3>5
    <2>3. \A f \in Effects : applied'[f] + Cardinality(Callers(f)') <= permits'[f]
        BY <2>1, <2>2
    <2> QED BY <2>3 DEF WithinPermits
<1>15. CommittedWasApplied'
    <2>1. ASSUME NEW f \in Effects, effects'[f].state = "committed" PROVE applied'[f] > 0
        <3>1. applied[f] > 0 /\ applied[f] \in Nat /\ applied'[f] \in Nat
            BY <1>3, <1>9, <1>13, <2>1 DEF BrokerInv, CommittedWasApplied
        <3> QED BY <1>9, <3>1
    <2> QED BY <2>1 DEF CommittedWasApplied
<1>16. BrokerTypeOK'
    BY <1>4, <1>8, <1>9, <1>10, <1>12, StorePartKept DEF BrokerInv, BrokerTypeOK
<1>17. NoneFailed'
    BY <1>13 DEF BrokerInv, NoneFailed
<1> QED BY <1>10, <1>12, <1>14, <1>15, <1>16, <1>17, StorePartKept DEF BrokerInv

-----------------------------------------------------------------------------
(* The steps of the broker.                                                *)

\* What the other writers of the rows do: they are transactions as well, and
\* none of them makes an effect committed.
LEMMA OthersAreTransactions ==
    ASSUME BrokerInv, Others
    PROVE  StoreNext /\ Evidence
<1>1. StoreTypeOK
    BY DEF BrokerInv, BrokerTypeOK
<1>2. CASE EpisodeStep
    <2>1. CASE AdvanceEpoch
        <3>1. \A e \in Effects :
                  \/ effects'[e] = effects[e]
                  \/ /\ effects[e].state \in Uncommitted
                     /\ effects'[e] = [effects[e] EXCEPT !.state = "stale"]
            BY <2>1 DEF AdvanceEpoch, StaleOlder
        <3>2. \A e \in Effects : [effects[e] EXCEPT !.state = "stale"].state = "stale"
            BY <1>1 DEF StoreTypeOK, EffectRows
        <3> QED BY <1>2, <3>1, <3>2 DEF StoreNext, Evidence
    <2>2. CASE effects' = effects
        BY <1>2, <2>2 DEF StoreNext, Evidence
    <2> QED BY <1>2, <2>1, <2>2 DEF EpisodeStep, SetEpisodeState, UpdateTrajectory, rowVars
<1>3. ASSUME NEW l \in Leases, LeaseStep(l) PROVE StoreNext /\ Evidence
    BY <1>3 DEF StoreNext, Evidence, LeaseStep, PutLease, RevokeLease, ExpireLease
<1>4. ASSUME NEW d \in decisions, ExpireDecision(d) PROVE StoreNext /\ Evidence
    BY <1>4 DEF StoreNext, Evidence, ExpireDecision
<1>5. ASSUME NEW e \in Effects, AbortEffect(e) PROVE StoreNext /\ Evidence
    <2>1. /\ effects[e].state \in Uncommitted /\ effects'[e].state = "aborted"
          /\ \A f \in Effects \ {e} : effects'[f] = effects[f]
        BY <1>1, <1>5, SetStateRows DEF AbortEffect, Allowed, Uncommitted
    <2> QED BY <1>5, <2>1 DEF StoreNext, EvaluationStep, Evidence
<1>6. ASSUME NEW e \in Effects, ExpireEffect(e) PROVE StoreNext /\ Evidence
    BY <1>6 DEF StoreNext, EvaluationStep, Evidence, ExpireEffect
<1>7. ASSUME NEW e \in Effects, NEW p \in Payloads, UpdateEffectRevision(e, p)
      PROVE  StoreNext /\ Evidence
    <2>1. effects'[e].state = "prepared" /\ \A f \in Effects \ {e} : effects'[f] = effects[f]
        BY <1>1, <1>7 DEF UpdateEffectRevision, Revised, StoreTypeOK
    <2> QED BY <1>7, <2>1 DEF StoreNext, EvaluationStep, Evidence, Abandoned
<1> QED BY <1>2, <1>3, <1>4, <1>5, <1>6, <1>7 DEF Others

\* A step that leaves the tasks and the target alone.
LEMMA NoTaskStepKeepsInv ==
    ASSUME BrokerInv, StoreStep, Evidence, UNCHANGED <<tasks, applied>>,
           boot' \in BootStates, crashes' \in 0..MaxCrashes
    PROVE  BrokerInv'
<1>1. tasks' \in [Tasks -> TaskStates] /\ applied \in [Effects -> Nat]
    BY DEF BrokerInv, BrokerTypeOK
<1>2. \A u \in Tasks : TaskReady(u)' /\ TaskKnows(u)'
    BY <1>1, OtherTasksKept
<1> QED BY <1>1, <1>2, StepKeepsInv

\* A call arrives: nothing is written yet.
LEMMA CallIsQuiet ==
    ASSUME BrokerInv, NEW t \in Tasks, Call(t)
    PROVE  Quiet(t)
BY PrepareFetchIsQuiet, EvaluateFetchIsQuiet, CommitFetchIsQuiet, ReconcileFetchIsQuiet,
   ReconcilePendingIsQuiet DEF Call

LEMMA QuietTaskStep ==
    ASSUME BrokerInv, NEW t \in Tasks, TaskStep(t), ~(CommitMark(t) \/ CommitCall(t))
    PROVE  Quiet(t)
BY PrepareAuthoriseIsQuiet, PreparePutIsQuiet, PrepareRowIsQuiet, EnsureEvaluatingIsQuiet,
   DecideIsQuiet, EnsureAllowsIsQuiet, EvaluateReadyIsQuiet, CommitBeginIsQuiet,
   CommitCompleteIsQuiet, PickPendingIsQuiet, ReconcileQueryIsQuiet,
   ReconcileSettleIsQuiet DEF TaskStep

LEMMA TaskStepKeepsInv ==
    ASSUME BrokerInv, NEW t \in Tasks, TaskStep(t)
    PROVE  StoreStep /\ BrokerInv'
BY CommitMarkKeepsInv, CommitCallKeepsInv, QuietTaskStep, QuietKeepsInv DEF Quiet

\* Every step of the broker is a transaction or none, and keeps the invariant.
LEMMA BrokerStepKeepsInv ==
    ASSUME BrokerInv, [BrokerNext]_vars
    PROVE  StoreStep /\ BrokerInv'
<1>1. /\ boot \in BootStates /\ crashes \in 0..MaxCrashes /\ MaxCrashes \in Nat
      /\ tasks \in [Tasks -> TaskStates] /\ applied \in [Effects -> Nat]
    BY BrokerAssumption DEF BrokerInv, BrokerTypeOK
<1>2. UNCHANGED storeVars => StoreStep /\ Evidence
    BY DEF StoreStep, Evidence, storeVars, rowVars
<1>3. CASE Others
    <2>1. StoreStep /\ Evidence
        BY <1>3, OthersAreTransactions DEF StoreStep
    <2> QED BY <1>1, <1>3, <2>1, NoTaskStepKeepsInv DEF Others, brokerVars
<1>4. CASE BrokerCrash
    <2>1. crashes' \in 0..MaxCrashes /\ boot' \in BootStates
        BY <1>1, <1>4 DEF BrokerCrash, Restart, BootStates
    <2> QED BY <1>2, <1>4, <2>1, NoTaskStepKeepsInv DEF BrokerCrash, Restart
<1>5. CASE NodeCrash
    <2>1. crashes' \in 0..MaxCrashes /\ boot' \in BootStates
        BY <1>1, <1>5 DEF NodeCrash, Restart, BootStates
    <2>2. tasks' \in [Tasks -> TaskStates] /\ \A u \in Tasks : tasks'[u].at = "idle"
        BY <1>5, IdleTyped DEF NodeCrash, Idle
    <2>3. \A u \in Tasks : TaskReady(u)' /\ TaskKnows(u)'
        BY <2>2 DEF TaskReady, TaskKnows
    <2> QED BY <1>2, <1>5, <2>1, <2>2, <2>3, StepKeepsInv DEF NodeCrash, Restart
<1>6. ASSUME NEW t \in Tasks, Call(t) \/ TaskStep(t) \/ TaskFails(t)
      PROVE  StoreStep /\ BrokerInv'
    BY <1>6, CallIsQuiet, TaskFailsIsQuiet, TaskStepKeepsInv, QuietKeepsInv DEF Quiet
<1>7. ASSUME NEW t \in Tasks, ReconcileAfterBoot(t) PROVE StoreStep /\ BrokerInv'
    <2>1. boot' \in BootStates /\ UNCHANGED <<storeVars, applied, crashes>>
        BY <1>7 DEF ReconcileAfterBoot, BootStates
    <2>2. CASE PendingFetch(t)
        BY <2>1, <2>2, PendingMoves, ReadIsQuiet, QuietKeepsInv DEF Quiet
    <2>3. CASE UNCHANGED tasks
        BY <1>1, <1>2, <2>1, <2>3, NoTaskStepKeepsInv
    <2> QED BY <1>7, <2>2, <2>3 DEF ReconcileAfterBoot
<1>8. CASE UNCHANGED vars
    BY <1>1, <1>2, <1>8, NoTaskStepKeepsInv DEF vars, brokerVars
<1> QED BY <1>3, <1>4, <1>5, <1>6, <1>7, <1>8 DEF BrokerNext

LEMMA BrokerInitInv ==
    ASSUME BrokerInit
    PROVE  BrokerInv
<1>1. StoreTypeOK
    BY StoreAssumption DEF BrokerInit, StoreInit, StoreTypeOK, LeaseRows, EffectRows,
       NoEffect, NoVector, Vectors
<1>2. StoreInv
    BY DEF BrokerInit, StoreInit, StoreInv, PermitBudget, EpochsPast, FencedEffectsAreStale,
       LiveLeasesAreCurrent, ApprovedAsCommitted, NoEffect, PastHorizon, InFlight,
       Uncommitted, Unattempted
<1>3. RowBounds
    BY StoreAssumption DEF BrokerInit, StoreInit, RowBounds, RowsAreBindable, NoEffect
<1>4. \A t \in Tasks : tasks[t] = Idle
    BY DEF BrokerInit
<1>5. Idle.at = "idle"
    BY DEF Idle
<1>6. \A t \in Tasks : TaskReady(t) /\ TaskKnows(t)
    BY <1>4, <1>5 DEF TaskReady, TaskKnows
<1>7. BrokerTypeOK
    BY <1>1, <1>4, <1>6, IdleTyped, BrokerAssumption DEF BrokerInit, BrokerTypeOK, BootStates
<1>8. WithinPermits
    <2>1. ASSUME NEW e \in Effects PROVE Cardinality(Callers(e)) = 0
        <3>1. Callers(e) = {}
            BY <1>4, <1>5 DEF Callers
        <3> QED BY <3>1, FS_EmptySet
    <2> QED BY <2>1 DEF WithinPermits, BrokerInit, StoreInit
<1>9. CommittedWasApplied /\ NoneFailed
    BY DEF BrokerInit, StoreInit, NoEffect, CommittedWasApplied, NoneFailed
<1> QED BY <1>2, <1>3, <1>6, <1>7, <1>8, <1>9 DEF BrokerInv

-----------------------------------------------------------------------------
(* The theorems.                                                           *)

\* The invariant behind all that follows: WithinPermits ties the target to the
\* store's licences, TaskKnows what each task has read to what it will write.
THEOREM BrokerInvariant == BrokerSpec => []BrokerInv
<1>1. BrokerInit => BrokerInv
    BY BrokerInitInv
<1>2. BrokerInv /\ [BrokerNext]_vars => BrokerInv'
    BY BrokerStepKeepsInv
<1> QED BY <1>1, <1>2, PTL DEF BrokerSpec

\* Every task, whatever it read and however late it goes on, writes through a
\* transaction of the store that is legal in the state it finds: the theorems
\* about the store hold of the broker.
COROLLARY TasksRunTransactions == BrokerSpec => StoreSpec
<1>1. BrokerInit => StoreInit
    BY DEF BrokerInit
<1>2. BrokerInv /\ [BrokerNext]_vars => [StoreNext]_storeVars
    BY BrokerStepKeepsInv DEF StoreStep
<1> QED BY <1>1, <1>2, BrokerInvariant, PTL DEF BrokerSpec, StoreSpec

\* Tasks, the target and the rows always have their types, and every task holds
\* what its step needs, of a row its effect has or had.
THEOREM BrokerIsTyped == BrokerSpec => []BrokerTypeOK
<1>1. BrokerInv => BrokerTypeOK
    BY DEF BrokerInv
<1> QED BY <1>1, BrokerInvariant, PTL

\* The target was changed at most as often as licences were handed out.
LEMMA AppliedWithinPermits ==
    ASSUME BrokerInv, NEW e \in Effects
    PROVE  /\ applied[e] <= permits[e]
           /\ applied[e] \in Nat /\ permits[e] \in Nat /\ releases[e] \in Nat
<1>1. applied[e] \in Nat /\ permits[e] \in Nat /\ releases[e] \in Nat
    BY DEF BrokerInv, BrokerTypeOK, StoreTypeOK
<1>2. applied[e] + Cardinality(Callers(e)) <= permits[e] /\ Cardinality(Callers(e)) \in Nat
    BY CallersFinite DEF BrokerInv, WithinPermits
<1> QED BY <1>1, <1>2

\* However many tasks commit, retry, reconcile and die, the target is changed at
\* most once more than reconciliation declared it unchanged.
THEOREM AtMostOncePerRelease == BrokerSpec => []AppliedOncePerRelease
<1>1. BrokerInv => AppliedOncePerRelease
    BY AppliedWithinPermits DEF BrokerInv, StoreInv, PermitBudget, AppliedOncePerRelease
<1> QED BY <1>1, BrokerInvariant, PTL

\* An effect aborted or fenced before its first attempt was released never
\* reached the target.
THEOREM WithdrawnNeverApplied == BrokerSpec => []WithdrawnIsNotApplied
<1>1. BrokerInv => WithdrawnIsNotApplied
    <2> SUFFICES ASSUME BrokerInv, NEW e \in Effects,
                        effects[e].state \in {"aborted", "stale"}, releases[e] = 0
                 PROVE  applied[e] = 0
        BY DEF WithdrawnIsNotApplied
    <2>1. permits[e] <= releases[e]
        BY AppliedWithinPermits DEF BrokerInv, StoreInv, PermitBudget, Unattempted
    <2> QED BY <2>1, AppliedWithinPermits
<1> QED BY <1>1, BrokerInvariant, PTL

\* Nothing is recorded as committed that the target does not show.
THEOREM CommittedIsApplied == BrokerSpec => []CommittedWasApplied
<1>1. BrokerInv => CommittedWasApplied
    BY DEF BrokerInv
<1> QED BY <1>1, BrokerInvariant, PTL

\* What a task hands to the adapter is what was approved, although nothing
\* compares the attempt it began with the one it marked.
THEOREM OnlyApprovedIsActuated == BrokerSpec => []ActuatesWhatWasApproved
<1>1. BrokerInv => ActuatesWhatWasApproved
    BY DEF BrokerInv, TaskKnows, ActuatesWhatWasApproved, AtStep, Target
<1> QED BY <1>1, BrokerInvariant, PTL

-----------------------------------------------------------------------------
(* Refinement of EffectPromise.                                            *)

standingBar == [e \in Effects |-> Standing(effects[e].state)]

\* The standing of each state, and of each phase.
LEMMA Standings ==
    ASSUME NEW state
    PROVE  /\ state \in Uncommitted \cup {"absent"} => Standing(state) = "open"
           /\ state \in InFlight => Standing(state) = "doubt"
           /\ state = "committed" => Standing(state) = "committed"
           /\ PhaseOf(state) \in {"none", "open"} => Standing(state) = "open"
           /\ PhaseOf(state) = "crossed" => Standing(state) = "doubt" /\ state \in InFlight
           /\ PhaseOf(state) = "committed" => Standing(state) = "committed" /\ state = "committed"
           /\ PhaseOf(state) = "closed" => Standing(state) = "closed" /\ state \notin InFlight
BY DEF Standing, PhaseOf, Uncommitted, InFlight

\* The steps of the promise, over the mapping.
LEMMA PromiseSteps ==
    ASSUME NEW e \in Effects
    PROVE  /\ /\ standingBar[e] = "open" /\ standingBar' = [standingBar EXCEPT ![e] = "doubt"]
              /\ UNCHANGED <<applied, releases>>
              => Promise!Next
           /\ /\ standingBar[e] = "doubt" \/ releases[e] > 0
              /\ applied[e] <= releases[e] /\ applied' = [applied EXCEPT ![e] = @ + 1]
              /\ UNCHANGED <<standingBar, releases>>
              => Promise!Next
           /\ /\ applied[e] > 0 /\ standingBar[e] = "doubt"
              /\ standingBar' = [standingBar EXCEPT ![e] = "committed"]
              /\ UNCHANGED <<applied, releases>>
              => Promise!Next
           /\ /\ standingBar[e] = "doubt" /\ standingBar' = [standingBar EXCEPT ![e] = "open"]
              /\ releases' = [releases EXCEPT ![e] = @ + 1] /\ UNCHANGED applied
              => Promise!Next
<1> USE DEF standingBar, Promise!Next, Promise!Move
<1>1. Promise!Attempt(e) => Promise!Next OBVIOUS
<1>2. Promise!Mutate(e) => Promise!Next  OBVIOUS
<1>3. Promise!Confirm(e) => Promise!Next OBVIOUS
<1>4. Promise!Release(e) => Promise!Next OBVIOUS
<1> HIDE DEF Promise!Next
<1> QED BY <1>1, <1>2, <1>3, <1>4 DEF Promise!Attempt, Promise!Mutate, Promise!Confirm,
        Promise!Release

LEMMA PromiseWithdraws ==
    ASSUME NEW es \in SUBSET Effects, \A e \in es : standingBar[e] = "open",
           standingBar' = [e \in Effects |-> IF e \in es THEN "closed" ELSE standingBar[e]],
           UNCHANGED <<applied, releases>>
    PROVE  Promise!Next
<1>1. Promise!Withdraw(es)
    BY DEF Promise!Withdraw, standingBar
<1> QED BY <1>1 DEF Promise!Next

\* What the standing of the effects does when one phase moves.
LEMMA StandingMoves ==
    ASSUME NEW e \in Effects, NEW from, NEW to, Horizon!Move(e, from, to)
    PROVE  /\ PhaseOf(effects[e].state) = from /\ PhaseOf(effects'[e].state) = to
           /\ \A f \in Effects \ {e} : PhaseOf(effects'[f].state) = PhaseOf(effects[f].state)
BY DEF Horizon!Move

\* A row whose phase stays keeps its standing.
LEMMA SamePhaseSameStanding ==
    ASSUME NEW e \in Effects, PhaseOf(effects'[e].state) = PhaseOf(effects[e].state)
    PROVE  standingBar'[e] = standingBar[e]
BY DEF standingBar, Standing, PhaseOf, Uncommitted, InFlight

\* A phase that moves alone moves its standing alone.
LEMMA StandingFollows ==
    ASSUME NEW e \in Effects, NEW from, NEW to, Horizon!Move(e, from, to)
    PROVE  /\ standingBar[e] = Standing(effects[e].state)
           /\ standingBar' = [standingBar EXCEPT ![e] = Standing(effects'[e].state)]
<1>1. \A f \in Effects \ {e} : standingBar'[f] = standingBar[f]
    BY StandingMoves, SamePhaseSameStanding
<1>2. standingBar'[e] = Standing(effects'[e].state)
    BY DEF standingBar
<1>3. /\ standingBar = [f \in Effects |-> standingBar[f]]
      /\ standingBar' = [f \in Effects |-> standingBar'[f]]
    BY DEF standingBar
<1>4. standingBar' = [standingBar EXCEPT ![e] = Standing(effects'[e].state)]
    BY <1>1, <1>2, <1>3
<1> QED BY <1>4 DEF standingBar

\* A transaction during which the target stays as it is.
LEMMA StoreStepKeepsPromise ==
    ASSUME BrokerInv, BrokerInv', StoreStep, Evidence, applied' = applied
    PROVE  Promise!Next \/ UNCHANGED <<standingBar, applied, releases>>
<1>1. Horizon!Next \/ UNCHANGED <<epoch, phaseBar, bornBar, permits, releases>>
    BY StepsOfHorizon DEF StoreStep, BrokerInv, BrokerTypeOK
<1>2. ASSUME phaseBar' = phaseBar PROVE standingBar' = standingBar
    <2>1. \A f \in Effects : PhaseOf(effects'[f].state) = PhaseOf(effects[f].state)
        <3>1. \A f \in Effects : phaseBar'[f] = phaseBar[f]
            BY <1>2
        <3> QED BY <3>1 DEF phaseBar
    <2>2. \A f \in Effects : standingBar'[f] = standingBar[f]
        BY <2>1, SamePhaseSameStanding
    <2> QED BY <2>2 DEF standingBar
<1>3. CASE UNCHANGED <<epoch, phaseBar, bornBar, permits, releases>>
    BY <1>2, <1>3
<1>4. CASE Horizon!Fence
    <2> DEFINE es == {e \in Effects : PhaseOf(effects[e].state) = "open"}
    <2>1. \A e \in es : standingBar[e] = "open"
        BY Standings DEF standingBar
    <2>2. \A e \in Effects : PhaseOf(effects'[e].state) =
              IF e \in es THEN "closed" ELSE PhaseOf(effects[e].state)
        BY <1>4 DEF Horizon!Fence
    <2>3. \A e \in Effects : standingBar'[e] = IF e \in es THEN "closed" ELSE standingBar[e]
        BY <2>2, SamePhaseSameStanding, Standings DEF standingBar
    <2>4. standingBar' = [e \in Effects |-> standingBar'[e]]
        BY DEF standingBar
    <2>5. standingBar' = [e \in Effects |-> IF e \in es THEN "closed" ELSE standingBar[e]]
        BY <2>3, <2>4
    <2>6. releases' = releases /\ es \in SUBSET Effects
        BY <1>4 DEF Horizon!Fence
    <2> HIDE DEF es
    <2> QED BY <2>1, <2>5, <2>6, PromiseWithdraws
<1>5. ASSUME NEW e \in Effects, Horizon!Propose(e) PROVE UNCHANGED <<standingBar, applied, releases>>
    <2>1. Horizon!Move(e, "none", "open") /\ releases' = releases
        BY <1>5 DEF Horizon!Propose
    <2>2. Standing(effects'[e].state) = standingBar[e]
        BY <2>1, StandingMoves, Standings DEF standingBar
    <2>3. standingBar' = [standingBar EXCEPT ![e] = standingBar[e]]
        BY <2>1, <2>2, StandingFollows
    <2> QED BY <2>1, <2>3 DEF standingBar
<1>6. ASSUME NEW e \in Effects, Horizon!Withdraw(e) PROVE Promise!Next
    <2>1. Horizon!Move(e, "open", "closed") /\ releases' = releases
        BY <1>6 DEF Horizon!Withdraw
    <2>2. standingBar[e] = "open" /\ Standing(effects'[e].state) = "closed"
        BY <2>1, StandingMoves, Standings DEF standingBar
    <2> DEFINE es == {e}
    <2>3. standingBar' = [f \in Effects |-> IF f \in es THEN "closed" ELSE standingBar[f]]
        BY <2>1, <2>2, StandingFollows DEF standingBar
    <2>4. es \in SUBSET Effects /\ \A f \in es : standingBar[f] = "open"
        BY <2>2
    <2>5. UNCHANGED <<applied, releases>>
        BY <2>1
    <2> HIDE DEF es
    <2> QED BY <2>3, <2>4, <2>5, PromiseWithdraws
<1>7. ASSUME NEW e \in Effects, Horizon!Cross(e) PROVE Promise!Next
    <2>1. Horizon!Move(e, "open", "crossed") /\ releases' = releases
        BY <1>7 DEF Horizon!Cross
    <2>2. standingBar[e] = "open" /\ Standing(effects'[e].state) = "doubt"
        BY <2>1, StandingMoves, Standings DEF standingBar
    <2>3. standingBar' = [standingBar EXCEPT ![e] = "doubt"]
        BY <2>1, <2>2, StandingFollows
    <2> QED BY <2>1, <2>2, <2>3, PromiseSteps
<1>8. ASSUME NEW e \in Effects, Horizon!Actuate(e) PROVE UNCHANGED <<standingBar, applied, releases>>
    BY <1>2, <1>8 DEF Horizon!Actuate, phaseBar
<1>9. ASSUME NEW e \in Effects, Horizon!Settle(e) PROVE Promise!Next
    <2>1. PICK to \in {"committed", "closed"} : Horizon!Move(e, "crossed", to)
        BY <1>9 DEF Horizon!Settle
    <2>2. releases' = releases
        BY <1>9 DEF Horizon!Settle
    <2>3. /\ standingBar[e] = "doubt" /\ effects[e].state \in InFlight
          /\ PhaseOf(effects'[e].state) = to
        BY <2>1, StandingMoves, Standings DEF standingBar
    <2>4. to = "committed"
        <3>1. ASSUME PhaseOf(effects'[e].state) = "closed" PROVE FALSE
            <4>1. effects'[e].state \in States \cup {"absent"}
                BY DEF BrokerInv, BrokerTypeOK, StoreTypeOK, EffectRows
            <4>2. effects'[e].state \in Abandoned
                BY <3>1, <4>1 DEF PhaseOf, States, Terminal, Abandoned
            <4> QED BY <2>3, <4>2 DEF Evidence, InFlight, Abandoned, Uncommitted
        <3> QED BY <2>3, <3>1
    <2>5. effects'[e].state = "committed" /\ Standing(effects'[e].state) = "committed"
        BY <2>3, <2>4, Standings
    <2>6. applied[e] > 0
        BY <2>5 DEF BrokerInv, CommittedWasApplied
    <2>7. standingBar' = [standingBar EXCEPT ![e] = "committed"]
        BY <2>1, <2>5, StandingFollows
    <2> QED BY <2>2, <2>3, <2>6, <2>7, PromiseSteps
<1>10. ASSUME NEW e \in Effects, Horizon!Release(e) PROVE Promise!Next
    <2>1. Horizon!Move(e, "crossed", "open") /\ releases' = [releases EXCEPT ![e] = @ + 1]
        BY <1>10 DEF Horizon!Release
    <2>2. standingBar[e] = "doubt" /\ Standing(effects'[e].state) = "open"
        BY <2>1, StandingMoves, Standings DEF standingBar
    <2>3. standingBar' = [standingBar EXCEPT ![e] = "open"]
        BY <2>1, <2>2, StandingFollows
    <2> QED BY <2>1, <2>2, <2>3, PromiseSteps
<1> QED BY <1>1, <1>3, <1>4, <1>5, <1>6, <1>7, <1>8, <1>9, <1>10 DEF Horizon!Next

\* A call of the adapter spends a licence: the effect is in doubt, or was released
\* after this task got its licence.
LEMMA CallKeepsPromise ==
    ASSUME BrokerInv, BrokerInv', NEW t \in Tasks, CommitCall(t)
    PROVE  Promise!Next \/ UNCHANGED <<standingBar, applied, releases>>
<1> DEFINE e == tasks[t].effect
<1>1. /\ e \in Effects /\ UNCHANGED <<effects, permits, releases>>
      /\ applied' \in {applied, [applied EXCEPT ![e] = @ + 1]}
    BY DEF CommitCall, AtStep, Target, BrokerInv, TaskReady, storeVars, rowVars
<1>2. standingBar' = standingBar
    BY <1>1 DEF standingBar
<1>3. CASE applied' = applied
    BY <1>1, <1>2, <1>3
<1>4. CASE applied' = [applied EXCEPT ![e] = @ + 1]
    <2>1. t \in Callers(e)
        BY DEF CommitCall, AtStep, Callers
    <2>2. Cardinality(Callers(e)) # 0 /\ Cardinality(Callers(e)) \in Nat
        BY <2>1, CallersFinite, FS_EmptySet
    <2>3. applied[e] + Cardinality(Callers(e)) <= permits[e]
        BY <1>1 DEF BrokerInv, WithinPermits
    <2>4. applied[e] \in Nat /\ permits[e] \in Nat /\ releases[e] \in Nat
        BY <1>1, AppliedWithinPermits
    <2>5. applied[e] + 1 <= permits[e]
        BY <2>2, <2>3, <2>4
    <2>6. permits[e] <= releases[e] + 1
        BY <1>1, <2>4 DEF BrokerInv, StoreInv, PermitBudget
    <2>7. applied[e] <= releases[e]
        BY <2>4, <2>5, <2>6
    <2>8. ASSUME releases[e] = 0 PROVE standingBar[e] = "doubt"
        <3>1. effects[e].state \notin Unattempted
            <4>1. ~(permits[e] <= releases[e] + 0)
                BY <2>4, <2>5, <2>8
            <4> QED BY <1>1, <4>1 DEF BrokerInv, StoreInv, PermitBudget
        <3>2. effects[e].state # "committed" /\ effects[e].state # "failed"
            <4>1. ~(applied[e] > 0)
                BY <2>4, <2>7, <2>8
            <4> QED BY <1>1, <4>1 DEF BrokerInv, CommittedWasApplied, NoneFailed
        <3>3. effects[e].state \in States \cup {"absent"}
            BY <1>1 DEF BrokerInv, BrokerTypeOK, StoreTypeOK, EffectRows
        <3>4. effects[e].state \in InFlight
            BY <3>1, <3>2, <3>3 DEF Unattempted, States, Terminal, Uncommitted, InFlight
        <3> QED BY <1>1, <3>4, Standings DEF standingBar
    <2>9. standingBar[e] = "doubt" \/ releases[e] > 0
        BY <2>4, <2>8
    <2> HIDE DEF e
    <2> QED BY <1>1, <1>2, <1>4, <2>7, <2>9, PromiseSteps
<1> QED BY <1>1, <1>3, <1>4

\* Every other step leaves the target alone and writes off nothing.
LEMMA StepSeen ==
    ASSUME BrokerInv, [BrokerNext]_vars
    PROVE  (Evidence /\ applied' = applied) \/ \E t \in Tasks : CommitCall(t)
<1>1. UNCHANGED storeVars => Evidence
    BY DEF Evidence, storeVars, rowVars
<1>2. CASE Others
    BY <1>2, OthersAreTransactions DEF Others, brokerVars
<1>3. CASE BrokerCrash \/ NodeCrash \/ UNCHANGED vars
    BY <1>1, <1>3 DEF BrokerCrash, NodeCrash, Restart, vars, brokerVars
<1>4. ASSUME NEW t \in Tasks, Call(t) \/ TaskFails(t) PROVE Evidence /\ applied' = applied
    BY <1>4, CallIsQuiet, TaskFailsIsQuiet DEF Quiet
<1>5. ASSUME NEW t \in Tasks, ReconcileAfterBoot(t) PROVE Evidence /\ applied' = applied
    BY <1>1, <1>5 DEF ReconcileAfterBoot
<1>6. ASSUME NEW t \in Tasks, CommitMark(t) PROVE Evidence /\ applied' = applied
    <2>1. tasks[t].effect \in Effects
        BY <1>6 DEF CommitMark, AtStep, BrokerInv, TaskReady
    <2>2. CASE GiveUp(t)
        BY <2>2, GiveUpIsQuiet DEF Quiet
    <2>3. CASE MarkCommitting(tasks[t].effect) /\ applied' = applied
        <3>1. /\ effects'[tasks[t].effect].state = "committing"
              /\ \A f \in Effects : f # tasks[t].effect => effects'[f] = effects[f]
            BY <2>1, <2>3, SetStateRows DEF MarkCommitting, BrokerInv, BrokerTypeOK
        <3> QED BY <2>3, <3>1 DEF Evidence, Abandoned
    <2> QED BY <1>6, <2>2, <2>3 DEF CommitMark, Target
<1>7. ASSUME NEW t \in Tasks, TaskStep(t), ~(CommitMark(t) \/ CommitCall(t))
      PROVE  Evidence /\ applied' = applied
    BY <1>7, QuietTaskStep DEF Quiet
<1> QED BY <1>2, <1>3, <1>4, <1>5, <1>6, <1>7 DEF BrokerNext, TaskStep

\* The broker keeps the promise, however many tasks, effects and restarts there
\* are: rows, licences, tasks and fence together never change a target out of
\* turn, never write off an attempt in doubt, and confirm only what happened.
THEOREM BrokerKeepsPromise == BrokerSpec => KeepsPromise
<1>1. BrokerInit => Promise!Init
    <2> SUFFICES ASSUME BrokerInit PROVE Promise!Init
        OBVIOUS
    <2>1. \A e \in Effects : Standing(effects[e].state) = "open"
        BY Standings DEF BrokerInit, StoreInit, NoEffect
    <2> QED BY <2>1 DEF BrokerInit, StoreInit, Promise!Init
<1>2. BrokerInv /\ BrokerInv' /\ [BrokerNext]_vars => [Promise!Next]_(Promise!vars)
    <2> SUFFICES ASSUME BrokerInv, BrokerInv', [BrokerNext]_vars
                 PROVE  Promise!Next \/ UNCHANGED <<standingBar, applied, releases>>
        BY DEF Promise!vars, standingBar
    <2>1. CASE \E t \in Tasks : CommitCall(t)
        BY <2>1, CallKeepsPromise
    <2>2. CASE Evidence /\ applied' = applied
        BY <2>2, BrokerStepKeepsInv, StoreStepKeepsPromise
    <2> QED BY <2>1, <2>2, StepSeen
<1> QED BY <1>1, <1>2, BrokerInvariant, PTL DEF BrokerSpec, KeepsPromise, Promise!Spec
=============================================================================
