-------------------------- MODULE EffectStoreProofs --------------------------
(***************************************************************************)
(* Theorems about EffectStore for any number of effects, leases, payloads, *)
(* decisions, epochs and revisions.  The bounds are constants like any     *)
(* other: no step of a proof uses that they are small.                     *)
(***************************************************************************)
EXTENDS EffectStore, TLAPS

-----------------------------------------------------------------------------
(* Types.                                                                  *)

\* A state change of one row is a change to a legal row.
LEMMA SetStateType ==
    ASSUME effects \in [Effects -> EffectRows],
           NEW e \in Effects, NEW to \in States, SetState(e, to)
    PROVE  effects' \in [Effects -> EffectRows]
BY DEF SetState, EffectRows

\* Every transaction writes rows of the types of the schema.
LEMMA StoreStepTypes ==
    ASSUME StoreTypeOK, [StoreNext]_storeVars
    PROVE  StoreTypeOK'
<1>1. CASE EpisodeStep
    <2>1. ASSUME NEW s \in EpisodeStates, SetEpisodeState(s) PROVE StoreTypeOK'
        BY <2>1 DEF SetEpisodeState, StoreTypeOK, rowVars
    <2>2. CASE AdvanceEpoch
        <3>1. leases' \in [Leases -> LeaseRows]
            BY <2>2 DEF AdvanceEpoch, RevokeOlder, StoreTypeOK, LeaseRows
        <3>2. effects' \in [Effects -> EffectRows]
            BY <2>2 DEF AdvanceEpoch, StaleOlder, StoreTypeOK, EffectRows, States, Terminal
        <3> QED BY <2>2, <3>1, <3>2 DEF AdvanceEpoch, StoreTypeOK
    <2>3. ASSUME NEW ep \in 1..epoch, NEW v \in 0..MaxTrajectory, UpdateTrajectory(ep, v)
          PROVE  StoreTypeOK'
        BY <2>3, StoreAssumption DEF UpdateTrajectory, StoreTypeOK, rowVars
    <2> QED BY <1>1, <2>1, <2>2, <2>3 DEF EpisodeStep
<1>2. ASSUME NEW l \in Leases, LeaseStep(l) PROVE StoreTypeOK'
    <2>1. leases' \in [Leases -> LeaseRows]
        BY <1>2 DEF LeaseStep, PutLease, RevokeLease, ExpireLease, StoreTypeOK, LeaseRows
    <2> QED BY <1>2, <2>1 DEF LeaseStep, PutLease, RevokeLease, ExpireLease, StoreTypeOK
<1>3. ASSUME NEW d \in decisions, ExpireDecision(d) PROVE StoreTypeOK'
    <2>1. [d EXCEPT !.fresh = FALSE] \in DecisionRows
        BY DEF StoreTypeOK, DecisionRows
    <2> QED BY <1>3, <2>1 DEF ExpireDecision, StoreTypeOK
<1>4. ASSUME NEW e \in Effects, EvaluationStep(e) PROVE StoreTypeOK'
    <2>1. ASSUME NEW l \in Leases, NEW p \in Payloads, NEW ep \in 1..epoch,
                 NEW tv \in 0..trajectory, PutEffect(e, l, p, ep, tv)
          PROVE  StoreTypeOK'
        <3>1. effects' \in [Effects -> EffectRows]
            BY <2>1 DEF PutEffect, StoreTypeOK, EffectRows, Vectors, States, Uncommitted
        <3> QED BY <2>1, <3>1 DEF PutEffect, StoreTypeOK
    <2>2. CASE PrepareExistingEffect(e)
        BY <2>2, SetStateType
        DEF PrepareExistingEffect, StoreTypeOK, States, Uncommitted
    <2>3. CASE MarkEvaluating(e) \/ MarkReady(e)
        BY <2>3, SetStateType
        DEF MarkEvaluating, MarkReady, Transition, StoreTypeOK, States, Uncommitted
    <2>4. ASSUME NEW p \in Payloads, UpdateEffectRevision(e, p) PROVE StoreTypeOK'
        <3>1. Revised(effects[e], p) \in EffectRows
            BY DEF StoreTypeOK, Revised, EffectRows, Vectors, States, Uncommitted
        <3>2. effects' \in [Effects -> EffectRows]
            BY <2>4, <3>1 DEF UpdateEffectRevision, StoreTypeOK
        <3> QED BY <2>4, <3>2 DEF UpdateEffectRevision, StoreTypeOK
    <2>5. ASSUME NEW r \in Bindings, NEW k \in Kinds, NEW o \in {"allow", "deny"},
                 NEW s \in Sources, RecordDecision(e, r, k, o, s)
          PROVE  StoreTypeOK'
        <3> DEFINE new == [effect |-> e, revision |-> effects[e].revision, kind |-> k,
                           decision |-> o, source |-> s, epoch |-> effects[e].epoch,
                           trajectory |-> effects[e].vector.trajectory,
                           payload |-> effects[e].payload, fresh |-> TRUE]
        <3>1. effects[e] \in EffectRows
            BY DEF StoreTypeOK
        <3>2. new \in DecisionRows
            BY <3>1 DEF EffectRows, Vectors, DecisionRows
        <3>3. decisions' = decisions \cup {new}
            BY <2>5 DEF RecordDecision
        <3> QED BY <2>5, <3>2, <3>3 DEF RecordDecision, StoreTypeOK
    <2>6. CASE AbortEffect(e)
        BY <2>6, SetStateType DEF AbortEffect, StoreTypeOK, States, Terminal
    <2>7. CASE ExpireEffect(e)
        BY <2>7 DEF ExpireEffect, StoreTypeOK
    <2> QED BY <1>4, <2>1, <2>2, <2>3, <2>4, <2>5, <2>6, <2>7 DEF EvaluationStep
<1>5. ASSUME NEW e \in Effects, CommitStep(e) PROVE StoreTypeOK'
    <2>1. CASE BeginEffectCommit(e)
        BY <2>1, SetStateType DEF BeginEffectCommit, StoreTypeOK, States, InFlight
    <2>2. CASE MarkCommitting(e)
        BY <2>2, SetStateType DEF MarkCommitting, StoreTypeOK, States, InFlight
    <2>3. ASSUME NEW o \in {"committed", "failed", "commit_unknown"}, CompleteEffect(e, o)
          PROVE  StoreTypeOK'
        BY <2>3, SetStateType DEF CompleteEffect, StoreTypeOK, States, InFlight, Terminal
    <2>4. ASSUME NEW o \in Outcomes, ReconcileEffect(e, o) PROVE StoreTypeOK'
        <3>1. Reconciled(o) \in States
            BY DEF Reconciled, States, Uncommitted, InFlight, Terminal
        <3> QED BY <2>4, <3>1, SetStateType DEF ReconcileEffect, StoreTypeOK
    <2> QED BY <1>5, <2>1, <2>2, <2>3, <2>4 DEF CommitStep
<1>6. CASE UNCHANGED storeVars
    BY <1>6 DEF StoreTypeOK, storeVars, rowVars
<1> QED BY <1>1, <1>2, <1>3, <1>4, <1>5, <1>6 DEF StoreNext

\* Every transaction writes rows of the schema's types: StoreTypeOK is inductive.
THEOREM StoreTypes == StoreSpec => []StoreTypeOK
<1>1. StoreInit => StoreTypeOK
    BY StoreAssumption DEF StoreInit, StoreTypeOK, LeaseRows, EffectRows, NoEffect,
       NoVector, Vectors
<1>2. StoreTypeOK /\ [StoreNext]_storeVars => StoreTypeOK'
    BY StoreStepTypes
<1> QED BY <1>1, <1>2, PTL DEF StoreSpec

-----------------------------------------------------------------------------
(* The inductive invariant behind the safety properties.                   *)

\* States in which every licence handed out so far has been released again.
Unattempted == Uncommitted \cup {"absent", "commit_intent", "aborted", "expired", "stale"}

\* RetryNeedsRelease alone is not inductive: a ready effect must not already
\* have used up the licence its next commit will take.
PermitBudget ==
    \A e \in Effects :
        permits[e] <= releases[e] + (IF effects[e].state \in Unattempted THEN 0 ELSE 1)

\* No row is ahead of the episode.
EpochsPast == \A e \in Effects : effects[e].epoch <= epoch

StoreInv ==
    /\ PermitBudget
    /\ EpochsPast
    /\ FencedEffectsAreStale
    /\ LiveLeasesAreCurrent
    /\ ApprovedAsCommitted

\* Two rows that differ at most in whether their lifetime is over.
SameSay(b, c) ==
    /\ b.effect = c.effect /\ b.kind = c.kind /\ b.decision = c.decision
    /\ b.revision = c.revision /\ b.payload = c.payload
    /\ b.epoch = c.epoch /\ b.trajectory = c.trajectory

\* Only a commit intent may become committing.
LEMMA CommittingOnlyFromIntent ==
    ASSUME NEW from, Allowed(from, "committing")
    PROVE  from = "commit_intent"
BY DEF Allowed, Abandoned

\* Reading one row of a function that was updated at one place.
LEMMA SetStateRows ==
    ASSUME StoreTypeOK, NEW e \in Effects, NEW to, SetState(e, to), NEW f \in Effects
    PROVE  /\ f # e => effects'[f] = effects[f]
           /\ effects'[e].state = to
           /\ effects'[f].epoch = effects[f].epoch
           /\ effects'[f].revision = effects[f].revision
           /\ effects'[f].payload = effects[f].payload
           /\ effects'[f].vector = effects[f].vector
BY DEF SetState, StoreTypeOK, EffectRows

\* A change of state that neither hands out a licence, nor forgets one, nor
\* crosses the horizon, nor returns from beyond it, preserves the invariant.
LEMMA MovePreserves ==
    ASSUME StoreTypeOK, StoreInv, NEW e \in Effects, NEW to, SetState(e, to),
           UNCHANGED <<epoch, leases, decisions, permits, releases>>,
           to \in Unattempted => effects[e].state \in Unattempted,
           to \in Uncommitted => effects[e].state \in Uncommitted,
           to \in PastHorizon => effects[e].state \in PastHorizon
    PROVE  StoreInv'
<1>1. PermitBudget'
    BY SetStateRows DEF StoreInv, PermitBudget, StoreTypeOK
<1>2. EpochsPast'
    BY SetStateRows DEF StoreInv, EpochsPast
<1>3. FencedEffectsAreStale'
    BY SetStateRows DEF StoreInv, FencedEffectsAreStale
<1>4. LiveLeasesAreCurrent'
    BY DEF StoreInv, LiveLeasesAreCurrent
<1>5. ApprovedAsCommitted'
    BY SetStateRows DEF StoreInv, ApprovedAsCommitted
<1> QED BY <1>1, <1>2, <1>3, <1>4, <1>5 DEF StoreInv

\* The decisions begin_effect_commit demands are about the row that crosses.
LEMMA DecisionsHoldApproves ==
    ASSUME NEW e \in Effects, DecisionsHold(e), NEW k \in Required[e]
    PROVE  \E d \in decisions :
               /\ d.effect = e /\ d.kind = k /\ d.decision = "allow"
               /\ d.revision = effects[e].revision
               /\ d.payload = effects[e].payload
               /\ d.epoch = effects[e].epoch
               /\ d.trajectory = effects[e].vector.trajectory
BY DEF DecisionsHold, DecisionsFor, ValidDecision

\* Every transaction preserves the invariant.
LEMMA StoreStepInv ==
    ASSUME StoreTypeOK, StoreInv, [StoreNext]_storeVars
    PROVE  StoreInv'
<1> USE DEF StoreInv
<1>1. CASE EpisodeStep
    <2>1. ASSUME NEW s \in EpisodeStates, SetEpisodeState(s) PROVE StoreInv'
        BY <2>1 DEF SetEpisodeState, rowVars, PermitBudget, EpochsPast,
           FencedEffectsAreStale, LiveLeasesAreCurrent, ApprovedAsCommitted
    <2>2. CASE AdvanceEpoch
        <3>1. \A e \in Effects :
                  /\ effects'[e].epoch = effects[e].epoch
                  /\ effects'[e].revision = effects[e].revision
                  /\ effects'[e].payload = effects[e].payload
                  /\ effects'[e].vector = effects[e].vector
                  /\ \/ effects'[e].state = effects[e].state
                     \/ effects[e].state \in Uncommitted /\ effects'[e].state = "stale"
            BY <2>2 DEF AdvanceEpoch, StaleOlder, StoreTypeOK, EffectRows
        <3>2. PermitBudget'
            BY <2>2, <3>1
            DEF AdvanceEpoch, PermitBudget, Unattempted, Uncommitted, StoreTypeOK
        <3>3. EpochsPast'
            BY <2>2, <3>1 DEF AdvanceEpoch, EpochsPast, StoreTypeOK, EffectRows
        <3>4. FencedEffectsAreStale'
            BY <2>2 DEF AdvanceEpoch, StaleOlder, FencedEffectsAreStale, StoreTypeOK,
               EffectRows, Uncommitted
        <3>5. LiveLeasesAreCurrent'
            BY <2>2 DEF AdvanceEpoch, RevokeOlder, LiveLeasesAreCurrent, StoreTypeOK,
               LeaseRows
        <3>6. ApprovedAsCommitted'
            BY <2>2, <3>1 DEF AdvanceEpoch, ApprovedAsCommitted, PastHorizon, InFlight
        <3> QED BY <3>2, <3>3, <3>4, <3>5, <3>6
    <2>3. ASSUME NEW ep \in 1..epoch, NEW v \in 0..MaxTrajectory, UpdateTrajectory(ep, v)
          PROVE  StoreInv'
        BY <2>3 DEF UpdateTrajectory, rowVars, PermitBudget, EpochsPast,
           FencedEffectsAreStale, LiveLeasesAreCurrent, ApprovedAsCommitted
    <2> QED BY <1>1, <2>1, <2>2, <2>3 DEF EpisodeStep
<1>2. ASSUME NEW l \in Leases, LeaseStep(l) PROVE StoreInv'
    <2>1. UNCHANGED <<epoch, effects, decisions, permits, releases>>
        BY <1>2 DEF LeaseStep, PutLease, RevokeLease, ExpireLease
    <2>2. PermitBudget' /\ EpochsPast' /\ FencedEffectsAreStale' /\ ApprovedAsCommitted'
        BY <2>1 DEF PermitBudget, EpochsPast, FencedEffectsAreStale, ApprovedAsCommitted
    <2>3. LiveLeasesAreCurrent'
        BY <1>2, <2>1 DEF LeaseStep, PutLease, RevokeLease, ExpireLease,
           LiveLeasesAreCurrent, StoreTypeOK, LeaseRows
    <2> QED BY <2>2, <2>3
<1>3. ASSUME NEW d \in decisions, ExpireDecision(d) PROVE StoreInv'
    <2>1. PermitBudget' /\ EpochsPast' /\ FencedEffectsAreStale' /\ LiveLeasesAreCurrent'
        BY <1>3 DEF ExpireDecision, PermitBudget, EpochsPast, FencedEffectsAreStale,
           LiveLeasesAreCurrent
    <2>2. \A c \in decisions : \E b \in decisions' : SameSay(b, c)
        <3> SUFFICES ASSUME NEW c \in decisions
                     PROVE  \E b \in decisions' : SameSay(b, c)
            OBVIOUS
        <3>1. CASE c = d
            <4>1. SameSay([d EXCEPT !.fresh = FALSE], d)
                BY DEF SameSay, StoreTypeOK, DecisionRows
            <4> QED BY <1>3, <3>1, <4>1 DEF ExpireDecision
        <3>2. CASE c # d
            BY <1>3, <3>2 DEF ExpireDecision, SameSay
        <3> QED BY <3>1, <3>2
    <2>3. ApprovedAsCommitted'
        BY <1>3, <2>2 DEF ExpireDecision, ApprovedAsCommitted, SameSay
    <2> QED BY <2>1, <2>3
<1>4. ASSUME NEW e \in Effects, EvaluationStep(e) PROVE StoreInv'
    <2>1. ASSUME NEW l \in Leases, NEW p \in Payloads, NEW ep \in 1..epoch,
                 NEW tv \in 0..trajectory, PutEffect(e, l, p, ep, tv)
          PROVE  StoreInv'
        <3>1. /\ effects'[e].state = "proposed"
              /\ effects'[e].epoch = epoch
              /\ \A f \in Effects : f # e => effects'[f] = effects[f]
            BY <2>1 DEF PutEffect, StoreTypeOK
        <3>2. PermitBudget'
            BY <2>1, <3>1 DEF PutEffect, PermitBudget, Unattempted, Uncommitted, StoreTypeOK
        <3>3. EpochsPast' /\ FencedEffectsAreStale' /\ LiveLeasesAreCurrent'
            BY <2>1, <3>1 DEF PutEffect, EpochsPast, FencedEffectsAreStale,
               LiveLeasesAreCurrent, StoreTypeOK
        <3>4. ApprovedAsCommitted'
            BY <2>1, <3>1 DEF PutEffect, ApprovedAsCommitted, PastHorizon, InFlight
        <3> QED BY <3>2, <3>3, <3>4
    <2>2. CASE PrepareExistingEffect(e) \/ MarkEvaluating(e) \/ MarkReady(e)
        <3>1. PICK to \in {"prepared", "evaluating", "ready"} :
                  /\ SetState(e, to)
                  /\ effects[e].state \in Uncommitted
                  /\ UNCHANGED <<epoch, leases, decisions, permits, releases>>
            BY <2>2 DEF PrepareExistingEffect, Preparable, MarkEvaluating, MarkReady,
               Transition, Allowed, Abandoned, Uncommitted
        <3> QED BY <3>1, MovePreserves DEF Unattempted, Uncommitted, PastHorizon, InFlight
    <2>3. ASSUME NEW p \in Payloads, UpdateEffectRevision(e, p) PROVE StoreInv'
        <3>1. /\ effects'[e].state = "prepared"
              /\ effects'[e].epoch = effects[e].epoch
              /\ effects[e].state \in Uncommitted
              /\ \A f \in Effects : f # e => effects'[f] = effects[f]
            BY <2>3 DEF UpdateEffectRevision, Revised, Uncommitted, StoreTypeOK
        <3>2. PermitBudget'
            BY <2>3, <3>1
            DEF UpdateEffectRevision, PermitBudget, Unattempted, Uncommitted, StoreTypeOK
        <3>3. EpochsPast' /\ FencedEffectsAreStale' /\ LiveLeasesAreCurrent'
            BY <2>3, <3>1 DEF UpdateEffectRevision, EpochsPast, FencedEffectsAreStale,
               LiveLeasesAreCurrent
        <3>4. ApprovedAsCommitted'
            BY <2>3, <3>1 DEF UpdateEffectRevision, ApprovedAsCommitted, PastHorizon, InFlight
        <3> QED BY <3>2, <3>3, <3>4
    <2>4. ASSUME NEW r \in Bindings, NEW k \in Kinds, NEW o \in {"allow", "deny"},
                 NEW s \in Sources, RecordDecision(e, r, k, o, s)
          PROVE  StoreInv'
        <3>1. decisions \subseteq decisions'
            BY <2>4 DEF RecordDecision
        <3> QED BY <2>4, <3>1 DEF RecordDecision, PermitBudget, EpochsPast,
                FencedEffectsAreStale, LiveLeasesAreCurrent, ApprovedAsCommitted
    <2>5. CASE AbortEffect(e)
        <3>1. effects[e].state \in Uncommitted
            BY <2>5 DEF AbortEffect, Allowed, Abandoned, Uncommitted
        <3> QED BY <2>5, <3>1, MovePreserves
                DEF AbortEffect, Unattempted, Uncommitted, PastHorizon, InFlight
    <2>6. CASE ExpireEffect(e)
        BY <2>6 DEF ExpireEffect, PermitBudget, EpochsPast, FencedEffectsAreStale,
           LiveLeasesAreCurrent, ApprovedAsCommitted
    <2> QED BY <1>4, <2>1, <2>2, <2>3, <2>4, <2>5, <2>6 DEF EvaluationStep
<1>5. ASSUME NEW e \in Effects, CommitStep(e) PROVE StoreInv'
    <2>1. CASE BeginEffectCommit(e)
        <3>1. effects[e].state = "ready" /\ SetState(e, "commit_intent")
            BY <2>1 DEF BeginEffectCommit, HorizonHolds
        <3>2. PermitBudget' /\ EpochsPast' /\ FencedEffectsAreStale' /\ LiveLeasesAreCurrent'
            BY <2>1, <3>1, SetStateRows DEF BeginEffectCommit, PermitBudget, EpochsPast,
               FencedEffectsAreStale, LiveLeasesAreCurrent, Unattempted, Uncommitted,
               StoreTypeOK
        <3>3. ApprovedAsCommitted'
            BY <2>1, <3>1, SetStateRows, DecisionsHoldApproves
            DEF BeginEffectCommit, ApprovedAsCommitted
        <3> QED BY <3>2, <3>3
    <2>2. CASE MarkCommitting(e)
        <3>1. effects[e].state = "commit_intent" /\ SetState(e, "committing")
            BY <2>2, CommittingOnlyFromIntent DEF MarkCommitting
        <3>2. PermitBudget'
            BY <2>2, <3>1, SetStateRows
            DEF MarkCommitting, PermitBudget, Unattempted, Uncommitted, StoreTypeOK
        <3>3. EpochsPast' /\ FencedEffectsAreStale' /\ LiveLeasesAreCurrent'
            BY <2>2, <3>1, SetStateRows DEF MarkCommitting, EpochsPast,
               FencedEffectsAreStale, LiveLeasesAreCurrent, Uncommitted
        <3>4. ApprovedAsCommitted'
            BY <2>2, <3>1, SetStateRows
            DEF MarkCommitting, ApprovedAsCommitted, PastHorizon, InFlight
        <3> QED BY <3>2, <3>3, <3>4
    <2>3. ASSUME NEW o \in {"committed", "failed", "commit_unknown"}, CompleteEffect(e, o)
          PROVE  StoreInv'
        <3>1. SetState(e, o) /\ (o = "failed" \/ effects[e].state \in InFlight)
            BY <2>3 DEF CompleteEffect, Allowed, Abandoned, InFlight
        <3> QED BY <2>3, <3>1, MovePreserves
                DEF CompleteEffect, Unattempted, Uncommitted, PastHorizon, InFlight
    <2>4. ASSUME NEW o \in Outcomes, ReconcileEffect(e, o) PROVE StoreInv'
        <3>1. effects[e].state \in InFlight /\ SetState(e, Reconciled(o))
            BY <2>4 DEF ReconcileEffect, Reconcilable
        <3>2. CASE o = "not_committed"
            <4>1. Reconciled(o) = "ready"
                BY <3>2 DEF Reconciled
            <4>2. /\ releases' = [releases EXCEPT ![e] = @ + 1]
                  /\ UNCHANGED <<epoch, leases, decisions, permits>>
                BY <2>4, <3>2 DEF ReconcileEffect, rowVars
            <4>3. PermitBudget'
                BY <3>1, <4>1, <4>2, SetStateRows
                DEF PermitBudget, Unattempted, Uncommitted, InFlight, StoreTypeOK
            <4>4. EpochsPast' /\ LiveLeasesAreCurrent'
                BY <3>1, <4>2, SetStateRows DEF EpochsPast, LiveLeasesAreCurrent
            <4>5. FencedEffectsAreStale'
                BY <3>1, <4>2, SetStateRows DEF FencedEffectsAreStale, StoreTypeOK
            <4>6. ApprovedAsCommitted'
                BY <3>1, <4>1, <4>2, SetStateRows
                DEF ApprovedAsCommitted, PastHorizon, InFlight
            <4> QED BY <4>3, <4>4, <4>5, <4>6
        <3>3. CASE o # "not_committed"
            <4>1. Reconciled(o) \in {"committed", "commit_unknown", "failed"}
                BY <3>3 DEF Reconciled, Outcomes
            <4>2. UNCHANGED <<epoch, leases, decisions, permits, releases>>
                BY <2>4, <3>3 DEF ReconcileEffect
            <4> QED BY <3>1, <4>1, <4>2, MovePreserves
                    DEF Unattempted, Uncommitted, PastHorizon, InFlight
        <3> QED BY <3>2, <3>3
    <2> QED BY <1>5, <2>1, <2>2, <2>3, <2>4 DEF CommitStep
<1>6. CASE UNCHANGED storeVars
    BY <1>6 DEF storeVars, rowVars, PermitBudget, EpochsPast, FencedEffectsAreStale,
       LiveLeasesAreCurrent, ApprovedAsCommitted
<1> QED BY <1>1, <1>2, <1>3, <1>4, <1>5, <1>6 DEF StoreNext

\* The invariant holds of every state the transactions reach.
THEOREM StoreInvariant == StoreSpec => []StoreInv
<1>1. StoreInit => StoreInv
    BY DEF StoreInit, StoreInv, PermitBudget, EpochsPast, FencedEffectsAreStale,
       LiveLeasesAreCurrent, ApprovedAsCommitted, NoEffect, PastHorizon, InFlight,
       Uncommitted, Unattempted
<1>2. StoreTypeOK /\ StoreInv /\ [StoreNext]_storeVars => StoreInv'
    BY StoreStepInv
<1> QED BY <1>1, <1>2, StoreTypes, PTL DEF StoreSpec

-----------------------------------------------------------------------------
(* The safety properties.                                                  *)

\* mark_committing never licenses a second actuation of an effect that no
\* reconciliation released.
THEOREM NoBlindRetry == StoreSpec => []RetryNeedsRelease
<1>1. StoreTypeOK /\ StoreInv => RetryNeedsRelease
    BY DEF StoreTypeOK, StoreInv, PermitBudget, RetryNeedsRelease
<1> QED BY <1>1, StoreTypes, StoreInvariant, PTL

\* The fence leaves nothing of an older epoch this side of the horizon, except
\* what reconciliation put back there.
THEOREM FenceHolds == StoreSpec => []FencedEffectsAreStale
<1>1. StoreInv => FencedEffectsAreStale
    BY DEF StoreInv
<1> QED BY <1>1, StoreInvariant, PTL

\* A lease that is live belongs to the current epoch.
THEOREM LeasesAreFenced == StoreSpec => []LiveLeasesAreCurrent
<1>1. StoreInv => LiveLeasesAreCurrent
    BY DEF StoreInv
<1> QED BY <1>1, StoreInvariant, PTL

\* Whatever is past the horizon was allowed by every required kind of decision,
\* for exactly the revision, payload, epoch and trajectory version it has.
THEOREM HorizonIsApproved == StoreSpec => []ApprovedAsCommitted
<1>1. StoreInv => ApprovedAsCommitted
    BY DEF StoreInv
<1> QED BY <1>1, StoreInvariant, PTL

-----------------------------------------------------------------------------
(* Refinement of CommitHorizon.                                            *)

phaseBar == [e \in Effects |-> PhaseOf(effects[e].state)]
bornBar  == [e \in Effects |-> effects[e].epoch]

\* What the abstract phase of each state is.
LEMMA Phases ==
    ASSUME NEW state
    PROVE  /\ state = "absent" => PhaseOf(state) = "none"
           /\ state \in Uncommitted => PhaseOf(state) = "open"
           /\ state \in InFlight => PhaseOf(state) = "crossed"
           /\ state = "committed" => PhaseOf(state) = "committed"
           /\ state \in {"aborted", "expired", "stale", "failed"} => PhaseOf(state) = "closed"
BY DEF PhaseOf, Uncommitted, InFlight

\* Changing the state of one row changes its phase and nothing else abstract.
LEMMA SetStatePhase ==
    ASSUME StoreTypeOK, NEW e \in Effects, NEW to, SetState(e, to)
    PROVE  /\ phaseBar' = [phaseBar EXCEPT ![e] = PhaseOf(to)]
           /\ phaseBar[e] = PhaseOf(effects[e].state)
           /\ bornBar' = bornBar
<1>1. \A f \in Effects : PhaseOf(effects'[f].state) =
          IF f = e THEN PhaseOf(to) ELSE PhaseOf(effects[f].state)
    BY SetStateRows
<1>2. phaseBar' = [phaseBar EXCEPT ![e] = PhaseOf(to)]
    BY <1>1 DEF phaseBar
<1>3. bornBar' = bornBar
    BY SetStateRows DEF bornBar
<1> QED BY <1>2, <1>3 DEF phaseBar

\* Moving a row between states of one phase is invisible.
LEMMA SamePhaseStutters ==
    ASSUME StoreTypeOK, NEW e \in Effects, NEW to, SetState(e, to),
           PhaseOf(to) = PhaseOf(effects[e].state)
    PROVE  phaseBar' = phaseBar /\ bornBar' = bornBar
BY SetStatePhase DEF phaseBar

\* What every step of the abstract specification says, over the mapping.
LEMMA AbstractSteps ==
    ASSUME NEW e \in Effects
    PROVE  /\ /\ phaseBar[e] = "open" /\ phaseBar' = [phaseBar EXCEPT ![e] = "closed"]
              /\ UNCHANGED <<epoch, bornBar, permits, releases>>
              => Horizon!Next
           /\ /\ phaseBar[e] = "none" /\ phaseBar' = [phaseBar EXCEPT ![e] = "open"]
              /\ bornBar' = [bornBar EXCEPT ![e] = epoch]
              /\ UNCHANGED <<epoch, permits, releases>>
              => Horizon!Next
           /\ /\ bornBar[e] = epoch
              /\ phaseBar[e] = "open" /\ phaseBar' = [phaseBar EXCEPT ![e] = "crossed"]
              /\ UNCHANGED <<epoch, bornBar, permits, releases>>
              => Horizon!Next
           /\ /\ phaseBar[e] = "crossed" /\ permits[e] <= releases[e]
              /\ permits' = [permits EXCEPT ![e] = @ + 1]
              /\ UNCHANGED <<epoch, phaseBar, bornBar, releases>>
              => Horizon!Next
           /\ /\ phaseBar[e] = "crossed"
              /\ \E to \in {"committed", "closed"} : phaseBar' = [phaseBar EXCEPT ![e] = to]
              /\ UNCHANGED <<epoch, bornBar, permits, releases>>
              => Horizon!Next
           /\ /\ phaseBar[e] = "crossed" /\ phaseBar' = [phaseBar EXCEPT ![e] = "open"]
              /\ releases' = [releases EXCEPT ![e] = @ + 1]
              /\ UNCHANGED <<epoch, bornBar, permits>>
              => Horizon!Next
<1> USE DEF phaseBar, bornBar, Horizon!Next, Horizon!Move
<1>1. Horizon!Withdraw(e) => Horizon!Next  OBVIOUS
<1>2. Horizon!Propose(e) => Horizon!Next   OBVIOUS
<1>3. Horizon!Cross(e) => Horizon!Next     OBVIOUS
<1>4. Horizon!Actuate(e) => Horizon!Next   OBVIOUS
<1>5. Horizon!Settle(e) => Horizon!Next    OBVIOUS
<1>6. Horizon!Release(e) => Horizon!Next   OBVIOUS
<1> HIDE DEF Horizon!Next
<1> QED BY <1>1, <1>2, <1>3, <1>4, <1>5, <1>6 DEF Horizon!Withdraw, Horizon!Propose,
        Horizon!Cross, Horizon!Actuate, Horizon!Settle, Horizon!Release

\* Every transaction is a step of CommitHorizon or invisible to it.
LEMMA StepsOfHorizon ==
    ASSUME StoreTypeOK, StoreInv, [StoreNext]_storeVars
    PROVE  Horizon!Next \/ UNCHANGED <<epoch, phaseBar, bornBar, permits, releases>>
<1> DEFINE Same == UNCHANGED <<epoch, phaseBar, bornBar, permits, releases>>
<1> HIDE DEF Same
<1>0. UNCHANGED <<epoch, effects, permits, releases>> => Same
    BY DEF Same, phaseBar, bornBar
<1>1. CASE EpisodeStep
    <2>1. CASE AdvanceEpoch
        <3>1. bornBar' = bornBar
            BY <2>1 DEF AdvanceEpoch, StaleOlder, StoreTypeOK, EffectRows, bornBar
        <3>2. ASSUME NEW e \in Effects
              PROVE  PhaseOf(effects'[e].state) =
                         IF PhaseOf(effects[e].state) = "open" THEN "closed"
                         ELSE PhaseOf(effects[e].state)
            <4>1. effects[e].state \in Uncommitted =>
                      /\ effects'[e].state = "stale"
                      /\ PhaseOf(effects[e].state) = "open"
                BY <2>1, Phases DEF AdvanceEpoch, StaleOlder, StoreTypeOK, EffectRows,
                   StoreInv, EpochsPast
            <4>2. effects[e].state \notin Uncommitted =>
                      /\ effects'[e].state = effects[e].state
                      /\ PhaseOf(effects[e].state) # "open"
                BY <2>1 DEF AdvanceEpoch, StaleOlder, StoreTypeOK, PhaseOf
            <4> QED BY <4>1, <4>2, Phases
        <3>3. Horizon!Fence
            BY <2>1, <3>1, <3>2 DEF AdvanceEpoch, Horizon!Fence, bornBar
        <3> QED BY <3>3 DEF Horizon!Next
    <2>2. CASE ~AdvanceEpoch
        BY <1>0, <1>1, <2>2 DEF EpisodeStep, SetEpisodeState, UpdateTrajectory, rowVars, Same
    <2> QED BY <2>1, <2>2
<1>2. ASSUME NEW l \in Leases, LeaseStep(l) PROVE Same
    BY <1>0, <1>2 DEF LeaseStep, PutLease, RevokeLease, ExpireLease
<1>3. ASSUME NEW d \in decisions, ExpireDecision(d) PROVE Same
    BY <1>0, <1>3 DEF ExpireDecision
<1>4. ASSUME NEW e \in Effects, EvaluationStep(e) PROVE Horizon!Next \/ Same
    <2>1. ASSUME NEW l \in Leases, NEW p \in Payloads, NEW ep \in 1..epoch,
                 NEW tv \in 0..trajectory, PutEffect(e, l, p, ep, tv)
          PROVE  Horizon!Next
        <3>1. /\ effects[e].state = "absent"
              /\ effects'[e].state = "proposed" /\ effects'[e].epoch = epoch
              /\ \A f \in Effects : f # e => effects'[f] = effects[f]
            BY <2>1 DEF PutEffect, StoreTypeOK
        <3>2. phaseBar[e] = "none" /\ phaseBar' = [phaseBar EXCEPT ![e] = "open"]
            BY <3>1, Phases DEF phaseBar, Uncommitted
        <3>3. bornBar' = [bornBar EXCEPT ![e] = epoch]
            BY <3>1 DEF bornBar
        <3> QED BY <2>1, <3>2, <3>3, AbstractSteps DEF PutEffect
    <2>2. CASE PrepareExistingEffect(e) \/ MarkEvaluating(e) \/ MarkReady(e)
        <3>1. PICK to \in {"prepared", "evaluating", "ready"} :
                  /\ SetState(e, to)
                  /\ effects[e].state \in Uncommitted
                  /\ UNCHANGED <<epoch, permits, releases>>
            BY <2>2 DEF PrepareExistingEffect, Preparable, MarkEvaluating, MarkReady,
               Transition, Allowed, Abandoned, Uncommitted
        <3> QED BY <3>1, SamePhaseStutters, Phases DEF Uncommitted, Same
    <2>3. ASSUME NEW p \in Payloads, UpdateEffectRevision(e, p) PROVE Same
        <3>1. /\ effects'[e].state = "prepared"
              /\ effects'[e].epoch = effects[e].epoch
              /\ effects[e].state \in Uncommitted
              /\ \A f \in Effects : f # e => effects'[f] = effects[f]
            BY <2>3 DEF UpdateEffectRevision, Revised, Uncommitted, StoreTypeOK
        <3>2. phaseBar' = phaseBar /\ bornBar' = bornBar
            BY <3>1, Phases DEF phaseBar, bornBar, Uncommitted
        <3> QED BY <2>3, <3>2 DEF UpdateEffectRevision, Same
    <2>4. ASSUME NEW r \in Bindings, NEW k \in Kinds, NEW o \in {"allow", "deny"},
                 NEW s \in Sources, RecordDecision(e, r, k, o, s)
          PROVE  Same
        BY <1>0, <2>4 DEF RecordDecision
    <2>5. CASE AbortEffect(e)
        <3>1. effects[e].state \in Uncommitted /\ SetState(e, "aborted")
            BY <2>5 DEF AbortEffect, Allowed, Abandoned, Uncommitted
        <3> QED BY <2>5, <3>1, SetStatePhase, Phases, AbstractSteps DEF AbortEffect
    <2>6. CASE ExpireEffect(e)
        BY <1>0, <2>6 DEF ExpireEffect
    <2> QED BY <1>4, <2>1, <2>2, <2>3, <2>4, <2>5, <2>6 DEF EvaluationStep
<1>5. ASSUME NEW e \in Effects, CommitStep(e) PROVE Horizon!Next \/ Same
    <2>1. CASE BeginEffectCommit(e)
        <3>1. /\ effects[e].state \in Uncommitted /\ SetState(e, "commit_intent")
              /\ bornBar[e] = epoch
            BY <2>1 DEF BeginEffectCommit, HorizonHolds, Uncommitted, bornBar
        <3>2. phaseBar[e] = "open" /\ phaseBar' = [phaseBar EXCEPT ![e] = "crossed"]
            BY <3>1, SetStatePhase, Phases DEF InFlight
        <3> QED BY <2>1, <3>1, <3>2, SetStatePhase, AbstractSteps DEF BeginEffectCommit
    <2>2. CASE MarkCommitting(e)
        <3>1. effects[e].state = "commit_intent" /\ SetState(e, "committing")
            BY <2>2, CommittingOnlyFromIntent DEF MarkCommitting
        <3>2. permits[e] <= releases[e]
            BY <3>1 DEF StoreInv, PermitBudget, Unattempted, StoreTypeOK
        <3>3. phaseBar[e] = "crossed" /\ phaseBar' = phaseBar /\ bornBar' = bornBar
            BY <3>1, SetStatePhase, SamePhaseStutters, Phases DEF InFlight
        <3> QED BY <2>2, <3>2, <3>3, AbstractSteps DEF MarkCommitting
    <2>3. ASSUME NEW o \in {"committed", "failed", "commit_unknown"}, CompleteEffect(e, o)
          PROVE  Horizon!Next \/ Same
        <3>1. /\ SetState(e, o)
              /\ \/ effects[e].state \in InFlight
                 \/ effects[e].state \in Uncommitted /\ o = "failed"
              /\ UNCHANGED <<epoch, permits, releases>>
            BY <2>3 DEF CompleteEffect, Allowed, Abandoned, InFlight, Uncommitted
        <3>2. CASE effects[e].state \in InFlight /\ o \in InFlight
            BY <3>1, <3>2, SamePhaseStutters, Phases DEF Same
        <3>3. CASE effects[e].state \in InFlight /\ o \notin InFlight
            <4>1. PhaseOf(o) \in {"committed", "closed"}
                BY <3>3, Phases DEF InFlight
            <4> QED BY <3>1, <3>3, <4>1, SetStatePhase, Phases, AbstractSteps
        <3>4. CASE effects[e].state \in Uncommitted /\ o = "failed"
            BY <3>1, <3>4, SetStatePhase, Phases, AbstractSteps
        <3> QED BY <3>1, <3>2, <3>3, <3>4
    <2>4. ASSUME NEW o \in Outcomes, ReconcileEffect(e, o) PROVE Horizon!Next \/ Same
        <3>1. /\ effects[e].state \in InFlight /\ phaseBar[e] = "crossed"
              /\ SetState(e, Reconciled(o))
              /\ UNCHANGED <<epoch, permits>>
            BY <2>4, Phases DEF ReconcileEffect, Reconcilable, phaseBar, rowVars
        <3>2. CASE o = "not_committed"
            <4>1. phaseBar' = [phaseBar EXCEPT ![e] = "open"] /\ bornBar' = bornBar
                BY <3>1, <3>2, SetStatePhase, Phases DEF Reconciled, Uncommitted
            <4> QED BY <2>4, <3>1, <3>2, <4>1, AbstractSteps DEF ReconcileEffect
        <3>3. CASE o # "not_committed"
            <4>1. releases' = releases
                BY <2>4, <3>3 DEF ReconcileEffect
            <4>2. CASE o = "unknown"
                BY <3>1, <4>1, <4>2, SamePhaseStutters, Phases DEF Reconciled, InFlight, Same
            <4>3. CASE o # "unknown"
                <5>1. PhaseOf(Reconciled(o)) \in {"committed", "closed"}
                    BY <3>3, <4>3, Phases DEF Reconciled, Outcomes
                <5> QED BY <3>1, <4>1, <5>1, SetStatePhase, AbstractSteps
            <4> QED BY <4>2, <4>3
        <3> QED BY <3>2, <3>3
    <2> QED BY <1>5, <2>1, <2>2, <2>3, <2>4 DEF CommitStep
<1>6. CASE UNCHANGED storeVars
    BY <1>0, <1>6 DEF storeVars, rowVars, Same
<1> QED BY <1>1, <1>2, <1>3, <1>4, <1>5, <1>6 DEF StoreNext, Same

\* So the store implements CommitHorizon.
THEOREM StoreImplementsHorizon == StoreSpec => ImplementsHorizon
<1>1. StoreInit => Horizon!Init
    <2> SUFFICES ASSUME StoreInit PROVE Horizon!Init
        OBVIOUS
    <2>1. ASSUME NEW e \in Effects
          PROVE  PhaseOf(effects[e].state) = "none" /\ effects[e].epoch = 0
        BY Phases DEF StoreInit, NoEffect
    <2> QED BY <2>1 DEF StoreInit, Horizon!Init
<1>2. StoreTypeOK /\ StoreInv /\ [StoreNext]_storeVars => [Horizon!Next]_(Horizon!vars)
    BY StepsOfHorizon DEF Horizon!vars, phaseBar, bornBar
<1> QED BY <1>1, <1>2, StoreTypes, StoreInvariant, PTL
        DEF StoreSpec, ImplementsHorizon, Horizon!Spec
=============================================================================
