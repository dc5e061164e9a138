----------------------------- MODULE EffectStore -----------------------------
(***************************************************************************)
(* The durable authority of one episode (Autonomic.Store.Postgres): the    *)
(* episode row, its capability leases, its effects and the decisions       *)
(* recorded about them.  Every public function of the store is one SQL     *)
(* transaction that first locks the episode row, so one action models one  *)
(* transaction; a transaction that rolls back leaves the state alone and   *)
(* is the absence of a step.  The order in which callers run transactions  *)
(* is not constrained here: EffectBroker adds the tasks that call them.    *)
(*                                                                         *)
(* Abstractions: one episode (rows of different episodes share nothing),   *)
(* one policy version (no function of the store changes it), no columns    *)
(* that are written and never read again, and time as flags: a lease, an   *)
(* effect or a decision still in its lifetime may leave it at any moment   *)
(* and never returns.  Definitions marked "Slip" are not used: each is the *)
(* definition below it with a plausible mistake, which a property catches. *)
(***************************************************************************)
EXTENDS EffectState, Naturals

CONSTANTS
    Effects,        \* effect identifiers
    Leases,         \* capability lease identifiers
    NoLease,        \* the lease of an absent effect
    Payloads,       \* payload digests
    NoPayload,      \* the payload of an absent effect
    Kinds,          \* kinds of decision
    Sources,        \* source_ref values of decisions
    Required,       \* Required[e]: decisions the policy demands for e's class
    EpisodeStates,  \* controller states the episode row may record
    MaxEpoch, MaxRevision, MaxTrajectory, MaxReleases   \* bounds

ASSUME StoreAssumption ==
    /\ NoLease \notin Leases /\ NoPayload \notin Payloads
    /\ Required \in [Effects -> SUBSET Kinds]
    /\ "bootstrapping" \in EpisodeStates
    /\ MaxEpoch \in Nat \ {0} /\ MaxRevision \in Nat \ {0}   \* both start at 1
    /\ MaxTrajectory \in Nat /\ MaxReleases \in Nat

VARIABLES
    episodeState,   \* episodes.state
    epoch,          \* episodes.current_epoch
    trajectory,     \* episodes.trajectory_version
    leases,         \* capability_leases rows
    effects,        \* effects rows
    lapsed,         \* effects whose expires_at_ms has passed
    decisions,      \* effect_decisions rows
    permits,        \* history: successful mark_committing calls per effect
    releases        \* history: not_committed reconciliations per effect

rowVars   == <<leases, effects, lapsed, decisions>>
storeVars == <<episodeState, epoch, trajectory, rowVars, permits, releases>>

LeaseRows  == [state : {"unissued", "live", "expired", "revoked"}, epoch : Nat]
Vectors    == [epoch : Nat, trajectory : Nat, revision : Nat]
EffectRows == [state    : States \cup {"absent"},
               epoch    : Nat,
               lease    : Leases \cup {NoLease},
               revision : Nat,
               payload  : Payloads \cup {NoPayload},
               vector   : Vectors]
DecisionRows == [effect : Effects, revision : Nat, kind : Kinds,
                 decision : {"allow", "deny"}, source : Sources,
                 epoch : Nat, trajectory : Nat,
                 payload : Payloads \cup {NoPayload}, fresh : BOOLEAN]

NoVector == [epoch |-> 0, trajectory |-> 0, revision |-> 0]

NoEffect == [state |-> "absent", epoch |-> 0, lease |-> NoLease, revision |-> 0,
             payload |-> NoPayload, vector |-> NoVector]

StoreInit ==
    /\ episodeState = "bootstrapping"
    /\ epoch = 1
    /\ trajectory = 0
    /\ leases = [l \in Leases |-> [state |-> "unissued", epoch |-> 0]]
    /\ effects = [e \in Effects |-> NoEffect]
    /\ lapsed = {}
    /\ decisions = {}
    /\ permits = [e \in Effects |-> 0]
    /\ releases = [e \in Effects |-> 0]

SetState(e, to) == effects' = [effects EXCEPT ![e].state = to]

-----------------------------------------------------------------------------
(* The episode row and its leases.                                         *)

\* set_episode_state/3 writes whatever the controller asks for.
SetEpisodeState(s) ==
    /\ episodeState' = s
    /\ UNCHANGED <<epoch, trajectory, rowVars, permits, releases>>

\* What the epoch fence does to the older rows.
RevokeOlder(newEpoch) ==
    leases' = [l \in Leases |->
        IF leases[l].state \in {"live", "expired"} /\ leases[l].epoch < newEpoch
        THEN [leases[l] EXCEPT !.state = "revoked"]
        ELSE leases[l]]

\* Slip: the fence forgets effects that are ready.
StaleOlderNotReady(newEpoch) ==
    effects' = [e \in Effects |->
        IF effects[e].state \in Uncommitted \ {"ready"} /\ effects[e].epoch < newEpoch
        THEN [effects[e] EXCEPT !.state = "stale"]
        ELSE effects[e]]

StaleOlder(newEpoch) ==
    effects' = [e \in Effects |->
        IF effects[e].state \in Uncommitted /\ effects[e].epoch < newEpoch
        THEN [effects[e] EXCEPT !.state = "stale"]
        ELSE effects[e]]

AdvanceEpoch ==
    /\ epoch < MaxEpoch
    /\ epoch' = epoch + 1
    /\ RevokeOlder(epoch')
    /\ StaleOlder(epoch')
    /\ UNCHANGED <<episodeState, trajectory, lapsed, decisions, permits, releases>>

\* Slip: put_lease trusts the epoch the governor read.
PutLeaseUnchecked(l, leaseEpoch) ==
    /\ leases[l].state = "unissued"
    /\ leases' = [leases EXCEPT ![l] = [state |-> "live", epoch |-> leaseEpoch]]
    /\ UNCHANGED <<episodeState, epoch, trajectory, effects, lapsed, decisions,
                   permits, releases>>

\* put_lease/1 refuses a lease drawn up under another epoch.
PutLease(l, leaseEpoch) ==
    /\ leases[l].state = "unissued"
    /\ leaseEpoch = epoch
    /\ leases' = [leases EXCEPT ![l] = [state |-> "live", epoch |-> leaseEpoch]]
    /\ UNCHANGED <<episodeState, epoch, trajectory, effects, lapsed, decisions,
                   permits, releases>>

RevokeLease(l) ==
    /\ leases[l].state # "unissued"
    /\ leases' = [leases EXCEPT ![l].state = "revoked"]
    /\ UNCHANGED <<episodeState, epoch, trajectory, effects, lapsed, decisions,
                   permits, releases>>

\* update_trajectory/2, for a Homeostat state of the given epoch and version.
UpdateTrajectory(stateEpoch, version) ==
    /\ stateEpoch = epoch
    /\ version >= trajectory
    /\ trajectory' = version
    /\ UNCHANGED <<episodeState, epoch, rowVars, permits, releases>>

-----------------------------------------------------------------------------
(* Time.                                                                   *)

ExpireLease(l) ==
    /\ leases[l].state = "live"
    /\ leases' = [leases EXCEPT ![l].state = "expired"]
    /\ UNCHANGED <<episodeState, epoch, trajectory, effects, lapsed, decisions,
                   permits, releases>>

ExpireEffect(e) ==
    /\ effects[e].state # "absent"
    /\ lapsed' = lapsed \cup {e}
    /\ UNCHANGED <<episodeState, epoch, trajectory, leases, effects, decisions,
                   permits, releases>>

ExpireDecision(d) ==
    /\ d \in decisions /\ d.fresh
    /\ decisions' = (decisions \ {d}) \cup {[d EXCEPT !.fresh = FALSE]}
    /\ UNCHANGED <<episodeState, epoch, trajectory, leases, effects, lapsed,
                   permits, releases>>

-----------------------------------------------------------------------------
(* Proposal and evaluation.                                                *)

\* put_effect/1 inserts the row the broker built from an episode it read
\* earlier (epoch ep, trajectory version tv); only the epoch is re-checked.
PutEffect(e, l, p, ep, tv) ==
    /\ effects[e].state = "absent"
    /\ ep = epoch
    /\ effects' = [effects EXCEPT ![e] =
          [state |-> "proposed", epoch |-> ep, lease |-> l, revision |-> 1, payload |-> p,
           vector |-> [epoch |-> ep, trajectory |-> tv, revision |-> 1]]]
    /\ UNCHANGED <<episodeState, epoch, trajectory, leases, lapsed, decisions,
                   permits, releases>>

\* The checks prepare_existing_effect and begin_effect_commit share.
LeaseHolds(e) ==
    /\ leases[effects[e].lease].epoch = effects[e].epoch
    /\ leases[effects[e].lease].state = "live"

VectorHolds(e) ==
    /\ effects[e].vector.epoch = epoch
    /\ effects[e].vector.trajectory = trajectory
    /\ effects[e].vector.revision = effects[e].revision

Preparable(e) ==
    /\ effects[e].state = "proposed"
    /\ effects[e].epoch = epoch
    /\ LeaseHolds(e)
    /\ VectorHolds(e)

PrepareExistingEffect(e) ==
    /\ Preparable(e)
    /\ SetState(e, "prepared")
    /\ UNCHANGED <<episodeState, epoch, trajectory, leases, lapsed, decisions,
                   permits, releases>>

\* transition/4 for the two evaluation steps.
Transition(e, to) ==
    /\ Allowed(effects[e].state, to)
    /\ SetState(e, to)
    /\ UNCHANGED <<episodeState, epoch, trajectory, leases, lapsed, decisions,
                   permits, releases>>

MarkEvaluating(e) == Transition(e, "evaluating")
MarkReady(e)      == Transition(e, "ready")

\* update_effect_revision/2: a new revision, back to "prepared".
Revised(row, p) ==
    [state |-> "prepared", epoch |-> row.epoch, lease |-> row.lease,
     revision |-> row.revision + 1, payload |-> p,
     vector |-> [epoch |-> row.vector.epoch, trajectory |-> row.vector.trajectory,
                 revision |-> row.revision + 1]]

UpdateEffectRevision(e, p) ==
    /\ effects[e].state \in {"prepared", "evaluating", "ready"}
    /\ effects[e].revision < MaxRevision
    /\ effects' = [effects EXCEPT ![e] = Revised(effects[e], p)]
    /\ UNCHANGED <<episodeState, epoch, trajectory, leases, lapsed, decisions,
                   permits, releases>>

\* validate_decision_binding!/3 for a decision taken on the reading r.
Binds(e, r) ==
    /\ effects[e].epoch = epoch
    /\ r.revision = effects[e].revision
    /\ r.epoch = effects[e].epoch
    /\ r.trajectory = effects[e].vector.trajectory
    /\ r.payload = effects[e].payload

\* The row record_effect_decision looks up before it inserts.
Recorded(e, kind, source) ==
    {d \in decisions : /\ d.effect = e /\ d.revision = effects[e].revision
                       /\ d.kind = kind /\ d.source = source}

RecordDecision(e, r, kind, outcome, source) ==
    /\ effects[e].state # "absent"
    /\ Binds(e, r)
    /\ Recorded(e, kind, source) = {}
    /\ decisions' = decisions \cup
          {[effect |-> e, revision |-> effects[e].revision, kind |-> kind,
            decision |-> outcome, source |-> source, epoch |-> effects[e].epoch,
            trajectory |-> effects[e].vector.trajectory,
            payload |-> effects[e].payload, fresh |-> TRUE]}
    /\ UNCHANGED <<episodeState, epoch, trajectory, leases, effects, lapsed,
                   permits, releases>>

\* Slip: an operator may abort while the commit is only an intent.
AbortEffectLate(e) ==
    /\ effects[e].state \in Uncommitted \cup {"commit_intent", "committing"}
    /\ SetState(e, "aborted")
    /\ UNCHANGED <<episodeState, epoch, trajectory, leases, lapsed, decisions,
                   permits, releases>>

\* abort_effect/2 before the horizon; later it is refused.
AbortEffect(e) ==
    /\ Allowed(effects[e].state, "aborted")
    /\ SetState(e, "aborted")
    /\ UNCHANGED <<episodeState, epoch, trajectory, leases, lapsed, decisions,
                   permits, releases>>

-----------------------------------------------------------------------------
(* The commit horizon and what follows it.                                 *)

\* Slip: decisions about earlier revisions count.
DecisionsForAnyRevision(e) == {d \in decisions : d.effect = e}

DecisionsFor(e) ==
    {d \in decisions : d.effect = e /\ d.revision = effects[e].revision}

\* valid_decision?/3
ValidDecision(e, d) ==
    /\ d.decision = "allow"
    /\ d.epoch = effects[e].epoch
    /\ d.trajectory = effects[e].vector.trajectory
    /\ d.payload = effects[e].payload
    /\ d.fresh

\* validate_required_decisions!/3
DecisionsHold(e) ==
    /\ \A d \in DecisionsFor(e) : d.decision # "deny"
    /\ \A k \in Required[e] :
          \E d \in DecisionsFor(e) : d.kind = k /\ ValidDecision(e, d)

\* validate_commit_horizon!/4
HorizonHolds(e) ==
    /\ effects[e].epoch = epoch
    /\ effects[e].state = "ready"
    /\ LeaseHolds(e)
    /\ VectorHolds(e)
    /\ e \notin lapsed

\* Slip: the decisions checked during evaluation are taken to hold still.
BeginEffectCommitUndecided(e) ==
    /\ HorizonHolds(e)
    /\ SetState(e, "commit_intent")
    /\ UNCHANGED <<episodeState, epoch, trajectory, leases, lapsed, decisions,
                   permits, releases>>

BeginEffectCommit(e) ==
    /\ HorizonHolds(e)
    /\ DecisionsHold(e)
    /\ SetState(e, "commit_intent")
    /\ UNCHANGED <<episodeState, epoch, trajectory, leases, lapsed, decisions,
                   permits, releases>>

\* Slip: marking is idempotent, so a second task may actuate as well.
MarkCommittingAgain(e) ==
    /\ effects[e].state \in {"commit_intent", "committing"}
    /\ SetState(e, "committing")
    /\ permits' = [permits EXCEPT ![e] = @ + 1]
    /\ UNCHANGED <<episodeState, epoch, trajectory, leases, lapsed, decisions, releases>>

\* mark_committing/1: from here the caller may actuate the target, once.
MarkCommitting(e) ==
    /\ Allowed(effects[e].state, "committing")
    /\ SetState(e, "committing")
    /\ permits' = [permits EXCEPT ![e] = @ + 1]
    /\ UNCHANGED <<episodeState, epoch, trajectory, leases, lapsed, decisions, releases>>

\* complete_effect/3
CompleteEffect(e, outcome) ==
    /\ outcome \in {"committed", "failed", "commit_unknown"}
    /\ Allowed(effects[e].state, outcome)
    /\ SetState(e, outcome)
    /\ UNCHANGED <<episodeState, epoch, trajectory, leases, lapsed, decisions,
                   permits, releases>>

\* Slip: the answer itself is written into the state column.
ReconciledVerbatim(outcome) == outcome

\* Slip: an unknown answer is read as success.
ReconciledHopeful(outcome) ==
    CASE outcome \in {"committed", "unknown"} -> "committed"
      [] outcome = "not_committed"            -> "ready"
      [] OTHER                                -> "failed"

\* reconcile_effect/3.  not_committed makes the effect ready again, which is
\* no edge of EffectState and asks nothing of the epoch.
Reconciled(outcome) ==
    CASE outcome = "committed"     -> "committed"
      [] outcome = "not_committed" -> "ready"
      [] outcome = "unknown"       -> "commit_unknown"
      [] OTHER                     -> "failed"

Outcomes == {"committed", "not_committed", "unknown", "failed"}

\* Slip: any effect may be reconciled.
ReconcilableAlways(e, outcome) ==
    /\ effects[e].state # "absent"
    /\ outcome = "not_committed" => releases[e] < MaxReleases   \* bound

Reconcilable(e, outcome) ==
    /\ effects[e].state \in InFlight
    /\ outcome = "not_committed" => releases[e] < MaxReleases   \* bound

ReconcileEffect(e, outcome) ==
    /\ Reconcilable(e, outcome)
    /\ SetState(e, Reconciled(outcome))
    /\ releases' = IF outcome = "not_committed"
                   THEN [releases EXCEPT ![e] = @ + 1] ELSE releases
    /\ UNCHANGED <<episodeState, epoch, trajectory, leases, lapsed, decisions, permits>>

-----------------------------------------------------------------------------
EpisodeStep ==
    \/ \E s \in EpisodeStates : SetEpisodeState(s)
    \/ AdvanceEpoch
    \/ \E ep \in 1..epoch, v \in 0..MaxTrajectory : UpdateTrajectory(ep, v)

LeaseStep(l) ==
    \/ \E ep \in 1..epoch : PutLease(l, ep)
    \/ RevokeLease(l)
    \/ ExpireLease(l)

\* What a decision says it was taken on: the row as some caller last read it.
Bindings == [revision : 1..MaxRevision, epoch : 1..MaxEpoch,
             trajectory : 0..MaxTrajectory, payload : Payloads]

EvaluationStep(e) ==
    \/ \E l \in Leases, p \in Payloads, ep \in 1..epoch, tv \in 0..trajectory :
          PutEffect(e, l, p, ep, tv)
    \/ PrepareExistingEffect(e)
    \/ MarkEvaluating(e)
    \/ MarkReady(e)
    \/ \E p \in Payloads : UpdateEffectRevision(e, p)
    \/ \E r \in Bindings, k \in Kinds, o \in {"allow", "deny"}, s \in Sources :
          RecordDecision(e, r, k, o, s)
    \/ AbortEffect(e)
    \/ ExpireEffect(e)

CommitStep(e) ==
    \/ BeginEffectCommit(e)
    \/ MarkCommitting(e)
    \/ \E o \in {"committed", "failed", "commit_unknown"} : CompleteEffect(e, o)
    \/ \E o \in Outcomes : ReconcileEffect(e, o)

StoreNext ==
    \/ EpisodeStep
    \/ \E l \in Leases : LeaseStep(l)
    \/ \E d \in decisions : ExpireDecision(d)
    \/ \E e \in Effects : EvaluationStep(e) \/ CommitStep(e)

StoreSpec == StoreInit /\ [][StoreNext]_storeVars

-----------------------------------------------------------------------------
(* Properties.                                                             *)

\* Every row has the columns the schema gives it.
StoreTypeOK ==
    /\ episodeState \in EpisodeStates
    /\ epoch \in Nat \ {0}
    /\ trajectory \in Nat
    /\ leases \in [Leases -> LeaseRows]
    /\ effects \in [Effects -> EffectRows]
    /\ lapsed \subseteq Effects
    /\ decisions \subseteq DecisionRows
    /\ permits \in [Effects -> Nat]
    /\ releases \in [Effects -> Nat]

\* The target of an effect is actuated at most once more than reconciliation
\* has declared an attempt not committed: begin_effect_commit, mark_committing
\* and the edges of commit_unknown never license a blind retry.
RetryNeedsRelease == \A e \in Effects : permits[e] <= releases[e] + 1

\* advance_epoch leaves no older effect this side of the horizon; one can only
\* come back there by reconciliation.
FencedEffectsAreStale ==
    \A e \in Effects :
        effects[e].state \in Uncommitted /\ effects[e].epoch < epoch => releases[e] > 0

\* put_lease and advance_epoch together: no lease outlives its epoch, whatever
\* the order in which issue, expiry, revocation and fence commit.
LiveLeasesAreCurrent ==
    \A l \in Leases : leases[l].state = "live" => leases[l].epoch = epoch

PastHorizon == InFlight \cup {"committed"}

\* An effect past the horizon holds, for every decision its policy requires,
\* an allow about the very revision, payload, epoch and trajectory version that
\* crossed it: neither update_effect_revision nor a late decision can part them.
ApprovedAsCommitted ==
    \A e \in Effects : effects[e].state \in PastHorizon =>
        \A k \in Required[e] : \E d \in decisions :
            /\ d.effect = e /\ d.kind = k /\ d.decision = "allow"
            /\ d.revision = effects[e].revision
            /\ d.payload = effects[e].payload
            /\ d.epoch = effects[e].epoch
            /\ d.trajectory = effects[e].vector.trajectory

\* The promise of the commit protocol, seen from outside (CommitHorizon).
PhaseOf(state) ==
    CASE state = "absent"           -> "none"
      [] state \in Uncommitted      -> "open"
      [] state \in InFlight         -> "crossed"
      [] state = "committed"        -> "committed"
      [] OTHER                      -> "closed"

Horizon == INSTANCE CommitHorizon WITH
    phase <- [e \in Effects |-> PhaseOf(effects[e].state)],
    born  <- [e \in Effects |-> effects[e].epoch]

\* The transactions implement CommitHorizon: an effect crosses only in its own
\* epoch, is actuated once per crossing, and never leaves a settled outcome.
ImplementsHorizon == Horizon!Spec
=============================================================================
