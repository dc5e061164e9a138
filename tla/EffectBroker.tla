---------------------------- MODULE EffectBroker ----------------------------
(***************************************************************************)
(* Autonomic.EffectBroker: prepare, evaluate, commit, abort and reconcile  *)
(* run in tasks of their own, as many at once as the broker admits.  Each  *)
(* task is a sequence of store transactions (EffectStore), reads made      *)
(* between them and calls of the target adapter, so other tasks, the epoch *)
(* fence, expiry and crashes come between any two of its steps.            *)
(*                                                                         *)
(* The adapter is known by its contract only: a call applies the mutation  *)
(* or not, and its answer is a receipt or "unknown" (which is how the      *)
(* broker records every error, exception and timeout); reconcile looks at  *)
(* the target and says committed, not_committed or unknown, and never      *)
(* claims what the target does not show.                                   *)
(***************************************************************************)
EXTENDS EffectStore, Sequences, FiniteSets

CONSTANTS
    Tasks,      \* slots for concurrent broker tasks
    NoId,       \* the effect of an idle task
    Failures,   \* whether a task may die, or a store or registry call raise
    MaxCrashes  \* bound on restarts of the broker or the node

ASSUME BrokerAssumption ==
    /\ NoId \notin Effects
    /\ IsFiniteSet(Tasks)
    /\ "deterministic" \in Kinds
    /\ Failures \in BOOLEAN
    /\ MaxCrashes \in Nat

VARIABLES
    tasks,      \* what each running task has read and does next
    applied,    \* how often the target mutation of an effect has happened
    boot,       \* the scan of :reconcile_after_boot: still due, done or dropped
    crashes     \* number of restarts so far

brokerVars == <<tasks, applied, boot, crashes>>
vars == <<storeVars, brokerVars>>

\* The order in which do_evaluate collects decisions.
KindOrder == <<"deterministic", "semantic", "slow_verifier", "human">>

NoRow == [state |-> "absent", epoch |-> 0, lease |-> NoLease, revision |-> 0,
          payload |-> NoPayload, trajectory |-> 0]

Idle == [at |-> "idle", effect |-> NoId, row |-> NoRow, stage |-> 0,
         approval |-> FALSE, answer |-> "none", queue |-> {}]

BrokerInit ==
    /\ StoreInit
    /\ tasks = [t \in Tasks |-> Idle]
    /\ applied = [e \in Effects |-> 0]
    /\ boot = "due"
    /\ crashes = 0

\* What fetch_effect/1 and the mark functions return to a task.
RowOf(r) == [state |-> r.state, epoch |-> r.epoch, lease |-> r.lease,
             revision |-> r.revision, payload |-> r.payload,
             trajectory |-> r.vector.trajectory]

Run(t, next) == tasks' = [tasks EXCEPT ![t] = next]
Goto(t, step) == Run(t, [tasks[t] EXCEPT !.at = step])

\* The end of an operation; reconcile_pending has the rest of its list to do.
Done(t) == Run(t, IF tasks[t].queue = {} THEN Idle
                  ELSE [Idle EXCEPT !.at = "pick", !.queue = tasks[t].queue])

\* An operation that ends without writing anything.
GiveUp(t) == Done(t) /\ UNCHANGED <<storeVars, applied, boot, crashes>>

AtStep(t, step) == tasks[t].at = step

Start(t, e, step, row) ==
    /\ AtStep(t, "idle")
    /\ Run(t, [Idle EXCEPT !.at = step, !.effect = e, !.row = row])

Target(t) == tasks[t].effect

-----------------------------------------------------------------------------
(* prepare                                                                 *)

\* fetch_episode: the vector is built from this reading.
PrepareFetch(t, e, l, p) ==
    /\ effects[e].state = "absent"
    /\ \A u \in Tasks : tasks[u].effect # e        \* the id is generated later
    /\ Start(t, e, "authorise", [NoRow EXCEPT !.epoch = epoch, !.lease = l,
                                              !.payload = p, !.trajectory = trajectory])
    /\ UNCHANGED <<storeVars, applied, boot, crashes>>

\* AuthorityGovernor.validate, admission, the payload and adapter.validate.
PrepareAuthorise(t) ==
    LET l == tasks[t].row.lease IN
    /\ AtStep(t, "authorise")
    /\ \/ /\ leases[l].state = "live" /\ leases[l].epoch = epoch
          /\ Goto(t, "put")
          /\ UNCHANGED <<storeVars, applied, boot, crashes>>
       \/ GiveUp(t)

PreparePut(t) ==
    LET r == tasks[t].row IN
    /\ AtStep(t, "put")
    /\ \/ /\ PutEffect(Target(t), r.lease, r.payload, r.epoch, r.trajectory)
          /\ Goto(t, "prepare_row")
          /\ UNCHANGED <<applied, boot, crashes>>
       \/ r.epoch # epoch /\ GiveUp(t)

PrepareRow(t) ==
    /\ AtStep(t, "prepare_row")
    /\ \/ /\ PrepareExistingEffect(Target(t))
          /\ Done(t)
          /\ UNCHANGED <<applied, boot, crashes>>
       \/ ~Preparable(Target(t)) /\ GiveUp(t)

-----------------------------------------------------------------------------
(* evaluate                                                                *)

\* The effect is read, and adapter.validate sees this revision of it.
EvaluateFetch(t, e, approval) ==
    /\ AtStep(t, "idle")
    /\ effects[e].state \in {"prepared", "evaluating"}
    /\ Run(t, [Idle EXCEPT !.at = "ensure_evaluating", !.effect = e,
                           !.row = RowOf(effects[e]), !.approval = approval])
    /\ UNCHANGED <<storeVars, applied, boot, crashes>>

\* ensure_evaluating/1: an effect read as evaluating is used as it was read; the
\* transition hands back the row as it is now.
EnsureEvaluating(t) ==
    LET e == Target(t) IN
    /\ AtStep(t, "ensure_evaluating")
    /\ IF tasks[t].row.state = "evaluating"
       THEN /\ Run(t, [tasks[t] EXCEPT !.at = "decide", !.stage = 1])
            /\ UNCHANGED <<storeVars, applied, boot, crashes>>
       ELSE \/ /\ MarkEvaluating(e)
               /\ Run(t, [tasks[t] EXCEPT !.at = "decide", !.stage = 1,
                                          !.row = RowOf(effects'[e])])
               /\ UNCHANGED <<applied, boot, crashes>>
            \/ ~Allowed(effects[e].state, "evaluating") /\ GiveUp(t)

\* The kinds still to be collected after stage i: the deterministic one always
\* comes first, the others only when the policy requires them.
LaterStages(e, i) == {j \in (i + 1)..Len(KindOrder) : KindOrder[j] \in Required[e]}

Advance(t) ==
    LET later == LaterStages(Target(t), tasks[t].stage) IN
    IF later = {} THEN Goto(t, "ensure_allows")
    ELSE Run(t, [tasks[t] EXCEPT !.stage = CHOOSE j \in later : \A k \in later : j <= k])

\* What a source may say.  The kernel's own decision and a verified approval
\* allow; without an approval, or without an answer, the evaluation stops.
Says(t, kind) ==
    CASE kind = "deterministic" -> {"allow"}
      [] kind = "human"         -> IF tasks[t].approval THEN {"allow"} ELSE {}
      [] OTHER                  -> {"allow", "deny"}

MayBeSilent(t, kind) ==
    kind = "semantic" \/ (kind = "human" /\ ~tasks[t].approval)

Reading(t) == [revision |-> tasks[t].row.revision, epoch |-> tasks[t].row.epoch,
               trajectory |-> tasks[t].row.trajectory, payload |-> tasks[t].row.payload]

\* record_decision/5.  A second decision of the same kind and source about the
\* same revision is accepted only when it is the same to the evidence digest,
\* which holds the time (deterministic) or the request (semantic) it was taken.
Decide(t) ==
    LET e == Target(t)
        kind == KindOrder[tasks[t].stage]
    IN
    /\ AtStep(t, "decide")
    /\ \/ \E outcome \in Says(t, kind), source \in Sources :
             \/ /\ RecordDecision(e, Reading(t), kind, outcome, source)
                /\ Advance(t)
                /\ UNCHANGED <<applied, boot, crashes>>
             \/ /\ Binds(e, Reading(t))
                /\ \E d \in Recorded(e, kind, source) : d.decision = outcome
                /\ Advance(t)
                /\ UNCHANGED <<storeVars, applied, boot, crashes>>
             \/ /\ Binds(e, Reading(t)) => Recorded(e, kind, source) # {}
                /\ GiveUp(t)
       \/ MayBeSilent(t, kind) /\ GiveUp(t)

\* ensure_allows/2 on the decisions about the revision that was evaluated.
AllowsHold(e, revision) ==
    LET found == {d \in decisions : d.effect = e /\ d.revision = revision} IN
    /\ \A d \in found : d.decision # "deny"
    /\ \A k \in Required[e] : \E d \in found : d.kind = k /\ d.decision = "allow"

EnsureAllows(t) ==
    /\ AtStep(t, "ensure_allows")
    /\ IF AllowsHold(Target(t), tasks[t].row.revision)
       THEN Goto(t, "mark_ready") /\ UNCHANGED <<storeVars, applied, boot, crashes>>
       ELSE GiveUp(t)

EvaluateReady(t) ==
    /\ AtStep(t, "mark_ready")
    /\ \/ /\ MarkReady(Target(t))
          /\ Done(t)
          /\ UNCHANGED <<applied, boot, crashes>>
       \/ ~Allowed(effects[Target(t)].state, "ready") /\ GiveUp(t)

-----------------------------------------------------------------------------
(* commit                                                                  *)

\* fetch_effect, fetch_episode and the gate for sensitive classes.
CommitFetch(t, e) ==
    /\ effects[e].state # "absent"
    /\ Start(t, e, "begin", NoRow)
    /\ UNCHANGED <<storeVars, applied, boot, crashes>>

CommitBegin(t) ==
    LET e == Target(t) IN
    /\ AtStep(t, "begin")
    /\ \/ /\ BeginEffectCommit(e)
          /\ Goto(t, "mark_committing")
          /\ UNCHANGED <<applied, boot, crashes>>
       \/ ~(HorizonHolds(e) /\ DecisionsHold(e)) /\ GiveUp(t)

\* Slip: the adapter is handed the row as it was before the transition.
CommitMarkIntent(t) ==
    LET e == Target(t) IN
    /\ AtStep(t, "mark_committing")
    /\ \/ /\ MarkCommitting(e)
          /\ Run(t, [tasks[t] EXCEPT !.at = "call", !.row = RowOf(effects[e])])
          /\ UNCHANGED <<applied, boot, crashes>>
       \/ ~Allowed(effects[e].state, "committing") /\ GiveUp(t)

\* The adapter will be handed the row this transition returns.
CommitMark(t) ==
    LET e == Target(t) IN
    /\ AtStep(t, "mark_committing")
    /\ \/ /\ MarkCommitting(e)
          /\ Run(t, [tasks[t] EXCEPT !.at = "call", !.row = RowOf(effects'[e])])
          /\ UNCHANGED <<applied, boot, crashes>>
       \/ ~Allowed(effects[e].state, "committing") /\ GiveUp(t)

\* Slip: a call without an answer is made again.
CommitCallRetries(t) ==
    /\ AtStep(t, "call")
    /\ \E happens \in BOOLEAN, answer \in {"receipt", "unknown"} :
          /\ answer = "receipt" => happens
          /\ applied[Target(t)] <= 2       \* bound
          /\ applied' = IF happens THEN [applied EXCEPT ![Target(t)] = @ + 1] ELSE applied
          /\ Run(t, [tasks[t] EXCEPT !.at = IF answer = "unknown" THEN "call" ELSE "complete",
                                     !.answer = answer])
    /\ UNCHANGED <<storeVars, boot, crashes>>

\* adapter.commit/2: the mutation happens or not, and the answer may be lost.
CommitCall(t) ==
    /\ AtStep(t, "call")
    /\ \E happens \in BOOLEAN, answer \in {"receipt", "unknown"} :
          /\ answer = "receipt" => happens
          /\ applied' = IF happens THEN [applied EXCEPT ![Target(t)] = @ + 1] ELSE applied
          /\ Run(t, [tasks[t] EXCEPT !.at = "complete", !.answer = answer])
    /\ UNCHANGED <<storeVars, boot, crashes>>

\* Slip: an attempt without a receipt goes back to ready.
CommitCompleteReopens(t) ==
    LET e == Target(t) IN
    /\ AtStep(t, "complete")
    /\ Done(t)
    /\ SetState(e, IF tasks[t].answer = "receipt" THEN "committed" ELSE "ready")
    /\ UNCHANGED <<episodeState, epoch, trajectory, leases, lapsed, decisions, permits,
                   releases, applied, boot, crashes>>

\* Slip: an attempt without a receipt is written off.
CommitCompleteFails(t) ==
    LET e == Target(t)
        outcome == IF tasks[t].answer = "receipt" THEN "committed" ELSE "failed"
    IN
    /\ AtStep(t, "complete")
    /\ \/ /\ CompleteEffect(e, outcome)
          /\ Done(t)
          /\ UNCHANGED <<applied, boot, crashes>>
       \/ ~Allowed(effects[e].state, outcome) /\ GiveUp(t)

CommitComplete(t) ==
    LET e == Target(t)
        outcome == IF tasks[t].answer = "receipt" THEN "committed" ELSE "commit_unknown"
    IN
    /\ AtStep(t, "complete")
    /\ \/ /\ CompleteEffect(e, outcome)
          /\ Done(t)
          /\ UNCHANGED <<applied, boot, crashes>>
       \/ ~Allowed(effects[e].state, outcome) /\ GiveUp(t)

-----------------------------------------------------------------------------
(* reconcile and reconcile_pending                                         *)

ReconcileFetch(t, e) ==
    /\ effects[e].state \in InFlight
    /\ Start(t, e, "query", NoRow)
    /\ UNCHANGED <<storeVars, applied, boot, crashes>>

\* Slip: the scan overlooks intents whose task died before marking them.
PendingWithoutIntents == {e \in Effects : effects[e].state \in InFlight \ {"commit_intent"}}

Pending == {e \in Effects : effects[e].state \in InFlight}

\* The list is read once; do_reconcile reads each effect again when its turn comes.
PendingFetch(t) ==
    /\ AtStep(t, "idle")
    /\ Pending # {}
    /\ Run(t, [Idle EXCEPT !.at = "pick", !.queue = Pending])

ReconcilePending(t) ==
    /\ PendingFetch(t)
    /\ UNCHANGED <<storeVars, applied, boot, crashes>>

\* The timer set by init/1 fires once.  Its scan is dropped, and no other is
\* made, when the broker is saturated, when the pool it shares with the sockets
\* has no task for it, or when the store is away.
ReconcileAfterBoot(t) ==
    /\ boot = "due"
    /\ \/ boot' = "done" /\ PendingFetch(t)
       \/ boot' = "done" /\ AtStep(t, "idle") /\ Pending = {} /\ UNCHANGED tasks
       \/ boot' = "dropped" /\ UNCHANGED tasks
    /\ UNCHANGED <<storeVars, applied, crashes>>

PickPending(t) ==
    /\ AtStep(t, "pick")
    /\ \E e \in tasks[t].queue :
          LET rest == tasks[t].queue \ {e} IN
          Run(t, IF effects[e].state \in InFlight
                 THEN [tasks[t] EXCEPT !.at = "query", !.effect = e, !.queue = rest]
                 ELSE IF rest = {} THEN Idle ELSE [tasks[t] EXCEPT !.queue = rest])
    /\ UNCHANGED <<storeVars, applied, boot, crashes>>

\* adapter.reconcile/2 reads the target.
ReconcileQuery(t) ==
    LET e == Target(t)
        shown == IF applied[e] > 0 THEN "committed" ELSE "not_committed"
    IN
    /\ AtStep(t, "query")
    /\ \E answer \in {"unknown", shown} :
          /\ answer = "not_committed" => releases[e] < MaxReleases    \* bound
          /\ Run(t, [tasks[t] EXCEPT !.at = "settle", !.answer = answer])
    /\ UNCHANGED <<storeVars, applied, boot, crashes>>

ReconcileSettle(t) ==
    LET e == Target(t) IN
    /\ AtStep(t, "settle")
    /\ \/ /\ ReconcileEffect(e, tasks[t].answer)
          /\ Done(t)
          /\ UNCHANGED <<applied, boot, crashes>>
       \/ ~Reconcilable(e, tasks[t].answer) /\ GiveUp(t)

-----------------------------------------------------------------------------
(* Failures.                                                               *)

\* A raised exception, an unknown adapter or target, or a killed task.
TaskFails(t) ==
    /\ Failures
    /\ ~AtStep(t, "idle")
    /\ Run(t, Idle) \/ Done(t)
    /\ UNCHANGED <<storeVars, applied, boot, crashes>>

Restart ==
    /\ crashes < MaxCrashes
    /\ crashes' = crashes + 1
    /\ boot' = "due"
    /\ UNCHANGED <<storeVars, applied>>

\* The broker process restarts; its tasks belong to another supervisor.
BrokerCrash == Restart /\ UNCHANGED tasks

NodeCrash == Restart /\ tasks' = [t \in Tasks |-> Idle]

-----------------------------------------------------------------------------
\* Everyone else who writes the rows: controller, governor, Homeostat, time,
\* and callers of abort/2 and of the store's revision function.
Others ==
    /\ \/ EpisodeStep
       \/ \E l \in Leases : LeaseStep(l)
       \/ \E d \in decisions : ExpireDecision(d)
       \/ \E e \in Effects : AbortEffect(e) \/ ExpireEffect(e)
       \/ \E e \in Effects, p \in Payloads : UpdateEffectRevision(e, p)
    /\ UNCHANGED brokerVars

\* Calls arrive as they please ...
Call(t) ==
    \/ \E e \in Effects, l \in Leases, p \in Payloads : PrepareFetch(t, e, l, p)
    \/ \E e \in Effects, approval \in BOOLEAN :
          (approval => "human" \in Required[e]) /\ EvaluateFetch(t, e, approval)
    \/ \E e \in Effects : CommitFetch(t, e) \/ ReconcileFetch(t, e)
    \/ ReconcilePending(t)

\* ... and a task that runs goes on.
TaskStep(t) ==
    \/ PrepareAuthorise(t) \/ PreparePut(t) \/ PrepareRow(t)
    \/ EnsureEvaluating(t) \/ Decide(t) \/ EnsureAllows(t) \/ EvaluateReady(t)
    \/ CommitBegin(t) \/ CommitMark(t) \/ CommitCall(t) \/ CommitComplete(t)
    \/ PickPending(t) \/ ReconcileQuery(t) \/ ReconcileSettle(t)

BrokerNext ==
    \/ Others
    \/ BrokerCrash
    \/ NodeCrash
    \/ \E t \in Tasks : Call(t) \/ TaskStep(t) \/ ReconcileAfterBoot(t) \/ TaskFails(t)

BrokerSpec == BrokerInit /\ [][BrokerNext]_vars

\* The scheduler runs every task that can run, and the boot timer fires,
\* whether or not there is a task for its scan.
Fairness ==
    /\ \A t \in Tasks : WF_vars(TaskStep(t))
    /\ WF_vars(\E t \in Tasks : ReconcileAfterBoot(t))

FairBrokerSpec == BrokerSpec /\ Fairness

-----------------------------------------------------------------------------
(* Properties.                                                             *)

Steps == {"idle", "authorise", "put", "prepare_row", "ensure_evaluating", "decide",
          "ensure_allows", "mark_ready", "begin", "mark_committing", "call", "complete",
          "pick", "query", "settle"}

TaskRows == [state : States \cup {"absent"}, epoch : Nat, lease : Leases \cup {NoLease},
             revision : Nat, payload : Payloads \cup {NoPayload}, trajectory : Nat]

TaskStates == [at : Steps, effect : Effects \cup {NoId}, row : TaskRows, stage : 0..4,
               approval : BOOLEAN, queue : SUBSET Effects,
               answer : {"none", "receipt", "committed", "not_committed", "unknown"}]

BootStates == {"due", "done", "dropped"}

\* The row a task goes by is one the effect has or had: the effect may have been
\* revised since, and has the payload that was read if it was not.
RowWasRead(t) ==
    LET row == tasks[t].row
        now == effects[tasks[t].effect]
    IN
    /\ now.state # "absent"
    /\ row.revision <= now.revision
    /\ row.revision = now.revision => row.payload = now.payload

\* A task holds what the call it is about to make is given.
TaskReady(t) ==
    LET row == tasks[t].row IN
    /\ tasks[t].at \notin {"idle", "pick"} => tasks[t].effect \in Effects
    /\ tasks[t].at \in {"authorise", "put"} =>
          /\ row.lease \in Leases /\ row.payload \in Payloads
          /\ row.trajectory <= trajectory
    /\ tasks[t].at \in {"ensure_evaluating", "decide", "ensure_allows", "call"} =>
          RowWasRead(t)
    /\ tasks[t].at = "decide" =>
          tasks[t].stage \in 1..4 /\ KindOrder[tasks[t].stage] \in Kinds
    /\ tasks[t].at = "call" => row.state = "committing"
    /\ tasks[t].at = "complete" => tasks[t].answer \in {"receipt", "unknown"}
    /\ tasks[t].at = "settle" =>
          tasks[t].answer \in {"committed", "not_committed", "unknown"}

\* The variables have their types, and every task holds what its step needs, as
\* of a row its effect has or had: the adapter in particular is handed the row
\* of an attempt that was marked committing.
BrokerTypeOK ==
    /\ StoreTypeOK
    /\ tasks \in [Tasks -> TaskStates]
    /\ applied \in [Effects -> Nat]
    /\ boot \in BootStates
    /\ crashes \in 0..MaxCrashes
    /\ \A t \in Tasks : TaskReady(t)

\* However commits, retries, reconciliations and crashes interleave, the target
\* is changed at most once more than reconciliation declared it unchanged.
AppliedOncePerRelease == \A e \in Effects : applied[e] <= releases[e] + 1

\* A task that calls the adapter hands it a revision and a payload for which
\* every required decision was recorded as allow, although mark_committing does
\* not compare the attempt it serves with the one its task began.
ActuatesWhatWasApproved ==
    \A t \in Tasks : AtStep(t, "call") =>
        \A k \in Required[Target(t)] : \E d \in decisions :
            /\ d.effect = Target(t) /\ d.kind = k /\ d.decision = "allow"
            /\ d.revision = tasks[t].row.revision
            /\ d.payload = tasks[t].row.payload

\* "committed" is only ever recorded on evidence from the target.
CommittedWasApplied ==
    \A e \in Effects : effects[e].state = "committed" => applied[e] > 0

\* An effect that was aborted or fenced before the horizon never reaches the
\* target, whatever commit task was under way.
WithdrawnIsNotApplied ==
    \A e \in Effects :
        effects[e].state \in {"aborted", "stale"} /\ releases[e] = 0 => applied[e] = 0

\* What the proposer sees of an effect (EffectPromise).
Standing(state) ==
    CASE state \in Uncommitted \cup {"absent"} -> "open"
      [] state \in InFlight                    -> "doubt"
      [] state = "committed"                   -> "committed"
      [] OTHER                                 -> "closed"

Promise == INSTANCE EffectPromise WITH
    standing <- [e \in Effects |-> Standing(effects[e].state)]

\* Rows, tasks and target together: the target changes only while an attempt is
\* in doubt or after one was released, an attempt in doubt is never written off,
\* and what is confirmed happened, however tasks, fence and restarts interleave.
KeepsPromise == Promise!Spec

\* Some task still carries a commit of the effect.
Carried(e) ==
    \E t \in Tasks : /\ tasks[t].effect = e
                     /\ tasks[t].at \in {"mark_committing", "call", "complete"}

\* With the store and the registry available, an effect whose commit began is
\* resolved or declared unknown, even when its task dies with the node: unless its
\* commit runs no more and the one scan after the restart was dropped.
InFlightIsResolved ==
    \A e \in Effects :
        effects[e].state \in {"commit_intent", "committing"}
            ~> \/ effects[e].state \notin {"commit_intent", "committing"}
               \/ boot = "dropped" /\ ~Carried(e)

-----------------------------------------------------------------------------
(* What the documentation says and the code does not do.                   *)

\* docs/OPERATIONS.md: "mark not-committed only when the adapter can prove it".
\* reconcile_effect writes the answer of a query that a running commit overtook.
ReleasedWasNotApplied ==
    \A e \in Effects : effects[e].state \in Uncommitted => applied[e] = 0
=============================================================================
