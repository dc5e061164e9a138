# A TLA+ development of autonomic

autonomic runs untrusted agents ("episodes") in Linux sandboxes and lets them change the outside world only through a
broker of *effects*. This directory models the parts of it that carry its promises, checks them with TLC on small
instances and proves the central ones with TLAPS for instances of any size. Paths below are relative to the repository
root; `A/` stands for `packages/autonomic/lib/autonomic/`, `postgres.ex` for
`packages/autonomic_postgres/lib/autonomic/store/postgres.ex`, `main.rs` for
`packages/autonomic_linux/native/autonomic_launcher/src/main.rs`.

## 1. Inventory

| component | state | operations | interacts with | what is hard | what makes it correct |
|---|---|---|---|---|---|
| Effect life cycle, `A/effect_state.ex` | none | `allowed?/2` | store | - | no edge from an unknown outcome to another attempt |
| Durable store, `postgres.ex` | rows of episodes, leases, effects, decisions, checkpoints, events | one SQL transaction per function, episode row locked first | everyone | callers act on rows read in earlier transactions | one licence to actuate per release; the epoch fence is complete; approvals match what crossed |
| Effect broker, `A/effect_broker.ex` | a counter of active tasks; each task's local variables | prepare, evaluate, commit, abort, reconcile, scan after boot | store, governor, adapters, sensors | up to eight tasks interleave; any may die; answers of the target get lost | the target is not mutated twice, nor without approval, nor after a withdrawal; what started is resolved |
| Adapters, `A/adapters/*.ex` | the target (a Git ref, an HTTP service, a directory) | validate, commit, reconcile | broker | ambiguous answers, concurrent writers of the target | reconcile never claims what the target does not show |
| Authority governor, `A/authority_governor.ex` | none of its own but the store's leases | issue, validate, revoke, advance_epoch | store, controller | epoch read before the lease is written | no lease outlives its epoch or exceeds the envelope |
| Episode controller, `A/episode_controller.ex` | controller state, repair count, domain, lease | running, yielding, preempting, repairing, containing, completing, recovery | all of the above, Homeostat, domains | signals that arrive late; restart in any state | contained means fenced first; the repair budget holds; terminal is terminal |
| Repair and snapshot managers | none | capture, restore, repair | backend, governor, store | crash between destroy, restore, lease and record | one live domain per episode; authority only after the old domain is gone |
| Domain backend, launcher (`backend.ex`, `main.rs`) | directories, cgroups, processes | create, restore, exec, checkpoint, destroy | repair manager | partial failure, repeated destroy | a destroyed domain stays destroyed |
| Homeostat, `A/homeostat.ex` | regime, score, version, epoch | observe, rebase_epoch, repair signal, persist | sensors, controller, store | frames of older epochs, rebase against the durable version | hard violations contain; versions only grow |
| Sensor array, `A/sensor_array.ex` | bounded queue, credit | enqueue, dispatch, drop | Homeostat | overflow | hard frames are never dropped |
| System regulator, `A/system_regulator.ex` | mode, candidate, streak | report, tick, admit | broker, controller | oscillating measurements | degradation at once, recovery only after three equal candidates |
| Effect socket, `A/effect_socket.ex` | a listener, one accept task | accept, read, dispatch, answer, arm again | broker, task pool | shared pool exhausted; calls that outlive their caller | everyone is answered, the listener keeps accepting |
| Rate limiter, policy, verifier | a map of windows; none; none | check; required_decisions, permits?; verify | broker, governor | clock, not concurrency: one GenServer call each | the limit holds per window |
| Conformance runner, `scripts/qc.py` | the gates' statuses, the command it watches | run the gates, report, exit | commands of every project | commands that hang, ignore SIGTERM or cannot start; statuses copied between gates | green means executed; the exit status tells; every run ends |
| Release tool, `scripts/release.py`, `lint_package_boundaries.py`, `verify_packages.py` | a stage directory per version | check, stage, build, inspect, verify | the checkout, `mix hex.build`, each other | no lock: invocations overlap, are killed, and the sources move | what passes is fresh, decoupled and publishable in order |

What is left out, and why, is section 7.

## 2. What is modelled

* **EffectState** - the states and `Allowed`, the edges of `A/effect_state.ex`.
* **CommitHorizon** - the abstract specification. For each effect only a phase (`none`, `open`, `crossed`, `committed`,
  `closed`), the epoch it was born in, the licences to actuate (`permits`) and the proofs that an attempt did not happen
  (`releases`). It says: only an effect of the current epoch crosses; a licence is given once per crossing not yet
  released; a new epoch closes everything open; a settled outcome is final.
* **EffectStore** - the transactions of `postgres.ex` on one episode, its leases, effects and decisions. Each public
  function locks the episode row before it reads anything else and runs in one transaction, so it is one action whose
  guard is the list of checks and early rollbacks; a rollback is the absence of a step. `permits` counts successful
  `mark_committing`, `releases` counts reconciliations with `not_committed`; both are history and guard nothing, except
  that `releases` carries the bound `MaxReleases`. Lifetimes are flags that time may take away at any moment
  (`ExpireLease`, `ExpireEffect`, `ExpireDecision`). An episode begins as `create_episode` leaves it. One episode and one policy version suffice: no transaction relates
  two episodes, and no function changes a policy.
* **EffectPromise** - the other abstract specification: what the proposer of an effect is promised, in terms of what it can
  see, the standing of its effect (`open`, `doubt`, `committed`, `closed`) and the target. It knows no tasks, rows, licences
  or epochs. It says: the target changes while an attempt is in doubt, or late, after one was released, and at most once
  more than was released; an attempt in doubt is never written off; what is confirmed happened.
* **EffectBroker** - the tasks. `tasks[t]` is the step a task is at and the row it has read: `do_prepare` is
  `PrepareFetch, PrepareAuthorise, PreparePut, PrepareRow`; `do_evaluate` is `EvaluateFetch, EnsureEvaluating, Decide
  (once per kind), EnsureAllows, EvaluateReady`; `do_commit` is `CommitFetch, CommitBegin, CommitMark, CommitCall,
  CommitComplete`; `do_reconcile` is `ReconcileFetch, ReconcileQuery, ReconcileSettle`, and `reconcile_pending` and the
  scan after boot run it for a list read once. A step is what happens between two points where somebody else may run:
  one store transaction, one read, or one call of the adapter. `boot` is the one scan a restart gives rise to: due, done, or
  dropped because the broker was saturated or the pool full, which is always possible. `applied` counts mutations of the target. Tasks die
  (`TaskFails`), the broker restarts with its tasks alive (they belong to `Autonomic.Tasks`), the node restarts with none.

* **EpisodeController** - one episode's controller with everything it calls. `ctl.at` is the step the controller is at,
  the rest of `ctl` its data: the domain it believes in, its epoch, its repairs. `bootstrapping` is `Start, Bootstrap,
  CreateDomain, BindDomain, InitialLease, Capture, Booted`; a repair is `Preempting` (or `Recover` after a crash), then
  `RepairAdvance, RepairDestroy, RepairRestore, RepairLease, RepairRecord, RepairBind, RepairDone`; containment is
  `ContainFence, ContainAdvance, ContainDestroy, ContainClear, ContainRecord`; completion `Completing, CompleteDestroy,
  CompleteClear, CompleteRecord`; `Launch` starts the worker's task (`TaskCheck, TaskExec, TaskWait`), whose end comes back
  as a signal. The handlers chain internal events, which `gen_statem` runs before any mail, so mail is read only in
  `running` and `yielding`. A call succeeds, fails, or fails with its work done (`Attempt`); answers that the code ignores
  are ignored. The controller may crash alone (a call of `advance_epoch` may then still be waiting at the governor,
  `LateAdvance`), with the tree from the governor on, or with the node. The launcher knows a domain by id and epoch, as
  `ensure_loaded_domain` and `checked_domain` do, while the store keeps only the id.

* **Observation** - the way of a frame: `Publish` is the array's `handle_cast({:publish, ...})` with `enqueue`, `drop_one_low`
  and `dispatch`; `HandleDemand` the consumer's next demand; `Observe` and `PersistAndNotify` the two halves of the
  Homeostat's `observe` call, between which its state is new and nobody has heard of it; `RepairRecorded` and `RebaseEpoch`
  its other messages; `TakeSignal`, `AdvanceEpoch`, `Contain` (whose fence may fail unnoticed), `FinishRepair` the controller and `ConsumerDies` the
  `rest_for_one` restart after a call of more than 15 seconds. `pin` is an effect prepared with the version vector of the
  row. Scores are abstracted to the regime they make a candidate of, which a frame carries. `owed`, `calm`, `yielded` and
  `pin.missed` are history.
* **SystemRegulator** - `report`, `tick`, `Target` (what the readings call for), `Hysteresis` and `recalculate`, with pressures
  and health of any sources. `streak` is history: how often in a row the present target was computed.
* **EffectIngress** - extends SystemRegulator with what feeds it: each episode's accept task (`accepting`, `reading`,
  `calling`, `answering`, then `rearm`), the broker's GenServer (`StartWork, RefuseWork, BrokerResult`), the pool of
  `Autonomic.Tasks` they share, and the broker's reports. What a broker task does is EffectBroker's business; here it
  ends (`TaskEnds`) or is killed without a result (`TaskKilled`). A finished task holds its slot until the supervisor
  has seen it exit (`Reap`). `Direct` are callers without a socket: operators and the scan after boot.
* **QualityGates** - one run of `scripts/qc.py`: `Plan` is the list of gates in the order `main()` walks them, each with the
  commands it runs or the gate whose status it takes; `Launch, Reap, TimesOut, Interrupt` are
  `_run_logged_command`, `Terminated, GraceOver, Killed` the one or two calls of `_terminate_process` that follow a deadline or
  Ctrl-C, `Conclude` the verdict, `WriteReport` the report and the exit status. What commands do is the environment. `child`
  is the process that is polled and waited for, the leader of its group; what the leader has started is not modelled.
* **ReleaseStage** - invocations of `release.py` and `verify_packages.py` on one stage directory, one action per step
  between which another invocation can act (`HexBuildReads` and `HexBuildWrites` are one `mix hex.build`), with edits of the
  sources and invocations that are killed. A file is known by what matters of its content and the source revision it
  comes from. The `mix hex.build` of a killed invocation ends with it: what the real one would still write goes into a
  directory that a later invocation removes, or that the dead one shared with an invocation it overlapped.

The modules meet in the rows and messages they share: EffectBroker EXTENDS EffectStore, so its tasks and the store's
transactions run in one specification; EffectStore refines CommitHorizon and EffectBroker EffectPromise; EffectIngress EXTENDS SystemRegulator;
Observation keeps of the controller the steps the Homeostat sees, which EpisodeController spells out.

The adapter is external: `CommitCall` mutates the target or not; a receipt implies it did; every other answer, exception
or timeout is what the broker writes as `commit_unknown`. `ReconcileQuery` reports what the target shows at that moment
or nothing.

## 3. Runs

| run | instance | states | shows |
|---|---|---|---|
| `store` | 1 effect, 2 leases, 2 payloads, 2 revisions, 2 epochs, 2 trajectory versions, 2 controller states, 1 release | 1.36 M | `RetryNeedsRelease`, `FencedEffectsAreStale`, `LiveLeasesAreCurrent`, `ApprovedAsCommitted`, and that the transactions implement `CommitHorizon` |
| `broker` | 1 effect, 2 interchangeable tasks, 2 kinds of decision, 2 epochs, 1 release, 1 restart, failures | 0.80 M | `AppliedOncePerRelease`, `CommittedWasApplied`, `WithdrawnIsNotApplied`, and that rows and target together implement `EffectPromise` |
| `broker_decisions` | 2 tasks, 2 kinds, 2 revisions, 2 payloads, 1 release, no failures | 2.8 M | `ActuatesWhatWasApproved` |
| `broker_live` | 2 tasks, 2 epochs, 1 release, 1 restart, fairness | 0.31 M | `InFlightIsResolved` |
| `broker_release` | the smallest instance that shows it | up to 6 000 | violates `ReleasedWasNotApplied` |
| `episode` | 1 repair, 1 failing call, 1 restart, 1 waiting signal | 2.4 M | `OneWorkerDomain`, `NoAuthorityOverOldWorker`, `ContainedIsFenced`, `EpochsAreBudgeted` |
| `episode_live` | 1 repair, 1 failing call, 2 waiting signals, fairness | 0.28 M | `ContainIsHonoured` |
| `episode_terminal` | 1 restart, no failing call | 3 696 | violates `TerminalIsFinal` |
| `observation` | queue of 1, demand of 1, 4 shapes of frames, 4 frames or 2 and a dead consumer, 1 repair, failing writes, fairness | 1.47 M | `HardFramesNeverDropped`, `QueueIsBounded`, `HardFrameIsObserved`, `ContainmentIsAnswered`, `RecoveryIsSlow`, `FramesFenceCommits` |
| `ingress` | 2 sockets, 1 operator, 3 slots, 1 place at the broker, 2 requests, 1 killed task, 1 late call, 2 reports of others, fairness | 0.22 M | `ActiveCountsTasks`, `EveryoneIsAnswered`, `BackpressureIsLifted`, `NeverBelowTarget`, `RecoveryIsEarned` |
| `gates` | 14 environments (modes, hosts, trees, `--package`), 1 misbehaving command, fairness | 0.24 M | `GreenMeansExecuted`, `ExitTellsFailures`, `SurvivorsWereKilled`, `RunEnds` |
| `stage` | 2 invocations, 2 packages with 3 variants each, 1 edit, 1 killed invocation | 2.4 M | `PassedIsFresh`, `PassedIsDecoupled`, `CheckedOrderIsPublishable` |

Each module has one type invariant, which also holds what the shape of the state has of substance (`BrokerTypeOK`: what a task
holds is what its step needs, and the row it goes on with was really read; `ObservationTypeOK`: no
epoch runs ahead of the row; `IngressTypeOK`: the pool and the broker's limit hold; `StageTypeOK`: an emptied directory
stays empty until somebody fills it).

**What a property excepts.** Six say "unless" and mean it, since without the exception the code does not satisfy them:
`InFlightIsResolved` leaves out an effect no task carries after the scan was dropped; `SurvivorsWereKilled` a run that is
interrupted a second time while it waits for the command to obey;
`ContainmentIsAnswered` leaves out an episode that has yielded (a yielding controller ignores `contain`) or lost a
consumer; `FramesFenceCommits` speaks of the first epoch (a repair takes the Homeostat's version back to 0 and the row,
which refuses a smaller one, does not follow); `EveryoneIsAnswered` and `BackpressureIsLifted` leave out killed tasks, late calls
and a pool found full. Section 5 says what happens then. All of them are exercised: the run reaches the excepted states
and the others.

**Bounds.** Two of everything that is compared (epochs, revisions, leases, payloads, tasks) is what a stale value needs:
one to be read and one to be current. A second effect adds nothing to the safety properties, which speak of one effect,
since effects share only the episode row, which the environment actions of the model already change at will. One release
reaches every state a second one would reach again. `MaxEpoch`, `MaxRevision`, `MaxTrajectory`, `MaxReleases` and
`MaxCrashes` appear in guards; at `MaxReleases` a reconciliation can still say "unknown", so the bound never stops a task.

For the controller, `MaxRepairs = 1` reaches both sides of the budget, and one restart can hit every step; the states the
restarted controller finds are those one crash can leave, and a second crash of the recovery leaves one of the same kind.
`MaxFailures` and `MaxCrashes` are both 1 in one run because an error path and a crash together reach what neither does
(a failed repair's containment, interrupted). `MaxMail` delays a sender and never drops a signal. Epochs, domains and
repairs are bounded by the behaviour itself, which is what `EpochsAreBudgeted` says. The safety properties of the run
`episode` were also checked once with `MaxCrashes = 2` and `MaxFailures = 0` (13.7 million distinct states, none violated),
which is too long to keep as a run.

For `broker_decisions` one release is what a second attempt takes, so that `mark_committing` may serve another task's
attempt, and two payloads are what a revision between them takes to matter; two tasks suffice, of which one is late.

For the observation, three frames overflow a queue of one with every order of ordinary, hard and critical ones, and
four are a bad one and the three stable ones the hysteresis counts. `MaxEvents` bounds frames and dead consumers together, a
dead one counted as two: four frames, or two and a consumer that dies before, between or after their observations. That the queue and the demand are 1 costs nothing, since what is proved
of them (section 6) holds for every size. For the ingress, `Pool = 3` with `Limit = 1` lets the two accept tasks and a
broker task fill the pool, and lets the broker refuse both for its limit and for the pool; the levels are none,
0.72, where autonomy becomes read-only, and full, where admission closes. For the gates, two misbehaving commands meet only if the first leaves something behind,
which the first gate's outcome in `failing`, `gates` and `child` is; the environments are chosen so that every gate is run, pending and
blocked in one of them. For the stage, two invocations are enough for one to clear, overwrite or hand over what the
other is working on, and two packages for the loop over packages to be in the middle.

**Fairness.** `Fairness` (broker) says that a task which can take its next step eventually does (the BEAM scheduler, and timeouts on
every call the tasks make), and that the timer of the scan after boot fires (weak fairness; the scan is then made or
dropped, and a dropped scan is not repeated). Clients, time, the fence and
crashes are not fair. `InFlightIsResolved` is checked with `Failures = FALSE`: when a registry lookup or the store fails
between `begin_effect_commit` and `mark_committing`, the code leaves the intent for the next restart or an operator, and
the property would not hold.

`FairEpisodeSpec` says that the controller goes on (each of its calls has a timeout) and that the governor empties its
mailbox. Workers, senders and crashes are not fair, and the live run keeps its failing call.

`Observation!Spec` is fair to the pipeline (array, consumer, Homeostat: processes with a message take it) and to the
controller; sensors, operators, effects and crashes are not. `IngressFairness` is fair to each accept task, to the broker's and the
regulator's mailboxes, to the tasks' ends (their calls have timeouts) and to the regulator's timer, which arms itself again; nobody
has to connect. `QualityGates!Spec` is fair to the runner, whose waits are all bounded, and to a command that is not hanging;
a hanging command owes nothing, not even to die when it is killed.

Definitions marked *Slip* are used by nothing. Each is the definition below it with a plausible mistake (a forgotten
state, a dropped check, a blind retry); replacing the definition by it makes TLC find the property violated that is
meant to exclude it, which shows the property is about the code.

## 4. Where the code and its documentation disagree

1. `broker_release`: a reconciliation that overlaps a running commit writes `not_committed` for a mutation that happens
   (`reconcile_effect` asks only that the state is in flight); the effect becomes ready and may be applied again.
   `docs/OPERATIONS.md:9` wants proof. What does hold is `AppliedOncePerRelease`: never more than one mutation per release.
2. `episode_terminal`: `init/1` bootstraps an episode recorded as completed, contained or failed, so a crash of the
   controller or of any sibling before it starts the worker of a finished episode again (`docs/spec/02_SUBSYSTEM_SPECIFICATIONS.md:29-30`).
   This is why the properties of the run `episode` except a `revived` episode: the domain a failed episode left behind may then
   coexist with the new one.

## 5. What else the code does

Seen while modelling; the model does the same, and the properties are stated so as to hold with it.

* Broker. The kernel's own decision holds the time it was taken, so a second evaluation of one revision, for instance
  the one that brings the human approval, is refused as a conflicting decision (`effect_broker.ex:182`). `ensure_evaluating` may swap in
  a newer revision than the one `adapter.validate` saw. The commit horizon does not look at the episode's state
  (`postgres.ex:895`). Leases are never renewed, so an episode is without one a minute after its bootstrap.
  The scan after boot is dropped when the broker is saturated or the pool is full, and nothing schedules another
  (`effect_broker.ex:45-51`): an effect whose commit was under way when the node died then stays in flight until the next
  restart or an operator's reconcile, where `docs/PERSISTENCE_RECOVERY.md:20` has startup reconciliation scan for it.
* Admission. A killed task never gives its place back (`effect_broker.ex:89`). When the pool is full the refusal reports
  a pressure of 100 %, and if no task runs nothing takes that back (`:109`). An accept task whose call of the broker
  outlives its timeout exits without arming the socket again, and `start_child` on a full pool is not checked: in both
  cases the socket is deaf until its supervisor restarts it (`effect_socket.ex:42-61`).
* Controller. `worker_exit` is not matched with the worker it is about: the exit of a worker that a repair killed, read after the
  repair, asks for another one. `reconstruct_domain/1` pairs the stored domain with the current epoch; after a crash
  between the fence and the new binding the launcher does not find that pair, the episode fails and the old worker
  lives on. While it yields the controller ignores a hard violation (`episode_controller.ex:217`; `docs/TYPESAFE_CONTROL_LOOP.md:96` has every
  deterministic violation contain), and a resume then runs an episode the Homeostat holds contained.
* Homeostat. A repair sets its version back to 0, and the row refuses smaller ones, so after a repair frames move no
  version vector until the old count is passed. From `uncertain` one stable frame is enough, so drifting, uncertain,
  stable avoids the three frames that drifting, stable takes. A consumer that dies loses its batch, hard frames included.
* Regulator. A restart forgets all readings. With store and launcher both down the target is `no_sensitive_commits`, milder than with
  the launcher alone down; and `no_sensitive_commits`, the more severe mode, admits classes that `read_only_autonomy` does
  not. Nothing in `lib` reports the health of store or launcher.
* Scripts. Of a command that outlives its deadline only the group's leader is waited for, and only twice five seconds
  (`qc.py:249-265`, `305-307`): what it started may outlive it and run beside the next gate, and so may a leader that SIGKILL
  does not end in time. An inspection finds a `path:` and an umbrella but not `apps_path` or the other settings staging
  refuses (`release.py:205`, `311-316`). With `--package autonomic_acceptance` the gates over published packages have no project and pass; an empty
  suite among several is not noticed by the compound gates. Overlapping invocations of the release tool share one
  stage, and only the core's version is compared with the one asked for.

## 6. Proofs

Eight modules of theorems, for every value of the constants that satisfies the named assumptions.

`EffectStoreProofs`, from `StoreAssumption` (distinct null values, `Required` a function into sets of kinds, `"bootstrapping"` a
controller state, bounds natural numbers, those of epoch and revision at least 1):

* `StoreTypes` - the type invariant, one step per transaction.
* `StoreInvariant` - the inductive invariant `StoreInv`. `RetryNeedsRelease` (`permits <= releases + 1`) is not inductive:
  a ready effect that had already used its licence would break it at its next commit. `PermitBudget` adds what is true of
  each state: before an attempt, `permits <= releases`. The step that matters is `not_committed`, which returns the effect
  to ready and in the same transaction raises the budget. `EpochsPast` (no row is ahead of the episode) is what makes
  the fence complete. `MovePreserves` carries the many transactions that change one row's state and nothing else.
* `NoBlindRetry`, `FenceHolds`, `LeasesAreFenced`, `HorizonIsApproved` - the safety properties of the run `store`, from it.
* `StoreImplementsHorizon` - every transaction is a step of `CommitHorizon` or invisible to it. Crossing uses the epoch
  check of `validate_commit_horizon!`, actuation uses `PermitBudget`, the fence uses `EpochsPast`.

`EffectBrokerProofs`, from that and `BrokerAssumption` (finitely many tasks, a null effect, `"deterministic"` a kind), for any number of tasks
and restarts:

* `BrokerKeepsPromise` - rows and target implement `EffectPromise`. A transaction moves the standing as its phase in CommitHorizon
  moves (`StepsOfHorizon`), where `Evidence` (committed only with the target changed; an attempt in doubt never to failed,
  aborted, expired or stale) leaves of the outcomes only those of the promise. A call of the adapter spends a licence, and
  `PermitBudget` then says that the attempt is in doubt or one was released. What makes a task's writes transactions at all,
  though it goes on with what it read any number of transactions ago, is `TaskReady` and `RowBounds` (every row holds what a
  decision may name); so `NoBlindRetry`, `FenceHolds` and the other theorems above hold of the broker (`TasksRunTransactions`).
* `AtMostOncePerRelease` - by counting. `WithinPermits`: mutations done plus tasks at the adapter are at most the licences
  `mark_committing` handed out. Marking adds one of each, a call turns a task into at most one mutation, a killed task
  gives its licence up; with `PermitBudget` this bounds `applied` by `releases + 1`. The same count makes
  `WithdrawnNeverApplied`: aborted or fenced and never released means that no licence was handed out.
* `CommittedIsApplied`, `OnlyApprovedIsActuated` - from `TaskKnows`: a receipt, an answer of the target and the approvals
  behind a marked row are true when a task gets them, and no step of another task undoes that (`OtherTasksKept`, where
  `DecisionsStay` says that decisions are never withdrawn and `CountsGrow` that licences are not).
* `BrokerInvariant`, `BrokerIsTyped` - the whole invariant and its types. All kinds of step of a task but two are `Quiet`:
  they go on without reaching the adapter, by one transaction or none, and write `committed` on evidence only; `QuietKeepsInv` does
  them all, and only `mark_committing` and the call of the adapter have proofs of their own.

`EpisodeControllerProofs`, from `EpisodeAssumption` (bounds on repairs, failing calls, restarts and waiting signals are natural
numbers, at least one repair and one signal), for any such numbers:

* `EpisodeInvariant` - the inductive invariant `EpisodeInv`. `NoAuthorityOverOldWorker` compares a row with sandboxes the controller may not
  know of; what ties them is where the controller is. `Hosts` are the domains in which a worker runs or will as soon as a
  task that has passed its check goes on. `Hosting`: they are the domain the row names, there is none while an episode boots or a
  repair is between destroying and launching, and whoever may destroy holds that domain. `Positions` says what each step
  holds and how it compares with the row, `Identities` that ids are not used again, which is why an exit or a late answer of an
  old domain cannot name a new one.
* `OnlyOneWorkerDomain`, `AuthorityFollowsWorker`, `ContainmentHolds` - from `Hosting` and `Fencing` (a containment that has come to
  destroying has fenced, unless that call failed). Like the properties they except a terminal episode that was started again
  (`revived`, section 4) and a fence whose call failed (`unfenced`).
* `EpochsStayInBudget` - from `Budget`, an account per step of the epochs spent, where an advance left in the governor's mailbox by a
  controller that died counts as spent.
* `EpisodeIsTyped` - the types, and that no domain or checkpoint is of a future epoch.

`SystemRegulatorProofs`, from `LevelsAssumption` (pressures are percentages), about `RegulatorSpec`, the regulator with any
reports whatever: `RegulatorTypeCorrect`, `WorseningIsImmediate` and `RecoveryTakesThree`. The property of recovery speaks of the
history `streak`; the invariant is that the regulator's own counter is honest (`CounterIsHonest`): a counter of n for a
candidate means that the last n recalculations called for it.

`EffectIngressProofs`, from that and `IngressAssumption` (finitely many episodes and operators, none both; the broker's
percentages are levels), for any pool, limit and callers:

* `IngressInvariant`, `EveryPlaceIsAccounted` - `ActiveCountsTasks` is not inductive: were a caller's result still unread when its next call
  starts a task, or its task still running, a start would not add a task. `OneRequestEach` says that a caller has one
  message or task under way at most, and only while it waits for it. `Slots <= Pool` counts accept tasks and broker tasks
  together.
* `IngressDrivesRegulator` - the node implements the regulator alone: a report taken from the broker's casts is one of the reports
  the regulator allows for, everything else leaves it untouched. So its theorems hold in the node (`NodeModeIsNeverMilder`,
  `NodeRecoveryIsEarned`), and its types give `IngressIsTyped`.

`ObservationProofs`, from `ObservationAssumption` (sizes are natural numbers, frames are records of three fields and an epoch), for queues and
demands of any size:

* `NoHardFrameIsDropped`, `QueueStaysBounded`, `ObservationIsTyped`. Most of the proof is about
  sequences: counting urgent frames is additive over concatenation (`UrgentOfConcat`), a sequence is what lies before and
  after any place (`Split`), so `drop_one_low` keeps the count (`DropOneLowKeepsUrgent`) and makes room for one
  (`EnqueueKeepsUrgent`). The invariant keeps an account: what is owed is at least what queue and hand hold, and exactly that
  while no consumer died; without the first half `owed` could not be shown to stay a natural number after a crash.
* `ContainmentReachesController`, `RecoveryTakesThreeFrames`, `FramesFenceEffects` - from a second invariant, `HistoryInv`. `Answered`: while
  the Homeostat is in containment and the controller runs the episode, the signal is being persisted or waits in the
  mailbox. It has to cover a controller that has rebased the Homeostat and not yet finished its repair. `Counted`: the
  frames the hysteresis has counted were in a row. `Fenced`: in the first epoch the row lags behind the Homeostat while a frame
  is persisted, and a version vector that missed a frame lags behind the row, so its commit is refused.

`QualityGatesProofs`, from `SetupsAssumption` (what a run visits, and what is left of it without the acceptance project, is a list of
projects) and `PlanAssumption` (gates are distinct, and an alias names an earlier gate with a status of its own). The plan has no
parameter, so TLC's evaluation of `PlanAssumption` settles it; the part of `SetupsAssumption` about `Published` is one about
`SelectSeq`, of which the prover has no induction, and TLC evaluates it for the environments of the run.

* `SurvivorsAreKilled` - needs neither. What the runner gives up on has had a SIGKILL from each of the two calls that terminate it, and
  one that is gone cannot come back.
* `GreenIsEarned` - `RunInvariant`: a passed row that is behind is `EarnedBy` the row it takes its status from. What makes that stick is
  `CurrentOK`, on the row at work: a command that misbehaved has already failed its gate, is the one being watched, or
  printed no test result in a gate that counts them; and `DirtyOK`, that a misbehaviour belongs to a row that was reached.
* `ExitStatusTells` - from the same invariant: what misbehaved in a row that is behind has failed that row's gate.

`ReleaseStageProofs`, from `StageAssumption` (the packages are listed in a sequence, bounds are natural numbers) and `OrderAssumption` (the
lint has rules for each, the core comes first, none is named twice):

* `InspectionDecouples` - the invariant `Earned` says of each invocation that while it has found nothing wrong, every package
  before the one its loop has reached was read and meets the criteria, and that no other part of the tool returns 0 for the
  command `inspect`.
* `NothingStaleIsPassed` - no lock keeps invocations apart, so what one of them reads another may have written. `JudgedAlike`: those
  that overlap are judged by the same revisions, of sources the checkout still has or has left behind. `DiskFresh`: once one of
  them has cleared the stage, nothing in it is older than that, whoever wrote it: a directory that was there before is
  gone, and what is written now is built from the sources or from the stage. `Honest` carries it into what a loop has read
  (`StageInvariant`).
* `OrderIsPublishable` - `Honest` again, for `check`: each package linted obeys `ForbiddenRules`, and these forbid all that is published
  later. `StageIsTyped` - from `DirectoryOK`.

The invariants were first checked by TLC as invariants of the runs `episode`, `ingress`, `observation`, `gates` and `stage`, then proved.
Every invariant, action property and refinement the passing runs check is now a theorem. Only model-checked is liveness, which
is out of the prover's reach: `InFlightIsResolved`, `ContainIsHonoured`, `HardFrameIsObserved`, `EveryoneIsAnswered`, `BackpressureIsLifted` and
`RunEnds`. The two runs of section 4 are counterexamples.

## 7. Not modelled, and what is left

Not modelled because there is no control to model: payload files, canonical encoding, bounded HTTP and the data
types; the launcher client's port protocol and the preflight checks; namespaces, cgroups and seccomp of the launcher;
the schema beyond its uniqueness constraints; `build_rootfs.py` (a sequence of shell commands) and the example
applications beyond the worker's connection; the rate limiter (one call that reads and writes one entry of a map,
against a clock); the attributes `within_hard_envelope?` compares and the patterns of the policy. The commands of Git, HTTP and the file system behind an adapter are seen as
its contract only, the verification runner and the sensor bank as the decision they return.

Not modelled because nothing uses it: `claim_episode` and `renew_episode_owner` are called by nothing in the repository;
observations and the hash chain of events are written and never read back by a decision.

What would come next: an abstract specification of an episode's authority (fenced before it is replaced) that
EpisodeController implements, as EffectBroker implements EffectPromise; the histories of a Git ref under which the
adapter's search for its marker answers.
