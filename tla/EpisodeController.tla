-------------------------- MODULE EpisodeController --------------------------
(***************************************************************************)
(* The life of one episode: Autonomic.EpisodeController with the repair    *)
(* and snapshot managers it calls, the authority governor and the rows of  *)
(* the store it writes, the sandboxes ("domains") the launcher creates and *)
(* destroys, and the tasks that run the worker inside them.                *)
(*                                                                         *)
(* A handler of the controller chains internal events, which gen_statem    *)
(* takes before anything in the mailbox, so a handler is a sequence of     *)
(* steps, one per call it makes; mail is read only in "running" and        *)
(* "yielding".  Between two steps the worker tasks, the governor and the   *)
(* senders act, and the controller or the whole tree of the episode may    *)
(* crash; the supervisor then starts it again.                             *)
(*                                                                         *)
(* Left out: what a checkpoint or a lease contains and the expiry of       *)
(* leases (the properties say when one may be live, never that one is),    *)
(* the Homeostat's own state (its rebase always succeeds, since epochs     *)
(* only grow), and the effects, whose state the controller only asks for.  *)
(***************************************************************************)
EXTENDS Naturals, Sequences

CONSTANTS
    MaxRepairs,   \* :max_repairs, repairs before containment
    MaxFailures,  \* bound on failing calls to the store, governor or launcher
    MaxCrashes,   \* bound on restarts of the controller
    MaxMail       \* bound on signals waiting in the mailbox

ASSUME EpisodeAssumption ==
    /\ MaxRepairs \in Nat \ {0}
    /\ MaxFailures \in Nat
    /\ MaxCrashes \in Nat
    /\ MaxMail \in Nat \ {0}

VARIABLES
    episodeState,   \* episodes.state
    epoch,          \* episodes.current_epoch
    bound,          \* episodes.domain_ref, 0 for null
    checkpoint,     \* epoch of the latest stable checkpoint, 0 for none
    leased,         \* whether a lease of the current epoch is live
    governor,       \* the epoch the authority governor holds
    late,           \* an advance_epoch call whose caller has died
    domains,        \* domains that exist
    created,        \* how many domains were ever created
    used,           \* those of them in which a worker was started
    tasks,          \* tasks that run a worker
    ctl,            \* the controller: the step it is at, and its data
    mail,           \* its mailbox
    asked,          \* history: this controller was told to contain
    unfenced,       \* history: this controller's fence call failed
    revived,        \* history: a terminal episode was bootstrapped again
    crashes,        \* number of restarts so far
    failures        \* number of failed calls so far

storeVars    == <<episodeState, epoch, bound, checkpoint, leased>>
launcherVars == <<domains, created, used>>
history      == <<asked, unfenced, revived>>
vars == <<storeVars, governor, late, launcherVars, tasks, ctl, mail, history, crashes, failures>>

Terminal == {"contained", "completed", "failed"}
Signals  == {"narrow", "yield", "preempt", "contain", "operator_contain",
             "complete", "resume"}

NoDomain == [id |-> 0, epoch |-> 0]

Fresh == [at |-> "init", dom |-> NoDomain, epoch |-> 0, repairs |-> 0,
          next |-> NoDomain, to |-> 0, recovering |-> FALSE]

EpisodeInit ==
    /\ episodeState = "bootstrapping"
    /\ epoch = 1
    /\ bound = 0
    /\ checkpoint = 0
    /\ leased = FALSE
    /\ governor = 1
    /\ late = FALSE
    /\ domains = {}
    /\ created = 0
    /\ used = {}
    /\ tasks = {}
    /\ ctl = Fresh
    /\ mail = <<>>
    /\ asked = FALSE
    /\ unfenced = FALSE
    /\ revived = FALSE
    /\ crashes = 0
    /\ failures = 0

At(step)   == ctl.at = step
Goto(step) == [ctl EXCEPT !.at = step]

\* Nothing reads the data of a controller in a terminal state.
Ended(state) == [Fresh EXCEPT !.at = state]

-----------------------------------------------------------------------------
(* The calls.  Each may fail, with or without having done its work.        *)

Fails == failures < MaxFailures /\ failures' = failures + 1
Works == UNCHANGED failures

Attempt(Work, nothing, then, otherwise) ==
    \/ Works /\ Work /\ ctl' = then
    \/ Fails /\ (Work \/ UNCHANGED nothing) /\ ctl' = otherwise

\* set_episode_state/3, in the places where its result is ignored.
Record(state) == \/ Works /\ episodeState' = state
                 \/ Fails /\ UNCHANGED episodeState

\* AuthorityGovernor.advance_epoch/2; an answer lost between the store and the
\* governor leaves the governor behind.
StoreAdvance == /\ epoch' = epoch + 1
                /\ leased' = FALSE
                /\ UNCHANGED <<episodeState, bound, checkpoint>>

AdvanceSucceeds == Works /\ ~late /\ StoreAdvance /\ governor' = epoch' /\ UNCHANGED late

AdvanceFails == /\ Fails /\ ~late
                /\ StoreAdvance \/ UNCHANGED storeVars
                /\ UNCHANGED <<governor, late>>

\* AuthorityGovernor.issue/2 with the epoch check of the governor.
Issue(then, otherwise) ==
    /\ ~late
    /\ IF governor = epoch
       THEN Attempt(leased' = TRUE, leased, then, otherwise)
       ELSE Works /\ UNCHANGED leased /\ ctl' = otherwise
    /\ UNCHANGED <<episodeState, epoch, bound, checkpoint>>

\* set_episode_domain/2: a domain of another epoch is refused.
Bind(dom, then, otherwise) ==
    /\ IF dom.epoch = epoch
       THEN Attempt(bound' = dom.id, bound, then, otherwise)
       ELSE Works /\ UNCHANGED bound /\ ctl' = otherwise
    /\ UNCHANGED <<episodeState, epoch, checkpoint, leased>>

SetState(state, then, otherwise) ==
    /\ Attempt(episodeState' = state, episodeState, then, otherwise)
    /\ UNCHANGED <<epoch, bound, checkpoint, leased>>

\* create_domain_common of the launcher.
NewDomain(domEpoch) == [id |-> created + 1, epoch |-> domEpoch]
Create(dom) == /\ domains' = domains \cup {dom}
               /\ created' = created + 1
               /\ UNCHANGED used

Remove(dom) == domains' = domains \ {dom} /\ used' = used \ {dom}

\* destroy_domain: the launcher knows a domain by its id and its epoch, and
\* answers "domain not found" to anything else.
Destroy(dom, then, otherwise) ==
    /\ IF dom \in domains
       THEN Attempt(Remove(dom), <<domains, used>>, then, otherwise)
       ELSE Works /\ UNCHANGED <<domains, used>> /\ ctl' = otherwise
    /\ UNCHANGED created

-----------------------------------------------------------------------------
(* init and bootstrapping.                                                 *)

\* reconstruct_domain/1 gives the recorded domain the current epoch.
Reconstructed == IF bound = 0 THEN NoDomain ELSE [id |-> bound, epoch |-> epoch]

Start ==
    /\ At("init")
    /\ LET recover == bound # 0 /\ episodeState \notin Terminal IN
       /\ ctl' = [Fresh EXCEPT !.at = IF recover THEN "recover" ELSE "bootstrap",
                               !.epoch = epoch,
                               !.dom = IF recover THEN Reconstructed ELSE NoDomain,
                               !.recovering = recover]
       /\ revived' = (revived \/ episodeState \in Terminal)
    /\ UNCHANGED <<storeVars, governor, late, launcherVars, tasks, mail, asked,
                   unfenced, crashes>>
    /\ Works

OutsideStore == <<governor, late, launcherVars, tasks, mail, history, crashes>>
OutsideLauncher == <<storeVars, governor, late, tasks, mail, history, crashes>>

Bootstrap ==
    /\ At("bootstrap")
    /\ Record("bootstrapping")
    /\ ctl' = Goto("create")
    /\ UNCHANGED <<epoch, bound, checkpoint, leased, OutsideStore>>

CreateDomain ==
    /\ At("create")
    /\ LET dom == NewDomain(ctl.epoch) IN
       Attempt(Create(dom), launcherVars,
               [ctl EXCEPT !.at = "bind", !.next = dom], Goto("failing"))
    /\ UNCHANGED OutsideLauncher

BindDomain ==
    /\ At("bind")
    /\ Bind(ctl.next, Goto("lease"), Goto("failing"))
    /\ UNCHANGED OutsideStore

InitialLease ==
    /\ At("lease")
    /\ Issue(Goto("capture"), Goto("failing"))
    /\ UNCHANGED OutsideStore

\* SnapshotManager.capture/3: the backend and put_checkpoint/1 both refuse
\* when the epoch has moved.
Capture ==
    /\ At("capture")
    /\ IF ctl.next.epoch = epoch
       THEN Attempt(checkpoint' = epoch, checkpoint, Goto("booted"), Goto("failing"))
       ELSE Works /\ UNCHANGED checkpoint /\ ctl' = Goto("failing")
    /\ UNCHANGED <<episodeState, epoch, bound, leased, OutsideStore>>

Booted ==
    /\ At("booted")
    /\ SetState("running",
                [ctl EXCEPT !.at = "launch", !.dom = ctl.next, !.next = NoDomain],
                Goto("failing"))
    /\ UNCHANGED OutsideStore

Fail ==
    /\ At("failing")
    /\ Record("failed")
    /\ ctl' = Ended("failed")
    /\ UNCHANGED <<epoch, bound, checkpoint, leased, OutsideStore>>

-----------------------------------------------------------------------------
(* running and yielding.                                                   *)

\* start_worker/1; the task pool may be full.
Launch ==
    /\ At("launch")
    /\ \/ /\ tasks' = tasks \cup {[dom |-> ctl.dom, at |-> "check", boot |-> crashes]}
          /\ ctl' = Goto("running")
       \/ ctl' = Goto("preempting") /\ UNCHANGED tasks
    /\ UNCHANGED <<storeVars, governor, late, launcherVars, mail, history, crashes>>
    /\ Works

Take(kind) ==
    /\ mail # <<>>
    /\ Head(mail).kind = kind
    /\ mail' = Tail(mail)
    /\ UNCHANGED <<epoch, bound, checkpoint, leased, governor, late, launcherVars,
                   tasks, history, crashes>>

Narrow ==
    /\ At("running") /\ Take("narrow")
    /\ ctl' = Goto("narrow_revoke")
    /\ UNCHANGED episodeState
    /\ Works

\* maybe_narrow/3 revokes the lease of the controller's data, which is the one
\* of the bootstrap or repair; those of earlier narrowings stay.
NarrowRevoke ==
    /\ At("narrow_revoke")
    /\ leased' \in {leased, FALSE}
    /\ ctl' = Goto("narrow_issue")
    /\ UNCHANGED <<episodeState, epoch, bound, checkpoint, OutsideStore>>
    /\ Works

NarrowIssue ==
    /\ At("narrow_issue")
    /\ Issue(Goto("running"), Goto("running"))
    /\ UNCHANGED OutsideStore

Yield ==
    /\ At("running") /\ Take("yield")
    /\ Record("yielding")
    /\ ctl' = Goto("yielding")

\* A hard violation ("contain") of the Homeostat preempts a running worker.
Preempt ==
    /\ At("running") /\ (Take("preempt") \/ Take("contain"))
    /\ Record("preempting")
    /\ ctl' = Goto("preempting")

PreemptYielding ==
    /\ At("yielding") /\ Take("preempt")
    /\ ctl' = Goto("preempting")
    /\ UNCHANGED episodeState
    /\ Works

\* Slip: a yielding controller ignores the operator as it ignores the Homeostat.
ContainRunning ==
    /\ ctl.at \in {"running", "yielding"} /\ Take("operator_contain")
    /\ ctl' = IF At("running") THEN Goto("contain") ELSE ctl
    /\ UNCHANGED episodeState
    /\ Works

Contain ==
    /\ ctl.at \in {"running", "yielding"} /\ Take("operator_contain")
    /\ ctl' = Goto("contain")
    /\ UNCHANGED episodeState
    /\ Works

Complete ==
    /\ At("running") /\ Take("complete")
    /\ Record("completing")
    /\ ctl' = Goto("completing")

Resume ==
    /\ At("yielding") /\ Take("resume")
    /\ Record("running")
    /\ ctl' = Goto("running")

\* A worker's exit repairs the episode only while an effect is in flight.
WorkerExit ==
    /\ At("running") /\ Take("exit")
    /\ ctl' \in {ctl, Goto("preempting")}
    /\ UNCHANGED episodeState
    /\ Works

Ignore ==
    /\ \/ At("running") /\ Take("resume")
       \/ At("yielding") /\ \E kind \in {"narrow", "yield", "contain", "complete", "exit"} :
                                Take(kind)
    /\ UNCHANGED <<episodeState, ctl>>
    /\ Works

-----------------------------------------------------------------------------
(* preempting, repairing and recovery.                                     *)

Preempting ==
    /\ At("preempting")
    /\ IF ctl.repairs >= MaxRepairs
       THEN Works /\ ctl' = Goto("contain") /\ UNCHANGED episodeState
       ELSE Record("repairing") /\ ctl' = Goto("advance")
    /\ UNCHANGED <<epoch, bound, checkpoint, leased, OutsideStore>>

Recover ==
    /\ At("recover")
    /\ Record("repairing")
    /\ ctl' = Goto("advance")
    /\ UNCHANGED <<epoch, bound, checkpoint, leased, OutsideStore>>

\* Slip: the repair hands out authority before the old domain is gone.
LeaseFirst == [advance |-> "reissue", reissue |-> "destroy", destroy |-> "restore",
               restore |-> "record"]

\* RepairManager.repair/5 runs these in order; the first error ends it.
Then == [advance |-> "destroy", destroy |-> "restore", restore |-> "reissue",
         reissue |-> "record"]

Onward == Goto(Then[ctl.at])

\* A recovery that fails ends the controller; a repair that fails contains.
RecoveryFailed == Goto("failing")

RepairFailed ==
    [IF ctl.recovering THEN RecoveryFailed ELSE Goto("contain") EXCEPT !.next = NoDomain, !.to = 0]

RepairAdvance ==
    /\ At("advance")
    /\ \/ AdvanceSucceeds /\ ctl' = [Onward EXCEPT !.to = epoch + 1]
       \/ AdvanceFails /\ ctl' = RepairFailed
    /\ UNCHANGED <<launcherVars, tasks, mail, history, crashes>>

\* Slip: an old domain that was not proven empty does not stop the repair.
RepairDestroyUnproven ==
    /\ At("destroy")
    /\ Destroy(ctl.dom, Onward, Onward)
    /\ UNCHANGED OutsideLauncher

RepairDestroy ==
    /\ At("destroy")
    /\ Destroy(ctl.dom, Onward, RepairFailed)
    /\ UNCHANGED OutsideLauncher

\* Slip: the restored domain is created under the epoch after the current one.
RestoredAhead == NewDomain(epoch + 1)

Restored == NewDomain(epoch)

\* latest_stable/1 and restore/1; the backend reads the epoch again, and the
\* repair compares it with the one it advanced to.
RepairRestore ==
    /\ At("restore")
    /\ IF checkpoint # 0 /\ epoch > checkpoint
       THEN Attempt(Create(Restored), launcherVars,
                    IF epoch = ctl.to THEN [Onward EXCEPT !.next = Restored]
                                      ELSE RepairFailed,
                    RepairFailed)
       ELSE Works /\ UNCHANGED launcherVars /\ ctl' = RepairFailed
    /\ UNCHANGED OutsideLauncher

RepairLease ==
    /\ At("reissue")
    /\ Issue(Onward, RepairFailed)
    /\ UNCHANGED OutsideStore

\* record_recovery/1 appends a row nothing reads.
RepairRecord ==
    /\ At("record")
    /\ Attempt(TRUE, <<>>, Goto("rebind"), RepairFailed)
    /\ UNCHANGED <<storeVars, OutsideStore>>

RepairBind ==
    /\ At("rebind")
    /\ Bind(ctl.next, Goto("repaired"), RepairFailed)
    /\ UNCHANGED OutsideStore

\* Slip: a repair is not counted.
RepairedUncounted == [Fresh EXCEPT !.at = "launch", !.dom = ctl.next,
                                   !.epoch = ctl.next.epoch, !.repairs = ctl.repairs]

Repaired == [Fresh EXCEPT !.at = "launch", !.dom = ctl.next,
                          !.epoch = ctl.next.epoch, !.repairs = ctl.repairs + 1]

RepairDone ==
    /\ At("repaired")
    /\ SetState("running", Repaired, RepairFailed)
    /\ UNCHANGED OutsideStore

-----------------------------------------------------------------------------
(* containing and completing.                                              *)

\* ensure_epoch_fence/2, whose result is ignored: first the comparison.
ContainFence ==
    /\ At("contain")
    /\ \/ /\ Works
          /\ ctl' = Goto(IF epoch = ctl.epoch THEN "fence" ELSE "contain_destroy")
          /\ UNCHANGED unfenced
       \/ /\ Fails
          /\ ctl' = Goto("contain_destroy")
          /\ unfenced' = TRUE
    /\ UNCHANGED <<storeVars, governor, late, launcherVars, tasks, mail, asked,
                   revived, crashes>>

ContainAdvance ==
    /\ At("fence")
    /\ ctl' = Goto("contain_destroy")
    /\ \/ AdvanceSucceeds /\ UNCHANGED unfenced
       \/ AdvanceFails /\ unfenced' = TRUE
    /\ UNCHANGED <<launcherVars, tasks, mail, asked, revived, crashes>>

\* Slip: a domain that is not found counts as destroyed.
ContainDestroyLenient ==
    /\ At("contain_destroy")
    /\ IF ctl.dom \in domains
       THEN Destroy(ctl.dom, Goto("contain_clear"), Goto("failing"))
       ELSE Works /\ UNCHANGED launcherVars /\ ctl' = Goto("contain_clear")
    /\ UNCHANGED OutsideLauncher

ContainDestroy ==
    /\ At("contain_destroy")
    /\ Destroy(ctl.dom, Goto("contain_clear"), Goto("failing"))
    /\ UNCHANGED OutsideLauncher

ContainClear ==
    /\ At("contain_clear")
    /\ (Works /\ bound' = 0) \/ (Fails /\ UNCHANGED bound)
    /\ ctl' = Goto("contain_record")
    /\ UNCHANGED <<episodeState, epoch, checkpoint, leased, OutsideStore>>

ContainRecord ==
    /\ At("contain_record")
    /\ Record("contained")
    /\ ctl' = Ended("contained")
    /\ UNCHANGED <<epoch, bound, checkpoint, leased, OutsideStore>>

\* Completion waits, yielding, for effects in flight.
Completing ==
    /\ At("completing")
    /\ ctl' \in {Goto("complete_destroy"), Goto("yielding")}
    /\ UNCHANGED <<storeVars, OutsideStore>>
    /\ Works

CompleteDestroy ==
    /\ At("complete_destroy")
    /\ Destroy(ctl.dom, Goto("complete_clear"), Goto("failing"))
    /\ UNCHANGED OutsideLauncher

CompleteClear ==
    /\ At("complete_clear")
    /\ Attempt(bound' = 0, bound, Goto("complete_record"), Goto("failing"))
    /\ UNCHANGED <<episodeState, epoch, checkpoint, leased, OutsideStore>>

CompleteRecord ==
    /\ At("complete_record")
    /\ SetState("completed", Ended("completed"), Goto("failing"))
    /\ UNCHANGED OutsideStore

-----------------------------------------------------------------------------
(* The worker's task: Backend.exec, then a message to its controller.      *)

Becomes(t, step) == tasks' = (tasks \ {t}) \cup {[t EXCEPT !.at = step]}

\* A message to a controller that has been restarted is lost.
TaskEnds(t) ==
    /\ tasks' = tasks \ {t}
    /\ IF t.boot = crashes
       THEN Len(mail) < MaxMail /\ mail' = Append(mail, [kind |-> "exit", from |-> t.dom.id])
       ELSE UNCHANGED mail

TaskCheck(t) ==
    /\ t.at = "check"
    /\ \/ Works /\ t.dom.epoch = epoch /\ Becomes(t, "exec") /\ UNCHANGED mail
       \/ Works /\ t.dom.epoch # epoch /\ TaskEnds(t)
       \/ Fails /\ TaskEnds(t)
    /\ UNCHANGED <<storeVars, governor, late, launcherVars, ctl, history, crashes>>

TaskExec(t) ==
    /\ t.at = "exec"
    /\ \/ /\ Works
          /\ t.dom \in domains
          /\ used' = used \cup {t.dom}
          /\ IF t.boot = crashes THEN Becomes(t, "wait") ELSE tasks' = tasks \ {t}
          /\ UNCHANGED mail
       \/ Works /\ t.dom \notin domains /\ TaskEnds(t) /\ UNCHANGED used
       \/ Fails /\ TaskEnds(t) /\ UNCHANGED used
    /\ UNCHANGED <<storeVars, governor, late, domains, created, ctl, history, crashes>>

\* The worker exits, or dies with its domain.
TaskWait(t) ==
    /\ t.at = "wait"
    /\ TaskEnds(t)
    /\ UNCHANGED <<storeVars, governor, late, launcherVars, ctl, history, crashes>>
    /\ Works

-----------------------------------------------------------------------------
(* Senders, time, the governor, and crashes.                               *)

\* Homeostat, operator and clients; a terminal controller ignores them all.
Send(kind) ==
    /\ ctl.at \notin Terminal
    /\ Len(mail) < MaxMail
    /\ mail' = Append(mail, [kind |-> kind, from |-> 0])
    /\ asked' = (asked \/ kind = "operator_contain")
    /\ UNCHANGED <<storeVars, governor, late, launcherVars, tasks, ctl, unfenced,
                   revived, crashes>>
    /\ Works

\* The governor answers a call whose caller is gone.
LateAdvance ==
    /\ late
    /\ StoreAdvance
    /\ governor' = epoch'
    /\ late' = FALSE
    /\ UNCHANGED <<launcherVars, tasks, ctl, mail, history, crashes>>
    /\ Works

Restart ==
    /\ ~At("init")
    /\ crashes < MaxCrashes
    /\ crashes' = crashes + 1
    /\ ctl' = Fresh
    /\ mail' = <<>>
    /\ asked' = FALSE
    /\ unfenced' = FALSE
    /\ UNCHANGED <<storeVars, launcherVars, revived, failures>>

\* Tasks that still have to start their worker; the end of the others is
\* reported to nobody.
Orphans == {t \in tasks : t.at # "wait"}

\* The controller alone, which may leave a call in the governor's mailbox.
ControllerCrash ==
    /\ Restart
    /\ late' \in {late, late \/ ctl.at \in {"advance", "fence"}}
    /\ tasks' = Orphans
    /\ UNCHANGED governor

\* The governor, and with it all that was started after it; or the whole node,
\* which takes the worker tasks along.
TreeCrash ==
    /\ Restart
    /\ governor' = epoch
    /\ late' = FALSE
    /\ tasks' \in {Orphans, {}}

-----------------------------------------------------------------------------
ControllerStep ==
    \/ Start \/ Bootstrap \/ CreateDomain \/ BindDomain \/ InitialLease
    \/ Capture \/ Booted \/ Fail \/ Launch
    \/ Narrow \/ NarrowRevoke \/ NarrowIssue \/ Yield \/ Preempt
    \/ PreemptYielding \/ Contain \/ Complete \/ Resume \/ WorkerExit \/ Ignore
    \/ Preempting \/ Recover \/ RepairAdvance \/ RepairDestroy \/ RepairRestore
    \/ RepairLease \/ RepairRecord \/ RepairBind \/ RepairDone
    \/ ContainFence \/ ContainAdvance \/ ContainDestroy \/ ContainClear
    \/ ContainRecord \/ Completing \/ CompleteDestroy \/ CompleteClear
    \/ CompleteRecord

EpisodeNext ==
    \/ ControllerStep
    \/ \E t \in tasks : TaskCheck(t) \/ TaskExec(t) \/ TaskWait(t)
    \/ \E kind \in Signals : Send(kind)
    \/ LateAdvance
    \/ ControllerCrash
    \/ TreeCrash

EpisodeSpec == EpisodeInit /\ [][EpisodeNext]_vars

\* Every call the controller makes has a timeout, so it always goes on, and
\* the governor empties its mailbox.
FairEpisodeSpec == EpisodeSpec /\ WF_vars(ControllerStep) /\ WF_vars(LateAdvance)

-----------------------------------------------------------------------------
(* Properties.                                                             *)

Steps == {"init", "bootstrap", "create", "bind", "lease", "capture", "booted",
          "failing", "launch", "running", "narrow_revoke", "narrow_issue",
          "yielding", "preempting", "recover", "advance", "destroy", "restore",
          "reissue", "record", "rebind", "repaired", "contain", "fence",
          "contain_destroy", "contain_clear", "contain_record", "completing",
          "complete_destroy", "complete_clear", "complete_record"} \cup Terminal

Domains == [id : Nat, epoch : Nat]

\* Types, and no domain and no checkpoint from an epoch that has not come:
\* the backend restores under the epoch it reads from the store.
EpisodeTypeOK ==
    /\ episodeState \in {"bootstrapping", "running", "yielding", "preempting",
                          "repairing", "completing"} \cup Terminal
    /\ epoch \in Nat /\ checkpoint \in 0..epoch /\ governor \in 1..epoch
    /\ created \in Nat /\ bound \in 0..created
    /\ domains \subseteq [id : 1..created, epoch : 1..epoch]
    /\ used \subseteq domains
    /\ tasks \subseteq [dom : Domains, at : {"check", "exec", "wait"}, boot : 0..crashes]
    /\ ctl \in [at : Steps, dom : Domains, epoch : Nat, repairs : Nat,
                 next : Domains, to : Nat, recovering : BOOLEAN]
    /\ Len(mail) <= MaxMail
    /\ \A i \in 1..Len(mail) : mail[i].kind \in Signals \cup {"exit"}
    /\ {leased, late, asked, unfenced, revived} \subseteq BOOLEAN
    /\ crashes \in 0..MaxCrashes /\ failures \in 0..MaxFailures

\* An episode never has two domains in which its worker may still run, whatever
\* crashes, fails or answers late: repair_manager.ex goes on only when the old
\* domain is proven empty.  Excepted is an episode brought back from a terminal
\* state (see TerminalIsFinal).
OneWorkerDomain ==
    ~revived => \A d1, d2 \in used : d1 = d2

\* Authority follows the replacement: while a lease of the current epoch is
\* live, no domain of an older epoch can still run a worker.
NoAuthorityOverOldWorker ==
    leased /\ ~revived => \A d \in used : d.epoch = epoch

\* "contained" claims that authority is gone along with the domain: unless the
\* fence call itself failed (containing/3 ignores its result), no lease of the
\* current epoch is live and no domain of the episode can run its worker.
ContainedIsFenced ==
    At("contained") /\ ~unfenced /\ ~revived =>
        ~leased /\ used = {}

\* Repairs are budgeted over the whole life of the episode: each incarnation of
\* the controller spends at most its repairs and one final fence.
EpochsAreBudgeted == epoch <= 1 + (crashes + 1) * (MaxRepairs + 1)

\* An operator's contain/2 ends the episode, whatever the controller is doing
\* when it arrives, unless the controller crashes first (a cast is not durable).
ContainIsHonoured == asked ~> (ctl.at \in Terminal \/ ~asked)

\* 02_SUBSYSTEM_SPECIFICATIONS.md: ":completed - terminal success", ":failed -
\* terminal failure".  (Violated: init/1 bootstraps a terminal episode again
\* whenever the supervisor restarts the controller.)
TerminalIsFinal ==
    [][(episodeState \in {"completed", "failed"}) => UNCHANGED episodeState]_vars
=============================================================================
