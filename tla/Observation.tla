---------------------------- MODULE Observation ----------------------------
(***************************************************************************)
(* The path of an observation through one episode: a sensor publishes a    *)
(* frame to the SensorArray (a bounded queue that answers demand), the     *)
(* SensorConsumer takes it in batches and calls the Homeostat with it, the *)
(* Homeostat judges it, writes the trajectory and casts a signal to the    *)
(* EpisodeController, and the controller repairs or yields.  Beside it: an *)
(* effect whose version vector pins the trajectory.                        *)
(*                                                                         *)
(* The smoothed scores are abstracted to the regime they make a candidate  *)
(* of; a frame carries that candidate.  The pressure the array casts is an *)
(* input of SystemRegulator.tla.  The signals `continue' and `narrow' do   *)
(* not move the controller and are left out here; repairs are spelled out  *)
(* in EpisodeController.tla and keep here the steps the Homeostat sees.    *)
(***************************************************************************)
EXTENDS Naturals, Sequences, FiniteSets, SequencesExt

CONSTANTS
    MaxQueue,    \* max_queue of the array
    MaxDemand,   \* max_demand of the consumer
    Shapes,      \* the frames sensors publish: [hard, critical, candidate]
    MaxEvents,   \* bound: frames published, a dead consumer counted as two
    MaxRepairs,  \* :max_repairs of the controller
    MaxCrashes,  \* bound: how often the consumer dies
    Failures     \* may writes to the store fail?

ASSUME ObservationAssumption ==
    /\ MaxQueue \in Nat /\ MaxDemand \in Nat
    /\ Shapes \subseteq [hard : {"none", "violation", "boundary"},
                        critical : BOOLEAN,
                        candidate : {"stable", "uncertain", "drifting",
                                     "unstable"}]

VARIABLES
    queue,      \* SensorArray: its queue
    demand,     \* SensorArray: the demand not yet answered
    hand,       \* SensorConsumer: frames delivered to it
    home,       \* Homeostat: [epoch, version, regime, stable]
    reply,      \* Homeostat: the signal and epoch of the frame it is persisting
    bumps,      \* Homeostat: :repair casts in its mailbox
    durable,    \* the episode's row: [epoch, version]
    controller, \* EpisodeController: [state, epoch, repairs]
    inbox,      \* EpisodeController: the signals in its mailbox
    pin,        \* an effect: the vector it was prepared with
    published,  \* how many frames were published
    crashes,    \* how many consumers died
    owed,       \* history: urgent frames published and not yet observed
    calm,       \* history: the stable frames since the last other one, up to 3
    yielded     \* history: the controller has yielded

array == <<queue, demand>>
homeostat == <<home, reply, bumps, calm>>
control == <<controller, inbox, yielded>>
vars == <<array, hand, homeostat, durable, control, pin, published, crashes,
          owed>>

-----------------------------------------------------------------------------
(* Frames.  The array and the Homeostat keep a list of hard facts each;    *)
(* "boundary" stands for the one only the array's list has.                *)

HardFrame(f) == f.hard \in {"violation", "boundary"}
HardViolation(f) == f.hard = "violation"
Urgent(f) == HardFrame(f) \/ f.critical

\* What the bound MaxEvents counts.
Events == published + 2 * crashes

NoReply == [signal |-> "none", epoch |-> 0]
NoPin == [epoch |-> 0, version |-> 0, missed |-> FALSE]

Init ==
    /\ queue = << >> /\ demand = 0 /\ hand = << >>
    /\ home = [epoch |-> 1, version |-> 0, regime |-> "stable", stable |-> 0]
    /\ reply = NoReply /\ bumps = 0
    /\ durable = [epoch |-> 1, version |-> 0]
    /\ controller = [state |-> "running", epoch |-> 1, repairs |-> 0]
    /\ inbox = << >> /\ pin = NoPin
    /\ published = 0 /\ crashes = 0
    /\ owed = 0 /\ calm = 0 /\ yielded = FALSE

-----------------------------------------------------------------------------
(* SensorArray                                                             *)

Low(q) == {i \in DOMAIN q : ~Urgent(q[i])}

\* Slip: the first frame, whatever it is.
DropOneLowBlind(q) == Tail(q)

\* drop_one_low: the first frame that is neither critical nor hard.
DropOneLow(q) ==
    IF Low(q) = {} THEN q
    ELSE RemoveAt(q, CHOOSE i \in Low(q) : \A j \in Low(q) : i <= j)

\* Slip: an urgent frame displaces nothing.
EnqueueInFront(q, f) ==
    IF Len(q) < MaxQueue THEN Append(q, f)
    ELSE IF Urgent(f) THEN <<f>> \o q
    ELSE q

Enqueue(q, f) ==
    IF Len(q) < MaxQueue THEN Append(q, f)
    ELSE IF Urgent(f) THEN <<f>> \o DropOneLow(q)
    ELSE q

\* dispatch: the head of the queue, as far as demand goes.
Dispatch(q, d) ==
    LET take == IF d < Len(q) THEN d ELSE Len(q)
    IN /\ hand' = hand \o SubSeq(q, 1, take)
       /\ queue' = SubSeq(q, take + 1, Len(q))
       /\ demand' = d - take

\* A sensor publishes a frame of the present epoch, or a late one of an
\* earlier epoch.
Publish(shape, e) ==
    LET f == [hard |-> shape.hard, critical |-> shape.critical,
              candidate |-> shape.candidate, epoch |-> e]
    IN /\ Events < MaxEvents
       /\ published' = published + 1
       /\ owed' = IF Urgent(f) THEN owed + 1 ELSE owed
       /\ Dispatch(Enqueue(queue, f), demand)
       /\ UNCHANGED <<homeostat, durable, control, pin, crashes>>

\* Slip: what waits in the queue waits for the next frame.
HandleDemandWaits ==
    /\ hand = << >> /\ demand < MaxDemand
    /\ demand' = MaxDemand
    /\ UNCHANGED <<queue, hand, homeostat, durable, control, pin, published,
                   crashes, owed>>

\* The consumer has handled what it was given and asks for more.
HandleDemand ==
    /\ hand = << >> /\ demand < MaxDemand
    /\ Dispatch(queue, MaxDemand)
    /\ UNCHANGED <<homeostat, durable, control, pin, published, crashes,
                   owed>>

-----------------------------------------------------------------------------
(* Homeostat                                                               *)

\* Slip: the frame that begins a recovery counts.
StableFramesButOne == 2

StableFramesRequired == 3

\* update_regime: the next regime and the stable frames counted for it.
Regime(h, candidate) ==
    CASE h.regime = "containment" -> [regime |-> "containment",
                                      stable |-> h.stable]
      [] /\ h.regime \in {"drifting", "unstable"} /\ candidate = "stable"
         /\ h.stable + 1 < StableFramesRequired
           -> [regime |-> h.regime, stable |-> h.stable + 1]
      [] /\ h.regime # "containment" /\ candidate = "stable"
         /\ \/ h.regime \notin {"drifting", "unstable"}
            \/ h.stable + 1 >= StableFramesRequired
           -> [regime |-> "stable",
               stable |-> IF h.stable < StableFramesRequired
                            THEN h.stable + 1 ELSE StableFramesRequired]
      [] h.regime # "containment" /\ candidate # "stable"
           -> [regime |-> candidate, stable |-> 0]

Contained(h) == [h EXCEPT !.regime = "containment"]

\* Slip: only a violation makes a new version.
IngestQuietly(h, f) ==
    IF f.epoch # h.epoch THEN Contained(h)
    ELSE LET judged == Regime(h, f.candidate)
         IN IF HardViolation(f) THEN [Contained(h) EXCEPT !.version = @ + 1]
            ELSE [h EXCEPT !.regime = judged.regime, !.stable = judged.stable]

\* ingest: a frame of another epoch contains, without a new version.
Ingest(h, f) ==
    IF f.epoch # h.epoch THEN Contained(h)
    ELSE LET seen == [h EXCEPT !.version = @ + 1]
             judged == Regime(seen, f.candidate)
         IN IF HardViolation(f) THEN Contained(seen)
            ELSE [seen EXCEPT !.regime = judged.regime,
                              !.stable = judged.stable]

\* output: what the controller is told.
Signal(h, f) ==
    CASE f.epoch # home.epoch \/ HardViolation(f) -> "contain"
      [] OTHER -> CASE h.regime = "unstable"  -> "preempt"
                    [] h.regime = "uncertain" -> "yield"
                    [] OTHER                  -> "continue"

\* The consumer calls observe with the next frame of its batch.
Observe ==
    /\ hand # << >> /\ reply = NoReply
    /\ LET f == Head(hand)
       IN /\ home' = Ingest(home, f)
          /\ reply' = [signal |-> Signal(home', f), epoch |-> f.epoch]
          /\ calm' = IF f.candidate # "stable" THEN 0
                     ELSE IF calm < 3 THEN calm + 1 ELSE 3
          /\ owed' = IF Urgent(f) THEN owed - 1 ELSE owed
    /\ hand' = Tail(hand)
    /\ UNCHANGED <<array, bumps, durable, control, pin, published, crashes>>

\* update_trajectory of the store, which refuses what is behind its row.
UpdateTrajectory(h) ==
    IF h.epoch = durable.epoch /\ h.version >= durable.version
      THEN [durable EXCEPT !.version = h.version]
      ELSE durable

\* The rest of the call: persist, whose outcome is ignored, and the signal.
PersistAndNotify ==
    /\ reply # NoReply
    /\ \/ /\ durable' = UpdateTrajectory(home)
          /\ pin' = IF reply.epoch = home.epoch /\ home.epoch = pin.epoch
                      THEN [pin EXCEPT !.missed = TRUE] ELSE pin
       \/ Failures /\ UNCHANGED <<durable, pin>>
    /\ inbox' = IF reply.signal = "continue" THEN inbox
                ELSE Append(inbox, reply.signal)
    /\ reply' = NoReply
    /\ UNCHANGED <<array, hand, home, bumps, calm, controller, yielded,
                   published, crashes, owed>>

\* repair_recorded.
RepairRecorded ==
    /\ bumps > 0 /\ reply = NoReply
    /\ bumps' = bumps - 1
    /\ home' = [home EXCEPT !.version = @ + 1]
    /\ UNCHANGED <<array, hand, reply, calm, durable, control, pin, published,
                   crashes, owed>>

-----------------------------------------------------------------------------
(* EpisodeController and RepairManager                                     *)

\* Slip: a running controller takes `contain' as a yielding one.
AnswersNoContain(state, signal) ==
    CASE state = "running"  -> IF signal = "preempt" THEN "preempting"
                               ELSE IF signal = "yield" THEN "yielding"
                               ELSE state
      [] state = "yielding" -> IF signal = "preempt"
                                 THEN "preempting" ELSE "yielding"
      [] OTHER              -> state

\* The states in which the controller looks at its mailbox.
Answers(state, signal) ==
    CASE state = "running"  -> IF signal \in {"contain", "preempt"}
                                 THEN "preempting" ELSE "yielding"
      [] state = "yielding" -> IF signal = "preempt"
                                 THEN "preempting" ELSE "yielding"
      [] OTHER              -> state

TakeSignal ==
    /\ inbox # << >>
    /\ controller.state \in {"running", "yielding", "contained"}
    /\ inbox' = Tail(inbox)
    /\ controller' = [controller EXCEPT !.state = Answers(@, Head(inbox))]
    /\ yielded' = (yielded \/ controller'.state = "yielding")
    /\ UNCHANGED <<array, hand, homeostat, durable, pin, published, crashes,
                   owed>>

Resume ==
    /\ controller.state = "yielding"
    /\ controller' = [controller EXCEPT !.state = "running"]
    /\ UNCHANGED <<array, hand, homeostat, durable, inbox, yielded, pin,
                   published, crashes, owed>>

\* preempting: a repair is left in the budget.
RepairIsDue == controller.state = "preempting" /\ controller.repairs < MaxRepairs

\* A restarted controller repairs without looking at the budget.
RecoveryIsDue == controller.state = "restarting"

\* Slip: a refused advance is taken for one that succeeded.
AdvanceEpochUnchecked ==
    /\ RepairIsDue \/ RecoveryIsDue
    /\ \/ durable' = [durable EXCEPT !.epoch = @ + 1]
       \/ Failures /\ UNCHANGED durable
    /\ controller' = [controller EXCEPT !.state = "repairing",
                                        !.epoch = durable.epoch + 1]
    /\ UNCHANGED <<array, hand, homeostat, inbox, yielded, pin, published,
                   crashes, owed>>

\* The first step of RepairManager.repair.
AdvanceEpoch ==
    /\ RepairIsDue \/ RecoveryIsDue
    /\ durable' = [durable EXCEPT !.epoch = @ + 1]
    /\ controller' = [controller EXCEPT !.state = "repairing",
                                        !.epoch = durable.epoch + 1]
    /\ UNCHANGED <<array, hand, homeostat, inbox, yielded, pin, published,
                   crashes, owed>>

\* containing: the budget is spent or a step of the repair failed.  The epoch
\* is advanced unless the repair has done so; a failure to advance it is ignored.
Contain ==
    /\ \/ controller.state = "preempting"
          /\ (controller.repairs >= MaxRepairs \/ Failures)
       \/ controller.state \in {"repairing", "rebased"} /\ Failures
    /\ \/ controller.state = "preempting"
          /\ durable' = [durable EXCEPT !.epoch = @ + 1]
       \/ (controller.state = "preempting" => Failures) /\ UNCHANGED durable
    /\ controller' = [controller EXCEPT !.state = "contained"]
    /\ UNCHANGED <<array, hand, homeostat, inbox, yielded, pin, published,
                   crashes, owed>>

\* The domain is restored; the Homeostat handles the call between two frames.
RebaseEpoch ==
    /\ controller.state = "repairing" /\ reply = NoReply
    /\ IF controller.epoch > home.epoch
         THEN /\ home' = [epoch |-> controller.epoch, version |-> 0,
                          regime |-> "stable", stable |-> 0]
              /\ controller' = [controller EXCEPT !.state = "rebased"]
         ELSE /\ controller' = [controller EXCEPT !.state = "contained"]
              /\ UNCHANGED home
    /\ UNCHANGED <<array, hand, reply, bumps, calm, durable, inbox, yielded,
                   pin, published, crashes, owed>>

\* The lease is issued and the recovery recorded.
FinishRepair ==
    /\ controller.state = "rebased"
    /\ bumps' = bumps + 1
    /\ controller' = [controller EXCEPT !.state = "running",
                                        !.repairs = @ + 1]
    /\ UNCHANGED <<array, hand, home, reply, calm, durable, inbox, yielded,
                   pin, published, crashes, owed>>

(***************************************************************************)
(* The call to the Homeostat takes longer than 15 seconds: the consumer    *)
(* exits with its batch, and with it, one child later under rest_for_one,  *)
(* the controller with its mailbox.  The array keeps its queue and its     *)
(* count of the demand it was left with.                                   *)
(***************************************************************************)
ConsumerDies ==
    /\ reply # NoReply /\ crashes < MaxCrashes /\ Events + 1 < MaxEvents
    /\ controller.state # "contained"
    /\ crashes' = crashes + 1
    /\ hand' = << >> /\ inbox' = << >>
    /\ controller' = [state |-> "restarting", epoch |-> durable.epoch,
                      repairs |-> 0]
    /\ UNCHANGED <<array, homeostat, durable, yielded, pin, published, owed>>

-----------------------------------------------------------------------------
(* An effect: prepared with the vector of the episode's row, committed if  *)
(* the row still has it.                                                   *)

Prepare ==
    /\ pin = NoPin
    /\ pin' = [epoch |-> durable.epoch, version |-> durable.version,
               missed |-> FALSE]
    /\ UNCHANGED <<array, hand, homeostat, durable, control, published,
                   crashes, owed>>

BeginCommit ==
    /\ pin # NoPin
    /\ pin.epoch = durable.epoch /\ pin.version = durable.version
    /\ pin' = NoPin
    /\ UNCHANGED <<array, hand, homeostat, durable, control, published,
                   crashes, owed>>

-----------------------------------------------------------------------------
Pipeline == HandleDemand \/ Observe \/ PersistAndNotify \/ RepairRecorded

Controller ==
    TakeSignal \/ AdvanceEpoch \/ Contain \/ RebaseEpoch \/ FinishRepair

Next ==
    \/ Pipeline \/ Controller
    \/ \E s \in Shapes : \E late \in {0, 1} :
          late < durable.epoch /\ Publish(s, durable.epoch - late)
    \/ Resume \/ ConsumerDies \/ Prepare \/ BeginCommit

(***************************************************************************)
(* The processes of the episode are scheduled; sensors, operators, the     *)
(* worker's effects and crashes come as they like.                         *)
(***************************************************************************)
Spec == Init /\ [][Next]_vars /\ WF_vars(Pipeline) /\ WF_vars(Controller)

-----------------------------------------------------------------------------
Regimes == {"stable", "uncertain", "drifting", "unstable", "containment"}

\* The shape of the state.
ObservationTypeOK ==
    /\ demand \in 0 .. MaxDemand
    /\ home.regime \in Regimes
    /\ home.stable \in 0 .. StableFramesRequired
    /\ home.epoch <= durable.epoch /\ controller.epoch <= durable.epoch
    /\ controller.state \in {"running", "yielding", "preempting", "repairing",
                             "rebased", "restarting", "contained"}
    /\ reply.signal \in {"none", "contain", "preempt", "yield", "continue"}
    /\ owed \in 0 .. published

(***************************************************************************)
(* "Deterministic violations are never dropped": while no consumer dies,   *)
(* every hard or critical frame that was published is in the queue, in the *)
(* consumer's hand or observed, however full the queue was.                *)
(***************************************************************************)
UrgentIn(s) == Cardinality({i \in DOMAIN s : Urgent(s[i])})

HardFramesNeverDropped ==
    crashes = 0 =>
        owed = UrgentIn(queue) + UrgentIn(hand)

(***************************************************************************)
(* The queue is bounded for everything else: it grows past max_queue only  *)
(* when nothing but hard and critical frames is in it.                     *)
(***************************************************************************)
QueueIsBounded == Len(queue) > MaxQueue => Low(queue) = {}

(***************************************************************************)
(* Once the controller has been told of a frame that the store has taken,  *)
(* no effect that was prepared before it is committed: the frame has moved *)
(* the trajectory the effect pins.  It holds in the first epoch: after a   *)
(* repair the Homeostat counts from 0 again, and the row, which refuses a  *)
(* smaller version, does not follow it.                                    *)
(***************************************************************************)
FramesFenceCommits == [][(BeginCommit /\ pin.epoch = 1) => ~pin.missed]_vars

(***************************************************************************)
(* A containment of the Homeostat does not stay its own affair: when none  *)
(* of its signals is under way, the controller is not running the episode  *)
(* the Homeostat holds contained.  It holds of an episode that never       *)
(* yielded and lost no consumer.                                           *)
(***************************************************************************)
ContainmentIsAnswered ==
    home.regime = "containment" /\ reply = NoReply
      /\ "contain" \notin {inbox[i] : i \in DOMAIN inbox}
      /\ ~yielded /\ crashes = 0
    => controller.state # "running"

(***************************************************************************)
(* The hysteresis of the Homeostat: from drifting or unstable straight to  *)
(* stable takes three stable frames in a row, and containment is left only *)
(* by a repair that rebases the Homeostat to a later epoch.                *)
(***************************************************************************)
RecoveryIsSlow ==
    [][(home'.epoch = home.epoch /\ home'.regime # home.regime) =>
         /\ home.regime # "containment"
         /\ home'.regime = "stable" /\ home.regime \in {"drifting", "unstable"}
              => calm' = 3]_vars

\* A hard frame does not wait for ever: the array answers demand as it comes
\* and as frames come, and the consumer asks again.
HardFrameIsObserved ==
    (UrgentIn(queue) + UrgentIn(hand) > 0) ~>
        (UrgentIn(queue) + UrgentIn(hand) = 0)
=============================================================================
