---------------------------- MODULE EffectIngress ----------------------------
(***************************************************************************)
(* The way of a worker's request into the effect broker: the accept loop   *)
(* of each episode's socket (Autonomic.EffectSocket), the broker's         *)
(* admission of work (Autonomic.EffectBroker's GenServer, not what its     *)
(* tasks do: EffectBroker models that), the pool of tasks both start their *)
(* tasks in (Autonomic.Tasks), and the pressure the broker reports to the  *)
(* system regulator.                                                       *)
(*                                                                         *)
(* The accept task does everything for one client at a time and, at its    *)
(* end, tells the socket process to start the next one. The task           *)
(* supervisor counts a task until it has seen it exit, so a task that is   *)
(* done may still hold its slot when the next one is asked for.            *)
(***************************************************************************)
EXTENDS SystemRegulator, Sequences, FiniteSets

CONSTANTS Episodes,     \* the episodes that have a socket
          Direct,       \* callers without a socket: operators, the boot scan
          Pool,         \* slots of Autonomic.Tasks the workers' tasks leave free
          Limit,        \* effect_concurrency of the broker
          MaxRequests,  \* bound on requests, of all callers together
          MaxKills,     \* bound on broker tasks that are killed
          MaxTimeouts,  \* bound on broker calls that outlive their caller
          MaxReports    \* bound on the reports of others to the regulator

ASSUME IngressAssumption ==
    /\ Limit \in Nat \ {0} /\ Pool \in Nat
    /\ {MaxRequests, MaxKills, MaxTimeouts, MaxReports} \subseteq Nat
    /\ IsFiniteSet(Episodes) /\ IsFiniteSet(Direct)
    /\ Episodes \cap Direct = {}
    /\ {"effect_queue", "semantic_queue"} \subseteq Sources
    /\ \A n \in 0..Limit : (100 * n) \div Limit \in Levels

VARIABLES
    listener,   \* what the accept loop of an episode is doing
    clients,    \* connections in the backlog of its socket
    asking,     \* direct callers that wait for the broker
    mailbox,    \* the broker's messages: calls and results
    active,     \* the broker's count of its tasks
    jobs,       \* the callers whose broker task runs
    ending,     \* tasks that are done and that the supervisor still counts
    reports,    \* the broker's casts to the regulator
    requests, kills, timeouts, heard,   \* spent of the bounds above
    unheard,    \* history: an accept task was refused a slot
    refused     \* history: a broker task was refused a slot

brokerVars == <<mailbox, active, jobs, reports>>
socketVars == <<listener, clients>>
faultVars == <<kills, timeouts, unheard, refused>>
vars == <<regulatorVars, brokerVars, socketVars, faultVars,
          asking, ending, requests, heard>>

Callers == Episodes \cup Direct

Serving == {"accepting", "reading", "calling", "answering"}

Slots == Cardinality({e \in Episodes : listener[e] \in Serving})
            + Cardinality(jobs) + ending

Room == Slots < Pool

IngressInit ==
    /\ RegulatorInit
    /\ listener = [e \in Episodes |-> "rearm"]
    /\ clients = [e \in Episodes |-> 0]
    /\ mailbox = <<>> /\ reports = <<>>
    /\ jobs = {} /\ asking = {}
    /\ active = 0 /\ ending = 0
    /\ requests = 0 /\ kills = 0 /\ timeouts = 0 /\ heard = 0
    /\ unheard = FALSE /\ refused = FALSE

-----------------------------------------------------------------------------
(* The accept loop.                                                        *)

Becomes(e, from, to) ==
    listener[e] = from /\ listener' = [listener EXCEPT ![e] = to]

\* A worker process connects.
Connect(e) ==
    /\ requests < MaxRequests
    /\ requests' = requests + 1
    /\ clients' = [clients EXCEPT ![e] = @ + 1]
    /\ UNCHANGED <<regulatorVars, brokerVars, faultVars, listener, asking, ending, heard>>

\* handle_info(:accept). What start_child answers is not looked at: with the
\* pool full no task accepts, and none will ever say :accept again.
Rearm(e) ==
    /\ Becomes(e, "rearm", IF Room THEN "accepting" ELSE "deaf")
    /\ unheard' = (unheard \/ ~Room)
    /\ UNCHANGED <<regulatorVars, brokerVars, clients, asking, ending, requests,
                   heard, kills, timeouts, refused>>

Accept(e) ==
    /\ clients[e] > 0
    /\ Becomes(e, "accepting", "reading")
    /\ clients' = [clients EXCEPT ![e] = @ - 1]
    /\ UNCHANGED <<regulatorVars, brokerVars, faultVars, asking, ending, requests, heard>>

\* No frame within 15 s or no valid one, a request of another epoch, or an
\* action that only reads: status and fetch_response.
AnswerDirectly(e) ==
    /\ Becomes(e, "reading", "answering")
    /\ UNCHANGED <<regulatorVars, brokerVars, faultVars, clients, asking, ending,
                   requests, heard>>

CallBroker(e) ==
    /\ Becomes(e, "reading", "calling")
    /\ mailbox' = Append(mailbox, [kind |-> "call", from |-> e])
    /\ UNCHANGED <<regulatorVars, faultVars, clients, asking, active, jobs, reports,
                   ending, requests, heard>>

\* The GenServer.call of the accept task gives up after 30, 60 or 120 s. That
\* is an exit, and dispatch_current only rescues errors.
CallTimesOut(e) ==
    /\ timeouts < MaxTimeouts
    /\ Becomes(e, "calling", "deaf")
    /\ timeouts' = timeouts + 1
    /\ ending' = ending + 1
    /\ UNCHANGED <<regulatorVars, brokerVars, clients, asking, requests, heard,
                   kills, unheard, refused>>

\* The response, the close, and the message that starts the next accept task.
Answer(e) ==
    /\ Becomes(e, "answering", "rearm")
    /\ ending' = ending + 1
    /\ UNCHANGED <<regulatorVars, brokerVars, faultVars, clients, asking, requests, heard>>

\* The supervisor sees the exit of a task.
Reap ==
    /\ ending > 0
    /\ ending' = ending - 1
    /\ UNCHANGED <<regulatorVars, brokerVars, socketVars, faultVars, asking,
                   requests, heard>>

-----------------------------------------------------------------------------
(* The broker process and its tasks.                                       *)

\* An operator's call, or the scan the broker sends itself after its boot.
DirectCall(d) ==
    /\ d \notin asking
    /\ requests < MaxRequests
    /\ requests' = requests + 1
    /\ asking' = asking \cup {d}
    /\ mailbox' = Append(mailbox, [kind |-> "call", from |-> d])
    /\ UNCHANGED <<regulatorVars, socketVars, faultVars, active, jobs, reports,
                   ending, heard>>

Load(n) == [source |-> "effect_queue", value |-> (100 * n) \div Limit]

Overload == Load(Limit)

\* A reply reaches its caller if that one still waits.
Reply(c) ==
    IF c \in Direct
    THEN asking' = asking \ {c} /\ UNCHANGED listener
    ELSE /\ listener' = [listener EXCEPT ![c] = IF @ = "calling" THEN "answering" ELSE @]
         /\ UNCHANGED asking

NextMessage(kind) ==
    /\ mailbox # <<>>
    /\ Head(mailbox).kind = kind
    /\ mailbox' = Tail(mailbox)

\* Slip: one place too many.
StartWorkOverLimit ==
    /\ NextMessage("call")
    /\ active <= Limit /\ Room
    /\ jobs' = jobs \cup {Head(mailbox).from}
    /\ active' = active + 1
    /\ reports' = Append(reports, Overload)
    /\ UNCHANGED <<regulatorVars, socketVars, faultVars, asking, ending, requests, heard>>

StartWork ==
    /\ NextMessage("call")
    /\ active < Limit /\ Room
    /\ jobs' = jobs \cup {Head(mailbox).from}
    /\ active' = active + 1
    /\ reports' = Append(reports, Load(active + 1))
    /\ UNCHANGED <<regulatorVars, socketVars, faultVars, asking, ending, requests, heard>>

\* Slip: a task the pool refused is counted.
RefuseWorkCounts ==
    /\ NextMessage("call")
    /\ active >= Limit \/ ~Room
    /\ active' = IF active < Limit THEN active + 1 ELSE active
    /\ reports' = Append(reports, Overload)
    /\ refused' = (refused \/ active < Limit)
    /\ Reply(Head(mailbox).from)
    /\ UNCHANGED <<regulatorVars, clients, kills, timeouts, unheard, jobs,
                   ending, requests, heard>>

\* Slip: a saturated broker replies to nobody.
RefuseWorkSilently ==
    /\ NextMessage("call")
    /\ active >= Limit \/ ~Room
    /\ reports' = Append(reports, Overload)
    /\ refused' = (refused \/ active < Limit)
    /\ UNCHANGED <<regulatorVars, socketVars, asking, kills, timeouts, unheard,
                   active, jobs, ending, requests, heard>>

\* effect_broker_saturated, or effect_worker_unavailable when the pool is full.
RefuseWork ==
    /\ NextMessage("call")
    /\ active >= Limit \/ ~Room
    /\ reports' = Append(reports, Overload)
    /\ refused' = (refused \/ active < Limit)
    /\ Reply(Head(mailbox).from)
    /\ UNCHANGED <<regulatorVars, clients, kills, timeouts, unheard, active, jobs,
                   ending, requests, heard>>

\* Slip: it reports the load before the result.
BrokerResultReportsBefore ==
    /\ NextMessage("result")
    /\ active' = IF active = 0 THEN 0 ELSE active - 1
    /\ reports' = Append(reports, Load(active))
    /\ Reply(Head(mailbox).from)
    /\ UNCHANGED <<regulatorVars, clients, faultVars, jobs, ending, requests, heard>>

BrokerResult ==
    /\ NextMessage("result")
    /\ active' = IF active = 0 THEN 0 ELSE active - 1
    /\ reports' = Append(reports, Load(active'))
    /\ Reply(Head(mailbox).from)
    /\ UNCHANGED <<regulatorVars, clients, faultVars, jobs, ending, requests, heard>>

TaskEnds(c) ==
    /\ c \in jobs
    /\ jobs' = jobs \ {c}
    /\ ending' = ending + 1
    /\ mailbox' = Append(mailbox, [kind |-> "result", from |-> c])
    /\ UNCHANGED <<regulatorVars, socketVars, faultVars, asking, active, reports,
                   requests, heard>>

\* A task that is killed sends no result: nothing monitors it.
TaskKilled(c) ==
    /\ c \in jobs
    /\ kills < MaxKills
    /\ kills' = kills + 1
    /\ jobs' = jobs \ {c}
    /\ ending' = ending + 1
    /\ UNCHANGED <<regulatorVars, socketVars, asking, mailbox, active, reports,
                   requests, heard, timeouts, unheard, refused>>

-----------------------------------------------------------------------------
(* The regulator's messages: the broker's reports in their order, and those *)
(* of the sensor arrays and of the sensor bank at any time.                *)

TakeReport ==
    /\ reports # <<>>
    /\ Pressure(Head(reports).source, Head(reports).value)
    /\ reports' = Tail(reports)
    /\ UNCHANGED <<socketVars, faultVars, asking, mailbox, active, jobs, ending,
                   requests, heard>>

OthersReport ==
    /\ heard < MaxReports
    /\ heard' = heard + 1
    /\ \/ \E v \in Levels : Pressure("semantic_queue", v)
       \/ \E status \in Statuses : Health("semantic", status)
    /\ UNCHANGED <<brokerVars, socketVars, faultVars, asking, ending, requests>>

RegulatorTick ==
    /\ Tick
    /\ UNCHANGED <<brokerVars, socketVars, faultVars, asking, ending, requests, heard>>

IngressNext ==
    \/ \E e \in Episodes :
          \/ Connect(e) \/ Rearm(e) \/ Accept(e) \/ AnswerDirectly(e)
          \/ CallBroker(e) \/ CallTimesOut(e) \/ Answer(e)
    \/ \E d \in Direct : DirectCall(d)
    \/ \E c \in Callers : TaskEnds(c) \/ TaskKilled(c)
    \/ Reap \/ StartWork \/ RefuseWork \/ BrokerResult
    \/ TakeReport \/ OthersReport \/ RegulatorTick

\* Every process that has a message or a step to take takes it; a broker task
\* ends because the calls it makes have timeouts; the timer of the regulator
\* re-arms itself. Nobody has to connect, and nothing has to fail.
IngressFairness ==
    /\ \A e \in Episodes :
          /\ WF_vars(Rearm(e)) /\ WF_vars(Accept(e)) /\ WF_vars(Answer(e))
          /\ WF_vars(AnswerDirectly(e) \/ CallBroker(e))
    /\ \A c \in Callers : WF_vars(TaskEnds(c))
    /\ WF_vars(Reap) /\ WF_vars(StartWork \/ RefuseWork \/ BrokerResult)
    /\ WF_vars(TakeReport) /\ WF_vars(RegulatorTick)

IngressSpec == IngressInit /\ [][IngressNext]_vars
FairIngressSpec == IngressSpec /\ IngressFairness

-----------------------------------------------------------------------------
(* Properties.                                                             *)

Messages(kind) == {i \in 1..Len(mailbox) : mailbox[i].kind = kind}

IngressTypeOK ==
    /\ RegulatorTypeOK
    /\ listener \in [Episodes -> Serving \cup {"rearm", "deaf"}]
    /\ clients \in [Episodes -> 0..MaxRequests]
    /\ mailbox \in Seq([kind : {"call", "result"}, from : Callers])
    /\ reports \in Seq([source : {"effect_queue"}, value : Levels])
    /\ jobs \subseteq Callers /\ asking \subseteq Direct
    /\ active \in 0..Limit
    /\ Slots <= Pool

\* What the broker counts as active is exactly its running tasks, the results
\* it has not read yet, and every task that was ever killed: no order of
\* starts, refusals and results loses or adds a place, and a killed task never
\* gives its place back (effect_broker.ex:53-58, 89-118).
ActiveCountsTasks ==
    active = Cardinality(jobs) + Cardinality(Messages("result")) + kills

\* Every request that waits in a backlog or at the broker is answered and
\* every socket accepts again, unless a call outlived its caller, a task was
\* killed, or an accept task found the pool full (effect_socket.ex:42-61).
EveryoneIsAnswered ==
    <>[](timeouts = 0 /\ kills = 0 /\ ~unheard
            => /\ asking = {}
               /\ \A e \in Episodes : listener[e] = "accepting" /\ clients[e] = 0)

\* When the work is done the broker's pressure is gone and the mode is back at
\* what the other readings call for, unless a task was killed or found the
\* pool full: then the last report may say 100 % of nothing
\* (effect_broker.ex:109-111, 120-122).
BackpressureIsLifted ==
    <>[](kills = 0 /\ ~refused
            => /\ pressures["effect_queue"] = 0
               /\ mode = Target(health, pressures))
=============================================================================
