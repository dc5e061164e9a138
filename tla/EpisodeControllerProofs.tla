------------------------ MODULE EpisodeControllerProofs ------------------------
(***************************************************************************)
(* Theorems about EpisodeController for any number of repairs, failing     *)
(* calls, restarts and waiting signals.                                    *)
(***************************************************************************)
EXTENDS EpisodeController, TLAPS

-----------------------------------------------------------------------------
(* The invariant.                                                          *)

\* Domains a worker runs in, or will as soon as its task goes on.
Hosts == {d \in domains : d \in used \/ \E t \in tasks : t.dom = d}

\* The steps of a bootstrap, of an episode that has its domain, and of a repair
\* that has destroyed the old one.
Booting   == {"bootstrap", "create", "bind", "lease", "capture", "booted"}
Living    == {"launch", "running", "narrow_revoke", "narrow_issue", "yielding",
              "preempting", "completing", "complete_destroy"}
Replacing == {"restore", "reissue", "record", "rebind", "repaired"}

\* Steps at which no worker can run.
Vacant == Booting \cup Replacing \cup
          {"contain_clear", "contain_record", "contained",
           "complete_clear", "complete_record", "completed"}

Mails == [kind : Signals \cup {"exit"}, from : Nat]

\* Messages, and the identity of domains: ids are never used again.
Identities ==
    /\ mail \in Seq(Mails)
    /\ \A c, d \in domains : c.id = d.id => c = d
    /\ ctl.dom.id <= created /\ ctl.next.id <= created
    /\ \A t \in tasks : t.dom.id <= created

\* What a controller at each step holds, and how it compares with the row.
Positions ==
    /\ ctl.at \in Booting => ctl.epoch \in 1..epoch
    /\ ctl.at \in {"bind", "lease", "capture", "booted"} =>
          ctl.next \in domains /\ ctl.next.epoch = ctl.epoch
    /\ ctl.at \in {"lease", "capture", "booted", "repaired"} => bound = ctl.next.id
    /\ ctl.at \in {"capture", "booted"} => ~late
    /\ ctl.at \in {"booted", "reissue", "record", "rebind", "repaired"} =>
          ctl.next \in domains /\ ctl.next.epoch = epoch
    /\ ctl.at \in Living =>
          /\ ctl.dom \in domains /\ ctl.dom.id = bound
          /\ ctl.dom.epoch = epoch /\ ctl.epoch = epoch /\ ~late
    /\ ctl.at = "recover" => ctl.recovering
    /\ ctl.at = "advance" /\ ~ctl.recovering => ctl.epoch = epoch /\ ~late
    /\ ctl.at = "destroy" => ~late /\ ~leased
    /\ ctl.at \in Replacing => ~late /\ ctl.dom \notin domains

\* Workers run only in the domain the row names, and there is none before the
\* first launch, after a destruction and until the replacement is launched.
Hosting ==
    /\ \A d \in Hosts : d.id = bound
    /\ ctl.at \in Vacant => Hosts = {}
    /\ ctl.at \in {"recover", "advance", "destroy", "contain", "fence", "contain_destroy"} =>
          Hosts = {} \/ ctl.dom.id = bound
    /\ leased => \A d \in Hosts : d.epoch = epoch

\* A containment that goes on to destroy the domain it was asked to has fenced
\* the episode, unless the call for it failed.
Fencing ==
    /\ ctl.at = "contain" /\ ctl.dom \in domains /\ epoch # ctl.epoch => ~leased
    /\ ctl.at = "contain_destroy" /\ ctl.dom \in domains /\ ~unfenced => ~leased
    /\ ctl.at \in {"contain_clear", "contain_record", "contained"} /\ ~unfenced => ~leased

\* What earlier incarnations may have spent of the epochs, and what has been
\* spent; a call left in the governor's mailbox is spent already.
Earlier == 1 + crashes * (MaxRepairs + 1)
Spent   == epoch + (IF late THEN 1 ELSE 0)

\* What this incarnation may have spent so far: its repairs, the repair it is at,
\* and one fence, which ends it.
Budget ==
    /\ ctl.repairs <= MaxRepairs
    /\ Spent <= Earlier + MaxRepairs + 1
    /\ ctl.at = "init" => Spent <= Earlier
    /\ ctl.at \in Booting \cup Living \cup {"recover", "advance"} =>
          Spent <= Earlier + ctl.repairs
    /\ ctl.at \in {"destroy"} \cup Replacing => Spent <= Earlier + ctl.repairs + 1
    /\ ctl.at \in {"contain", "fence"} => Spent <= Earlier + MaxRepairs
    /\ ctl.at \in {"recover", "advance", "destroy"} \cup Replacing => ctl.repairs < MaxRepairs

EpisodeInv ==
    /\ EpisodeTypeOK
    /\ Identities
    /\ Positions
    /\ ~revived => Hosting
    /\ Fencing
    /\ Budget

-----------------------------------------------------------------------------
(* The data of the controller.                                             *)

Controllers == [at : Steps, dom : Domains, epoch : Nat, repairs : Nat,
                next : Domains, to : Nat, recovering : BOOLEAN]

\* Moving on to another step keeps the rest of the data.
LEMMA GotoFields ==
    ASSUME ctl \in Controllers
    PROVE  \A s \in Steps :
               /\ Goto(s) \in Controllers
               /\ Goto(s).at = s /\ Goto(s).dom = ctl.dom /\ Goto(s).epoch = ctl.epoch
               /\ Goto(s).repairs = ctl.repairs /\ Goto(s).next = ctl.next
               /\ Goto(s).to = ctl.to /\ Goto(s).recovering = ctl.recovering
BY DEF Goto, Controllers

LEMMA FreshFields ==
    /\ Fresh \in Controllers
    /\ Fresh.at = "init" /\ Fresh.dom = NoDomain /\ Fresh.epoch = 0 /\ Fresh.repairs = 0
    /\ Fresh.next = NoDomain /\ Fresh.to = 0 /\ Fresh.recovering = FALSE
    /\ NoDomain \in Domains /\ NoDomain.id = 0 /\ NoDomain.epoch = 0
BY DEF Fresh, NoDomain, Controllers, Domains, Steps

LEMMA EndedFields ==
    \A s \in Terminal :
        /\ Ended(s) \in Controllers
        /\ Ended(s).at = s /\ Ended(s).dom = NoDomain /\ Ended(s).next = NoDomain
        /\ Ended(s).repairs = 0
BY DEF Ended, Fresh, NoDomain, Controllers, Domains, Steps, Terminal

\* A repair that fails forgets the domain it was about to use.
LEMMA RepairFailedFields ==
    ASSUME ctl \in Controllers
    PROVE  /\ RepairFailed \in Controllers
           /\ RepairFailed.at = IF ctl.recovering THEN "failing" ELSE "contain"
           /\ RepairFailed.dom = ctl.dom /\ RepairFailed.epoch = ctl.epoch
           /\ RepairFailed.repairs = ctl.repairs /\ RepairFailed.next = NoDomain
           /\ RepairFailed.recovering = ctl.recovering
<1> DEFINE s == IF ctl.recovering THEN "failing" ELSE "contain"
<1>1. s \in Steps
    BY DEF Steps
<1> HIDE DEF s
<1>2. [Goto(s) EXCEPT !.next = NoDomain, !.to = 0] \in Controllers
    BY <1>1, GotoFields, FreshFields DEF Controllers
<1>3. /\ Goto(s) \in Controllers
      /\ Goto(s).at = s /\ Goto(s).dom = ctl.dom /\ Goto(s).epoch = ctl.epoch
      /\ Goto(s).repairs = ctl.repairs /\ Goto(s).recovering = ctl.recovering
    BY <1>1, GotoFields
<1>4. RepairFailed = [Goto(s) EXCEPT !.next = NoDomain, !.to = 0]
    BY DEF RepairFailed, RecoveryFailed, s
<1>5. /\ RepairFailed.at = s /\ RepairFailed.dom = ctl.dom
      /\ RepairFailed.epoch = ctl.epoch /\ RepairFailed.repairs = ctl.repairs
      /\ RepairFailed.next = NoDomain /\ RepairFailed.recovering = ctl.recovering
    BY <1>3, <1>4 DEF Controllers
<1> QED BY <1>2, <1>4, <1>5 DEF s

LEMMA RepairedFields ==
    ASSUME ctl \in Controllers
    PROVE  /\ Repaired \in Controllers
           /\ Repaired.at = "launch" /\ Repaired.dom = ctl.next
           /\ Repaired.epoch = ctl.next.epoch /\ Repaired.repairs = ctl.repairs + 1
           /\ Repaired.next = NoDomain
<1>1. /\ ctl.next \in Domains /\ ctl.next.epoch \in Nat /\ ctl.repairs + 1 \in Nat
      /\ "launch" \in Steps
    BY DEF Controllers, Domains, Steps
<1>2. Repaired \in Controllers
    BY <1>1, FreshFields DEF Repaired, Controllers
<1>3. /\ Repaired.at = "launch" /\ Repaired.dom = ctl.next
      /\ Repaired.epoch = ctl.next.epoch /\ Repaired.repairs = ctl.repairs + 1
      /\ Repaired.next = NoDomain
    BY FreshFields DEF Repaired, Controllers
<1> QED BY <1>2, <1>3

-----------------------------------------------------------------------------
(* Frames.                                                                 *)

LEMMA HostsSame ==
    ASSUME UNCHANGED <<domains, used, tasks>>
    PROVE  Hosts' = Hosts
BY DEF Hosts

LEMMA ElementsOfSeq ==
    ASSUME NEW S, NEW s \in Seq(S), NEW i \in 1..Len(s)
    PROVE  s[i] \in S
OBVIOUS

LEMMA TaskDomains ==
    ASSUME EpisodeTypeOK
    PROVE  \A t \in tasks : t.dom \in Domains /\ t.dom.id \in Nat
<1>1. \A t \in tasks : t.dom \in Domains
    BY DEF EpisodeTypeOK
<1> QED BY <1>1 DEF Domains

LEMMA Counts ==
    ASSUME EpisodeTypeOK
    PROVE  Earlier \in Nat /\ Spent \in Nat
<1>1. crashes \in Nat /\ MaxRepairs \in Nat /\ epoch \in Nat
    BY EpisodeAssumption DEF EpisodeTypeOK
<1>2. crashes * (MaxRepairs + 1) \in Nat
    BY <1>1
<1> QED BY <1>1, <1>2 DEF Earlier, Spent

LEMMA CountsSame ==
    ASSUME UNCHANGED <<crashes, epoch, late>>
    PROVE  Earlier' = Earlier /\ Spent' = Spent
BY DEF Earlier, Spent

\* EpisodeTypeOK with the record of the controller named.
LEMMA Types ==
    EpisodeTypeOK <=>
        /\ ctl \in Controllers
        /\ epoch \in Nat /\ checkpoint \in 0..epoch /\ governor \in 1..epoch
        /\ created \in Nat /\ bound \in 0..created
        /\ domains \subseteq [id : 1..created, epoch : 1..epoch]
        /\ used \subseteq domains
        /\ tasks \subseteq [dom : Domains, at : {"check", "exec", "wait"}, boot : 0..crashes]
        /\ episodeState \in {"bootstrapping", "running", "yielding", "preempting",
                              "repairing", "completing"} \cup Terminal
        /\ Len(mail) <= MaxMail
        /\ \A i \in 1..Len(mail) : mail[i].kind \in Signals \cup {"exit"}
        /\ leased \in BOOLEAN /\ late \in BOOLEAN /\ asked \in BOOLEAN
        /\ unfenced \in BOOLEAN /\ revived \in BOOLEAN
        /\ crashes \in 0..MaxCrashes /\ failures \in 0..MaxFailures
BY DEF EpisodeTypeOK, Controllers

-----------------------------------------------------------------------------
(* Steps that touch no sandbox, no task and no epoch.                      *)

\* How such a step goes on, and what it has made sure of before.
Edge ==
    \/ ctl' = ctl /\ bound' = bound
    \/ ctl'.at = "failing"
    \/ /\ ctl'.at = "contain"
       /\ \/ ctl.at \in {"destroy", "running", "yielding", "preempting"} \cup Replacing
          \/ ctl.at = "advance" /\ ~ctl.recovering
    \/ /\ ctl'.next = ctl.next
       /\ \/ ctl.at \in Living /\ ctl'.at \in Living
          \/ ctl.at = "preempting" /\ ctl'.at = "advance" /\ ctl.repairs < MaxRepairs
          \/ ctl.at = "recover" /\ ctl'.at = "advance"
          \/ ctl.at = "bootstrap" /\ ctl'.at = "create"
          \/ ctl.at = "bind" /\ ctl'.at = "lease" /\ bound' = ctl.next.id
          \/ ctl.at = "lease" /\ ctl'.at = "capture" /\ ~late
          \/ ctl.at = "capture" /\ ctl'.at = "booted" /\ ctl.next.epoch = epoch
          \/ ctl.at = "reissue" /\ ctl'.at = "record"
          \/ ctl.at = "record" /\ ctl'.at = "rebind"
          \/ ctl.at = "rebind" /\ ctl'.at = "repaired" /\ bound' = ctl.next.id
          \/ ctl.at = "contain" /\ ctl'.at = "fence"
          \/ /\ ctl.at = "contain" /\ ctl'.at = "contain_destroy"
             /\ unfenced' \/ epoch # ctl.epoch
          \/ ctl.at = "fence" /\ ctl'.at = "contain_destroy" /\ unfenced'
          \/ ctl.at = "contain_clear" /\ ctl'.at = "contain_record"
          \/ ctl.at = "complete_clear" /\ ctl'.at = "complete_record"

\* What it may write.
Plain ==
    /\ UNCHANGED <<epoch, late, governor, launcherVars, tasks, revived, crashes>>
    /\ checkpoint' \in {checkpoint, epoch}
    /\ leased' => leased \/ ctl.at \in {"lease", "narrow_issue", "reissue"}
    /\ \/ bound' = bound
       \/ ctl.at \in {"bind", "rebind"} /\ bound' = ctl.next.id
       \/ ctl.at \in {"contain_clear", "complete_clear"} /\ bound' = 0
    /\ unfenced' \in BOOLEAN /\ (unfenced => unfenced')
    /\ ctl' \in Controllers
    /\ ctl'.dom = ctl.dom /\ ctl'.epoch = ctl.epoch /\ ctl'.repairs = ctl.repairs
    /\ ctl'.recovering = ctl.recovering
    /\ ctl'.next \in {ctl.next, NoDomain}
    /\ Edge
    /\ leased' \in BOOLEAN /\ asked' \in BOOLEAN
    /\ failures' \in 0..MaxFailures
    /\ episodeState' \in {"bootstrapping", "running", "yielding", "preempting",
                           "repairing", "completing"} \cup Terminal
    /\ mail' \in Seq(Mails) /\ Len(mail') <= MaxMail

LEMMA PlainKeeps ==
    ASSUME EpisodeInv, Plain
    PROVE  EpisodeInv'
<1> USE EpisodeAssumption DEF EpisodeInv
<1>1. ctl \in Controllers /\ NoDomain.id = 0
    BY Types, FreshFields
<1>2. EpisodeTypeOK'
    <2>1. checkpoint' \in 0..epoch' /\ governor' \in 1..epoch' /\ bound' \in 0..created'
        <3>1. ctl.next.id \in 0..created
            BY <1>1 DEF EpisodeTypeOK, Identities, Controllers, Domains
        <3> QED BY <3>1 DEF EpisodeTypeOK, Plain, launcherVars
    <2>2. \A i \in 1..Len(mail') : mail'[i].kind \in Signals \cup {"exit"}
        <3> SUFFICES ASSUME NEW i \in 1..Len(mail')
                     PROVE  mail'[i].kind \in Signals \cup {"exit"}
            OBVIOUS
        <3>1. mail'[i] \in Mails
            BY ElementsOfSeq DEF Plain
        <3> QED BY <3>1 DEF Mails
    <2> QED BY <2>1, <2>2 DEF EpisodeTypeOK, Plain, launcherVars, Controllers
<1>3. Identities'
    BY <1>1 DEF Plain, launcherVars, EpisodeTypeOK, Identities
<1>4. Positions'
    BY <1>1 DEF Plain, Edge, launcherVars, Positions, Booting, Living, Replacing
<1>5. ~revived' => Hosting'
    <2> SUFFICES ASSUME Hosting PROVE Hosting'
        BY DEF Plain
    <2>1. Hosts' = Hosts
        BY HostsSame DEF Plain, launcherVars
    <2>2. bound' = bound \/ Hosts = {}
        BY DEF Plain, Hosting, Vacant, Booting, Replacing
    <2>3. leased' => \A d \in Hosts : d.epoch = epoch
        <3>1. CASE ctl.at = "narrow_issue"
            BY <3>1 DEF Hosting, Hosts, Identities, Positions, Living
        <3> QED BY <3>1 DEF Plain, Hosting, Vacant, Booting, Replacing
    <2>4. ctl'.at \in Vacant => Hosts = {}
        BY DEF Plain, Edge, Hosting, Vacant, Booting, Living, Replacing
    <2>5. ctl'.at \in {"recover", "advance", "destroy", "contain", "fence", "contain_destroy"}
            => Hosts = {} \/ ctl'.dom.id = bound
        BY DEF Plain, Edge, Hosting, Vacant, Booting, Living, Replacing, Positions
    <2> QED BY <2>1, <2>2, <2>3, <2>4, <2>5 DEF Hosting, Plain
<1>6. Fencing'
    <2>1. ctl'.at = "contain" /\ ctl'.dom \in domains' /\ epoch' # ctl'.epoch => ~leased'
        BY <1>1 DEF Plain, Edge, launcherVars, Positions, Living, Replacing, Fencing
    <2>2. ctl'.at = "contain_destroy" /\ ctl'.dom \in domains' /\ ~unfenced' => ~leased'
        BY <1>1 DEF Plain, Edge, launcherVars, Living, Fencing
    <2>3. ctl'.at \in {"contain_clear", "contain_record", "contained"} /\ ~unfenced' => ~leased'
        BY <1>1 DEF Plain, Edge, Living, Fencing
    <2> QED BY <2>1, <2>2, <2>3 DEF Fencing
<1>7. Budget'
    <2>1. Earlier' = Earlier /\ Spent' = Spent
        BY CountsSame DEF Plain
    <2>2. Earlier \in Nat /\ Spent \in Nat /\ ctl.repairs \in Nat /\ MaxRepairs \in Nat
        BY <1>1, Counts DEF Controllers
    <2> HIDE DEF EpisodeInv
    <2>3. Budget
        BY DEF EpisodeInv
    <2>4. ctl'.repairs = ctl.repairs
        BY DEF Plain
    <2>5. ctl'.at = "init" => Spent <= Earlier
        BY <2>3 DEF Plain, Edge, Living, Budget
    <2>6. ctl'.at \in Booting \cup Living \cup {"recover", "advance"} =>
              Spent <= Earlier + ctl.repairs
        BY <2>3 DEF Plain, Edge, Booting, Living, Budget
    <2>7. ctl'.at \in {"destroy"} \cup Replacing => Spent <= Earlier + ctl.repairs + 1
        BY <2>3 DEF Plain, Edge, Living, Replacing, Budget
    <2>8. ctl'.at \in {"contain", "fence"} => Spent <= Earlier + MaxRepairs
        BY <2>2, <2>3 DEF Plain, Edge, Living, Replacing, Budget
    <2>9. ctl'.at \in {"recover", "advance", "destroy"} \cup Replacing => ctl.repairs < MaxRepairs
        BY <2>3 DEF Plain, Edge, Living, Replacing, Budget
    <2> QED BY <2>1, <2>3, <2>4, <2>5, <2>6, <2>7, <2>8, <2>9 DEF Budget
<1> QED BY <1>2, <1>3, <1>4, <1>5, <1>6, <1>7

LEMMA RevokeOnlyDrops ==
    ASSUME leased \in BOOLEAN, NarrowRevoke
    PROVE  leased' \in BOOLEAN /\ (leased' => leased)
<1>1. leased' \in {leased, FALSE}
    BY DEF NarrowRevoke
<1>2. CASE leased' = leased
    BY <1>2
<1>3. CASE leased' = FALSE
    BY <1>3
<1> QED BY <1>1, <1>2, <1>3

LEMMA PlainSteps ==
    ASSUME EpisodeInv,
           \/ Bootstrap \/ BindDomain \/ InitialLease \/ Capture
           \/ Narrow \/ NarrowRevoke \/ NarrowIssue \/ Yield \/ Preempt
           \/ PreemptYielding \/ Contain \/ Complete \/ Resume \/ WorkerExit \/ Ignore
           \/ Preempting \/ Recover \/ RepairLease \/ RepairRecord \/ RepairBind
           \/ ContainFence \/ ContainClear \/ Completing \/ CompleteClear
    PROVE  Plain
<1>1. ctl \in Controllers
    BY Types DEF EpisodeInv
<1>2. /\ episodeState \in {"bootstrapping", "running", "yielding", "preempting",
                            "repairing", "completing"} \cup Terminal
      /\ leased \in BOOLEAN /\ late \in BOOLEAN /\ asked \in BOOLEAN
      /\ unfenced \in BOOLEAN /\ failures \in 0..MaxFailures
      /\ mail \in Seq(Mails) /\ Len(mail) <= MaxMail
    BY DEF EpisodeInv, EpisodeTypeOK, Identities
<1>3. mail # <<>> => Tail(mail) \in Seq(Mails) /\ Len(Tail(mail)) <= MaxMail
    BY <1>2, EpisodeAssumption
<1>4. Fails => failures' \in 0..MaxFailures
    BY <1>2, EpisodeAssumption DEF Fails
<1>5. /\ ctl.at = "preempting" => ctl.repairs <= MaxRepairs
      /\ ctl.at \in Replacing => ~late /\ ctl.dom \notin domains
      /\ ctl.repairs \in Nat /\ MaxRepairs \in Nat
    BY <1>1, EpisodeAssumption DEF EpisodeInv, Positions, Budget, Controllers
<1> USE <1>1, <1>2, <1>3, <1>4, <1>5, GotoFields, RepairFailedFields
    DEF Plain, Edge, At, Works, Steps, Living, Replacing, Terminal, storeVars, launcherVars,
        history, OutsideStore
<1>6. CASE Bootstrap
    BY <1>6 DEF Bootstrap, Record
<1>7. CASE BindDomain
    BY <1>7 DEF BindDomain, Bind, Attempt
<1>8. CASE InitialLease
    <2>1. leased' \in BOOLEAN
        BY <1>8 DEF InitialLease, Issue, Attempt
    <2>2. ctl' = Goto("capture") \/ ctl' = Goto("failing")
        BY <1>8 DEF InitialLease, Issue, Attempt
    <2>3. /\ ~late /\ failures' \in 0..MaxFailures
          /\ UNCHANGED <<episodeState, epoch, bound, checkpoint, OutsideStore>>
        BY <1>8 DEF InitialLease, Issue, Attempt
    <2> QED BY <1>8, <2>1, <2>2, <2>3 DEF InitialLease
<1>9. CASE Capture
    BY <1>9 DEF Capture, Attempt
<1>10. CASE Narrow
    BY <1>10 DEF Narrow, Take
<1>11. CASE NarrowRevoke
    <2>1. leased' \in BOOLEAN /\ (leased' => leased)
        BY <1>11, RevokeOnlyDrops
    <2> QED BY <1>11, <2>1 DEF NarrowRevoke
<1>12. CASE NarrowIssue
    <2>1. leased' \in BOOLEAN
        BY <1>12 DEF NarrowIssue, Issue, Attempt
    <2>2. ctl' = Goto("running") \/ ctl' = Goto("running")
        BY <1>12 DEF NarrowIssue, Issue, Attempt
    <2>3. /\ ~late /\ failures' \in 0..MaxFailures
          /\ UNCHANGED <<episodeState, epoch, bound, checkpoint, OutsideStore>>
        BY <1>12 DEF NarrowIssue, Issue, Attempt
    <2> QED BY <1>12, <2>1, <2>2, <2>3 DEF NarrowIssue
<1>13. CASE Yield
    BY <1>13 DEF Yield, Take, Record
<1>14. CASE Preempt
    <2>1. CASE Take("preempt")
        BY <1>14, <2>1 DEF Preempt, Take, Record
    <2>2. CASE Take("contain")
        BY <1>14, <2>2 DEF Preempt, Take, Record
    <2> QED BY <1>14, <2>1, <2>2 DEF Preempt
<1>15. CASE PreemptYielding
    BY <1>15 DEF PreemptYielding, Take
<1>16. CASE Contain
    BY <1>16 DEF Contain, Take
<1>17. CASE Complete
    BY <1>17 DEF Complete, Take, Record
<1>18. CASE Resume
    BY <1>18 DEF Resume, Take, Record
<1>19. CASE WorkerExit
    BY <1>19 DEF WorkerExit, Take
<1>20. CASE Ignore
    <2>1. PICK kind : Take(kind)
        BY <1>20 DEF Ignore
    <2> QED BY <1>20, <2>1 DEF Ignore, Take
<1>21. CASE Preempting
    BY <1>21 DEF Preempting, Record
<1>22. CASE Recover
    BY <1>22 DEF Recover, Record
<1>23. CASE RepairLease
    <2>1. leased' \in BOOLEAN
        BY <1>23 DEF RepairLease, Issue, Attempt
    <2>2. ctl' = Onward \/ ctl' = RepairFailed
        BY <1>23 DEF RepairLease, Issue, Attempt
    <2>3. /\ ~late /\ failures' \in 0..MaxFailures
          /\ UNCHANGED <<episodeState, epoch, bound, checkpoint, OutsideStore>>
        BY <1>23 DEF RepairLease, Issue, Attempt
    <2> QED BY <1>23, <2>1, <2>2, <2>3 DEF RepairLease, Onward, Then
<1>24. CASE RepairRecord
    BY <1>24 DEF RepairRecord, Attempt
<1>25. CASE RepairBind
    BY <1>25 DEF RepairBind, Bind, Attempt
<1>26. CASE ContainFence
    <2>1. unfenced' \in BOOLEAN /\ (unfenced => unfenced')
        BY <1>26 DEF ContainFence
    <2>2. \/ ctl' = Goto("fence")
          \/ ctl' = Goto("contain_destroy") /\ (unfenced' \/ epoch # ctl.epoch)
        BY <1>26 DEF ContainFence
    <2>3. failures' \in 0..MaxFailures
        BY <1>26 DEF ContainFence
    <2> QED BY <1>26, <2>1, <2>2, <2>3 DEF ContainFence
<1>27. CASE ContainClear
    BY <1>27 DEF ContainClear
<1>28. CASE Completing
    BY <1>28 DEF Completing
<1>29. CASE CompleteClear
    BY <1>29 DEF CompleteClear, Attempt
<1> QED
    BY <1>6, <1>7, <1>8, <1>9, <1>10, <1>11, <1>12, <1>13, <1>14, <1>15, <1>16, <1>17, <1>18, <1>19, <1>20, <1>21, <1>22, <1>23, <1>24, <1>25, <1>26, <1>27, <1>28, <1>29

\* A signal waits in the mailbox: nothing else changes.
LEMMA SendKeeps ==
    ASSUME EpisodeInv, NEW kind \in Signals, Send(kind)
    PROVE  EpisodeInv'
<1>1. /\ ctl \in Controllers /\ mail \in Seq(Mails) /\ Len(mail) < MaxMail
      /\ leased \in BOOLEAN /\ unfenced \in BOOLEAN /\ asked \in BOOLEAN
    BY Types DEF EpisodeInv, Identities, Send
<1>2. mail' \in Seq(Mails) /\ Len(mail') <= MaxMail
    <2>1. [kind |-> kind, from |-> 0] \in Mails
        BY DEF Mails
    <2> QED BY <1>1, <2>1, EpisodeAssumption DEF Send
<1>3. asked' \in BOOLEAN
    BY <1>1 DEF Send
<1>4. Plain
    BY <1>1, <1>2, <1>3
    DEF Send, Plain, Edge, Works, EpisodeInv, EpisodeTypeOK, storeVars, launcherVars
<1> QED BY <1>4, PlainKeeps

-----------------------------------------------------------------------------
(* Steps that end the controller or adopt a domain.                        *)

LEMMA EndKeeps ==
    ASSUME EpisodeInv, Fail \/ ContainRecord \/ CompleteRecord
    PROVE  EpisodeInv'
<1> USE EpisodeAssumption DEF EpisodeInv
<1>1. /\ UNCHANGED <<epoch, bound, checkpoint, leased, OutsideStore>>
      /\ failures' \in 0..MaxFailures
      /\ episodeState' \in {episodeState} \cup Terminal
    BY DEF Fail, ContainRecord, CompleteRecord, Record, SetState, Attempt, Works, Fails,
           Terminal, EpisodeTypeOK
<1>2. \/ ctl' = Ended("failed")
      \/ ctl.at = "contain_record" /\ ctl' = Ended("contained")
      \/ ctl.at = "complete_record" /\ ctl' \in {Ended("completed"), Goto("failing")}
    BY DEF Fail, ContainRecord, CompleteRecord, SetState, Attempt, At
<1>3. CASE ctl' = Goto("failing")
    <2>1. Plain
        BY <1>1, <1>3, GotoFields, Types
        DEF Plain, Edge, EpisodeTypeOK, Identities, OutsideStore, history, Steps, Terminal
    <2> QED BY <2>1, PlainKeeps
<1>4. CASE ctl' # Goto("failing")
    <2>1. /\ ctl' \in Controllers
          /\ ctl'.dom.id = 0 /\ ctl'.next.id = 0 /\ ctl'.repairs = 0
          /\ \/ ctl'.at = "failed"
             \/ ctl.at = "contain_record" /\ ctl'.at = "contained"
             \/ ctl.at = "complete_record" /\ ctl'.at = "completed"
        BY <1>2, <1>4, EndedFields, FreshFields DEF Terminal
    <2>2. EpisodeTypeOK'
        BY <1>1, <2>1 DEF EpisodeTypeOK, OutsideStore, launcherVars, history, Controllers
    <2>3. Identities'
        BY <1>1, <2>1 DEF EpisodeTypeOK, Identities, OutsideStore, launcherVars
    <2>4. Positions'
        BY <2>1 DEF Positions, Booting, Living, Replacing
    <2>5. ~revived' => Hosting'
        BY <1>1, <2>1, HostsSame
        DEF Hosting, Vacant, Booting, Replacing, OutsideStore, launcherVars, history
    <2>6. Fencing'
        BY <1>1, <2>1 DEF Fencing, OutsideStore, history
    <2>7. Budget'
        BY <1>1, <2>1, Counts, CountsSame
        DEF Budget, Booting, Living, Replacing, OutsideStore
    <2> QED BY <2>2, <2>3, <2>4, <2>5, <2>6, <2>7
<1> QED BY <1>3, <1>4

\* The domain of a bootstrap or a repair becomes the controller's own once its
\* binding is written; it is of the current epoch, which no step between has moved.
LEMMA AdoptKeeps ==
    ASSUME EpisodeInv, Booted \/ RepairDone
    PROVE  EpisodeInv'
<1> USE EpisodeAssumption DEF EpisodeInv
<1>0. ctl \in Controllers
    BY Types
<1>1. /\ UNCHANGED <<epoch, bound, checkpoint, leased, OutsideStore>>
      /\ failures' \in 0..MaxFailures
      /\ episodeState' \in {episodeState, "running"}
      /\ ctl.at \in {"booted", "repaired"}
    BY DEF Booted, RepairDone, SetState, Attempt, Works, Fails, EpisodeTypeOK, At
<1>2. CASE ctl' \in {Goto("failing"), RepairFailed} /\ (Booted => ctl' = Goto("failing"))
    <2>1. Plain
        BY <1>0, <1>1, <1>2, GotoFields, RepairFailedFields
        DEF Plain, Edge, EpisodeTypeOK, Identities, OutsideStore, history, Steps, Terminal,
            Booted, RepairDone, At, Replacing
    <2> QED BY <2>1, PlainKeeps
<1>3. CASE \/ ctl.at = "booted"
              /\ ctl' = [ctl EXCEPT !.at = "launch", !.dom = ctl.next, !.next = NoDomain]
           \/ ctl.at = "repaired" /\ ctl' = Repaired
    <2>1. /\ ctl' \in Controllers /\ ctl'.at = "launch"
          /\ ctl'.dom = ctl.next /\ ctl'.next = NoDomain
          /\ ctl'.epoch = IF ctl.at = "booted" THEN ctl.epoch ELSE ctl.next.epoch
          /\ ctl'.repairs = IF ctl.at = "booted" THEN ctl.repairs ELSE ctl.repairs + 1
        <3>1. CASE ctl.at = "booted"
            BY <1>0, <1>3, <3>1, FreshFields DEF Controllers, Steps
        <3>2. CASE ctl.at = "repaired"
            BY <1>0, <1>3, <3>2, RepairedFields
        <3> QED BY <1>1, <3>1, <3>2
    <2>2. EpisodeTypeOK'
        BY <1>1, <2>1 DEF EpisodeTypeOK, OutsideStore, launcherVars, history, Controllers
    <2>3. Identities'
        BY <1>1, <2>1, FreshFields DEF EpisodeTypeOK, Identities, OutsideStore, launcherVars
    <2>4. Positions'
        BY <1>1, <2>1
        DEF Positions, Booting, Living, Replacing, OutsideStore, launcherVars
    <2>5. ~revived' => Hosting'
        BY <1>1, <2>1, HostsSame
        DEF Hosting, Vacant, Booting, Replacing, OutsideStore, launcherVars, history
    <2>6. Fencing'
        BY <2>1 DEF Fencing
    <2>7. Budget'
        <3>1. Earlier' = Earlier /\ Spent' = Spent /\ Earlier \in Nat /\ Spent \in Nat
            BY <1>1, Counts, CountsSame DEF OutsideStore
        <3> QED BY <1>0, <1>1, <2>1, <3>1
            DEF Budget, Booting, Living, Replacing, Controllers
    <2> QED BY <2>2, <2>3, <2>4, <2>5, <2>6, <2>7
<1>4. \/ ctl' \in {Goto("failing"), RepairFailed} /\ (Booted => ctl' = Goto("failing"))
      \/ ctl.at = "booted"
         /\ ctl' = [ctl EXCEPT !.at = "launch", !.dom = ctl.next, !.next = NoDomain]
      \/ ctl.at = "repaired" /\ ctl' = Repaired
    BY DEF Booted, RepairDone, SetState, Attempt, At
<1> QED BY <1>2, <1>3, <1>4

-----------------------------------------------------------------------------
(* Workers.                                                                *)

\* start_worker/1 runs the worker in the domain of the controller, which is the
\* one of the row and of the current epoch.
LEMMA LaunchKeeps ==
    ASSUME EpisodeInv, Launch
    PROVE  EpisodeInv'
<1> USE EpisodeAssumption DEF EpisodeInv
<1>1. /\ ctl \in Controllers /\ ctl.at = "launch"
      /\ ctl.dom \in domains /\ ctl.dom.id = bound /\ ctl.dom.epoch = epoch
      /\ UNCHANGED <<storeVars, governor, late, launcherVars, mail, history, crashes, failures>>
    BY Types DEF Launch, At, Works, Positions, Living
<1>2. CASE ctl' = Goto("preempting") /\ UNCHANGED tasks
    <2>1. Plain
        BY <1>1, <1>2, GotoFields
        DEF Plain, Edge, EpisodeTypeOK, Identities, storeVars, launcherVars, history, Steps, Living
    <2> QED BY <2>1, PlainKeeps
<1>3. CASE /\ tasks' = tasks \cup {[dom |-> ctl.dom, at |-> "check", boot |-> crashes]}
           /\ ctl' = Goto("running")
    <2>1. /\ ctl' \in Controllers /\ ctl'.at = "running" /\ ctl'.dom = ctl.dom
          /\ ctl'.next = ctl.next /\ ctl'.epoch = ctl.epoch /\ ctl'.repairs = ctl.repairs
        BY <1>1, <1>3, GotoFields DEF Steps
    <2>2. EpisodeTypeOK'
        <3>1. tasks' \subseteq [dom : Domains, at : {"check", "exec", "wait"}, boot : 0..crashes']
            <4>1. [dom |-> ctl.dom, at |-> "check", boot |-> crashes]
                    \in [dom : Domains, at : {"check", "exec", "wait"}, boot : 0..crashes]
                BY <1>1 DEF Controllers, EpisodeTypeOK
            <4> QED BY <1>1, <1>3, <4>1 DEF EpisodeTypeOK
        <3> QED BY <1>1, <2>1, <3>1
            DEF EpisodeTypeOK, storeVars, launcherVars, history, Controllers
    <2>3. Identities'
        <3>1. \A t \in tasks' : t.dom = ctl.dom \/ t \in tasks
            BY <1>3
        <3> QED BY <1>1, <2>1, <3>1 DEF Identities, launcherVars
    <2>4. Positions'
        BY <1>1, <2>1 DEF Positions, Booting, Living, Replacing, storeVars, launcherVars
    <2>5. ~revived' => Hosting'
        <3> SUFFICES ASSUME Hosting PROVE Hosting'
            BY <1>1 DEF history
        <3>1. Hosts' \subseteq Hosts \cup {ctl.dom}
            BY <1>1, <1>3 DEF Hosts, launcherVars
        <3>2. \A d \in Hosts : d.epoch = epoch
            BY <1>1 DEF Hosting, Hosts, Identities
        <3> QED BY <1>1, <2>1, <3>1, <3>2
            DEF Hosting, Vacant, Booting, Replacing, storeVars
    <2>6. Fencing'
        BY <2>1 DEF Fencing
    <2>7. Budget'
        BY <1>1, <2>1, CountsSame DEF Budget, Booting, Living, Replacing, storeVars
    <2> QED BY <2>2, <2>3, <2>4, <2>5, <2>6, <2>7
<1> QED BY <1>2, <1>3 DEF Launch

\* No step of a task makes a host of a domain that was none: it runs its worker
\* in the domain it was started for, and stops only for itself.
LEMMA TaskKeeps ==
    ASSUME EpisodeInv, NEW t \in tasks, TaskCheck(t) \/ TaskExec(t) \/ TaskWait(t)
    PROVE  EpisodeInv'
<1> USE EpisodeAssumption DEF EpisodeInv
<1>1. /\ UNCHANGED <<storeVars, governor, late, domains, created, ctl, history, crashes>>
      /\ failures' \in 0..MaxFailures
    BY DEF TaskCheck, TaskExec, TaskWait, Works, Fails, EpisodeTypeOK, launcherVars
<1>2. /\ t \in [dom : Domains, at : {"check", "exec", "wait"}, boot : 0..crashes]
      /\ t.dom.id \in Nat
    BY DEF EpisodeTypeOK, Domains
<1>3. /\ tasks' \subseteq [dom : Domains, at : {"check", "exec", "wait"}, boot : 0..crashes]
      /\ \A u \in tasks' : \E v \in tasks : u.dom = v.dom
    <2>1. \A step \in {"exec", "wait"} :
              Becomes(t, step) =>
                  /\ tasks' \subseteq [dom : Domains, at : {"check", "exec", "wait"}, boot : 0..crashes]
                  /\ \A u \in tasks' : \E v \in tasks : u.dom = v.dom
        BY <1>2 DEF Becomes, EpisodeTypeOK
    <2>2. tasks' \subseteq tasks =>
              /\ tasks' \subseteq [dom : Domains, at : {"check", "exec", "wait"}, boot : 0..crashes]
              /\ \A u \in tasks' : \E v \in tasks : u.dom = v.dom
        BY DEF EpisodeTypeOK
    <2>3. tasks' \subseteq tasks \/ Becomes(t, "exec") \/ Becomes(t, "wait")
        BY DEF TaskCheck, TaskExec, TaskWait, TaskEnds
    <2> QED BY <2>1, <2>2, <2>3
<1>4. mail' \in Seq(Mails) /\ Len(mail') <= MaxMail
    <2>1. [kind |-> "exit", from |-> t.dom.id] \in Mails
        BY <1>2 DEF Mails
    <2>2. mail \in Seq(Mails) /\ Len(mail) <= MaxMail
        BY DEF Identities, EpisodeTypeOK
    <2>3. TaskEnds(t) => mail' \in Seq(Mails) /\ Len(mail') <= MaxMail
        BY <2>1, <2>2 DEF TaskEnds
    <2>4. UNCHANGED mail \/ TaskEnds(t)
        BY DEF TaskCheck, TaskExec, TaskWait
    <2> QED BY <2>2, <2>3, <2>4
<1>5. used' = used \/ (t.dom \in domains /\ used' = used \cup {t.dom})
    BY DEF TaskCheck, TaskExec, TaskWait, launcherVars
<1>6. Hosts' \subseteq Hosts
    BY <1>1, <1>3, <1>5 DEF Hosts
<1>7. EpisodeTypeOK'
    <2>1. used' \subseteq domains
        BY <1>5 DEF EpisodeTypeOK
    <2>2. \A i \in 1..Len(mail') : mail'[i].kind \in Signals \cup {"exit"}
        <3> SUFFICES ASSUME NEW i \in 1..Len(mail')
                     PROVE  mail'[i].kind \in Signals \cup {"exit"}
            OBVIOUS
        <3>1. mail'[i] \in Mails
            BY <1>4, ElementsOfSeq
        <3> QED BY <3>1 DEF Mails
    <2> QED BY <1>1, <1>3, <1>4, <2>1, <2>2 DEF EpisodeTypeOK, storeVars, history
<1>8. Identities'
    BY <1>1, <1>3, <1>4 DEF Identities
<1>9. Positions'
    BY <1>1 DEF Positions, storeVars
<1>10. ~revived' => Hosting'
    BY <1>1, <1>6 DEF Hosting, storeVars, history
<1>11. Fencing'
    BY <1>1 DEF Fencing, storeVars, history
<1>12. Budget'
    BY <1>1, CountsSame DEF Budget, storeVars
<1> QED BY <1>7, <1>8, <1>9, <1>10, <1>11, <1>12

-----------------------------------------------------------------------------
(* Sandboxes.                                                              *)

\* A domain that has just been created hosts nothing and has an id of its own.
LEMMA CreateFresh ==
    ASSUME EpisodeTypeOK, Identities, NEW e \in 1..epoch, Create(NewDomain(e)),
           UNCHANGED <<tasks, epoch>>
    PROVE  /\ Hosts' = Hosts
           /\ NewDomain(e) \in domains' /\ NewDomain(e).epoch = e
           /\ NewDomain(e) \in Domains /\ NewDomain(e).id = created'
           /\ domains \subseteq domains' /\ created \in 0..created' /\ created' \in Nat
           /\ domains' \subseteq [id : 1..created', epoch : 1..epoch']
           /\ \A c, d \in domains' : c.id = d.id => c = d
           /\ \A d \in Domains : d.id <= created /\ d \in domains' => d \in domains
           /\ UNCHANGED used
<1> DEFINE new == NewDomain(e)
<1>1. /\ created \in Nat /\ epoch \in Nat
      /\ domains \subseteq [id : 1..created, epoch : 1..epoch]
      /\ used \subseteq domains
      /\ \A u \in tasks : u.dom \in Domains /\ u.dom.id <= created
      /\ \A c, d \in domains : c.id = d.id => c = d
    BY DEF EpisodeTypeOK, Identities
<1>2. new = [id |-> created + 1, epoch |-> e]
    BY DEF NewDomain
<1>3. /\ domains' = domains \cup {new} /\ created' = created + 1
      /\ UNCHANGED <<used, tasks, epoch>>
    BY DEF Create
<1> HIDE DEF new
<1>4. /\ new.id = created + 1 /\ new.epoch = e
      /\ new \in [id : 1..(created + 1), epoch : 1..epoch] /\ new \in Domains
    BY <1>1, <1>2 DEF Domains
<1>5. domains' \subseteq [id : 1..created', epoch : 1..epoch']
    BY <1>1, <1>3, <1>4
<1>6. \A c, d \in domains' : c.id = d.id => c = d
    BY <1>1, <1>3, <1>4
<1>7. \A d \in Domains : d.id <= created /\ d \in domains' => d \in domains
    BY <1>1, <1>3, <1>4
<1>8. Hosts' = Hosts
    <2>1. new \notin used /\ \A u \in tasks : u.dom # new
        BY <1>1, <1>4
    <2> QED BY <1>3, <2>1 DEF Hosts
<1> QED BY <1>1, <1>3, <1>4, <1>5, <1>6, <1>7, <1>8 DEF new

\* What a creation keeps, wherever the controller is: the new domain is beside
\* everything the invariant speaks of, but for the domain it is about to use.
LEMMA CreateKeeps ==
    ASSUME EpisodeInv, NEW e \in 1..epoch, Create(NewDomain(e)),
           UNCHANGED OutsideLauncher, failures' \in 0..MaxFailures,
           ctl' \in Controllers, ctl'.dom = ctl.dom, ctl'.epoch = ctl.epoch,
           ctl'.repairs = ctl.repairs,
           ctl'.next \in {NewDomain(e), ctl.next, NoDomain},
           \/ ctl'.at = "failing"
           \/ ctl.at = "restore" /\ ctl'.at = "contain"
           \/ /\ ctl.at = "create" /\ ctl'.at = "bind"
              /\ e = ctl.epoch /\ ctl'.next = NewDomain(e)
           \/ /\ ctl.at = "restore" /\ ctl'.at = "reissue"
              /\ e = epoch /\ ctl'.next = NewDomain(e)
    PROVE  EpisodeInv'
<1> USE EpisodeAssumption DEF EpisodeInv
<1> DEFINE new == NewDomain(e)
<1>1. /\ ctl \in Controllers /\ NoDomain.id = 0
      /\ UNCHANGED <<storeVars, governor, late, tasks, mail, history, crashes>>
    BY Types, FreshFields DEF OutsideLauncher
<1>2. /\ Hosts' = Hosts
      /\ new \in domains' /\ new.epoch = e /\ new \in Domains /\ new.id = created'
      /\ domains \subseteq domains' /\ created \in 0..created' /\ created' \in Nat
      /\ domains' \subseteq [id : 1..created', epoch : 1..epoch']
      /\ \A c, d \in domains' : c.id = d.id => c = d
      /\ \A d \in Domains : d.id <= created /\ d \in domains' => d \in domains
      /\ UNCHANGED used
    BY <1>1, CreateFresh DEF storeVars
<1> HIDE DEF new
<1>3. ctl'.next \in {new, ctl.next, NoDomain}
      /\ (ctl'.at \in {"bind", "reissue"} => ctl'.next = new)
    BY DEF new
<1>4. EpisodeTypeOK'
    <2>1. bound \in 0..created'
        BY <1>2 DEF EpisodeTypeOK
    <2>2. used' \subseteq domains'
        BY <1>2 DEF EpisodeTypeOK
    <2> QED BY <1>1, <1>2, <2>1, <2>2 DEF EpisodeTypeOK, storeVars, history, Controllers
<1>5. Identities'
    <2>1. /\ ctl.dom.id \in Nat /\ ctl.next.id \in Nat
          /\ \A t \in tasks : t.dom.id \in Nat
        <3>1. ctl.dom \in Domains /\ ctl.next \in Domains
            BY <1>1 DEF Controllers
        <3>2. ctl.dom.id \in Nat /\ ctl.next.id \in Nat
            BY <3>1 DEF Domains
        <3> QED BY <3>2, TaskDomains
    <2>2. created \in Nat /\ created' \in Nat /\ created <= created'
        BY <1>2 DEF EpisodeTypeOK
    <2>3. ctl'.dom.id <= created' /\ \A t \in tasks' : t.dom.id <= created'
        BY <1>1, <2>1, <2>2 DEF Identities
    <2>4. ctl'.next.id <= created'
        BY <1>1, <1>2, <1>3, <2>1, <2>2 DEF Identities
    <2>5. mail' \in Seq(Mails)
        BY <1>1 DEF Identities
    <2> QED BY <1>2, <2>3, <2>4, <2>5 DEF Identities
<1>6. Positions'
    <2>1. ctl.dom \in Domains /\ ctl.dom.id <= created
        BY <1>1 DEF Controllers, Identities
    <2> QED BY <1>1, <1>2, <1>3, <2>1 DEF Positions, Booting, Living, Replacing, storeVars
<1>7. ~revived' => Hosting'
    BY <1>1, <1>2 DEF Hosting, Vacant, Booting, Replacing, storeVars, history
<1>8. Fencing'
    <2>1. ctl.dom \in Domains /\ ctl.dom.id <= created
        BY <1>1 DEF Controllers, Identities
    <2> QED BY <1>1, <1>2, <2>1
        DEF Fencing, Positions, Replacing, storeVars, history
<1>9. Budget'
    <2>1. Earlier' = Earlier /\ Spent' = Spent /\ Earlier \in Nat /\ Spent \in Nat
        BY <1>1, Counts, CountsSame DEF storeVars
    <2> QED BY <1>1, <2>1 DEF Budget, Booting, Living, Replacing, Controllers
<1> QED BY <1>4, <1>5, <1>6, <1>7, <1>8, <1>9

LEMMA CreateDomainKeeps ==
    ASSUME EpisodeInv, CreateDomain
    PROVE  EpisodeInv'
<1> USE EpisodeAssumption DEF EpisodeInv
<1> DEFINE new == NewDomain(ctl.epoch)
<1>1. /\ ctl \in Controllers /\ ctl.at = "create" /\ ctl.epoch \in 1..epoch
      /\ UNCHANGED OutsideLauncher /\ failures' \in 0..MaxFailures
    BY Types DEF CreateDomain, Attempt, Works, Fails, At, Positions, Booting, EpisodeTypeOK
<1>2. \/ Create(new) /\ ctl' = [ctl EXCEPT !.at = "bind", !.next = new]
      \/ Create(new) /\ ctl' = Goto("failing")
      \/ UNCHANGED launcherVars /\ ctl' = Goto("failing")
    BY DEF CreateDomain, Attempt
<1>3. ASSUME Create(new), ctl' = Goto("failing")
      PROVE  EpisodeInv'
    BY <1>1, <1>3, CreateKeeps, GotoFields DEF Steps
<1>4. ASSUME Create(new), ctl' = [ctl EXCEPT !.at = "bind", !.next = new]
      PROVE  EpisodeInv'
    <2>1. new \in Domains
        BY <1>1, <1>4, CreateFresh DEF OutsideLauncher, storeVars
    <2> HIDE DEF new
    <2>2. /\ ctl' \in Controllers /\ ctl'.at = "bind" /\ ctl'.next = new
          /\ ctl'.dom = ctl.dom /\ ctl'.epoch = ctl.epoch /\ ctl'.repairs = ctl.repairs
        BY <1>1, <1>4, <2>1 DEF Controllers, Steps
    <2> QED BY <1>1, <1>4, <2>2, CreateKeeps DEF new
<1>5. ASSUME UNCHANGED launcherVars, ctl' = Goto("failing")
      PROVE  EpisodeInv'
    <2>1. Plain
        BY <1>1, <1>5, GotoFields
        DEF Plain, Edge, EpisodeTypeOK, Identities, OutsideLauncher, storeVars, history, Steps
    <2> QED BY <2>1, PlainKeeps
<1> QED BY <1>2, <1>3, <1>4, <1>5

LEMMA RepairRestoreKeeps ==
    ASSUME EpisodeInv, RepairRestore
    PROVE  EpisodeInv'
<1> USE EpisodeAssumption DEF EpisodeInv
<1>1. /\ ctl \in Controllers /\ ctl.at = "restore" /\ epoch \in 1..epoch
      /\ UNCHANGED OutsideLauncher /\ failures' \in 0..MaxFailures
    BY Types DEF RepairRestore, Attempt, Works, Fails, At, EpisodeTypeOK
<1>2. \/ Create(Restored) /\ ctl' = [Onward EXCEPT !.next = Restored]
      \/ Create(Restored) /\ ctl' = RepairFailed
      \/ UNCHANGED launcherVars /\ ctl' = RepairFailed
    BY DEF RepairRestore, Attempt
<1>3. ASSUME Create(Restored), ctl' = RepairFailed
      PROVE  EpisodeInv'
    BY <1>1, <1>3, CreateKeeps, RepairFailedFields DEF Restored
<1>4. ASSUME Create(Restored), ctl' = [Onward EXCEPT !.next = Restored]
      PROVE  EpisodeInv'
    <2>1. Restored \in Domains
        BY <1>1, <1>4, CreateFresh DEF OutsideLauncher, storeVars, Restored
    <2>2. /\ Onward \in Controllers /\ Onward.at = "reissue"
          /\ Onward.dom = ctl.dom /\ Onward.epoch = ctl.epoch /\ Onward.repairs = ctl.repairs
        BY <1>1, GotoFields DEF Onward, Then, Steps
    <2>3. /\ ctl' \in Controllers /\ ctl'.at = "reissue" /\ ctl'.next = Restored
          /\ ctl'.dom = ctl.dom /\ ctl'.epoch = ctl.epoch /\ ctl'.repairs = ctl.repairs
        BY <1>4, <2>1, <2>2 DEF Controllers
    <2> QED BY <1>1, <1>4, <2>3, CreateKeeps DEF Restored
<1>5. ASSUME UNCHANGED launcherVars, ctl' = RepairFailed
      PROVE  EpisodeInv'
    <2>1. Plain
        BY <1>1, <1>5, RepairFailedFields
        DEF Plain, Edge, EpisodeTypeOK, Identities, OutsideLauncher, storeVars, history, Replacing
    <2> QED BY <2>1, PlainKeeps
<1> QED BY <1>2, <1>3, <1>4, <1>5

\* A destruction that was proven leaves no host: the domain of a controller that
\* destroys is the one the row names.
LEMMA RemoveKeeps ==
    ASSUME EpisodeInv, Remove(ctl.dom), ctl.dom \in domains,
           UNCHANGED <<created, OutsideLauncher>>, failures' \in 0..MaxFailures,
           ctl' \in Controllers, ctl'.dom = ctl.dom, ctl'.epoch = ctl.epoch,
           ctl'.repairs = ctl.repairs, ctl'.next \in {ctl.next, NoDomain},
           \/ ctl.at = "destroy" /\ ctl'.at \in {"restore", "failing", "contain"}
           \/ ctl.at = "contain_destroy" /\ ctl'.at \in {"contain_clear", "failing"}
           \/ ctl.at = "complete_destroy" /\ ctl'.at \in {"complete_clear", "failing"}
    PROVE  EpisodeInv'
<1> USE EpisodeAssumption DEF EpisodeInv
<1>1. /\ ctl \in Controllers /\ NoDomain.id = 0
      /\ UNCHANGED <<created, storeVars, governor, late, tasks, mail, history, crashes>>
      /\ domains' = domains \ {ctl.dom} /\ used' = used \ {ctl.dom}
    BY Types, FreshFields DEF OutsideLauncher, Remove
<1>2. EpisodeTypeOK'
    BY <1>1 DEF EpisodeTypeOK, storeVars, history, Controllers
<1>3. Identities'
    BY <1>1 DEF EpisodeTypeOK, Identities
<1>4. Positions'
    BY <1>1 DEF Positions, Booting, Living, Replacing, storeVars
<1>5. ~revived' => Hosting'
    <2> SUFFICES ASSUME Hosting PROVE Hosting'
        BY <1>1 DEF history
    <2>1. Hosts' = Hosts \ {ctl.dom}
        BY <1>1 DEF Hosts
    <2>2. Hosts = {} \/ ctl.dom.id = bound
        BY DEF Hosting, Positions, Living
    <2>3. Hosts' = {}
        BY <2>1, <2>2 DEF Hosting, Hosts, Identities
    <2> QED BY <2>3 DEF Hosting
<1>6. Fencing'
    BY <1>1 DEF Fencing, Positions, Replacing, storeVars, history
<1>7. Budget'
    <2>1. Earlier' = Earlier /\ Spent' = Spent /\ Earlier \in Nat /\ Spent \in Nat
        BY <1>1, Counts, CountsSame DEF storeVars
    <2> QED BY <1>1, <2>1 DEF Budget, Booting, Living, Replacing, Controllers
<1> QED BY <1>2, <1>3, <1>4, <1>5, <1>6, <1>7

LEMMA DestroyKeeps ==
    ASSUME EpisodeInv, RepairDestroy \/ ContainDestroy \/ CompleteDestroy
    PROVE  EpisodeInv'
<1> USE EpisodeAssumption DEF EpisodeInv
<1>1. /\ ctl \in Controllers /\ failures' \in 0..MaxFailures
      /\ UNCHANGED <<created, OutsideLauncher>>
    BY Types DEF RepairDestroy, ContainDestroy, CompleteDestroy, Destroy, Attempt,
                 Works, Fails, EpisodeTypeOK
<1>2. /\ \/ ctl.at = "destroy" /\ ctl' \in {Onward, RepairFailed}
         \/ ctl.at = "contain_destroy" /\ ctl' \in {Goto("contain_clear"), Goto("failing")}
         \/ ctl.at = "complete_destroy" /\ ctl' \in {Goto("complete_clear"), Goto("failing")}
      /\ \/ ctl.dom \in domains /\ Remove(ctl.dom)
         \/ /\ UNCHANGED <<domains, used>>
            /\ ctl' = IF ctl.at = "destroy" THEN RepairFailed ELSE Goto("failing")
    BY DEF RepairDestroy, ContainDestroy, CompleteDestroy, Destroy, Attempt, At
<1>3. /\ ctl' \in Controllers /\ ctl'.dom = ctl.dom /\ ctl'.epoch = ctl.epoch
      /\ ctl'.repairs = ctl.repairs /\ ctl'.next \in {ctl.next, NoDomain}
      /\ ctl'.recovering = ctl.recovering
      /\ \/ ctl.at = "destroy" /\ ctl'.at \in {"restore", "failing", "contain"}
         \/ ctl.at = "contain_destroy" /\ ctl'.at \in {"contain_clear", "failing"}
         \/ ctl.at = "complete_destroy" /\ ctl'.at \in {"complete_clear", "failing"}
    BY <1>1, <1>2, GotoFields, RepairFailedFields DEF Onward, Then, Steps
<1>4. CASE ctl.dom \in domains /\ Remove(ctl.dom)
    BY <1>1, <1>3, <1>4, RemoveKeeps
<1>5. CASE /\ UNCHANGED <<domains, used>>
           /\ ctl' = IF ctl.at = "destroy" THEN RepairFailed ELSE Goto("failing")
    <2>1. ctl'.at = "failing" \/ (ctl.at = "destroy" /\ ctl'.at = "contain")
        BY <1>1, <1>2, <1>5, GotoFields, RepairFailedFields DEF Steps
    <2>2. Plain
        BY <1>1, <1>3, <1>5, <2>1
        DEF Plain, Edge, EpisodeTypeOK, Identities, OutsideLauncher, storeVars, launcherVars, history
    <2> QED BY <2>2, PlainKeeps
<1> QED BY <1>2, <1>4, <1>5

-----------------------------------------------------------------------------
(* Epochs.                                                                 *)

\* The store advances the epoch for a repair, for a fence, or for a caller that
\* has died since; no lease is live afterwards.
LEMMA StoreAdvanceKeeps ==
    ASSUME EpisodeInv, StoreAdvance, failures' \in 0..MaxFailures,
           UNCHANGED <<launcherVars, tasks, mail, asked, revived, crashes>>,
           governor' \in {governor, epoch'}, late' = FALSE, unfenced' \in BOOLEAN,
           ctl' \in Controllers, ctl'.dom = ctl.dom, ctl'.epoch = ctl.epoch,
           ctl'.repairs = ctl.repairs, ctl'.recovering = ctl.recovering,
           ctl'.next \in {ctl.next, NoDomain},
           \/ late /\ ctl' = ctl
           \/ ~late /\ ctl.at = "advance" /\ ctl'.at \in {"destroy", "failing", "contain"}
           \/ ~late /\ ctl.at = "fence" /\ ctl'.at = "contain_destroy"
    PROVE  EpisodeInv'
<1> USE EpisodeAssumption DEF EpisodeInv
<1>1. /\ ctl \in Controllers /\ NoDomain.id = 0 /\ epoch \in Nat /\ epoch' = epoch + 1
      /\ leased' = FALSE /\ UNCHANGED <<episodeState, bound, checkpoint>>
      /\ late \in BOOLEAN
    BY Types, FreshFields DEF StoreAdvance
<1>2. EpisodeTypeOK'
    <2>1. checkpoint' \in 0..epoch' /\ governor' \in 1..epoch' /\ epoch' \in Nat
        BY <1>1 DEF EpisodeTypeOK
    <2>2. domains' \subseteq [id : 1..created', epoch : 1..epoch']
        BY <1>1 DEF EpisodeTypeOK, launcherVars
    <2> QED BY <1>1, <2>1, <2>2 DEF EpisodeTypeOK, launcherVars, Controllers
<1>3. Identities'
    BY <1>1 DEF Identities, launcherVars, EpisodeTypeOK
<1>4. Positions'
    BY <1>1 DEF Positions, Booting, Living, Replacing, launcherVars
<1>5. ~revived' => Hosting'
    BY <1>1, HostsSame DEF Hosting, Vacant, Booting, Replacing, launcherVars
<1>6. Fencing'
    BY <1>1 DEF Fencing
<1>7. Budget'
    <2>1. Earlier' = Earlier /\ Spent' = epoch + 1 /\ Spent = epoch + (IF late THEN 1 ELSE 0)
        BY <1>1 DEF Earlier, Spent
    <2>2. Earlier \in Nat /\ ctl.repairs \in Nat /\ MaxRepairs \in Nat
        BY <1>1, Counts DEF Controllers
    <2>3. CASE late /\ ctl' = ctl
        BY <1>1, <2>1, <2>2, <2>3 DEF Budget
    <2>4. CASE ~late /\ ctl.at = "advance" /\ ctl'.at \in {"destroy", "failing", "contain"}
        BY <1>1, <2>1, <2>2, <2>4 DEF Budget, Booting, Living, Replacing
    <2>5. CASE ~late /\ ctl.at = "fence" /\ ctl'.at = "contain_destroy"
        BY <1>1, <2>1, <2>2, <2>5 DEF Budget, Booting, Living, Replacing
    <2> QED BY <2>3, <2>4, <2>5
<1> QED BY <1>2, <1>3, <1>4, <1>5, <1>6, <1>7

LEMMA RepairAdvanceKeeps ==
    ASSUME EpisodeInv, RepairAdvance
    PROVE  EpisodeInv'
<1> USE EpisodeAssumption DEF EpisodeInv
<1>1. /\ ctl \in Controllers /\ ctl.at = "advance" /\ ~late /\ late' = FALSE
      /\ failures' \in 0..MaxFailures /\ epoch + 1 \in Nat
      /\ UNCHANGED <<launcherVars, tasks, mail, history, crashes>>
      /\ unfenced' \in BOOLEAN
    <2>1. /\ ctl \in Controllers /\ epoch \in Nat /\ failures \in 0..MaxFailures
          /\ unfenced \in BOOLEAN
        BY Types DEF EpisodeTypeOK
    <2>2. /\ ctl.at = "advance" /\ ~late /\ late' = FALSE
          /\ UNCHANGED <<launcherVars, tasks, mail, history, crashes>>
        BY DEF RepairAdvance, AdvanceSucceeds, AdvanceFails, Works, Fails, At
    <2>3. failures' = failures \/ (failures < MaxFailures /\ failures' = failures + 1)
        BY DEF RepairAdvance, AdvanceSucceeds, AdvanceFails, Works, Fails
    <2>4. failures' \in 0..MaxFailures
        BY <2>1, <2>3
    <2>5. unfenced' = unfenced
        BY <2>2 DEF history
    <2> QED BY <2>1, <2>2, <2>4, <2>5
<1>2. \/ StoreAdvance /\ governor' = epoch' /\ ctl' = [Onward EXCEPT !.to = epoch + 1]
      \/ StoreAdvance /\ governor' = governor /\ ctl' = RepairFailed
      \/ UNCHANGED <<storeVars, governor>> /\ ctl' = RepairFailed
    BY DEF RepairAdvance, AdvanceSucceeds, AdvanceFails
<1>3. CASE ctl' = [Onward EXCEPT !.to = epoch + 1]
    <2>1. /\ Onward \in Controllers /\ Onward.at = "destroy" /\ Onward.dom = ctl.dom
          /\ Onward.epoch = ctl.epoch /\ Onward.repairs = ctl.repairs
          /\ Onward.next = ctl.next /\ Onward.recovering = ctl.recovering
        BY <1>1, GotoFields DEF Onward, Then, Steps
    <2>2. /\ ctl' \in Controllers /\ ctl'.at = "destroy" /\ ctl'.dom = ctl.dom
          /\ ctl'.epoch = ctl.epoch /\ ctl'.repairs = ctl.repairs
          /\ ctl'.next = ctl.next /\ ctl'.recovering = ctl.recovering
        BY <1>1, <1>3, <2>1 DEF Controllers
    <2>3. RepairFailed.at # "destroy"
        BY <1>1, RepairFailedFields
    <2>4. StoreAdvance /\ governor' = epoch'
        BY <1>2, <2>2, <2>3
    <2> QED BY <1>1, <2>2, <2>4, StoreAdvanceKeeps DEF history
<1>4. CASE StoreAdvance /\ governor' = governor /\ ctl' = RepairFailed
    <2>1. /\ ctl' \in Controllers /\ ctl'.at \in {"failing", "contain"} /\ ctl'.dom = ctl.dom
          /\ ctl'.epoch = ctl.epoch /\ ctl'.repairs = ctl.repairs
          /\ ctl'.next = NoDomain /\ ctl'.recovering = ctl.recovering
        BY <1>1, <1>4, RepairFailedFields
    <2> QED BY <1>1, <1>4, <2>1, StoreAdvanceKeeps DEF history
<1>5. CASE UNCHANGED <<storeVars, governor>> /\ ctl' = RepairFailed
    <2>1. Plain
        BY <1>1, <1>5, RepairFailedFields
        DEF Plain, Edge, EpisodeTypeOK, Identities, storeVars, launcherVars, history
    <2> QED BY <2>1, PlainKeeps
<1> QED BY <1>2, <1>3, <1>4, <1>5

LEMMA ContainAdvanceKeeps ==
    ASSUME EpisodeInv, ContainAdvance
    PROVE  EpisodeInv'
<1> USE EpisodeAssumption DEF EpisodeInv
<1>1. /\ ctl \in Controllers /\ ctl.at = "fence" /\ ~late /\ late' = FALSE
      /\ failures' \in 0..MaxFailures
      /\ UNCHANGED <<launcherVars, tasks, mail, asked, revived, crashes>>
      /\ unfenced \in BOOLEAN /\ (unfenced' = TRUE \/ unfenced' = unfenced)
    <2>1. /\ ctl \in Controllers /\ failures \in 0..MaxFailures /\ unfenced \in BOOLEAN
        BY Types DEF EpisodeTypeOK
    <2>2. /\ ctl.at = "fence" /\ ~late /\ late' = FALSE
          /\ UNCHANGED <<launcherVars, tasks, mail, asked, revived, crashes>>
          /\ unfenced' = TRUE \/ unfenced' = unfenced
        BY DEF ContainAdvance, AdvanceSucceeds, AdvanceFails, Works, Fails, At
    <2>3. failures' = failures \/ (failures < MaxFailures /\ failures' = failures + 1)
        BY DEF ContainAdvance, AdvanceSucceeds, AdvanceFails, Works, Fails
    <2>4. failures' \in 0..MaxFailures
        BY <2>1, <2>3
    <2> QED BY <2>1, <2>2, <2>4
<1>2. /\ ctl' \in Controllers /\ ctl'.at = "contain_destroy" /\ ctl'.dom = ctl.dom
      /\ ctl'.epoch = ctl.epoch /\ ctl'.repairs = ctl.repairs
      /\ ctl'.next = ctl.next /\ ctl'.recovering = ctl.recovering
    BY <1>1, GotoFields DEF ContainAdvance, Steps
<1>3. \/ StoreAdvance /\ governor' \in {governor, epoch'}
      \/ UNCHANGED <<storeVars, governor>> /\ unfenced' = TRUE
    BY DEF ContainAdvance, AdvanceSucceeds, AdvanceFails
<1>4. CASE StoreAdvance /\ governor' \in {governor, epoch'}
    BY <1>1, <1>2, <1>4, StoreAdvanceKeeps
<1>5. CASE UNCHANGED <<storeVars, governor>> /\ unfenced' = TRUE
    <2>1. Plain
        BY <1>1, <1>2, <1>5
        DEF Plain, Edge, EpisodeTypeOK, Identities, storeVars, launcherVars
    <2> QED BY <2>1, PlainKeeps
<1> QED BY <1>3, <1>4, <1>5

LEMMA LateAdvanceKeeps ==
    ASSUME EpisodeInv, LateAdvance
    PROVE  EpisodeInv'
<1>1. /\ ctl \in Controllers /\ failures' \in 0..MaxFailures /\ unfenced' \in BOOLEAN
      /\ StoreAdvance /\ governor' = epoch' /\ late /\ late' = FALSE
      /\ UNCHANGED <<launcherVars, tasks, ctl, mail, history, crashes>>
    BY Types DEF EpisodeInv, LateAdvance, Works, EpisodeTypeOK, history
<1> QED BY <1>1, StoreAdvanceKeeps DEF history

-----------------------------------------------------------------------------
(* Starts and crashes.                                                     *)

\* A controller without a binding to recover from finds no host: workers run only
\* in the domain of the binding.
LEMMA StartKeeps ==
    ASSUME EpisodeInv, Start
    PROVE  EpisodeInv'
<1> USE EpisodeAssumption DEF EpisodeInv
<1> DEFINE recover == bound # 0 /\ episodeState \notin Terminal
<1>1. /\ ctl \in Controllers /\ ctl.at = "init"
      /\ UNCHANGED <<storeVars, governor, late, launcherVars, tasks, mail, asked,
                     unfenced, crashes, failures>>
      /\ ctl' = [Fresh EXCEPT !.at = IF recover THEN "recover" ELSE "bootstrap",
                              !.epoch = epoch,
                              !.dom = IF recover THEN Reconstructed ELSE NoDomain,
                              !.recovering = recover]
      /\ (revived' <=> revived \/ episodeState \in Terminal) /\ revived' \in BOOLEAN
    BY Types DEF Start, At, Works
<1>2. recover => Reconstructed \in Domains /\ Reconstructed.id = bound
    BY DEF Reconstructed, Domains, EpisodeTypeOK
<1>3. recover \in BOOLEAN /\ (~revived' /\ ~recover => ~revived /\ bound = 0)
    BY <1>1
<1> HIDE DEF recover
<1>4. /\ ctl' \in Controllers
      /\ ctl'.at = IF recover THEN "recover" ELSE "bootstrap"
      /\ ctl'.dom = IF recover THEN Reconstructed ELSE NoDomain
      /\ ctl'.epoch = epoch /\ ctl'.recovering = recover
      /\ ctl'.next = NoDomain /\ ctl'.repairs = 0
    <2>1. epoch \in Nat
        BY DEF EpisodeTypeOK
    <2>2. CASE recover
        BY <1>1, <1>2, <1>3, <2>1, <2>2, FreshFields DEF Controllers, Steps
    <2>3. CASE ~recover
        BY <1>1, <1>3, <2>1, <2>3, FreshFields DEF Controllers, Steps
    <2> QED BY <2>2, <2>3
<1>5. EpisodeTypeOK'
    BY <1>1, <1>4 DEF EpisodeTypeOK, storeVars, launcherVars, Controllers
<1>6. Identities'
    BY <1>1, <1>2, <1>4, FreshFields DEF EpisodeTypeOK, Identities, launcherVars, storeVars
<1>7. Positions'
    BY <1>1, <1>3, <1>4 DEF EpisodeTypeOK, Positions, Booting, Living, Replacing, storeVars
<1>8. ~revived' => Hosting'
    <2> SUFFICES ASSUME ~revived' PROVE Hosting'
        OBVIOUS
    <2>1. Hosting /\ Hosts' = Hosts
        BY <1>1, HostsSame DEF launcherVars
    <2>2. ~recover => Hosts = {}
        BY <1>3, <2>1 DEF Hosting, Hosts, EpisodeTypeOK
    <2> QED BY <1>1, <1>2, <1>4, <2>1, <2>2
        DEF Hosting, Vacant, Booting, Replacing, storeVars
<1>9. Fencing'
    BY <1>4 DEF Fencing
<1>10. Budget'
    <2>1. Earlier' = Earlier /\ Spent' = Spent /\ Earlier \in Nat /\ Spent \in Nat
        BY <1>1, Counts, CountsSame DEF storeVars
    <2> QED BY <1>1, <1>4, <2>1 DEF Budget, Booting, Living, Replacing
<1> QED BY <1>5, <1>6, <1>7, <1>8, <1>9, <1>10

\* A crash keeps the domains and forgets the controller; a call it had made may
\* still be answered, and counts as spent.
LEMMA CrashKeeps ==
    ASSUME EpisodeInv, ControllerCrash \/ TreeCrash
    PROVE  EpisodeInv'
<1> USE EpisodeAssumption DEF EpisodeInv
<1>1. /\ ctl \in Controllers /\ crashes \in Nat /\ crashes' = crashes + 1
      /\ crashes' \in 0..MaxCrashes
      /\ ctl' = Fresh /\ mail' = <<>> /\ asked' = FALSE /\ unfenced' = FALSE
      /\ UNCHANGED <<storeVars, launcherVars, revived, failures>>
      /\ tasks' \subseteq tasks /\ governor' \in {governor, epoch}
    BY Types DEF ControllerCrash, TreeCrash, Restart, Orphans, EpisodeTypeOK
<1>2. late' \in BOOLEAN /\ (late' => late \/ ctl.at \in {"advance", "fence"})
    <2>1. late \in BOOLEAN
        BY DEF EpisodeTypeOK
    <2>2. late' \in {FALSE, late, late \/ ctl.at \in {"advance", "fence"}}
        BY DEF ControllerCrash, TreeCrash
    <2>3. CASE late' = FALSE
        BY <2>3
    <2>4. CASE late' = late
        BY <2>1, <2>4
    <2>5. CASE late' = (late \/ ctl.at \in {"advance", "fence"})
        BY <2>1, <2>5
    <2> QED BY <2>2, <2>3, <2>4, <2>5
<1>3. EpisodeTypeOK'
    <2>1. tasks' \subseteq [dom : Domains, at : {"check", "exec", "wait"}, boot : 0..crashes']
        <3>1. [dom : Domains, at : {"check", "exec", "wait"}, boot : 0..crashes]
                \subseteq [dom : Domains, at : {"check", "exec", "wait"}, boot : 0..crashes']
            BY <1>1
        <3> QED BY <1>1, <3>1 DEF EpisodeTypeOK
    <2>2. governor' \in 1..epoch
        BY <1>1 DEF EpisodeTypeOK
    <2>3. Len(mail') <= MaxMail /\ \A i \in 1..Len(mail') : mail'[i].kind \in Signals \cup {"exit"}
        BY <1>1
    <2> QED BY <1>1, <1>2, <2>1, <2>2, <2>3, FreshFields
        DEF EpisodeTypeOK, storeVars, launcherVars, Controllers
<1>4. Identities'
    BY <1>1, FreshFields DEF Identities, EpisodeTypeOK, launcherVars
<1>5. Positions'
    BY <1>1, FreshFields DEF Positions, Booting, Living, Replacing
<1>6. ~revived' => Hosting'
    <2>1. Hosts' \subseteq Hosts
        BY <1>1 DEF Hosts, launcherVars
    <2> QED BY <1>1, <2>1, FreshFields DEF Hosting, Vacant, Booting, Replacing, storeVars
<1>7. Fencing'
    BY <1>1, FreshFields DEF Fencing
<1>8. Budget'
    <2>1. Earlier' = Earlier + MaxRepairs + 1
        BY <1>1 DEF Earlier
    <2>2. Earlier \in Nat /\ Spent \in Nat /\ MaxRepairs \in Nat /\ ctl.repairs \in Nat
        BY <1>1, Counts DEF Controllers
    <2>3. Spent' \in Nat /\ Spent' <= Earlier + MaxRepairs + 1
        <3>1. CASE late' => late
            BY <1>1, <1>2, <2>2, <3>1 DEF Spent, Budget, EpisodeTypeOK, storeVars
        <3>2. CASE late' /\ ~late
            BY <1>1, <1>2, <2>2, <3>2 DEF Spent, Budget, EpisodeTypeOK, storeVars
        <3> QED BY <3>1, <3>2
    <2>4. ctl'.at = "init" /\ ctl'.repairs = 0
        BY <1>1, FreshFields
    <2> QED BY <2>1, <2>2, <2>3, <2>4 DEF Budget, Booting, Living, Replacing
<1> QED BY <1>3, <1>4, <1>5, <1>6, <1>7, <1>8

-----------------------------------------------------------------------------
(* The invariant, and what it says.                                        *)

LEMMA InvInit == EpisodeInit => EpisodeInv
<1> SUFFICES ASSUME EpisodeInit PROVE EpisodeInv
    OBVIOUS
<1> USE EpisodeAssumption, FreshFields DEF EpisodeInit
<1>1. EpisodeTypeOK
    <2>1. ctl \in Controllers
        OBVIOUS
    <2>2. mail = <<>> /\ Len(mail) = 0 /\ \A i \in 1..Len(mail) : FALSE
        OBVIOUS
    <2>3. Len(mail) <= MaxMail /\ \A i \in 1..Len(mail) : mail[i].kind \in Signals \cup {"exit"}
        BY <2>2
    <2>4. /\ checkpoint \in 0..epoch /\ governor \in 1..epoch /\ bound \in 0..created
          /\ crashes \in 0..MaxCrashes /\ failures \in 0..MaxFailures
        OBVIOUS
    <2>5. /\ domains \subseteq [id : 1..created, epoch : 1..epoch] /\ used \subseteq domains
          /\ tasks \subseteq [dom : Domains, at : {"check", "exec", "wait"}, boot : 0..crashes]
          /\ {leased, late, asked, unfenced, revived} \subseteq BOOLEAN
        OBVIOUS
    <2>6. epoch \in Nat /\ created \in Nat /\ episodeState = "bootstrapping"
        OBVIOUS
    <2> HIDE DEF EpisodeInit
    <2> QED BY <2>1, <2>3, <2>4, <2>5, <2>6 DEF EpisodeTypeOK, Controllers
<1>2. Identities
    BY DEF Identities
<1>3. Positions /\ Fencing
    BY DEF Positions, Fencing, Booting, Living, Replacing
<1>4. Hosting
    BY DEF Hosting, Hosts
<1>5. Budget
    <2>1. Earlier = 1 /\ Spent = 1
        BY DEF Earlier, Spent
    <2> QED BY <2>1 DEF Budget, Booting, Living, Replacing
<1> QED BY <1>1, <1>2, <1>3, <1>4, <1>5 DEF EpisodeInv

LEMMA InvStep == EpisodeInv /\ [EpisodeNext]_vars => EpisodeInv'
<1> SUFFICES ASSUME EpisodeInv, [EpisodeNext]_vars PROVE EpisodeInv'
    OBVIOUS
<1>1. ASSUME \/ Bootstrap \/ BindDomain \/ InitialLease \/ Capture
             \/ Narrow \/ NarrowRevoke \/ NarrowIssue \/ Yield \/ Preempt
             \/ PreemptYielding \/ Contain \/ Complete \/ Resume \/ WorkerExit \/ Ignore
             \/ Preempting \/ Recover \/ RepairLease \/ RepairRecord \/ RepairBind
             \/ ContainFence \/ ContainClear \/ Completing \/ CompleteClear
      PROVE  EpisodeInv'
    BY <1>1, PlainSteps, PlainKeeps
<1>2. CASE Fail \/ ContainRecord \/ CompleteRecord
    BY <1>2, EndKeeps
<1>3. CASE Booted \/ RepairDone
    BY <1>3, AdoptKeeps
<1>4. CASE Launch
    BY <1>4, LaunchKeeps
<1>5. CASE CreateDomain
    BY <1>5, CreateDomainKeeps
<1>6. CASE RepairRestore
    BY <1>6, RepairRestoreKeeps
<1>7. CASE RepairDestroy \/ ContainDestroy \/ CompleteDestroy
    BY <1>7, DestroyKeeps
<1>8. CASE RepairAdvance
    BY <1>8, RepairAdvanceKeeps
<1>9. CASE ContainAdvance
    BY <1>9, ContainAdvanceKeeps
<1>10. CASE Start
    BY <1>10, StartKeeps
<1>11. CASE \E t \in tasks : TaskCheck(t) \/ TaskExec(t) \/ TaskWait(t)
    BY <1>11, TaskKeeps
<1>12. CASE \E kind \in Signals : Send(kind)
    BY <1>12, SendKeeps
<1>13. CASE LateAdvance
    BY <1>13, LateAdvanceKeeps
<1>14. CASE ControllerCrash \/ TreeCrash
    BY <1>14, CrashKeeps
<1>15. CASE UNCHANGED vars
    <2>1. /\ UNCHANGED <<episodeState, epoch, bound, checkpoint, leased, governor, late,
                         domains, created, used, tasks, ctl, mail, asked, unfenced,
                         revived, crashes, failures>>
          /\ Hosts' = Hosts /\ Earlier' = Earlier /\ Spent' = Spent
        BY <1>15, HostsSame, CountsSame DEF vars, storeVars, launcherVars, history
    <2> QED BY <2>1
        DEF EpisodeInv, EpisodeTypeOK, Identities, Positions, Hosting, Fencing, Budget
<1> QED
    BY <1>1, <1>2, <1>3, <1>4, <1>5, <1>6, <1>7, <1>8, <1>9, <1>10, <1>11, <1>12, <1>13,
       <1>14, <1>15 DEF EpisodeNext, ControllerStep

\* In every reachable state: what a controller at each step holds, the sandboxes
\* that may run a worker, the epochs spent (EpisodeInv).
THEOREM EpisodeInvariant == EpisodeSpec => []EpisodeInv
<1> QED BY InvInit, InvStep, PTL DEF EpisodeSpec

\* The types of the rows, of the launcher's books and of the controller's data,
\* and no domain and no checkpoint from an epoch that has not come.
THEOREM EpisodeIsTyped == EpisodeSpec => []EpisodeTypeOK
<1>1. EpisodeInv => EpisodeTypeOK
    BY DEF EpisodeInv
<1> QED BY <1>1, EpisodeInvariant, PTL

\* repair_manager.ex, episode_controller.ex: through any crashes, failing calls and
\* late answers, no two domains of an episode can run their worker.
THEOREM OnlyOneWorkerDomain == EpisodeSpec => []OneWorkerDomain
<1>1. EpisodeInv => OneWorkerDomain
    <2> SUFFICES ASSUME EpisodeInv, ~revived, NEW c \in used, NEW d \in used PROVE c = d
        BY DEF OneWorkerDomain
    <2>1. c \in Hosts /\ d \in Hosts
        BY DEF EpisodeInv, EpisodeTypeOK, Hosts
    <2> QED BY <2>1 DEF EpisodeInv, Hosting, Identities, Hosts
<1> QED BY <1>1, EpisodeInvariant, PTL

\* authority_governor.ex, repair_manager.ex: a live lease of the current epoch means
\* that whatever can still run a worker is of that epoch.
THEOREM AuthorityFollowsWorker == EpisodeSpec => []NoAuthorityOverOldWorker
<1>1. EpisodeInv => NoAuthorityOverOldWorker
    <2> SUFFICES ASSUME EpisodeInv, leased, ~revived, NEW d \in used PROVE d.epoch = epoch
        BY DEF NoAuthorityOverOldWorker
    <2>1. d \in Hosts
        BY DEF EpisodeInv, EpisodeTypeOK, Hosts
    <2> QED BY <2>1 DEF EpisodeInv, Hosting
<1> QED BY <1>1, EpisodeInvariant, PTL

\* containing/3: a contained episode has neither authority nor a domain that runs its
\* worker, unless the call that fences it failed.
THEOREM ContainmentHolds == EpisodeSpec => []ContainedIsFenced
<1>1. EpisodeInv => ContainedIsFenced
    <2> SUFFICES ASSUME EpisodeInv, At("contained"), ~unfenced, ~revived
                 PROVE  ~leased /\ used = {}
        BY DEF ContainedIsFenced
    <2>1. ~leased
        BY DEF EpisodeInv, Fencing, At
    <2>2. Hosts = {}
        BY DEF EpisodeInv, Hosting, Vacant, At
    <2>3. used \subseteq Hosts
        BY DEF EpisodeInv, EpisodeTypeOK, Hosts
    <2> QED BY <2>1, <2>2, <2>3
<1> QED BY <1>1, EpisodeInvariant, PTL

\* preempting/3 and ensure_epoch_fence/2: an incarnation of the controller advances
\* the epoch at most once per repair, and once more for its final fence.
THEOREM EpochsStayInBudget == EpisodeSpec => []EpochsAreBudgeted
<1>1. EpisodeInv => EpochsAreBudgeted
    <2> SUFFICES ASSUME EpisodeInv PROVE EpochsAreBudgeted
        OBVIOUS
    <2>1. crashes \in Nat /\ MaxRepairs \in Nat /\ epoch \in Nat /\ Earlier \in Nat
        BY Counts, EpisodeAssumption DEF EpisodeInv, EpisodeTypeOK
    <2>2. epoch <= Earlier + MaxRepairs + 1
        BY <2>1 DEF EpisodeInv, Budget, Spent
    <2>3. 1 + (crashes + 1) * (MaxRepairs + 1) = Earlier + MaxRepairs + 1
        BY <2>1 DEF Earlier
    <2> QED BY <2>2, <2>3 DEF EpochsAreBudgeted
<1> QED BY <1>1, EpisodeInvariant, PTL
=============================================================================
