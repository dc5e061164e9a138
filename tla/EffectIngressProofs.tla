-------------------------- MODULE EffectIngressProofs --------------------------
(***************************************************************************)
(* Theorems about EffectIngress for any number of sockets and callers, any *)
(* pool, limit and number of requests, kills and timeouts.                 *)
(***************************************************************************)
EXTENDS EffectIngress, SystemRegulatorProofs, FiniteSetTheorems, SequenceTheorems

-----------------------------------------------------------------------------
(* The invariant.                                                          *)

States == Serving \cup {"rearm", "deaf"}

Letters == [kind : {"call", "result"}, from : Callers]

Casts == [source : {"effect_queue"}, value : Levels]

\* The episodes whose accept task holds a slot.
Listening == {e \in Episodes : listener[e] \in Serving}

\* A caller that has asked and has not been answered; one whose socket has gone
\* deaf never asks again.
Busy(c) == IF c \in Direct THEN c \in asking ELSE listener[c] \in {"calling", "deaf"}

\* IngressTypeOK without the regulator, and the numbers it leaves out.
IngressTypes ==
    /\ listener \in [Episodes -> States]
    /\ clients \in [Episodes -> 0..MaxRequests]
    /\ mailbox \in Seq(Letters)
    /\ reports \in Seq(Casts)
    /\ jobs \subseteq Callers /\ asking \subseteq Direct
    /\ active \in 0..Limit
    /\ ending \in Nat /\ kills \in Nat
    /\ requests \in 0..MaxRequests
    /\ \A e \in Episodes : clients[e] <= requests

\* A caller has at most one call, task or result under way, and only while it
\* waits: so a task that is added to the running ones was none of them before.
OneRequestEach ==
    /\ \A i \in 1..Len(mailbox) : Busy(mailbox[i].from) /\ mailbox[i].from \notin jobs
    /\ \A i, j \in 1..Len(mailbox) : mailbox[i].from = mailbox[j].from => i = j
    /\ \A c \in jobs : Busy(c)

IngressInv ==
    /\ IngressTypes
    /\ Slots <= Pool
    /\ OneRequestEach
    /\ ActiveCountsTasks

-----------------------------------------------------------------------------
(* The mailbox as a sequence.                                              *)

\* The messages of a kind are a finite number.
LEMMA MessagesFinite ==
    ASSUME mailbox \in Seq(Letters), NEW kind
    PROVE  /\ Messages(kind) \subseteq 1..Len(mailbox)
           /\ IsFiniteSet(Messages(kind)) /\ Cardinality(Messages(kind)) \in Nat
           /\ Len(mailbox) \in Nat
<1>1. Len(mailbox) \in Nat
    BY LenProperties
<1>2. IsFiniteSet(1..Len(mailbox))
    BY <1>1, FS_Interval
<1>3. Messages(kind) \in SUBSET (1..Len(mailbox))
    BY DEF Messages
<1>4. IsFiniteSet(Messages(kind))
    BY <1>2, <1>3, FS_Subset
<1> QED BY <1>1, <1>3, <1>4, FS_CardinalityType

\* A message that arrives goes last.
LEMMA MailArrives ==
    ASSUME mailbox \in Seq(Letters), NEW msg \in Letters, mailbox' = Append(mailbox, msg)
    PROVE  /\ mailbox' \in Seq(Letters) /\ Len(mailbox') = Len(mailbox) + 1
           /\ \A i \in 1..Len(mailbox) : mailbox'[i] = mailbox[i]
           /\ mailbox'[Len(mailbox) + 1] = msg
           /\ Cardinality(Messages("result")')
                = Cardinality(Messages("result")) + (IF msg.kind = "result" THEN 1 ELSE 0)
<1>1. /\ mailbox' \in Seq(Letters) /\ Len(mailbox') = Len(mailbox) + 1
      /\ \A i \in 1..Len(mailbox) : mailbox'[i] = mailbox[i]
      /\ mailbox'[Len(mailbox) + 1] = msg
    BY AppendProperties
<1>2. Len(mailbox) \in Nat /\ Messages("result") \subseteq 1..Len(mailbox)
      /\ IsFiniteSet(Messages("result")) /\ Cardinality(Messages("result")) \in Nat
    BY MessagesFinite
<1>3. Messages("result")' = IF msg.kind = "result"
                            THEN Messages("result") \cup {Len(mailbox) + 1}
                            ELSE Messages("result")
    BY <1>1, <1>2 DEF Messages
<1>4. Len(mailbox) + 1 \notin Messages("result")
    BY <1>2
<1> QED BY <1>1, <1>2, <1>3, <1>4, FS_AddElement

\* The message that is taken was the first one.
LEMMA MailTaken ==
    ASSUME mailbox \in Seq(Letters), NEW kind \in {"call", "result"}, NextMessage(kind)
    PROVE  /\ mailbox' \in Seq(Letters) /\ Len(mailbox) = Len(mailbox') + 1
           /\ Len(mailbox') \in Nat /\ 1 \in 1..Len(mailbox)
           /\ Head(mailbox) = mailbox[1] /\ Head(mailbox) \in Letters
           /\ mailbox[1].kind = kind /\ mailbox[1].from \in Callers
           /\ \A i \in 1..Len(mailbox') : mailbox'[i] = mailbox[i + 1] /\ i + 1 \in 1..Len(mailbox)
           /\ Cardinality(Messages("result"))
                = Cardinality(Messages("result")') + (IF kind = "result" THEN 1 ELSE 0)
<1>1. /\ mailbox # << >> /\ mailbox' = Tail(mailbox) /\ Head(mailbox).kind = kind
    BY DEF NextMessage
<1>2. /\ mailbox' \in Seq(Letters) /\ Len(mailbox') = Len(mailbox) - 1
      /\ \A i \in 1..Len(mailbox') : mailbox'[i] = mailbox[i + 1]
      /\ Head(mailbox) = mailbox[1] /\ Head(mailbox) \in Letters
    BY <1>1, HeadTailProperties
<1>3. /\ Len(mailbox) \in Nat /\ Len(mailbox') \in Nat /\ Len(mailbox) # 0
    BY <1>1, <1>2, LenProperties, EmptySeq
<1>4. /\ mailbox[1].from \in Callers /\ 1 \in 1..Len(mailbox) /\ Len(mailbox) = Len(mailbox') + 1
      /\ \A i \in 1..Len(mailbox') : i + 1 \in 1..Len(mailbox)
    BY <1>2, <1>3 DEF Letters
<1> DEFINE rest  == Messages("result")'
           later == {i + 1 : i \in rest}
           shift == [i \in rest |-> i + 1]
<1>5. rest \subseteq 1..Len(mailbox') /\ IsFiniteSet(rest) /\ Cardinality(rest) \in Nat
    <2>1. rest \in SUBSET (1..Len(mailbox'))
        BY DEF Messages
    <2>2. IsFiniteSet(1..Len(mailbox'))
        BY <1>3, FS_Interval
    <2> QED BY <2>1, <2>2, FS_Subset, FS_CardinalityType
<1>6. Messages("result") = IF kind = "result" THEN later \cup {1} ELSE later
    <2>1. ASSUME NEW i \in rest PROVE i + 1 \in Messages("result")
        BY <1>2, <1>4 DEF Messages
    <2>2. ASSUME NEW i \in Messages("result"), i # 1 PROVE i \in later
        <3>1. i - 1 \in 1..Len(mailbox') /\ (i - 1) + 1 = i /\ mailbox[i].kind = "result"
            BY <1>3, <1>4, <2>2 DEF Messages
        <3>2. i - 1 \in rest
            BY <1>2, <3>1 DEF Messages
        <3> QED BY <3>1, <3>2
    <2>3. 1 \in Messages("result") <=> kind = "result"
        BY <1>1, <1>2, <1>4 DEF Messages
    <2> QED BY <2>1, <2>2, <2>3
<1>7. 1 \notin later
    BY <1>5
<1>8. IsFiniteSet(later) /\ Cardinality(later) = Cardinality(rest)
    <2>1. shift \in [rest -> later]
        OBVIOUS
    <2>2. \A a, b \in rest : shift[a] = shift[b] => a = b
        BY <1>5
    <2>3. \A x \in later : \E i \in rest : shift[i] = x
        OBVIOUS
    <2>4. shift \in Bijection(rest, later)
        BY <2>1, <2>2, <2>3 DEF Bijection, Injection, Surjection, IsInjective
    <2>5. ExistsBijection(rest, later)
        BY <2>4 DEF ExistsBijection
    <2> QED BY <1>5, <2>5, FS_Bijection
<1>9. Cardinality(Messages("result")) = Cardinality(rest) + (IF kind = "result" THEN 1 ELSE 0)
    <2> HIDE DEF later, rest
    <2> QED BY <1>5, <1>6, <1>7, <1>8, FS_AddElement
<1> QED BY <1>1, <1>2, <1>3, <1>4, <1>9

-----------------------------------------------------------------------------
(* Slots.                                                                  *)

LEMMA SlotsFinite ==
    ASSUME jobs \subseteq Callers, ending \in Nat
    PROVE  /\ IsFiniteSet(Listening) /\ Cardinality(Listening) \in Nat
           /\ IsFiniteSet(jobs) /\ Cardinality(jobs) \in Nat
           /\ Slots = Cardinality(Listening) + Cardinality(jobs) + ending
           /\ Slots \in Nat
<1>1. IsFiniteSet(Episodes) /\ IsFiniteSet(Direct)
    BY IngressAssumption
<1>2. IsFiniteSet(Callers)
    BY <1>1, FS_Union DEF Callers
<1>3. Listening \in SUBSET Episodes /\ jobs \in SUBSET Callers
    BY DEF Listening
<1>4. IsFiniteSet(Listening) /\ IsFiniteSet(jobs)
    BY <1>1, <1>2, <1>3, FS_Subset
<1>5. Cardinality(Listening) \in Nat /\ Cardinality(jobs) \in Nat
    BY <1>4, FS_CardinalityType
<1> QED BY <1>4, <1>5 DEF Slots, Listening

\* What a step of an accept loop does to the slots it holds.
LEMMA ListenerMoves ==
    ASSUME listener \in [Episodes -> States], NEW e \in Episodes,
           NEW from \in States, NEW to \in States, Becomes(e, from, to)
    PROVE  /\ listener' \in [Episodes -> States]
           /\ listener[e] = from /\ listener'[e] = to
           /\ \A d \in Episodes \ {e} : listener'[d] = listener[d]
           /\ Listening' = IF to \in Serving THEN Listening \cup {e} ELSE Listening \ {e}
           /\ e \in Listening <=> from \in Serving
<1>1. /\ listener[e] = from /\ listener' = [listener EXCEPT ![e] = to]
    BY DEF Becomes
<1>2. /\ listener' \in [Episodes -> States] /\ listener'[e] = to
      /\ \A d \in Episodes \ {e} : listener'[d] = listener[d]
    BY <1>1
<1> QED BY <1>1, <1>2 DEF Listening

\* The slots the accept tasks hold, before and after such a step.
LEMMA ListeningCounts ==
    ASSUME listener \in [Episodes -> States], NEW e \in Episodes,
           NEW from \in States, NEW to \in States, Becomes(e, from, to),
           IsFiniteSet(Listening), Cardinality(Listening) \in Nat
    PROVE  Cardinality(Listening') + (IF from \in Serving THEN 1 ELSE 0)
             = Cardinality(Listening) + (IF to \in Serving THEN 1 ELSE 0)
<1>1. /\ Listening' = IF to \in Serving THEN Listening \cup {e} ELSE Listening \ {e}
      /\ e \in Listening <=> from \in Serving
    BY ListenerMoves
<1>2. CASE to \in Serving
    <2>1. Cardinality(Listening')
            = IF e \in Listening THEN Cardinality(Listening) ELSE Cardinality(Listening) + 1
        BY <1>1, <1>2, FS_AddElement
    <2> QED BY <1>1, <1>2, <2>1
<1>3. CASE to \notin Serving
    <2>1. Cardinality(Listening')
            = IF e \in Listening THEN Cardinality(Listening) - 1 ELSE Cardinality(Listening)
        BY <1>1, <1>3, FS_RemoveElement
    <2> QED BY <1>1, <1>3, <2>1
<1> QED BY <1>2, <1>3

-----------------------------------------------------------------------------
(* Who is asking whom.                                                     *)

\* Nobody stops waiting, nothing is delivered: the requests are as they were.
LEMMA BusyStays ==
    ASSUME mailbox \in Seq(Letters), jobs \subseteq Callers, OneRequestEach,
           UNCHANGED <<mailbox, jobs>>,
           \A c \in Callers : Busy(c) => Busy(c)'
    PROVE  OneRequestEach'
<1>1. \A i \in 1..Len(mailbox) : mailbox[i].from \in Callers
    <2>1. \A i \in 1..Len(mailbox) : mailbox[i] \in Letters
        BY ElementOfSeq
    <2> QED BY <2>1 DEF Letters
<1>2. \A i \in 1..Len(mailbox') : Busy(mailbox[i].from)' /\ mailbox'[i].from \notin jobs'
    BY <1>1 DEF OneRequestEach, Busy
<1>3. \A i, j \in 1..Len(mailbox') : mailbox'[i].from = mailbox'[j].from => i = j
    BY DEF OneRequestEach
<1>4. \A c \in jobs' : Busy(c)'
    BY DEF OneRequestEach, Busy
<1> QED BY <1>2, <1>3, <1>4 DEF OneRequestEach

\* A message of somebody who has no other goes last.
LEMMA OneMore ==
    ASSUME mailbox \in Seq(Letters), jobs' \subseteq jobs, jobs \subseteq Callers,
           OneRequestEach, NEW msg \in Letters, mailbox' = Append(mailbox, msg),
           \A i \in 1..Len(mailbox) : mailbox[i].from # msg.from,
           msg.from \notin jobs', Busy(msg.from)',
           \A c \in Callers : Busy(c) => Busy(c)'
    PROVE  OneRequestEach'
<1>1. /\ Len(mailbox') = Len(mailbox) + 1 /\ Len(mailbox) \in Nat
      /\ \A i \in 1..Len(mailbox) : mailbox'[i] = mailbox[i]
      /\ mailbox'[Len(mailbox) + 1] = msg
    BY MailArrives, LenProperties
<1>2. \A i \in 1..Len(mailbox) : mailbox[i].from \in Callers
    <2>1. \A i \in 1..Len(mailbox) : mailbox[i] \in Letters
        BY ElementOfSeq
    <2> QED BY <2>1 DEF Letters
<1>3. \A i \in 1..Len(mailbox') : i \in 1..Len(mailbox) \/ i = Len(mailbox) + 1
    BY <1>1
<1>4. \A i \in 1..Len(mailbox') : Busy(mailbox[i].from)' /\ mailbox'[i].from \notin jobs'
    BY <1>1, <1>2, <1>3 DEF OneRequestEach, Busy
<1>5. \A i, j \in 1..Len(mailbox') : mailbox'[i].from = mailbox'[j].from => i = j
    BY <1>1, <1>3 DEF OneRequestEach
<1>6. \A c \in jobs' : Busy(c)'
    BY DEF OneRequestEach, Busy
<1> QED BY <1>4, <1>5, <1>6 DEF OneRequestEach

\* The first message is taken: its sender has none left, so it may get its task
\* or its answer.
LEMMA OneLess ==
    ASSUME mailbox \in Seq(Letters), jobs \subseteq Callers, OneRequestEach,
           NEW kind \in {"call", "result"}, NextMessage(kind), NEW c, c = mailbox[1].from,
           \/ jobs' = jobs
           \/ jobs' = jobs \cup {c} /\ Busy(c)',
           \A d \in Callers \ {c} : Busy(d) => Busy(d)'
    PROVE  OneRequestEach'
<1>1. /\ Len(mailbox) = Len(mailbox') + 1 /\ Len(mailbox') \in Nat /\ 1 \in 1..Len(mailbox)
      /\ \A i \in 1..Len(mailbox') : mailbox'[i] = mailbox[i + 1] /\ i + 1 \in 1..Len(mailbox)
    BY MailTaken
<1>2. \A i \in 1..Len(mailbox) : mailbox[i].from \in Callers
    <2>1. \A i \in 1..Len(mailbox) : mailbox[i] \in Letters
        BY ElementOfSeq
    <2> QED BY <2>1 DEF Letters
<1>3. ASSUME NEW i \in 1..Len(mailbox') PROVE mailbox'[i].from \in Callers \ {c}
    <2>1. i + 1 # 1
        BY <1>1
    <2> QED BY <1>1, <1>2, <2>1 DEF OneRequestEach
<1>4. \A i \in 1..Len(mailbox') : Busy(mailbox[i].from)' /\ mailbox'[i].from \notin jobs'
    BY <1>1, <1>3 DEF OneRequestEach, Busy
<1>5. \A i, j \in 1..Len(mailbox') : mailbox'[i].from = mailbox'[j].from => i = j
    <2> TAKE i, j \in 1..Len(mailbox')
    <2> HAVE mailbox'[i].from = mailbox'[j].from
    <2>1. i + 1 = j + 1
        BY <1>1 DEF OneRequestEach
    <2> QED BY <1>1, <2>1
<1>6. c \notin jobs
    BY <1>1 DEF OneRequestEach
<1>7. \A d \in jobs' : Busy(d)'
    BY <1>6 DEF OneRequestEach, Busy
<1> QED BY <1>4, <1>5, <1>7 DEF OneRequestEach

\* A reply ends at most the waiting of the one it is for, and takes no slot.
LEMMA ReplyKeeps ==
    ASSUME listener \in [Episodes -> States], asking \subseteq Direct,
           NEW c \in Callers, Reply(c)
    PROVE  /\ listener' \in [Episodes -> States] /\ asking' \subseteq Direct
           /\ \A d \in Callers \ {c} : Busy(d) => Busy(d)'
           /\ Listening' = Listening
<1>1. CASE c \in Direct
    BY <1>1 DEF Reply, Busy, Listening
<1>2. CASE c \notin Direct
    <2>1. c \in Episodes
        BY <1>2 DEF Callers
    <2>2. /\ listener' = [listener EXCEPT ![c] = IF @ = "calling" THEN "answering" ELSE @]
          /\ asking' = asking
        BY <1>2 DEF Reply
    <2>3. listener' \in [Episodes -> States]
        BY <2>1, <2>2 DEF States, Serving
    <2>4. \A e \in Episodes : listener'[e] \in Serving <=> listener[e] \in Serving
        BY <2>1, <2>2 DEF States, Serving
    <2>5. \A d \in Callers \ {c} : Busy(d) => Busy(d)'
        BY <2>1, <2>2 DEF Busy, Callers
    <2> QED BY <2>2, <2>3, <2>4, <2>5 DEF Listening
<1> QED BY <1>1, <1>2

-----------------------------------------------------------------------------
(* Every step preserves the invariant.                                     *)

\* What the invariant says of the numbers, in one place.
LEMMA Numbers ==
    ASSUME IngressInv
    PROVE  /\ Cardinality(Listening) \in Nat /\ Cardinality(jobs) \in Nat
           /\ IsFiniteSet(Listening) /\ IsFiniteSet(jobs)
           /\ ending \in Nat /\ kills \in Nat /\ active \in 0..Limit
           /\ Cardinality(Messages("result")) \in Nat
           /\ Cardinality(Listening) + Cardinality(jobs) + ending <= Pool
           /\ active = Cardinality(jobs) + Cardinality(Messages("result")) + kills
           /\ Limit \in Nat \ {0} /\ Pool \in Nat
           /\ Slots = Cardinality(Listening) + Cardinality(jobs) + ending
<1>1. jobs \subseteq Callers /\ ending \in Nat /\ mailbox \in Seq(Letters)
    BY DEF IngressInv, IngressTypes
<1> QED BY <1>1, SlotsFinite, MessagesFinite, IngressAssumption
           DEF IngressInv, IngressTypes, ActiveCountsTasks

\* The counts of the next state.
LEMMA NextCounts ==
    ASSUME Cardinality(Listening') + Cardinality(jobs') + ending' <= Pool,
           active' = Cardinality(jobs') + Cardinality(Messages("result")') + kills'
    PROVE  (Slots <= Pool /\ ActiveCountsTasks)'
BY DEF Slots, Listening, ActiveCountsTasks

\* Only the regulator and the reports to it change.
LEMMA OthersKeep ==
    ASSUME IngressInv, reports' \in Seq(Casts),
           UNCHANGED <<socketVars, asking, mailbox, active, jobs, ending, kills, requests>>
    PROVE  IngressInv'
<1> USE DEF socketVars
<1>1. IngressTypes'
    BY DEF IngressInv, IngressTypes
<1>2. OneRequestEach'
    BY DEF IngressInv, OneRequestEach, Busy
<1>3. (Slots <= Pool)' /\ ActiveCountsTasks'
    BY DEF IngressInv, Slots, ActiveCountsTasks, Messages
<1> QED BY <1>1, <1>2, <1>3 DEF IngressInv

LEMMA ConnectKeeps ==
    ASSUME IngressInv, NEW e \in Episodes, Connect(e)
    PROVE  IngressInv'
<1> USE DEF brokerVars, faultVars
<1>1. /\ requests \in 0..MaxRequests /\ requests < MaxRequests /\ requests' = requests + 1
      /\ clients \in [Episodes -> 0..MaxRequests] /\ \A d \in Episodes : clients[d] <= requests
      /\ clients' = [clients EXCEPT ![e] = @ + 1]
      /\ MaxRequests \in Nat
    BY IngressAssumption DEF IngressInv, IngressTypes, Connect
<1>2. clients[e] + 1 \in 0..MaxRequests
    BY <1>1
<1>3. /\ clients' \in [Episodes -> 0..MaxRequests]
      /\ \A d \in Episodes : clients'[d] <= requests'
      /\ requests' \in 0..MaxRequests
    BY <1>1, <1>2
<1>4. UNCHANGED <<listener, asking, mailbox, reports, active, jobs, ending, kills>>
    BY DEF Connect
<1>5. IngressTypes'
    BY <1>3, <1>4 DEF IngressInv, IngressTypes
<1>6. OneRequestEach'
    BY <1>4 DEF IngressInv, OneRequestEach, Busy
<1>7. (Slots <= Pool)' /\ ActiveCountsTasks'
    BY <1>4 DEF IngressInv, Slots, ActiveCountsTasks, Messages
<1> QED BY <1>5, <1>6, <1>7 DEF IngressInv

\* An accept loop goes on without a word to the broker. It takes a slot only
\* when there is one, and gives one up to a task that is being reaped.
LEMMA LoopKeeps ==
    ASSUME IngressInv, NEW e \in Episodes, NEW from \in States, NEW to \in States,
           Becomes(e, from, to),
           from \in {"calling", "deaf"} => to \in {"calling", "deaf"},
           clients' \in [Episodes -> 0..MaxRequests],
           \A d \in Episodes : clients'[d] <= requests,
           UNCHANGED <<brokerVars, asking, requests, kills>>, ending' \in Nat,
           \/ to \in Serving /\ from \in Serving /\ ending' = ending
           \/ to \in Serving /\ from \notin Serving /\ Room /\ ending' = ending
           \/ to \notin Serving /\ from \in Serving /\ ending' = ending + 1
           \/ to \notin Serving /\ from \notin Serving /\ ending' = ending
    PROVE  IngressInv'
<1> USE DEF brokerVars
<1>1. /\ listener \in [Episodes -> States] /\ mailbox \in Seq(Letters) /\ jobs \subseteq Callers
      /\ OneRequestEach
    BY DEF IngressInv, IngressTypes
<1>2. /\ listener' \in [Episodes -> States] /\ listener[e] = from /\ listener'[e] = to
      /\ \A d \in Episodes \ {e} : listener'[d] = listener[d]
    BY <1>1, ListenerMoves
<1>3. IngressTypes'
    BY <1>2 DEF IngressInv, IngressTypes
<1>4. \A c \in Callers : Busy(c) => Busy(c)'
    BY <1>2 DEF Busy, Callers
<1>5. OneRequestEach'
    BY <1>1, <1>4, BusyStays
<1>6. Messages("result")' = Messages("result")
    BY DEF Messages
<1>7. Cardinality(Listening') + (IF from \in Serving THEN 1 ELSE 0)
        = Cardinality(Listening) + (IF to \in Serving THEN 1 ELSE 0)
    BY <1>1, ListeningCounts, Numbers
<1>8. Cardinality(Listening') \in Nat
    <2>1. IsFiniteSet(Episodes) /\ Listening' \in SUBSET Episodes
        BY IngressAssumption DEF Listening
    <2> QED BY <2>1, FS_Subset, FS_CardinalityType
<1>9. Cardinality(Listening') + Cardinality(jobs') + ending' <= Pool
    BY <1>7, <1>8, Numbers DEF Room
<1>10. active' = Cardinality(jobs') + Cardinality(Messages("result")') + kills'
    BY <1>6, Numbers
<1> QED BY <1>3, <1>5, <1>9, <1>10, NextCounts DEF IngressInv

LEMMA LoopStepsKeep ==
    ASSUME IngressInv, NEW e \in Episodes,
           Rearm(e) \/ Accept(e) \/ AnswerDirectly(e) \/ CallTimesOut(e) \/ Answer(e)
    PROVE  IngressInv'
<1> USE DEF States, Serving, faultVars
<1>1. /\ clients \in [Episodes -> 0..MaxRequests] /\ \A d \in Episodes : clients[d] <= requests
      /\ ending \in Nat /\ MaxRequests \in Nat /\ requests \in 0..MaxRequests
    BY IngressAssumption DEF IngressInv, IngressTypes
<1>2. CASE Rearm(e)
    <2>1. UNCHANGED <<brokerVars, clients, asking, ending, requests, kills>>
        BY <1>2 DEF Rearm
    <2>2. CASE Room
        <3>1. Becomes(e, "rearm", "accepting")
            BY <1>2, <2>2 DEF Rearm
        <3> QED BY <1>1, <2>1, <2>2, <3>1, LoopKeeps
    <2>3. CASE ~Room
        <3>1. Becomes(e, "rearm", "deaf")
            BY <1>2, <2>3 DEF Rearm
        <3> QED BY <1>1, <2>1, <3>1, LoopKeeps
    <2> QED BY <2>2, <2>3
<1>3. CASE Accept(e)
    <2>1. /\ UNCHANGED <<brokerVars, asking, ending, requests, kills>>
          /\ Becomes(e, "accepting", "reading")
        BY <1>3 DEF Accept
    <2>2. clients' = [clients EXCEPT ![e] = @ - 1] /\ clients[e] > 0
        BY <1>3 DEF Accept
    <2>3. clients[e] - 1 \in 0..MaxRequests /\ clients[e] - 1 <= requests
        BY <1>1, <2>2
    <2>4. /\ clients' \in [Episodes -> 0..MaxRequests]
          /\ \A d \in Episodes : clients'[d] <= requests
        BY <1>1, <2>2, <2>3
    <2> QED BY <1>1, <2>1, <2>4, LoopKeeps
<1>4. CASE AnswerDirectly(e)
    <2>1. /\ UNCHANGED <<brokerVars, clients, asking, ending, requests, kills>>
          /\ Becomes(e, "reading", "answering")
        BY <1>4 DEF AnswerDirectly
    <2> QED BY <1>1, <2>1, LoopKeeps
<1>5. CASE CallTimesOut(e)
    <2>1. /\ UNCHANGED <<brokerVars, clients, asking, requests, kills>>
          /\ Becomes(e, "calling", "deaf") /\ ending' = ending + 1
        BY <1>5 DEF CallTimesOut
    <2> QED BY <1>1, <2>1, LoopKeeps
<1>6. CASE Answer(e)
    <2>1. /\ UNCHANGED <<brokerVars, clients, asking, requests, kills>>
          /\ Becomes(e, "answering", "rearm") /\ ending' = ending + 1
        BY <1>6 DEF Answer
    <2> QED BY <1>1, <2>1, LoopKeeps
<1> QED BY <1>2, <1>3, <1>4, <1>5, <1>6

LEMMA ReapKeeps ==
    ASSUME IngressInv, Reap
    PROVE  IngressInv'
<1> USE DEF brokerVars, socketVars, faultVars
<1>1. /\ ending > 0 /\ ending' = ending - 1 /\ ending \in Nat
      /\ UNCHANGED <<listener, clients, mailbox, active, jobs, reports, asking, requests, kills>>
    BY DEF Reap, IngressInv, IngressTypes
<1>2. IngressTypes'
    BY <1>1 DEF IngressInv, IngressTypes
<1>3. OneRequestEach'
    BY <1>1 DEF IngressInv, OneRequestEach, Busy
<1>4. Listening' = Listening /\ Messages("result")' = Messages("result")
    BY <1>1 DEF Listening, Messages
<1>5. (Slots <= Pool /\ ActiveCountsTasks)'
    BY <1>1, <1>4, Numbers, NextCounts
<1> QED BY <1>2, <1>3, <1>5 DEF IngressInv

\* Where a caller that is not waiting is not: in the mailbox and among the jobs.
LEMMA NotBusy ==
    ASSUME IngressInv, NEW c \in Callers, ~Busy(c)
    PROVE  (\A i \in 1..Len(mailbox) : mailbox[i].from # c) /\ c \notin jobs
BY DEF IngressInv, OneRequestEach

LEMMA CallBrokerKeeps ==
    ASSUME IngressInv, NEW e \in Episodes, CallBroker(e)
    PROVE  IngressInv'
<1> USE DEF faultVars
<1> DEFINE call == [kind |-> "call", from |-> e]
<1>1. /\ Becomes(e, "reading", "calling") /\ mailbox' = Append(mailbox, call)
      /\ UNCHANGED <<clients, asking, active, jobs, reports, ending, requests, kills>>
    BY DEF CallBroker
<1>2. /\ listener \in [Episodes -> States] /\ mailbox \in Seq(Letters) /\ jobs \subseteq Callers
      /\ OneRequestEach
    BY DEF IngressInv, IngressTypes
<1>3. {"reading", "calling"} \subseteq States /\ {"reading", "calling"} \subseteq Serving
    BY DEF States, Serving
<1>4. /\ listener' \in [Episodes -> States] /\ listener[e] = "reading" /\ listener'[e] = "calling"
      /\ \A d \in Episodes \ {e} : listener'[d] = listener[d]
    BY <1>1, <1>2, <1>3, ListenerMoves
<1>5. e \in Callers /\ e \notin Direct /\ call \in Letters
    BY IngressAssumption DEF Callers, Letters
<1>6. Busy(e)' /\ ~Busy(e) /\ \A c \in Callers : Busy(c) => Busy(c)'
    BY <1>1, <1>4, <1>5 DEF Busy, Callers
<1>7. (\A i \in 1..Len(mailbox) : mailbox[i].from # e) /\ e \notin jobs
    BY <1>5, <1>6, NotBusy
<1>8. OneRequestEach'
    <2>1. call.from = e /\ jobs' = jobs
        BY <1>1
    <2>2. /\ \A i \in 1..Len(mailbox) : mailbox[i].from # call.from
          /\ call.from \notin jobs' /\ Busy(call.from)'
        BY <1>6, <1>7, <2>1
    <2> HIDE DEF call
    <2> QED BY <1>1, <1>2, <1>5, <1>6, <2>1, <2>2, OneMore
<1>9. /\ mailbox' \in Seq(Letters)
      /\ Cardinality(Messages("result")') = Cardinality(Messages("result"))
    <2>1. call.kind # "result"
        OBVIOUS
    <2> HIDE DEF call
    <2> QED BY <1>1, <1>2, <1>5, <2>1, MailArrives, Numbers
<1>10. Cardinality(Listening') = Cardinality(Listening)
    <2>1. Cardinality(Listening') + 1 = Cardinality(Listening) + 1
        BY <1>1, <1>2, <1>3, ListeningCounts, Numbers
    <2>2. IsFiniteSet(Episodes) /\ Listening' \in SUBSET Episodes
        BY IngressAssumption DEF Listening
    <2>3. Cardinality(Listening') \in Nat
        BY <2>2, FS_Subset, FS_CardinalityType
    <2> QED BY <2>1, <2>3, Numbers
<1>11. (Slots <= Pool /\ ActiveCountsTasks)'
    BY <1>1, <1>9, <1>10, Numbers, NextCounts
<1>12. IngressTypes'
    BY <1>1, <1>4, <1>9 DEF IngressInv, IngressTypes
<1> QED BY <1>8, <1>11, <1>12 DEF IngressInv

LEMMA DirectCallKeeps ==
    ASSUME IngressInv, NEW d \in Direct, DirectCall(d)
    PROVE  IngressInv'
<1> USE DEF faultVars, socketVars
<1> DEFINE call == [kind |-> "call", from |-> d]
<1>1. /\ d \notin asking /\ asking' = asking \cup {d} /\ mailbox' = Append(mailbox, call)
      /\ UNCHANGED <<listener, clients, active, jobs, reports, ending, kills>>
    BY DEF DirectCall
<1>2. /\ mailbox \in Seq(Letters) /\ jobs \subseteq Callers /\ OneRequestEach
    BY DEF IngressInv, IngressTypes
<1>3. /\ requests < MaxRequests /\ requests' = requests + 1 /\ requests \in 0..MaxRequests
      /\ MaxRequests \in Nat
      /\ clients \in [Episodes -> 0..MaxRequests] /\ \A e \in Episodes : clients[e] <= requests
    BY IngressAssumption DEF DirectCall, IngressInv, IngressTypes
<1>4. requests' \in 0..MaxRequests /\ \A e \in Episodes : clients[e] <= requests'
    BY <1>3
<1>5. d \in Callers /\ call \in Letters
    BY DEF Callers, Letters
<1>6. Busy(d)' /\ ~Busy(d) /\ \A c \in Callers : Busy(c) => Busy(c)'
    BY <1>1 DEF Busy
<1>7. (\A i \in 1..Len(mailbox) : mailbox[i].from # d) /\ d \notin jobs
    BY <1>5, <1>6, NotBusy
<1>8. OneRequestEach'
    <2>1. call.from = d /\ jobs' = jobs
        BY <1>1
    <2>2. /\ \A i \in 1..Len(mailbox) : mailbox[i].from # call.from
          /\ call.from \notin jobs' /\ Busy(call.from)'
        BY <1>6, <1>7, <2>1
    <2> HIDE DEF call
    <2> QED BY <1>1, <1>2, <1>5, <1>6, <2>1, <2>2, OneMore
<1>9. /\ mailbox' \in Seq(Letters)
      /\ Cardinality(Messages("result")') = Cardinality(Messages("result"))
    <2>1. call.kind # "result"
        OBVIOUS
    <2> HIDE DEF call
    <2> QED BY <1>1, <1>2, <1>5, <2>1, MailArrives, Numbers
<1>10. Listening' = Listening
    BY <1>1 DEF Listening
<1>11. (Slots <= Pool /\ ActiveCountsTasks)'
    BY <1>1, <1>9, <1>10, Numbers, NextCounts
<1>12. IngressTypes'
    BY <1>1, <1>4, <1>9 DEF IngressInv, IngressTypes
<1> QED BY <1>8, <1>11, <1>12 DEF IngressInv

LEMMA TaskEndsKeeps ==
    ASSUME IngressInv, NEW c \in Callers, TaskEnds(c)
    PROVE  IngressInv'
<1> USE DEF faultVars, socketVars
<1> DEFINE result == [kind |-> "result", from |-> c]
<1>1. /\ c \in jobs /\ jobs' = jobs \ {c} /\ ending' = ending + 1
      /\ mailbox' = Append(mailbox, result)
      /\ UNCHANGED <<listener, clients, asking, active, reports, requests, kills>>
    BY DEF TaskEnds
<1>2. /\ mailbox \in Seq(Letters) /\ jobs \subseteq Callers /\ OneRequestEach
    BY DEF IngressInv, IngressTypes
<1>3. result \in Letters
    BY DEF Letters
<1>4. Busy(c)' /\ \A d \in Callers : Busy(d) => Busy(d)'
    BY <1>1, <1>2 DEF Busy, OneRequestEach
<1>5. \A i \in 1..Len(mailbox) : mailbox[i].from # c
    BY <1>1, <1>2 DEF OneRequestEach
<1>6. OneRequestEach'
    <2>1. result.from = c /\ jobs' \subseteq jobs /\ c \notin jobs'
        BY <1>1
    <2>2. /\ \A i \in 1..Len(mailbox) : mailbox[i].from # result.from
          /\ result.from \notin jobs' /\ Busy(result.from)'
        BY <1>4, <1>5, <2>1
    <2> HIDE DEF result
    <2> QED BY <1>1, <1>2, <1>3, <1>4, <2>1, <2>2, OneMore
<1>7. /\ mailbox' \in Seq(Letters)
      /\ Cardinality(Messages("result")') = Cardinality(Messages("result")) + 1
    <2>1. result.kind = "result"
        OBVIOUS
    <2> HIDE DEF result
    <2> QED BY <1>1, <1>2, <1>3, <2>1, MailArrives, Numbers
<1>8. Listening' = Listening /\ Cardinality(jobs') = Cardinality(jobs) - 1
    BY <1>1, Numbers, FS_RemoveElement DEF Listening
<1> HIDE DEF result
<1>9. (Slots <= Pool /\ ActiveCountsTasks)'
    <2>1. ending' = ending + 1 /\ active' = active /\ kills' = kills
        BY <1>1
    <2>2. /\ Cardinality(jobs) \in Nat /\ Cardinality(Listening) \in Nat
          /\ ending \in Nat /\ kills \in Nat /\ Pool \in Nat
          /\ Cardinality(Messages("result")) \in Nat
        BY Numbers
    <2>3. /\ Cardinality(Listening) + Cardinality(jobs) + ending <= Pool
          /\ active = Cardinality(jobs) + Cardinality(Messages("result")) + kills
        BY Numbers
    <2>4. Cardinality(Messages("result")') = Cardinality(Messages("result")) + 1
        BY <1>7
    <2>5. Cardinality(Listening') = Cardinality(Listening)
        BY <1>8
    <2>6. Cardinality(Listening') + Cardinality(jobs') + ending' <= Pool
        BY <1>8, <2>1, <2>2, <2>3, <2>5
    <2>7. active' = Cardinality(jobs') + Cardinality(Messages("result")') + kills'
        BY <1>8, <2>1, <2>2, <2>3, <2>4
    <2> QED BY <2>6, <2>7, NextCounts
<1>10. IngressTypes'
    <2>1. jobs' \subseteq Callers /\ ending' \in Nat
        BY <1>1, Numbers DEF IngressInv, IngressTypes
    <2> QED BY <1>1, <1>7, <2>1 DEF IngressInv, IngressTypes
<1> QED BY <1>6, <1>9, <1>10 DEF IngressInv

LEMMA TaskKilledKeeps ==
    ASSUME IngressInv, NEW c \in Callers, TaskKilled(c)
    PROVE  IngressInv'
<1> USE DEF socketVars
<1>1. /\ c \in jobs /\ jobs' = jobs \ {c} /\ ending' = ending + 1 /\ kills' = kills + 1
      /\ UNCHANGED <<listener, clients, asking, mailbox, active, reports, requests>>
    BY DEF TaskKilled
<1>2. OneRequestEach'
    BY <1>1 DEF IngressInv, OneRequestEach, Busy
<1>3. /\ Listening' = Listening /\ Messages("result")' = Messages("result")
      /\ Cardinality(jobs') = Cardinality(jobs) - 1
    BY <1>1, Numbers, FS_RemoveElement DEF Listening, Messages
<1>4. (Slots <= Pool /\ ActiveCountsTasks)'
    <2>1. ending' = ending + 1 /\ active' = active /\ kills' = kills + 1
        BY <1>1
    <2>2. /\ Cardinality(jobs) \in Nat /\ Cardinality(Listening) \in Nat
          /\ ending \in Nat /\ kills \in Nat /\ Pool \in Nat
          /\ Cardinality(Messages("result")) \in Nat
        BY Numbers
    <2>3. /\ Cardinality(Listening) + Cardinality(jobs) + ending <= Pool
          /\ active = Cardinality(jobs) + Cardinality(Messages("result")) + kills
        BY Numbers
    <2>4. /\ Cardinality(Listening') = Cardinality(Listening)
          /\ Cardinality(Messages("result")') = Cardinality(Messages("result"))
        BY <1>3
    <2>5. Cardinality(Listening') + Cardinality(jobs') + ending' <= Pool
        BY <1>3, <2>1, <2>2, <2>3, <2>4
    <2>6. active' = Cardinality(jobs') + Cardinality(Messages("result")') + kills'
        BY <1>3, <2>1, <2>2, <2>3, <2>4
    <2> QED BY <2>5, <2>6, NextCounts
<1>5. IngressTypes'
    BY <1>1, Numbers DEF IngressInv, IngressTypes
<1> QED BY <1>2, <1>4, <1>5 DEF IngressInv

\* A load the broker reports is one the regulator knows.
LEMMA LoadIsCast ==
    ASSUME NEW n \in 0..Limit
    PROVE  Load(n) \in Casts
BY IngressAssumption DEF Load, Casts

LEMMA Reported ==
    ASSUME reports \in Seq(Casts), NEW n \in 0..Limit, reports' = Append(reports, Load(n))
    PROVE  reports' \in Seq(Casts)
BY LoadIsCast, AppendProperties

\* The results a step leaves are a finite number.
LEMMA ResultsLeft ==
    ASSUME mailbox' \in Seq(Letters)
    PROVE  Cardinality(Messages("result")') \in Nat
<1>1. Messages("result")' \in SUBSET (1..Len(mailbox')) /\ Len(mailbox') \in Nat
    BY LenProperties DEF Messages
<1>2. IsFiniteSet(1..Len(mailbox'))
    BY <1>1, FS_Interval
<1> QED BY <1>1, <1>2, FS_Subset, FS_CardinalityType

LEMMA StartWorkKeeps ==
    ASSUME IngressInv, StartWork
    PROVE  IngressInv'
<1> USE DEF faultVars, socketVars
<1>1. PICK c : c = mailbox[1].from
    OBVIOUS
<1>2. /\ NextMessage("call") /\ active < Limit /\ Room
      /\ active' = active + 1 /\ reports' = Append(reports, Load(active + 1))
      /\ jobs' = jobs \cup {Head(mailbox).from}
      /\ UNCHANGED <<listener, clients, asking, ending, requests, kills>>
    BY DEF StartWork
<1>3. /\ mailbox \in Seq(Letters) /\ jobs \subseteq Callers /\ OneRequestEach
      /\ reports \in Seq(Casts)
    BY DEF IngressInv, IngressTypes
<1>4. /\ mailbox' \in Seq(Letters) /\ 1 \in 1..Len(mailbox)
      /\ Head(mailbox) = mailbox[1] /\ c \in Callers
      /\ Cardinality(Messages("result")) = Cardinality(Messages("result")') + 0
    <2>1. "call" \in {"call", "result"} /\ "call" # "result"
        OBVIOUS
    <2> QED BY <1>1, <1>2, <1>3, <2>1, MailTaken
<1>5. jobs' = jobs \cup {c} /\ c \notin jobs
    BY <1>1, <1>2, <1>3, <1>4 DEF OneRequestEach
<1>6. Busy(c)' /\ \A d \in Callers : Busy(d) => Busy(d)'
    BY <1>1, <1>2, <1>3, <1>4 DEF Busy, OneRequestEach
<1>7. OneRequestEach'
    <2>1. "call" \in {"call", "result"}
        OBVIOUS
    <2> QED BY <1>1, <1>2, <1>3, <1>5, <1>6, <2>1, OneLess
<1>8. Cardinality(Messages("result")') = Cardinality(Messages("result"))
    BY <1>4, ResultsLeft
<1>9. Listening' = Listening /\ Cardinality(jobs') = Cardinality(jobs) + 1
    BY <1>2, <1>5, Numbers, FS_AddElement DEF Listening
<1>10. (Slots <= Pool /\ ActiveCountsTasks)'
    <2>1. ending' = ending /\ active' = active + 1 /\ kills' = kills
        BY <1>2
    <2>2. /\ Cardinality(jobs) \in Nat /\ Cardinality(Listening) \in Nat
          /\ ending \in Nat /\ kills \in Nat /\ Pool \in Nat
          /\ Cardinality(Messages("result")) \in Nat
        BY Numbers
    <2>3. active = Cardinality(jobs) + Cardinality(Messages("result")) + kills
        BY Numbers
    <2>4. Slots < Pool /\ Slots = Cardinality(Listening) + Cardinality(jobs) + ending
        BY <1>2, Numbers DEF Room
    <2>5. Cardinality(Listening') = Cardinality(Listening)
        BY <1>9
    <2>6. Cardinality(Listening') + Cardinality(jobs') + ending' <= Pool
        BY <1>9, <2>1, <2>2, <2>4, <2>5
    <2>7. active' = Cardinality(jobs') + Cardinality(Messages("result")') + kills'
        BY <1>8, <1>9, <2>1, <2>2, <2>3
    <2> QED BY <2>6, <2>7, NextCounts
<1>11. active + 1 \in 0..Limit
    BY <1>2, Numbers
<1>12. reports' \in Seq(Casts)
    BY <1>2, <1>3, <1>11, Reported
<1>13. IngressTypes'
    BY <1>2, <1>4, <1>5, <1>11, <1>12 DEF IngressInv, IngressTypes
<1> QED BY <1>7, <1>10, <1>13 DEF IngressInv

LEMMA RefuseWorkKeeps ==
    ASSUME IngressInv, RefuseWork
    PROVE  IngressInv'
<1>1. PICK c : c = mailbox[1].from
    OBVIOUS
<1>2. /\ NextMessage("call") /\ reports' = Append(reports, Load(Limit))
      /\ Reply(Head(mailbox).from)
      /\ UNCHANGED <<clients, active, jobs, ending, requests, kills>>
    BY DEF RefuseWork, Overload
<1>3. /\ mailbox \in Seq(Letters) /\ jobs \subseteq Callers /\ OneRequestEach
      /\ reports \in Seq(Casts) /\ listener \in [Episodes -> States] /\ asking \subseteq Direct
    BY DEF IngressInv, IngressTypes
<1>4. "call" \in {"call", "result"} /\ "call" # "result"
    OBVIOUS
<1>5. /\ mailbox' \in Seq(Letters) /\ c \in Callers /\ Reply(c)
      /\ Cardinality(Messages("result")) = Cardinality(Messages("result")') + 0
    BY <1>1, <1>2, <1>3, <1>4, MailTaken
<1>6. /\ listener' \in [Episodes -> States] /\ asking' \subseteq Direct
      /\ \A d \in Callers \ {c} : Busy(d) => Busy(d)'
      /\ Listening' = Listening
    BY <1>3, <1>5, ReplyKeeps
<1>7. OneRequestEach'
    BY <1>1, <1>2, <1>3, <1>4, <1>6, OneLess
<1>8. Cardinality(Messages("result")') \in Nat
    BY <1>5, ResultsLeft
<1>9. (Slots <= Pool /\ ActiveCountsTasks)'
    BY <1>2, <1>5, <1>6, <1>8, Numbers, NextCounts
<1>10. reports' \in Seq(Casts)
    <2>1. Limit \in 0..Limit
        BY Numbers
    <2> QED BY <1>2, <1>3, <2>1, Reported
<1>11. IngressTypes'
    BY <1>2, <1>5, <1>6, <1>10 DEF IngressInv, IngressTypes
<1> QED BY <1>7, <1>9, <1>11 DEF IngressInv

\* The result that is read was counted, so the count never goes below zero.
LEMMA BrokerResultKeeps ==
    ASSUME IngressInv, BrokerResult
    PROVE  IngressInv'
<1> USE DEF faultVars
<1>1. PICK c : c = mailbox[1].from
    OBVIOUS
<1>2. /\ NextMessage("result") /\ reports' = Append(reports, Load(active'))
      /\ active' = (IF active = 0 THEN 0 ELSE active - 1)
      /\ Reply(Head(mailbox).from)
      /\ UNCHANGED <<clients, jobs, ending, requests, kills>>
    BY DEF BrokerResult
<1>3. /\ mailbox \in Seq(Letters) /\ jobs \subseteq Callers /\ OneRequestEach
      /\ reports \in Seq(Casts) /\ listener \in [Episodes -> States] /\ asking \subseteq Direct
    BY DEF IngressInv, IngressTypes
<1>4. "result" \in {"call", "result"}
    OBVIOUS
<1>5. /\ mailbox' \in Seq(Letters) /\ c \in Callers /\ Reply(c)
      /\ Cardinality(Messages("result")) = Cardinality(Messages("result")') + 1
    BY <1>1, <1>2, <1>3, <1>4, MailTaken
<1>6. /\ listener' \in [Episodes -> States] /\ asking' \subseteq Direct
      /\ \A d \in Callers \ {c} : Busy(d) => Busy(d)'
      /\ Listening' = Listening
    BY <1>3, <1>5, ReplyKeeps
<1>7. OneRequestEach'
    BY <1>1, <1>2, <1>3, <1>4, <1>6, OneLess
<1>8. Cardinality(Messages("result")') \in Nat
    BY <1>5, ResultsLeft
<1>9. active' = active - 1 /\ active' \in 0..Limit
    <2>1. Cardinality(Messages("result")) >= 1
        BY <1>5, <1>8
    <2>2. active >= 1
        BY <2>1, Numbers
    <2>3. active' = active - 1
        BY <1>2, <2>2
    <2> QED BY <2>2, <2>3, Numbers
<1>10. (Slots <= Pool /\ ActiveCountsTasks)'
    <2>1. jobs' = jobs /\ ending' = ending /\ kills' = kills
        BY <1>2
    <2>2. Cardinality(Listening') = Cardinality(Listening) /\ Cardinality(jobs') = Cardinality(jobs)
        BY <1>6, <2>1
    <2>3. Cardinality(Listening') + Cardinality(jobs') + ending' <= Pool
        BY <2>1, <2>2, Numbers
    <2>4. Cardinality(Messages("result")) = Cardinality(Messages("result")') + 1
        BY <1>5
    <2>5. active' = Cardinality(jobs') + Cardinality(Messages("result")') + kills'
        BY <1>8, <1>9, <2>1, <2>2, <2>4, Numbers
    <2> QED BY <2>3, <2>5, NextCounts
<1>11. reports' \in Seq(Casts)
    <2>1. PICK n \in 0..Limit : n = active'
        BY <1>9
    <2> QED BY <1>2, <1>3, <2>1, Reported
<1>12. IngressTypes'
    BY <1>2, <1>5, <1>6, <1>9, <1>11 DEF IngressInv, IngressTypes
<1> QED BY <1>7, <1>10, <1>12 DEF IngressInv

\* The steps of the regulator, for a report of the broker, of others or for time.
LEMMA RegulatorStepsKeep ==
    ASSUME IngressInv, TakeReport \/ OthersReport \/ RegulatorTick \/ UNCHANGED vars
    PROVE  IngressInv'
<1> USE DEF socketVars, brokerVars, faultVars
<1>1. reports \in Seq(Casts)
    BY DEF IngressInv, IngressTypes
<1>2. CASE TakeReport
    <2>1. reports # << >> /\ reports' = Tail(reports)
        BY <1>2 DEF TakeReport
    <2>2. reports' \in Seq(Casts)
        BY <1>1, <2>1, HeadTailProperties
    <2> QED BY <1>2, <2>2, OthersKeep DEF TakeReport
<1>3. CASE OthersReport
    BY <1>1, <1>3, OthersKeep DEF OthersReport
<1>4. CASE RegulatorTick
    BY <1>1, <1>4, OthersKeep DEF RegulatorTick
<1>5. CASE UNCHANGED vars
    BY <1>1, <1>5, OthersKeep DEF vars
<1> QED BY <1>2, <1>3, <1>4, <1>5

LEMMA IngressInitially ==
    ASSUME IngressInit
    PROVE  IngressInv
<1>1. /\ listener = [e \in Episodes |-> "rearm"] /\ clients = [e \in Episodes |-> 0]
      /\ mailbox = << >> /\ reports = << >> /\ jobs = {} /\ asking = {}
      /\ active = 0 /\ ending = 0 /\ requests = 0 /\ kills = 0
    BY DEF IngressInit
<1>2. MaxRequests \in Nat /\ Limit \in Nat /\ Pool \in Nat
    BY IngressAssumption
<1>3. mailbox \in Seq(Letters) /\ reports \in Seq(Casts) /\ Len(mailbox) = 0
    BY <1>1, EmptySeq
<1>4. IngressTypes
    BY <1>1, <1>2, <1>3 DEF IngressTypes, States
<1>5. OneRequestEach
    BY <1>1, <1>3 DEF OneRequestEach
<1>6. Listening = {} /\ Messages("result") = {}
    BY <1>1, <1>3 DEF Listening, Messages, Serving
<1>7. Slots <= Pool /\ ActiveCountsTasks
    <2>1. Cardinality(Listening) = 0 /\ Cardinality(jobs) = 0 /\ Cardinality(Messages("result")) = 0
        BY <1>1, <1>6, FS_EmptySet
    <2>2. Slots = 0 + 0 + 0
        BY <1>1, <2>1 DEF Slots, Listening
    <2> QED BY <1>1, <1>2, <2>1, <2>2 DEF ActiveCountsTasks
<1> QED BY <1>4, <1>5, <1>7 DEF IngressInv

LEMMA IngressStep ==
    ASSUME IngressInv, [IngressNext]_vars
    PROVE  IngressInv'
<1>1. CASE \E e \in Episodes :
              \/ Connect(e) \/ Rearm(e) \/ Accept(e) \/ AnswerDirectly(e)
              \/ CallBroker(e) \/ CallTimesOut(e) \/ Answer(e)
    <2>1. PICK e \in Episodes :
              \/ Connect(e) \/ Rearm(e) \/ Accept(e) \/ AnswerDirectly(e)
              \/ CallBroker(e) \/ CallTimesOut(e) \/ Answer(e)
        BY <1>1
    <2> QED BY <2>1, ConnectKeeps, LoopStepsKeep, CallBrokerKeeps
<1>2. CASE \E d \in Direct : DirectCall(d)
    BY <1>2, DirectCallKeeps
<1>3. CASE \E c \in Callers : TaskEnds(c) \/ TaskKilled(c)
    BY <1>3, TaskEndsKeeps, TaskKilledKeeps
<1>4. CASE Reap \/ StartWork \/ RefuseWork \/ BrokerResult
    BY <1>4, ReapKeeps, StartWorkKeeps, RefuseWorkKeeps, BrokerResultKeeps
<1>5. CASE TakeReport \/ OthersReport \/ RegulatorTick \/ UNCHANGED vars
    BY <1>5, RegulatorStepsKeep
<1> QED BY <1>1, <1>2, <1>3, <1>4, <1>5 DEF IngressNext

\* No order of connections, calls, starts, refusals, results, kills and reaps
\* leads out of the invariant.
THEOREM IngressInvariant == IngressSpec => []IngressInv
<1>1. IngressInit => IngressInv
    BY IngressInitially
<1>2. IngressInv /\ [IngressNext]_vars => IngressInv'
    BY IngressStep
<1> QED BY <1>1, <1>2, PTL DEF IngressSpec

\* What the broker counts as active is exactly its running tasks, the results
\* it has not read and every task that was ever killed, for any limit, pool and
\* number of callers (effect_broker.ex:53-58, 89-118).
THEOREM EveryPlaceIsAccounted == IngressSpec => []ActiveCountsTasks
<1>1. IngressInv => ActiveCountsTasks
    BY DEF IngressInv
<1> QED BY <1>1, IngressInvariant, PTL

-----------------------------------------------------------------------------
(* The regulator in its environment.                                       *)

\* What the rest of the node does to the regulator is what SystemRegulator lets
\* its environment do.
LEMMA StepIsRegulators ==
    ASSUME IngressInv, [IngressNext]_vars
    PROVE  [RegulatorNext]_regulatorVars
<1>1. CASE TakeReport
    <2>1. /\ reports \in Seq(Casts) /\ reports # << >>
          /\ Pressure(Head(reports).source, Head(reports).value)
        BY <1>1 DEF TakeReport, IngressInv, IngressTypes
    <2>2. Head(reports) \in Casts
        BY <2>1, HeadTailProperties
    <2>3. Head(reports).source \in Sources /\ Head(reports).value \in Levels
        BY <2>2, IngressAssumption DEF Casts
    <2> QED BY <2>1, <2>3 DEF RegulatorNext
<1>2. CASE OthersReport
    <2>1. "semantic_queue" \in Sources /\ "semantic" \in Parts
        BY IngressAssumption DEF Parts
    <2> QED BY <1>2, <2>1 DEF OthersReport, RegulatorNext
<1>3. CASE RegulatorTick
    BY <1>3 DEF RegulatorTick, RegulatorNext
<1>4. CASE \E e \in Episodes :
              \/ Connect(e) \/ Rearm(e) \/ Accept(e) \/ AnswerDirectly(e)
              \/ CallBroker(e) \/ CallTimesOut(e) \/ Answer(e)
    BY <1>4 DEF Connect, Rearm, Accept, AnswerDirectly, CallBroker, CallTimesOut, Answer
<1>5. CASE \/ \E d \in Direct : DirectCall(d)
           \/ \E c \in Callers : TaskEnds(c) \/ TaskKilled(c)
    BY <1>5 DEF DirectCall, TaskEnds, TaskKilled
<1>6. CASE Reap \/ StartWork \/ RefuseWork \/ BrokerResult \/ UNCHANGED vars
    BY <1>6 DEF Reap, StartWork, RefuseWork, BrokerResult, vars
<1> QED BY <1>1, <1>2, <1>3, <1>4, <1>5, <1>6 DEF IngressNext

\* The node with its sockets, broker and tasks implements the regulator alone:
\* what is proved of the mode under arbitrary reports holds in the node.
THEOREM IngressDrivesRegulator == IngressSpec => RegulatorSpec
<1>1. IngressInit => RegulatorInit
    BY DEF IngressInit
<1>2. IngressInv /\ [IngressNext]_vars => [RegulatorNext]_regulatorVars
    BY StepIsRegulators
<1> QED BY <1>1, <1>2, IngressInvariant, PTL DEF IngressSpec, RegulatorSpec

\* The variables of the sockets, the broker and the regulator have their types,
\* and the pool is never overbooked.
THEOREM IngressIsTyped == IngressSpec => []IngressTypeOK
<1>1. IngressInv /\ RegulatorTypeOK => IngressTypeOK
    BY DEF IngressInv, IngressTypes, IngressTypeOK, States, Letters, Casts
<1> QED BY <1>1, IngressInvariant, IngressDrivesRegulator, RegulatorTypeCorrect, PTL

\* In the node too the mode is never milder than the readings call for, whatever
\* the broker reports and however late its reports are taken
\* (system_regulator.ex:113-124).
THEOREM NodeModeIsNeverMilder == IngressSpec => []NeverBelowTarget
BY IngressDrivesRegulator, WorseningIsImmediate, PTL

\* In the node too a milder mode takes three recalculations in a row that call for
\* it, although every report, health change and tick recalculates
\* (system_regulator.ex:112).
THEOREM NodeRecoveryIsEarned == IngressSpec => RecoveryIsEarned
BY IngressDrivesRegulator, RecoveryTakesThree, PTL
=============================================================================
