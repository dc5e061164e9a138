---------------------------- MODULE CommitHorizon ----------------------------
(***************************************************************************)
(* What the commit protocol promises about each effect, with nothing about *)
(* how: leases, decisions, tasks and the steps of evaluation are invisible.*)
(***************************************************************************)
EXTENDS Naturals

CONSTANT Effects

VARIABLES
    epoch,      \* the current epoch
    phase,      \* "none", "open", "crossed", "committed" or "closed"
    born,       \* the epoch an effect was proposed in
    permits,    \* licences to actuate the target
    releases    \* proofs that an attempt did not happen

vars == <<epoch, phase, born, permits, releases>>

Init ==
    /\ epoch = 1
    /\ phase = [e \in Effects |-> "none"]
    /\ born = [e \in Effects |-> 0]
    /\ permits = [e \in Effects |-> 0]
    /\ releases = [e \in Effects |-> 0]

Move(e, from, to) ==
    /\ phase[e] = from
    /\ phase' = [phase EXCEPT ![e] = to]

Propose(e) ==
    /\ Move(e, "none", "open")
    /\ born' = [born EXCEPT ![e] = epoch]
    /\ UNCHANGED <<epoch, permits, releases>>

Withdraw(e) ==
    /\ Move(e, "open", "closed")
    /\ UNCHANGED <<epoch, born, permits, releases>>

\* Only authority of the current epoch crosses the horizon.
Cross(e) ==
    /\ born[e] = epoch
    /\ Move(e, "open", "crossed")
    /\ UNCHANGED <<epoch, born, permits, releases>>

\* One licence for the first crossing and one for each release.
Actuate(e) ==
    /\ phase[e] = "crossed"
    /\ permits[e] <= releases[e]
    /\ permits' = [permits EXCEPT ![e] = @ + 1]
    /\ UNCHANGED <<epoch, phase, born, releases>>

Settle(e) ==
    /\ \E outcome \in {"committed", "closed"} : Move(e, "crossed", outcome)
    /\ UNCHANGED <<epoch, born, permits, releases>>

Release(e) ==
    /\ Move(e, "crossed", "open")
    /\ releases' = [releases EXCEPT ![e] = @ + 1]
    /\ UNCHANGED <<epoch, born, permits>>

\* A new epoch closes everything that has not crossed.
Fence ==
    /\ epoch' = epoch + 1
    /\ phase' = [e \in Effects |-> IF phase[e] = "open" THEN "closed" ELSE phase[e]]
    /\ UNCHANGED <<born, permits, releases>>

Next ==
    \/ Fence
    \/ \E e \in Effects :
          \/ Propose(e)
          \/ Withdraw(e)
          \/ Cross(e)
          \/ Actuate(e)
          \/ Settle(e)
          \/ Release(e)

Spec == Init /\ [][Next]_vars
=============================================================================
