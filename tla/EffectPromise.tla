---------------------------- MODULE EffectPromise ----------------------------
(***************************************************************************)
(* What the proposer of an effect is promised, in terms of the two things  *)
(* it can see: the standing of its effect and the target itself.  Nothing  *)
(* is said of tasks, rows, licences or epochs.  An effect whose attempt is *)
(* in doubt is never written off: it ends as committed, or is declared     *)
(* unchanged and may be attempted again.                                   *)
(***************************************************************************)
EXTENDS Naturals

CONSTANT Effects

VARIABLES
    standing,   \* "open", "doubt", "committed" or "closed"
    applied,    \* how often the target mutation of an effect has happened
    releases    \* how often it was declared not to have happened

vars == <<standing, applied, releases>>

Init ==
    /\ standing = [e \in Effects |-> "open"]
    /\ applied = [e \in Effects |-> 0]
    /\ releases = [e \in Effects |-> 0]

Move(e, from, to) ==
    /\ standing[e] = from
    /\ standing' = [standing EXCEPT ![e] = to]

Attempt(e) == Move(e, "open", "doubt") /\ UNCHANGED <<applied, releases>>

\* The target changes while an attempt is in doubt, or late, after it was released.
Mutate(e) ==
    /\ standing[e] = "doubt" \/ releases[e] > 0
    /\ applied[e] <= releases[e]
    /\ applied' = [applied EXCEPT ![e] = @ + 1]
    /\ UNCHANGED <<standing, releases>>

Confirm(e) ==
    /\ applied[e] > 0
    /\ Move(e, "doubt", "committed")
    /\ UNCHANGED <<applied, releases>>

Release(e) ==
    /\ Move(e, "doubt", "open")
    /\ releases' = [releases EXCEPT ![e] = @ + 1]
    /\ UNCHANGED applied

\* Several effects are withdrawn at once when an epoch ends.
Withdraw(es) ==
    /\ \A e \in es : standing[e] = "open"
    /\ standing' = [e \in Effects |-> IF e \in es THEN "closed" ELSE standing[e]]
    /\ UNCHANGED <<applied, releases>>

Next ==
    \/ \E e \in Effects : Attempt(e) \/ Mutate(e) \/ Confirm(e) \/ Release(e)
    \/ \E es \in SUBSET Effects : Withdraw(es)

Spec == Init /\ [][Next]_vars
=============================================================================
