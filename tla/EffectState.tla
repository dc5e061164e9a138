----------------------------- MODULE EffectState -----------------------------
(***************************************************************************)
(* The closed life cycle of a proposed effect (Autonomic.EffectState).     *)
(* "absent" is the state of an identifier for which no row was inserted.   *)
(***************************************************************************)

\* Effects that have not crossed the commit horizon.
Uncommitted == {"proposed", "prepared", "evaluating", "ready"}

\* Effects past the horizon whose external outcome is not settled.
InFlight == {"commit_intent", "committing", "commit_unknown"}

\* States with no outgoing edge.
Terminal == {"committed", "aborted", "expired", "stale", "failed"}

States == Uncommitted \cup InFlight \cup Terminal

\* States EffectState.allowed?/2 accepts as the next one.
Abandoned == {"aborted", "expired", "stale", "failed"}

Allowed(from, to) ==
    \/ from = "proposed"       /\ to \in Abandoned \cup {"prepared"}
    \/ from = "prepared"       /\ to \in Abandoned \cup {"evaluating"}
    \/ from = "evaluating"     /\ to \in Abandoned \cup {"ready"}
    \/ from = "ready"          /\ to \in Abandoned \cup {"commit_intent"}
    \/ from = "commit_intent"  /\ to \in {"committing", "commit_unknown"}
    \/ from = "committing"     /\ to \in {"committed", "commit_unknown", "failed"}
    \/ from = "commit_unknown" /\ to \in {"committed", "failed"}
=============================================================================
