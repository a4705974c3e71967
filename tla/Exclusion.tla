------------------------------ MODULE Exclusion ------------------------------
(***************************************************************************)
(* The keys under which Restruo runs its operations, and the rule that     *)
(* says which two may not run together (_conflicts in app/main.py).        *)
(*                                                                         *)
(* A target is a stack or a container on one environment of one Portainer  *)
(* instance; a clean-up concerns an instance as a whole.                   *)
(***************************************************************************)

CONSTANT Targets     \* the stacks and containers Portainer manages

ASSUME TargetsAssumption ==
    \A t \in Targets : t.on \in {"stack", "container"}

Instances == {t.iid : t \in Targets}

\* ("stack" | "container" | "agent" | "portainer", iid, eid, id)
TargetKey(kind, t) == [kind |-> kind, iid |-> t.iid, eid |-> t.eid, tid |-> t.tid]

\* ("prune", iid)
PruneKey(i) == [kind |-> "prune", iid |-> i]

Keys == {TargetKey(kind, t) : kind \in {"stack", "container", "agent", "portainer"}, t \in Targets}
        \cup {PruneKey(i) : i \in Instances}

(***************************************************************************)
(* key cannot run while held is in flight.  The code returns the reason as *)
(* a text; only whether there is one matters here.                         *)
(***************************************************************************)
Conflicts(key, held) ==
    \/ key = held
    \/ LET kinds == {key.kind, held.kind} IN
       /\ key.iid = held.iid
       /\ IF kinds \cap {"portainer", "prune"} # {} THEN TRUE
          ELSE "agent" \in kinds /\ key.eid = held.eid

=============================================================================
