---------------------------- MODULE MCOperations ----------------------------
(***************************************************************************)
(* Small instances of Operations, over targets that the keys and the       *)
(* guards tell apart.                                                      *)
(***************************************************************************)
EXTENDS Operations, TLC

Stack(i, e, n) == [on |-> "stack", iid |-> i, eid |-> e, tid |-> n]
Container(i, e, n) == [on |-> "container", iid |-> i, eid |-> e, tid |-> n]

\* Contention: a stack and the agent it is deployed through.
ContentionTargets == {Stack(1, 1, "web"), Container(1, 1, "agent")}
ContentionRuns ==
    [t \in ContentionTargets |-> IF t.on = "stack" THEN {"plain"} ELSE {"agent"}]

\* Guards: stacks and containers of every role, and a second instance.
RoleOf == [web |-> {"plain"}, mixed |-> {"plain", "agent"}, agent |-> {"agent"},
           portainer |-> {"portainer"}, restruo |-> {"restruo"}]
RoleTargets ==
    {Stack(1, 1, "web"), Stack(1, 1, "mixed"), Container(1, 1, "agent"),
     Container(1, 2, "portainer"), Container(2, 1, "restruo")}
RoleRuns == [t \in RoleTargets |-> RoleOf[t.tid]]

\* No tag has moved; or that of the agent's container has, and in the mixed
\* stack that of the plain container beside an agent.
MovedNone == [t \in Targets |-> {}]
MovedSome ==
    [t \in Targets |-> CASE t.tid = "agent" -> {"agent"} [] t.tid = "mixed" -> {"plain"} [] OTHER -> {}]

Symmetry == Permutations(Requests)

=============================================================================
