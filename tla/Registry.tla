------------------------------- MODULE Registry -------------------------------
(***************************************************************************)
(* What the instances are to whoever looks at the dashboard, without file, *)
(* memory or clients: a set of instances that are added, edited and        *)
(* removed one at a time.  An id means one instance for ever, so a page    *)
(* that still shows a removed one cannot reach another.  Crashes and       *)
(* restarts do not exist here.                                             *)
(***************************************************************************)
CONSTANTS Ids, Forms

VARIABLES instances,   \* [id, form]: what is registered
          used         \* ids that have ever been given to an instance

IdsOf(s) == {x.id : x \in s}

RegistryInit ==
    /\ instances \subseteq [id : Ids, form : Forms]
    /\ used \in SUBSET Ids /\ IdsOf(instances) \subseteq used
    /\ \A x, y \in instances : x.id = y.id => x = y

\* The import from config.yaml, where there has been nothing before.
Import ==
    /\ instances = {} /\ used = {}
    /\ instances' \subseteq [id : Ids, form : Forms]
    /\ \A x, y \in instances' : x.id = y.id => x = y
    /\ used' = IdsOf(instances')

Added(i, f) ==
    /\ i \notin used
    /\ instances' = instances \cup {[id |-> i, form |-> f]} /\ used' = used \cup {i}

Edited(x, f) ==
    /\ instances' = (instances \ {x}) \cup {[id |-> x.id, form |-> f]} /\ UNCHANGED used

Removed(x) == instances' = instances \ {x} /\ UNCHANGED used

RegistryNext ==
    \/ Import
    \/ \E i \in Ids, f \in Forms : Added(i, f)
    \/ \E x \in instances : Removed(x) \/ \E f \in Forms : Edited(x, f)

RegistrySpec == RegistryInit /\ [][RegistryNext]_<<instances, used>>

=============================================================================
