----------------------------- MODULE Dashboard -----------------------------
(***************************************************************************)
(* One look at an instance for the dashboard: _stacks_for_instance of      *)
(* app/main.py, with the functions of app/portainer.py that tell which     *)
(* containers and images are a stack's.  Portainer is asked for stacks,    *)
(* environments, containers and stack files, one after another, while      *)
(* stacks and containers come and go; every answer may fail to come.       *)
(*                                                                         *)
(* What a row shows is a function of the answers: they are locals of the   *)
(* handler, and nothing changes them once they are in.  Two looks share    *)
(* nothing but the client (PortainerSession), so there is one here.        *)
(***************************************************************************)
EXTENDS Naturals, FiniteSets

CONSTANTS Environments,
          Known,           \* environments that Portainer has (a stack may outlive its own)
          Stacks, Containers, Names, Images,
          EnvOf,           \* where a stack or a container is
          NameOf,          \* a stack's name
          ProjectOf,       \* the stack a container's label names, or None
          CreatedFrom,     \* a container's image
          Moved,           \* containers whose tag was pulled again: listed with a bare digest
          Digest,
          Critical,        \* is_self_critical_image: Portainer, its agents, Restruo
          Carriers,        \* cannot_recreate_image: Portainer and its agents
          Files,           \* what a stack's file may declare when it is read
          Variables, Env,  \* a stack's variables: an image, Empty or Unset
          Empty, Unset, None, Unread, All,
          Gate,            \* DASHBOARD_CONCURRENCY
          MaxChanges       \* bound: changes of the world during a look

Things == Stacks \cup Containers
States == {"gone", "up", "down"}
Shown == Images \cup {Digest, Empty}

\* An image in a stack file: a plain text, or one with a variable, by compose's
\* operator ("" for none), and what it comes to with the default.
References == [op : {"plain", "", ":-", "-", ":?", "?"},
               variable : Variables, text : Images \cup {Empty}]

ASSUME ConstantsAssumption ==
    /\ Known \subseteq Environments
    /\ Stacks \cap Containers = {}
    /\ EnvOf \in [Things -> Environments]
    /\ NameOf \in [Stacks -> Names] /\ ProjectOf \in [Containers -> Names \cup {None}]
    /\ CreatedFrom \in [Containers -> Images] /\ Moved \subseteq Containers
    /\ Critical \subseteq Images \cup References /\ Carriers \subseteq Critical
    /\ Digest \notin Images \cup References \cup {None, Empty}
    /\ \A s \in Stacks : Env[s] \in [Variables -> Images \cup {Empty, Unset}]
    /\ Files \in [Stacks -> SUBSET SUBSET References]
    /\ {Empty, Unset, None} \cap Images = {} /\ None \notin Names
    /\ Unread \notin [Containers -> States] /\ All \notin Environments
    /\ Gate \in Nat \ {0} /\ MaxChanges \in Nat

VARIABLES state,      \* the world: every stack and container
          changes,
          pc,
          stacks,     \* listed stacks
          asked,      \* environments that have been asked for their containers
          lists,      \* per environment the answer, or Unread
          errors,     \* environmentErrors
          waiting,    \* who waits at the gate for a file, or for an image's name
          within,     \* who is past it
          images,     \* per stack, image_lists
          answered,   \* stacks whose file has come, or has failed to
          read,       \* history: stacks whose file could be read
          saw         \* history: per thing, what it was at some moment of the look

world == <<state, changes, saw>>
gate == <<waiting, within>>
files == <<images, answered, read>>
vars == <<state, changes, pc, stacks, asked, lists, errors, waiting, within, images, answered, read, saw>>

-----------------------------------------------------------------------------
\* What the listing of containers tells as a container's image.
ImageOf(c) == IF c \in Moved THEN Digest ELSE CreatedFrom[c]

\* interpolate, for a reference with at most one variable.
Interpolated(ref, env) ==
    LET current == env[ref.variable]
        present == current \notin (IF ref.op \in {"-", "?"} THEN {Unset} ELSE {Unset, Empty})
    IN  IF ref.op = "plain" THEN ref.text
        ELSE IF present THEN current
        ELSE IF ref.op \in {":-", "-"} THEN ref.text ELSE None

\* stack_images
StackImages(s, declared, own) ==
    LET interpolated == {Interpolated(ref, Env[s]) : ref \in declared}
        resolved == (interpolated \ {None}) \cup {ImageOf(c) : c \in own}
    IN  IF declared # {} /\ None \notin interpolated THEN interpolated
        ELSE IF resolved # {} THEN resolved
        ELSE declared

Listed(e) == IF lists[e] = Unread THEN {} ELSE {c \in Containers : lists[e][c] # "gone"}

\* stack_containers
Own(s) == {c \in Listed(EnvOf[s]) : ProjectOf[c] = NameOf[s]}

\* Variant: a stack's name counts on every environment.
StackNames_Everywhere(e) == {NameOf[s] : s \in stacks}
\* stack_names_by_endpoint
StackNames(e) == {NameOf[s] : s \in {t \in stacks : EnvOf[t] = e}}

\* standalone_containers
Standalone(e) == {c \in Listed(e) : ProjectOf[c] \notin StackNames(e)}

\* The row of a stack.
Down(s) == {c \in Own(s) : lists[EnvOf[s]][c] = "down"}
\* Variant: what could not be read shows like what is not there.
Unchecked_Never(s) == FALSE
Unchecked(s) == lists[EnvOf[s]] = Unread
\* Variant: the file alone tells.
SelfCritical_File(s) == images[s] \cap Critical # {}
SelfCritical(s) == ({ImageOf(c) : c \in Own(s)} \cup images[s]) \cap Critical # {}
UpdateProtected(s) == ({ImageOf(c) : c \in Own(s)} \cup images[s]) \cap Carriers # {}

-----------------------------------------------------------------------------
\* Portainer has no two stacks of one name on one environment, and lists those that
\* are stopped like the others.
Possible(st) ==
    \A s \in Stacks :
      /\ st[s] # "down"
      /\ \A t \in Stacks \ {s} :
           NameOf[s] = NameOf[t] /\ EnvOf[s] = EnvOf[t] => "gone" \in {st[s], st[t]}

Init ==
    /\ state \in [Things -> States] /\ Possible(state)
    /\ changes = 0 /\ pc = "stacks" /\ stacks = {}
    /\ asked = {} /\ lists = [e \in Environments |-> Unread] /\ errors = {}
    /\ waiting = {} /\ within = {} /\ images = [s \in Stacks |-> {}]
    /\ answered = {} /\ read = {}
    /\ saw = [x \in Things |-> {state[x]}]

\* Something comes, goes, starts or stops.
Change(x, new) ==
    /\ changes < MaxChanges /\ pc \notin {"done", "unreachable"}
    /\ state[x] # new /\ state' = [state EXCEPT ![x] = new] /\ Possible(state')
    /\ changes' = changes + 1
    /\ saw' = [saw EXCEPT ![x] = @ \cup {new}]
    /\ UNCHANGED <<pc, stacks, asked, lists, errors, waiting, within, files>>

ListStacks ==
    /\ pc = "stacks" /\ pc' = "environments"
    /\ stacks' = {s \in Stacks : state[s] # "gone"}
    /\ UNCHANGED <<world, gate, asked, lists, errors, files>>

\* The instance is told unreachable (and its client starts afresh).
Unreachable ==
    /\ pc = "stacks" /\ pc' = "unreachable"
    /\ UNCHANGED <<world, gate, stacks, asked, lists, errors, files>>

ListEnvironments ==
    /\ pc = "environments" /\ pc' = "containers"
    /\ \/ asked' = Known /\ UNCHANGED errors
       \/ asked' = {} /\ errors' = {All}
    /\ UNCHANGED <<world, gate, stacks, lists, files>>

\* All environments are asked at once.
ListContainers(e) ==
    /\ e \in asked /\ asked' = asked \ {e}
    /\ \/ /\ lists' = [lists EXCEPT ![e] = [c \in Containers |-> IF EnvOf[c] = e THEN state[c] ELSE "gone"]]
          /\ UNCHANGED errors
       \/ errors' = errors \cup {e} /\ UNCHANGED lists
    /\ UNCHANGED <<world, gate, pc, stacks, files>>

WantFiles ==
    /\ pc = "containers" /\ asked = {} /\ pc' = "files"
    /\ waiting' = stacks
    /\ UNCHANGED <<world, within, stacks, asked, lists, errors, files>>

Enter(x) ==
    /\ x \in waiting /\ Cardinality(within) < Gate
    /\ waiting' = waiting \ {x} /\ within' = within \cup {x}
    /\ UNCHANGED <<world, pc, stacks, asked, lists, errors, files>>

\* Variant: who fails keeps its place.
Leave_Answered(s, ok) == within' = IF ok THEN within \ {s} ELSE within
Leave(s, ok) == within' = within \ {s}

\* images_gated, images_for
ReadFile(s) ==
    /\ pc = "files" /\ s \in within \ answered /\ answered' = answered \cup {s}
    /\ \/ /\ \E declared \in Files[s] : images' = [images EXCEPT ![s] = StackImages(s, declared, Own(s))]
          /\ read' = read \cup {s} /\ Leave(s, TRUE)
       \/ Leave(s, FALSE) /\ UNCHANGED <<images, read>>
    /\ UNCHANGED <<world, pc, stacks, asked, lists, errors, waiting>>

WantNames ==
    /\ pc = "files" /\ waiting \cup within = {} /\ pc' = "names"
    /\ waiting' = UNION {Standalone(e) : e \in Environments}
    /\ UNCHANGED <<world, within, stacks, asked, lists, errors, files>>

\* standalone_row; resolve_image_name answers with some name in any case.
ResolveName(c) ==
    /\ pc = "names" /\ c \in within /\ Leave(c, TRUE)
    /\ UNCHANGED <<world, pc, stacks, asked, lists, errors, waiting, files>>

Finish ==
    /\ pc = "names" /\ waiting \cup within = {} /\ pc' = "done"
    /\ UNCHANGED <<world, gate, stacks, asked, lists, errors, files>>

Look ==
    \/ ListStacks \/ Unreachable \/ ListEnvironments \/ WantFiles \/ WantNames \/ Finish
    \/ \E e \in Environments : ListContainers(e)
    \/ \E x \in Things : Enter(x) \/ ReadFile(x) \/ ResolveName(x)

Next == Look \/ \E x \in Things, new \in States : Change(x, new)

Spec == Init /\ [][Next]_vars /\ WF_vars(Look)

-----------------------------------------------------------------------------
\* Every variable stays within its type.
TypeOK ==
    /\ state \in [Things -> States] /\ changes \in 0 .. MaxChanges
    /\ pc \in {"stacks", "unreachable", "environments", "containers", "files", "names", "done"}
    /\ stacks \subseteq Stacks /\ read \subseteq answered /\ answered \subseteq stacks
    /\ asked \subseteq Known /\ errors \subseteq Known \cup {All}
    /\ lists \in [Environments -> [Containers -> States] \cup {Unread}]
    /\ waiting \subseteq Things /\ within \subseteq Things
    /\ images \in [Stacks -> SUBSET (Shown \cup References)]
    /\ saw \in [Things -> SUBSET States]

Belongs(c, s) == ProjectOf[c] = NameOf[s] /\ EnvOf[c] = EnvOf[s]
Always(x, what) == saw[x] \subseteq what

\* Unknown is not the same as fine: a stack that was there all the time has a row;
\* unless its row is unchecked, it counts each container that was there all the
\* time, and shows it down if it was never up and only if it once was down.  A row
\* is unchecked only with an error, or when Portainer has no such environment.
UnknownIsNotFine ==
    pc = "done" =>
      \A s \in Stacks :
        /\ Always(s, {"up", "down"}) => s \in stacks
        /\ s \in stacks /\ ~Unchecked(s) =>
             \A c \in Containers : Belongs(c, s) =>
               /\ Always(c, {"up", "down"}) => c \in Own(s)
               /\ Always(c, {"down"}) => c \in Down(s)
               /\ Always(c, {"up", "gone"}) => c \notin Down(s)
        /\ s \in stacks /\ Unchecked(s) /\ EnvOf[s] \in Known =>
             errors \cap {EnvOf[s], All} # {}

\* A container that was there all the time is shown exactly once, under its stack or
\* among those outside of any, or its environment is reported as not read: also
\* when its stack came or went meanwhile, or bears the name of one elsewhere.
EveryContainerOnce ==
    pc = "done" =>
      \A c \in Containers :
        EnvOf[c] \in Known /\ Always(c, {"up", "down"}) /\ errors \cap {EnvOf[c], All} = {} =>
          \/ c \in Standalone(EnvOf[c]) /\ \A s \in stacks : c \notin Own(s)
          \/ c \notin Standalone(EnvOf[c]) /\ \E s \in stacks : {t \in stacks : c \in Own(t)} = {s}

Told(s, c) == \A declared \in Files[s] : \E ref \in declared : Interpolated(ref, Env[s]) = CreatedFrom[c]

\* A stack that runs Portainer, an agent or Restruo all the time is marked as
\* critical, and as protected from updates where it carries the connection, or it is
\* unchecked: one whose tag has moved only when its file could be read and tells.
CriticalIsMarked ==
    pc = "done" =>
      \A s \in stacks, c \in Containers :
        Belongs(c, s) /\ Always(c, {"up", "down"}) /\ (c \in Moved => s \in read /\ Told(s, c)) =>
          /\ CreatedFrom[c] \in Critical => SelfCritical(s) \/ Unchecked(s)
          /\ CreatedFrom[c] \in Carriers => UpdateProtected(s) \/ Unchecked(s)

\* The page gets its answer, whatever fails: whoever is past the gate leaves it.
LookEnds == <>(pc \in {"done", "unreachable"})

=============================================================================
