-------------------------- MODULE DashboardProofs --------------------------
(* Dashboard for every value of its constants. *)
EXTENDS Dashboard, FiniteSetTheorems, TLAPS

Answers == [Containers -> States] \cup {Unread}

\* What the world has been is on record, and what was listed is what it was.
Worldly ==
    /\ state \in [Things -> States] /\ saw \in [Things -> SUBSET States]
    /\ Possible(state)
    /\ \A x \in Things : state[x] \in saw[x]

Faithful ==
    /\ stacks \subseteq Stacks /\ lists \in [Environments -> Answers]
    /\ pc \notin {"stacks", "unreachable"} =>
         \A s \in Stacks : "gone" \notin saw[s] => s \in stacks
    /\ \A s, t \in stacks : NameOf[s] = NameOf[t] /\ EnvOf[s] = EnvOf[t] => s = t
    /\ \A e \in Environments, c \in Containers :
         lists[e] # Unread => lists[e][c] \in (IF EnvOf[c] = e THEN saw[c] ELSE {"gone"})

\* No environment goes without an answer or an error once its turn is over.
Accounted ==
    /\ asked \subseteq Known
    /\ pc \in {"stacks", "unreachable", "environments", "files", "names", "done"} => asked = {}
    /\ pc \in {"containers", "files", "names", "done"} =>
         \A e \in Known : e \in asked \/ lists[e] # Unread \/ errors \cap {e, All} # {}

\* Images were found with the containers that the row counts.
FilesRead ==
    /\ DOMAIN images = Stacks
    /\ read # {} => pc \in {"files", "names", "done"}
    /\ \A s \in Stacks : s \in read =>
         \E declared \in Files[s] : images[s] = StackImages(s, declared, Own(s))

IInv == Worldly /\ Faithful /\ Accounted /\ FilesRead

-----------------------------------------------------------------------------
LEMMA ThingTypes ==
    /\ \A s \in Stacks : EnvOf[s] \in Environments /\ s \in Things
    /\ \A c \in Containers : EnvOf[c] \in Environments /\ c \in Things
BY ConstantsAssumption DEF Things

LEMMA Starts == Init => IInv
<1> SUFFICES ASSUME Init PROVE IInv
  OBVIOUS
<1>1. Worldly
  BY DEF Init, Worldly
<1>2. Faithful
  BY DEF Init, Faithful, Answers
<1>3. Accounted
  BY DEF Init, Accounted
<1>4. FilesRead
  BY DEF Init, FilesRead
<1> QED BY <1>1, <1>2, <1>3, <1>4 DEF IInv

\* The look leaves the world alone.
LEMMA LookWatches ==
    ASSUME Worldly, UNCHANGED world
    PROVE  Worldly'
BY DEF Worldly, world, Possible

\* What a file comes to depends on the lists alone.
LEMMA SameImages ==
    ASSUME UNCHANGED lists, NEW t, NEW declared
    PROVE  StackImages(t, declared, Own(t))' = StackImages(t, declared, Own(t))
BY DEF StackImages, Own, Listed

LEMMA SameFiles ==
    ASSUME FilesRead, UNCHANGED <<lists, files>>,
           pc \in {"files", "names", "done"} => pc' \in {"files", "names", "done"}
    PROVE  FilesRead'
<1>1. images' = images /\ read' = read
  BY DEF files
<1>2. ASSUME NEW t \in Stacks, t \in read
      PROVE  \E declared \in Files[t] : images[t] = StackImages(t, declared, Own(t))'
  BY <1>2, SameImages DEF FilesRead
<1> QED BY <1>1, <1>2 DEF FilesRead

\* The world goes on, and the look does not notice.
LEMMA WorldMoves ==
    ASSUME IInv, NEW x \in Things, NEW new \in States, Change(x, new)
    PROVE  IInv'
<1>1. saw' \in [Things -> SUBSET States] /\ \A y \in Things : saw[y] \subseteq saw'[y]
  BY DEF IInv, Worldly, Change
<1>2. Worldly'
  <2>1. state' \in [Things -> States] /\ Possible(state')
    BY DEF IInv, Worldly, Change
  <2>2. \A y \in Things : state'[y] \in saw'[y]
    BY DEF IInv, Worldly, Change
  <2> QED BY <1>1, <2>1, <2>2 DEF Worldly
<1>3. UNCHANGED <<pc, stacks, asked, lists, errors, files>>
  BY DEF Change
<1>4. Faithful'
  <2>1. \A s \in Stacks : "gone" \notin saw'[s] => "gone" \notin saw[s]
    BY <1>1, ThingTypes
  <2>2. \A e \in Environments, c \in Containers :
          lists'[e] # Unread => lists'[e][c] \in (IF EnvOf[c] = e THEN saw'[c] ELSE {"gone"})
    BY <1>1, <1>3, ThingTypes DEF IInv, Faithful
  <2> QED BY <1>3, <2>1, <2>2 DEF IInv, Faithful
<1>5. Accounted'
  BY <1>3 DEF IInv, Accounted
<1>6. FilesRead'
  BY <1>3, SameFiles DEF IInv
<1> QED BY <1>2, <1>4, <1>5, <1>6 DEF IInv

\* Steps that change neither what is known nor what is told of it.
LEMMA NothingLearnt ==
    ASSUME IInv, UNCHANGED <<world, stacks, asked, lists, errors, files>>,
           pc' = pc \/ (pc = "stacks" /\ pc' = "unreachable")
                    \/ (pc = "containers" /\ asked = {} /\ pc' = "files")
                    \/ (pc = "files" /\ pc' = "names") \/ (pc = "names" /\ pc' = "done")
    PROVE  IInv'
<1>1. Worldly'
  BY LookWatches DEF IInv
<1>2. Faithful'
  BY DEF IInv, Faithful, world
<1>3. Accounted'
  BY DEF IInv, Accounted
<1>4. FilesRead'
  BY SameFiles DEF IInv
<1> QED BY <1>1, <1>2, <1>3, <1>4 DEF IInv

LEMMA StacksListed ==
    ASSUME IInv, ListStacks
    PROVE  IInv'
<1>1. Worldly'
  BY LookWatches DEF IInv, ListStacks
<1>2. stacks' = {s \in Stacks : state[s] # "gone"} /\ saw' = saw /\ lists' = lists
  BY DEF ListStacks, world
<1>3. \A s \in Stacks : "gone" \notin saw[s] => s \in stacks'
  BY <1>2, ThingTypes DEF IInv, Worldly
<1>4. \A s, t \in stacks' : NameOf[s] = NameOf[t] /\ EnvOf[s] = EnvOf[t] => s = t
  BY <1>2 DEF IInv, Worldly, Possible
<1>5. Faithful'
  BY <1>2, <1>3, <1>4 DEF IInv, Faithful
<1>6. Accounted'
  BY DEF IInv, Accounted, ListStacks
<1>7. FilesRead'
  BY DEF IInv, FilesRead, ListStacks, files
<1> QED BY <1>1, <1>5, <1>6, <1>7 DEF IInv

LEMMA EnvironmentsListed ==
    ASSUME IInv, ListEnvironments
    PROVE  IInv'
<1>1. Worldly'
  BY LookWatches DEF IInv, ListEnvironments
<1>2. Faithful'
  BY DEF IInv, Faithful, ListEnvironments, world
<1>3. Accounted'
  <2>1. CASE asked' = Known
    BY <2>1 DEF IInv, Accounted, ListEnvironments
  <2>2. CASE asked' = {} /\ errors' = {All}
    BY <2>2 DEF IInv, Accounted, ListEnvironments
  <2> QED BY <2>1, <2>2 DEF ListEnvironments
<1>4. FilesRead'
  BY DEF IInv, FilesRead, ListEnvironments, files
<1> QED BY <1>1, <1>2, <1>3, <1>4 DEF IInv

LEMMA ContainersListed ==
    ASSUME IInv, NEW e \in Environments, ListContainers(e)
    PROVE  IInv'
<1> DEFINE answer == [c \in Containers |-> IF EnvOf[c] = e THEN state[c] ELSE "gone"]
<1>1. Worldly'
  BY LookWatches DEF IInv, ListContainers
<1>2. /\ asked # {} /\ asked' = asked \ {e} /\ UNCHANGED <<pc, stacks, files, saw>>
      /\ \/ lists' = [lists EXCEPT ![e] = answer] /\ errors' = errors
         \/ lists' = lists /\ errors' = errors \cup {e}
  BY DEF ListContainers, world
<1>3. answer \in [Containers -> States] /\ answer # Unread
  <2>1. \A c \in Containers : state[c] \in States
    BY ThingTypes DEF IInv, Worldly
  <2>2. answer \in [Containers -> States]
    BY <2>1 DEF States
  <2> QED BY <2>2, ConstantsAssumption
<1>4. Faithful'
  <2> USE <1>2, <1>3
  <2>1. lists' \in [Environments -> Answers]
    BY DEF IInv, Faithful, Answers
  <2>2. ASSUME NEW d \in Environments, NEW c \in Containers, lists'[d] # Unread
        PROVE  lists'[d][c] \in (IF EnvOf[c] = d THEN saw[c] ELSE {"gone"})
    <3>1. CASE lists'[d] = lists[d]
      BY <2>2, <3>1 DEF IInv, Faithful
    <3>2. CASE d = e /\ lists'[d] = answer
      <4>1. state[c] \in saw[c]
        BY ThingTypes DEF IInv, Worldly
      <4> QED BY <3>2, <4>1
    <3> QED BY <3>1, <3>2 DEF IInv, Faithful
  <2> QED BY <2>1, <2>2 DEF IInv, Faithful
<1>5. Accounted'
  <2>1. ASSUME NEW d \in Known, d \in asked \/ lists[d] # Unread \/ errors \cap {d, All} # {}
        PROVE  d \in asked' \/ lists'[d] # Unread \/ errors' \cap {d, All} # {}
    <3> DEFINE Outcome == \/ lists' = [lists EXCEPT ![e] = answer] /\ errors' = errors
                          \/ lists' = lists /\ errors' = errors \cup {e}
    <3>1. asked \ {e} = asked' /\ errors \subseteq errors' /\ Outcome
      BY <1>2
    <3>2. lists \in [Environments -> Answers]
      BY DEF IInv, Faithful
    <3>3. CASE d = e
      BY <1>3, <3>1, <3>2, <3>3
    <3>4. CASE d # e
      <4>1. lists'[d] = lists[d]
        BY <3>1, <3>2, <3>4, ConstantsAssumption
      <4> QED BY <2>1, <3>1, <3>4, <4>1
    <3> QED BY <3>3, <3>4
  <2> QED BY <1>2, <2>1 DEF IInv, Accounted
<1>6. FilesRead'
  <2>1. pc \notin {"files", "names", "done"} /\ read = {}
    BY <1>2 DEF IInv, Accounted, FilesRead
  <2> QED BY <1>2, <2>1 DEF IInv, FilesRead, files
<1> QED BY <1>1, <1>4, <1>5, <1>6 DEF IInv

LEMMA FileAnswered ==
    ASSUME IInv, NEW s \in Things, ReadFile(s)
    PROVE  IInv'
<1>1. /\ pc = "files" /\ UNCHANGED <<world, pc, stacks, asked, lists, errors>>
      /\ \/ /\ \E declared \in Files[s] : images' = [images EXCEPT ![s] = StackImages(s, declared, Own(s))]
            /\ read' = read \cup {s}
         \/ images' = images /\ read' = read
  BY DEF ReadFile
<1>2. Worldly'
  BY <1>1, LookWatches DEF IInv
<1>3. Faithful'
  BY <1>1 DEF IInv, Faithful, world
<1>4. Accounted'
  BY <1>1 DEF IInv, Accounted
<1>5. \A t, declared : StackImages(t, declared, Own(t))' = StackImages(t, declared, Own(t))
  BY <1>1, SameImages
<1>6. FilesRead'
  <2>1. CASE images' = images /\ read' = read
    BY <1>1, <1>5, <2>1 DEF IInv, FilesRead
  <2>2. CASE read' = read \cup {s} /\ \E declared \in Files[s] :
               images' = [images EXCEPT ![s] = StackImages(s, declared, Own(s))]
    <3>1. PICK declared \in Files[s] : images' = [images EXCEPT ![s] = StackImages(s, declared, Own(s))]
      BY <2>2
    <3>2. DOMAIN images' = Stacks
      BY <3>1 DEF IInv, FilesRead
    <3>3. ASSUME NEW t \in Stacks, t \in read'
          PROVE  \E d \in Files[t] : images'[t] = StackImages(t, d, Own(t))
      <4>1. CASE t = s
        BY <3>1, <4>1 DEF IInv, FilesRead
      <4>2. CASE t # s
        BY <2>2, <3>1, <3>3, <4>2 DEF IInv, FilesRead
      <4> QED BY <4>1, <4>2
    <3> QED BY <1>1, <1>5, <3>2, <3>3 DEF FilesRead
  <2> QED BY <1>1, <2>1, <2>2
<1> QED BY <1>2, <1>3, <1>4, <1>6 DEF IInv

LEMMA Kept == IInv /\ [Next]_vars => IInv'
<1> SUFFICES ASSUME IInv, [Next]_vars PROVE IInv'
  OBVIOUS
<1>1. ASSUME NEW x \in Things, NEW new \in States, Change(x, new) PROVE IInv'
  BY <1>1, WorldMoves
<1>2. CASE ListStacks
  BY <1>2, StacksListed
<1>3. CASE Unreachable
  BY <1>3, NothingLearnt DEF Unreachable
<1>4. CASE ListEnvironments
  BY <1>4, EnvironmentsListed
<1>5. CASE WantFiles
  BY <1>5, NothingLearnt DEF WantFiles
<1>6. CASE WantNames
  BY <1>6, NothingLearnt DEF WantNames
<1>7. CASE Finish
  BY <1>7, NothingLearnt DEF Finish
<1>8. ASSUME NEW e \in Environments, ListContainers(e) PROVE IInv'
  BY <1>8, ContainersListed
<1>9. ASSUME NEW x \in Things, Enter(x) PROVE IInv'
  BY <1>9, NothingLearnt DEF Enter
<1>10. ASSUME NEW x \in Things, ReadFile(x) PROVE IInv'
  BY <1>10, FileAnswered
<1>11. ASSUME NEW x \in Things, ResolveName(x) PROVE IInv'
  BY <1>11, NothingLearnt DEF ResolveName
<1>12. CASE UNCHANGED vars
  BY <1>12, NothingLearnt DEF vars, world, files
<1> QED BY <1>1, <1>2, <1>3, <1>4, <1>5, <1>6, <1>7, <1>8, <1>9, <1>10, <1>11, <1>12 DEF Next, Look

LEMMA Always_IInv == Spec => []IInv
BY Starts, Kept, PTL DEF Spec

-----------------------------------------------------------------------------
\* A container that was there all the time is in the listing of its environment.
LEMMA StayedIsListed ==
    ASSUME IInv, NEW c \in Containers, Always(c, {"up", "down"}), lists[EnvOf[c]] # Unread
    PROVE  c \in Listed(EnvOf[c])
<1>1. lists[EnvOf[c]][c] \in saw[c]
  BY ThingTypes DEF IInv, Faithful
<1> QED BY <1>1 DEF Listed, Always

\* What could not be read is told: no stack is missing, or looks fine, for want of an
\* answer, however many environments, stacks and changes there are.
THEOREM UnknownIsTold == Spec => []UnknownIsNotFine
<1>1. IInv => UnknownIsNotFine
  <2> SUFFICES ASSUME IInv, pc = "done", NEW s \in Stacks
               PROVE  /\ Always(s, {"up", "down"}) => s \in stacks
                      /\ s \in stacks /\ ~Unchecked(s) =>
                           \A c \in Containers : Belongs(c, s) =>
                             /\ Always(c, {"up", "down"}) => c \in Own(s)
                             /\ Always(c, {"down"}) => c \in Down(s)
                             /\ Always(c, {"up", "gone"}) => c \notin Down(s)
                      /\ s \in stacks /\ Unchecked(s) /\ EnvOf[s] \in Known =>
                           errors \cap {EnvOf[s], All} # {}
    BY DEF UnknownIsNotFine
  <2>1. Always(s, {"up", "down"}) => s \in stacks
    BY DEF IInv, Faithful, Always
  <2>2. ASSUME ~Unchecked(s), NEW c \in Containers, Belongs(c, s)
        PROVE  /\ Always(c, {"up", "down"}) => c \in Own(s)
               /\ Always(c, {"down"}) => c \in Down(s)
               /\ Always(c, {"up", "gone"}) => c \notin Down(s)
    <3>1. lists[EnvOf[s]] # Unread /\ EnvOf[c] = EnvOf[s] /\ ProjectOf[c] = NameOf[s]
      BY <2>2 DEF Unchecked, Belongs
    <3>2. lists[EnvOf[s]][c] \in saw[c]
      BY <3>1, ThingTypes DEF IInv, Faithful
    <3>3. c \in Own(s) <=> lists[EnvOf[s]][c] # "gone"
      BY <3>1 DEF Own, Listed
    <3>4. c \in Down(s) <=> lists[EnvOf[s]][c] = "down"
      BY <3>3 DEF Down
    <3> QED BY <3>2, <3>3, <3>4 DEF Always
  <2>3. Unchecked(s) /\ EnvOf[s] \in Known => errors \cap {EnvOf[s], All} # {}
    BY DEF IInv, Accounted, Unchecked
  <2> QED BY <2>1, <2>2, <2>3
<1> QED BY <1>1, Always_IInv, PTL

\* No container is shown twice, and none is lost between the lists.
THEOREM ShownOnce == Spec => []EveryContainerOnce
<1>1. IInv => EveryContainerOnce
  <2> SUFFICES ASSUME IInv, pc = "done", NEW c \in Containers, EnvOf[c] \in Known,
                      Always(c, {"up", "down"}), errors \cap {EnvOf[c], All} = {}
               PROVE  \/ c \in Standalone(EnvOf[c]) /\ \A s \in stacks : c \notin Own(s)
                      \/ c \notin Standalone(EnvOf[c]) /\ \E s \in stacks : {t \in stacks : c \in Own(t)} = {s}
    BY DEF EveryContainerOnce
  <2>1. lists[EnvOf[c]] # Unread
    BY DEF IInv, Accounted
  <2>2. c \in Listed(EnvOf[c])
    BY <2>1, StayedIsListed
  <2>3. ASSUME NEW t \in stacks
        PROVE  c \in Own(t) <=> EnvOf[t] = EnvOf[c] /\ NameOf[t] = ProjectOf[c]
    <3>1. t \in Stacks /\ EnvOf[t] \in Environments
      BY ThingTypes DEF IInv, Faithful
    <3>2. CASE EnvOf[t] = EnvOf[c]
      BY <2>2, <3>2 DEF Own
    <3>3. CASE EnvOf[t] # EnvOf[c]
      BY <3>1, <3>3 DEF IInv, Faithful, Own, Listed
    <3> QED BY <3>2, <3>3
  <2>4. CASE \E s \in stacks : EnvOf[s] = EnvOf[c] /\ NameOf[s] = ProjectOf[c]
    <3>1. PICK s \in stacks : EnvOf[s] = EnvOf[c] /\ NameOf[s] = ProjectOf[c]
      BY <2>4
    <3>2. c \notin Standalone(EnvOf[c])
      BY <3>1 DEF Standalone, StackNames
    <3>3. \A t \in stacks : c \in Own(t) => t = s
      BY <2>3, <3>1 DEF IInv, Faithful
    <3>4. c \in Own(s)
      BY <2>3, <3>1
    <3> QED BY <3>2, <3>3, <3>4
  <2>5. CASE ~\E s \in stacks : EnvOf[s] = EnvOf[c] /\ NameOf[s] = ProjectOf[c]
    <3>1. c \in Standalone(EnvOf[c])
      BY <2>2, <2>5 DEF Standalone, StackNames
    <3> QED BY <2>3, <2>5, <3>1
  <2> QED BY <2>4, <2>5
<1> QED BY <1>1, Always_IInv, PTL

\* An image that the file is certain to name is among those found.
LEMMA NamedIsFound ==
    ASSUME NEW s \in Stacks, NEW declared \in Files[s], NEW own, NEW image \in Images,
           \E ref \in declared : Interpolated(ref, Env[s]) = image
    PROVE  image \in StackImages(s, declared, own)
<1>1. image # None /\ image \in {Interpolated(ref, Env[s]) : ref \in declared}
  BY ConstantsAssumption
<1> QED BY <1>1 DEF StackImages

\* What carries the connection is marked, whatever is listed, read and resolved.
THEOREM CriticalAreMarked == Spec => []CriticalIsMarked
<1>1. IInv => CriticalIsMarked
  <2> SUFFICES ASSUME IInv, pc = "done", NEW s \in stacks, NEW c \in Containers, Belongs(c, s),
                      Always(c, {"up", "down"}), c \in Moved => s \in read /\ Told(s, c), ~Unchecked(s)
               PROVE  CreatedFrom[c] \in {ImageOf(d) : d \in Own(s)} \cup images[s]
    BY DEF CriticalIsMarked, SelfCritical, UpdateProtected
  <2>1. s \in Stacks /\ CreatedFrom[c] \in Images
    BY ConstantsAssumption DEF IInv, Faithful
  <2>2. CASE c \notin Moved
    <3>1. c \in Own(s)
      BY StayedIsListed DEF Own, Unchecked, Belongs
    <3> QED BY <2>2, <3>1 DEF ImageOf
  <2>3. CASE c \in Moved
    <3>1. PICK declared \in Files[s] : images[s] = StackImages(s, declared, Own(s))
      BY <2>1, <2>3 DEF IInv, FilesRead
    <3>2. \E ref \in declared : Interpolated(ref, Env[s]) = CreatedFrom[c]
      BY <2>3 DEF Told
    <3> QED BY <2>1, <3>1, <3>2, NamedIsFound
  <2> QED BY <2>2, <2>3
<1> QED BY <1>1, Always_IInv, PTL

-----------------------------------------------------------------------------
(* Types.                                                                  *)

\* Only those wait for a file that have been listed.
Queued ==
    /\ pc \in {"stacks", "unreachable", "environments", "containers"} =>
         waiting = {} /\ within = {} /\ answered = {}
    /\ pc = "files" => waiting \cup within \subseteq stacks

LEMMA InterpolatedType ==
    ASSUME NEW s \in Stacks, NEW ref \in References
    PROVE  Interpolated(ref, Env[s]) \in Images \cup {Empty, None}
<1>1. Env[s][ref.variable] \in Images \cup {Empty, Unset}
  <2>1. ref.variable \in Variables
    BY DEF References
  <2>2. Env[s] \in [Variables -> Images \cup {Empty, Unset}]
    BY ConstantsAssumption
  <2> QED BY <2>1, <2>2
<1>2. ref.text \in Images \cup {Empty}
  BY DEF References
<1> QED BY <1>1, <1>2 DEF Interpolated

LEMMA StackImagesType ==
    ASSUME NEW s \in Stacks, NEW declared \in Files[s], NEW own \in SUBSET Containers
    PROVE  StackImages(s, declared, own) \in SUBSET (Shown \cup References)
<1>1. declared \subseteq References
  BY ConstantsAssumption
<1>2. \A ref \in declared : Interpolated(ref, Env[s]) \in Shown \cup {None}
  BY <1>1, InterpolatedType DEF Shown
<1>3. \A c \in own : ImageOf(c) \in Shown
  BY ConstantsAssumption DEF ImageOf, Shown
<1> QED BY <1>1, <1>2, <1>3 DEF StackImages

THEOREM TypeCorrect == Spec => []TypeOK
<1>1. Init => TypeOK /\ Queued
  BY ConstantsAssumption DEF Init, TypeOK, Queued
<1>2. TypeOK /\ Queued /\ [Next]_vars => (TypeOK /\ Queued)'
  <2> SUFFICES ASSUME TypeOK, Queued, [Next]_vars PROVE TypeOK' /\ Queued'
    OBVIOUS
  <2>1. ASSUME NEW x \in Things, NEW new \in States, Change(x, new) PROVE TypeOK' /\ Queued'
    <3>1. changes' \in 0 .. MaxChanges
      BY <2>1, ConstantsAssumption DEF Change, TypeOK
    <3>2. state' \in [Things -> States] /\ saw' \in [Things -> SUBSET States]
      BY <2>1 DEF Change, TypeOK
    <3>3. UNCHANGED <<pc, stacks, asked, lists, errors, waiting, within, images, answered, read>>
      BY <2>1 DEF Change, files
    <3> QED BY <3>1, <3>2, <3>3 DEF TypeOK, Queued
  <2>2. CASE ListStacks
    BY <2>2 DEF ListStacks, TypeOK, Queued, world, gate, files
  <2>3. CASE Unreachable
    BY <2>3 DEF Unreachable, TypeOK, Queued, world, gate, files
  <2>4. CASE ListEnvironments
    BY <2>4 DEF ListEnvironments, TypeOK, Queued, world, gate, files
  <2>5. CASE WantFiles
    BY <2>5 DEF WantFiles, TypeOK, Queued, world, files, Things
  <2>6. CASE WantNames
    <3>1. waiting' \subseteq Things
      BY <2>6 DEF WantNames, Standalone, Listed, Things
    <3> QED BY <2>6, <3>1 DEF WantNames, TypeOK, Queued, world, files
  <2>7. CASE Finish
    BY <2>7 DEF Finish, TypeOK, Queued, world, gate, files
  <2>8. ASSUME NEW e \in Environments, ListContainers(e) PROVE TypeOK' /\ Queued'
    <3>1. e \in Known /\ asked' \subseteq Known /\ errors' \subseteq Known \cup {All}
      BY <2>8 DEF ListContainers, TypeOK
    <3>2. lists' \in [Environments -> [Containers -> States] \cup {Unread}]
      <4>1. [c \in Containers |-> IF EnvOf[c] = e THEN state[c] ELSE "gone"] \in [Containers -> States]
        BY DEF TypeOK, Things, States
      <4> QED BY <2>8, <4>1 DEF ListContainers, TypeOK
    <3> QED BY <2>8, <3>1, <3>2 DEF ListContainers, TypeOK, Queued, world, gate, files
  <2>9. ASSUME NEW x \in Things, Enter(x) PROVE TypeOK' /\ Queued'
    BY <2>9 DEF Enter, TypeOK, Queued, world, files
  <2>10. ASSUME NEW x \in Things, ReadFile(x) PROVE TypeOK' /\ Queued'
    <3>1. x \in stacks /\ x \in Stacks
      BY <2>10 DEF ReadFile, Queued, TypeOK
    <3>2. Own(x) \in SUBSET Containers
      BY DEF Own, Listed
    <3>3. images' \in [Stacks -> SUBSET (Shown \cup References)]
      <4>1. CASE images' = images
        BY <4>1 DEF TypeOK
      <4>2. ASSUME NEW declared \in Files[x], images' = [images EXCEPT ![x] = StackImages(x, declared, Own(x))]
            PROVE  images' \in [Stacks -> SUBSET (Shown \cup References)]
        <5>1. StackImages(x, declared, Own(x)) \in SUBSET (Shown \cup References)
          BY <3>1, <3>2, StackImagesType
        <5> QED BY <4>2, <5>1 DEF TypeOK
      <4> QED BY <2>10, <4>1, <4>2 DEF ReadFile
    <3>4. read' \subseteq answered' /\ answered' \subseteq stacks
      BY <2>10, <3>1 DEF ReadFile, TypeOK
    <3>5. within' \subseteq within
      BY <2>10 DEF ReadFile, Leave
    <3>6. UNCHANGED <<state, changes, saw, pc, stacks, asked, lists, errors, waiting>>
      BY <2>10 DEF ReadFile, world
    <3>7. TypeOK'
      BY <3>3, <3>4, <3>5, <3>6 DEF TypeOK
    <3>8. Queued'
      BY <2>10, <3>5, <3>6 DEF Queued, ReadFile
    <3> QED BY <3>7, <3>8
  <2>11. ASSUME NEW x \in Things, ResolveName(x) PROVE TypeOK' /\ Queued'
    BY <2>11 DEF ResolveName, Leave, TypeOK, Queued, world, files
  <2>12. CASE UNCHANGED vars
    BY <2>12 DEF vars, TypeOK, Queued
  <2> QED BY <2>1, <2>2, <2>3, <2>4, <2>5, <2>6, <2>7, <2>8, <2>9, <2>10, <2>11, <2>12 DEF Next, Look
<1> QED BY <1>1, <1>2, PTL DEF Spec
-----------------------------------------------------------------------------
(* The gate: places are given back, and nobody is forgotten before it.     *)

Before == {"stacks", "unreachable", "environments", "containers"}

\* Never more are past the gate than it has places for; whoever is past it can
\* leave it, and once the names are asked for every listed stack has had its turn.
GateHolds ==
    /\ IsFiniteSet(within) /\ Cardinality(within) <= Gate
    /\ waiting \cap within = {}
    /\ pc \in Before \cup {"done"} => waiting \cup within = {}
    /\ pc \in Before => answered = {}
    /\ pc = "files" => /\ (waiting \cup within) \cap answered = {}
                       /\ waiting \cup within \cup answered = stacks
    /\ pc = "names" => waiting \cup within \subseteq Containers
    /\ pc \in {"names", "done"} => answered = stacks

LEMMA GateIsSome == Gate \in Nat \ {0}
BY ConstantsAssumption

LEMMA GateStarts == Init => GateHolds
BY FS_EmptySet, GateIsSome DEF Init, GateHolds, Before

\* One more place is taken only if there is one.
LEMMA PlaceTaken ==
    ASSUME GateHolds, NEW x \in Things, Enter(x)
    PROVE  GateHolds'
<1>1. within' = within \cup {x} /\ Cardinality(within) < Gate /\ IsFiniteSet(within)
  BY DEF Enter, GateHolds
<1>2. IsFiniteSet(within') /\ Cardinality(within') <= Gate
  <2>1. /\ IsFiniteSet(within')
        /\ Cardinality(within') = IF x \in within THEN Cardinality(within) ELSE Cardinality(within) + 1
    BY <1>1, FS_AddElement
  <2>2. Cardinality(within) \in Nat
    BY <1>1, FS_CardinalityType
  <2> QED BY <1>1, <2>1, <2>2, GateIsSome
<1>3. waiting' \cup within' = waiting \cup within /\ waiting # {} /\ waiting' \cap within' = {}
      /\ UNCHANGED <<pc, stacks, answered>>
  BY DEF Enter, files, GateHolds
<1> QED BY <1>2, <1>3 DEF GateHolds

LEMMA PlaceLeft ==
    ASSUME GateHolds, NEW x, within' = within \ {x}
    PROVE  IsFiniteSet(within') /\ Cardinality(within') <= Gate
<1>1. IsFiniteSet(within) /\ Cardinality(within) <= Gate
  BY DEF GateHolds
<1>2. /\ IsFiniteSet(within')
      /\ Cardinality(within') = IF x \in within THEN Cardinality(within) - 1 ELSE Cardinality(within)
  BY <1>1, FS_RemoveElement
<1>3. Cardinality(within) \in Nat
  BY <1>1, FS_CardinalityType
<1> QED BY <1>1, <1>2, <1>3, GateIsSome

LEMMA GateKept == GateHolds /\ [Next]_vars => GateHolds'
<1> SUFFICES ASSUME GateHolds, [Next]_vars PROVE GateHolds'
  OBVIOUS
<1>1. ASSUME NEW x \in Things, Enter(x) PROVE GateHolds'
  BY <1>1, PlaceTaken
<1>2. ASSUME NEW x \in Things, ReadFile(x) PROVE GateHolds'
  <2>1. /\ pc = "files" /\ x \in within /\ x \notin answered /\ answered' = answered \cup {x}
        /\ within' = within \ {x} /\ UNCHANGED <<pc, stacks, waiting>>
    BY <1>2 DEF ReadFile, Leave
  <2>2. (waiting' \cup within') \cap answered' = {}
    <3>1. x \notin waiting'
      BY <2>1 DEF GateHolds
    <3> QED BY <2>1, <3>1 DEF GateHolds
  <2>3. waiting' \cup within' \cup answered' = stacks'
    BY <2>1 DEF GateHolds
  <2> QED BY <2>1, <2>2, <2>3, PlaceLeft DEF GateHolds, Before
<1>3. ASSUME NEW x \in Things, ResolveName(x) PROVE GateHolds'
  <2>1. /\ pc = "names" /\ within' = within \ {x} /\ UNCHANGED <<pc, stacks, waiting, answered>>
    BY <1>3 DEF ResolveName, Leave, files
  <2> QED BY <2>1, PlaceLeft DEF GateHolds, Before
<1>4. CASE WantFiles
  <2>1. pc' = "files" /\ waiting' = stacks /\ within = {} /\ answered = {}
        /\ UNCHANGED <<within, stacks, answered>>
    BY <1>4 DEF WantFiles, GateHolds, Before, files
  <2> QED BY <2>1 DEF GateHolds, Before
<1>5. CASE WantNames
  <2>1. pc' = "names" /\ waiting \cup within = {} /\ answered = stacks /\ UNCHANGED <<within, stacks, answered>>
    BY <1>5 DEF WantNames, GateHolds, files
  <2>2. waiting' \subseteq Containers
    BY <1>5 DEF WantNames, Standalone, Listed
  <2> QED BY <2>1, <2>2 DEF GateHolds, Before
<1>6. CASE Finish
  BY <1>6 DEF Finish, GateHolds, Before, gate, files
<1>7. CASE ListStacks \/ Unreachable \/ ListEnvironments
  BY <1>7 DEF ListStacks, Unreachable, ListEnvironments, GateHolds, Before, gate, files
<1>8. ASSUME NEW e \in Environments, ListContainers(e) PROVE GateHolds'
  BY <1>8 DEF ListContainers, GateHolds, gate, files
<1>9. ASSUME NEW x \in Things, NEW new \in States, Change(x, new) PROVE GateHolds'
  BY <1>9 DEF Change, GateHolds, files
<1>10. CASE UNCHANGED vars
  BY <1>10 DEF vars, GateHolds
<1> QED BY <1>1, <1>2, <1>3, <1>4, <1>5, <1>6, <1>7, <1>8, <1>9, <1>10 DEF Next, Look

\* What is safety in LookEnds: whoever fails gives its place back, so that the gate
\* never stays full, and no stack is passed over.
THEOREM GateNeverClogs == Spec => []GateHolds
BY GateStarts, GateKept, PTL DEF Spec
=============================================================================
