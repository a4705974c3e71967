--------------------------- MODULE RecreateProofs ---------------------------
(* Recreate for every value of its constants. *)
EXTENDS Recreate, TLAPS

Configs == [Settings -> Values \cup {None}]
Releases == [brings : Configs, volumes : SUBSET Paths]

\* The heart of inherited_config: what is left of a container's Config without
\* what its image brought is what was asked for, save what the image had anyway.
LEMMA Recovered ==
    ASSUME NEW own \in Configs, NEW release \in Releases
    PROVE  AskedFor(Merged(own, release), release) = AskedFor(own, release)
<1>1. ASSUME NEW s \in Settings
      PROVE  (IF Merged(own, release)[s] = release.brings[s] THEN None ELSE Merged(own, release)[s])
             = (IF own[s] = release.brings[s] THEN None ELSE own[s])
  <2>1. CASE own[s] # None
    BY <2>1 DEF Merged
  <2>2. CASE own[s] = None /\ s = Cmd /\ own[Entrypoint] # None
    BY <2>2 DEF Merged
  <2>3. CASE own[s] = None /\ ~(s = Cmd /\ own[Entrypoint] # None)
    BY <2>3 DEF Merged
  <2> QED BY <2>1, <2>2, <2>3
<1> QED BY <1>1 DEF AskedFor

\* Where nothing of the old image is known, everything counts as asked for.
LEMMA NothingToldApart ==
    ASSUME NEW own \in Configs
    PROVE  AskedFor(own, Gone) = own
BY DEF AskedFor, Gone, Configs

\* A merged configuration is one.
LEMMA MergedType ==
    ASSUME NEW own \in Configs, NEW release \in Releases
    PROVE  Merged(own, release) \in Configs
BY DEF Merged, Configs, Releases

\* Releases and what is asked for are what the constants say.
LEMMA ConstantTypes ==
    /\ Images \subseteq Releases
    /\ \A a \in Asks : /\ a.settings \in Configs /\ a.volumes \subseteq Paths
                       /\ a.mounts \in [Paths -> Sources \cup {Unnamed, None}]
                       /\ a.hostname \in Names \cup {None}
                       /\ a.joins \in [Networks -> Endpoints \cup {None}]
BY ConstantsAssumption DEF Releases, Configs

-----------------------------------------------------------------------------
(* Configuration and name.                                                 *)

\* What no release brings counts as asked for, whenever that is determined anew.
Kept ==
    \A s \in Settings :
      /\ had[s] \subseteq Inheritable(s)
      /\ asked.settings[s] \notin Inheritable(s) => taken[s] = asked.settings[s]

ConfigInv ==
    /\ asked \in Asks /\ image \in Images /\ number \in Nat
    /\ taken \in Configs
    /\ had \in [Settings -> SUBSET (Values \cup {None})]
    /\ Kept
    /\ config = Merged(StillAsked, image)
    /\ hostname = Hostname(asked.hostname, number)

LEMMA StillAskedType ==
    ASSUME ConfigInv
    PROVE  StillAsked \in Configs
BY DEF ConfigInv, StillAsked, Configs

\* What no release brings is still set as it was asked for.
LEMMA AskedIsKept ==
    ASSUME ConfigInv, NEW s \in Settings, asked.settings[s] \notin Inheritable(s)
    PROVE  config[s] = asked.settings[s]
<1>1. taken[s] = asked.settings[s] /\ taken[s] \notin had[s] /\ taken[s] # None
  BY DEF ConfigInv, Kept, Inheritable
<1>2. StillAsked[s] = taken[s]
  BY <1>1 DEF StillAsked
<1> QED BY <1>1, <1>2 DEF ConfigInv, Merged

LEMMA ConfigStarts == Init => ConfigInv
<1> SUFFICES ASSUME Init PROVE ConfigInv
  OBVIOUS
<1>1. asked.settings \in Configs
  BY ConstantTypes DEF Init
<1>2. StillAsked = asked.settings
  BY <1>1 DEF Init, StillAsked, Configs
<1> QED BY <1>1, <1>2 DEF Init, ConfigInv, Kept

\* What is asked for anew after a replacement, whether the old image was seen or not.
LEMMA ToldApart ==
    ASSUME ConfigInv, NEW release \in Images, NEW shown \in {image, Gone}, Replace(release, shown)
    PROVE  AskedFor(config, shown) = StillAsked' /\ taken' \in Configs
<1>1. StillAsked \in Configs /\ image \in Releases
  BY StillAskedType, ConstantTypes DEF ConfigInv
<1>2. config \in Configs
  BY <1>1, MergedType DEF ConfigInv
<1>3. CASE shown = Gone
  <2>1. taken' = config /\ had' = [s \in Settings |-> {}]
    BY <1>3 DEF Replace
  <2>2. StillAsked' = config
    BY <1>2, <2>1 DEF StillAsked, Configs
  <2> QED BY <1>2, <1>3, <2>1, <2>2, NothingToldApart
<1>4. CASE shown # Gone
  <2>1. taken' = taken /\ \A s \in Settings : had'[s] = had[s] \cup {image.brings[s]}
    BY <1>4 DEF Replace
  <2>2. StillAsked' = AskedFor(StillAsked, image)
    BY <2>1 DEF StillAsked, AskedFor
  <2>3. AskedFor(config, image) = AskedFor(StillAsked, image)
    BY <1>1, Recovered DEF ConfigInv
  <2> QED BY <1>4, <2>1, <2>2, <2>3 DEF ConfigInv
<1> QED BY <1>3, <1>4

\* What was brought since is of some release, and what no release brings is kept.
LEMMA StaysKept ==
    ASSUME ConfigInv, NEW release \in Images, NEW shown \in {image, Gone}, Replace(release, shown)
    PROVE  Kept' /\ had' \in [Settings -> SUBSET (Values \cup {None})]
<1>1. image.brings \in Configs /\ asked' = asked
  BY ConstantTypes DEF ConfigInv, Releases, Replace
<1>2. \A s \in Settings : image.brings[s] \in Inheritable(s) /\ image.brings[s] \in Values \cup {None}
  BY <1>1 DEF Inheritable, ConfigInv, Configs
<1>3. CASE shown = Gone
  <2>1. taken' = config /\ had' = [s \in Settings |-> {}]
    BY <1>3 DEF Replace
  <2> QED BY <1>1, <2>1, AskedIsKept DEF Kept, Inheritable
<1>4. CASE shown # Gone
  <2>1. taken' = taken /\ had' = [s \in Settings |-> had[s] \cup {image.brings[s]}]
    BY <1>4 DEF Replace
  <2> QED BY <1>1, <1>2, <2>1 DEF ConfigInv, Kept, Inheritable
<1> QED BY <1>3, <1>4

LEMMA ConfigKept == ConfigInv /\ [Next]_vars => ConfigInv'
<1> SUFFICES ASSUME ConfigInv, [Next]_vars PROVE ConfigInv'
  OBVIOUS
<1>1. ASSUME NEW release \in Images, NEW shown \in {image, Gone}, Replace(release, shown) PROVE ConfigInv'
  <2> USE <1>1
  <2>1. config' = Merged(StillAsked', release) /\ taken' \in Configs
    BY ToldApart DEF Replace
  <2>2. Kept' /\ had' \in [Settings -> SUBSET (Values \cup {None})]
    BY StaysKept
  <2>3. hostname' = Hostname(asked.hostname, number')
    <3>1. asked.hostname \in Names \cup {None}
      BY ConstantTypes DEF ConfigInv
    <3>2. asked.hostname # number
      BY <3>1, ConstantsAssumption DEF ConfigInv
    <3>3. hostname' = Hostname(AskedName(Hostname(asked.hostname, number), number), number')
      BY DEF Replace, ConfigInv
    <3> QED BY <3>2, <3>3 DEF Hostname, AskedName
  <2>4. asked' = asked /\ asked' \in Asks /\ image' = release /\ image' \in Images /\ number' \in Nat
    BY DEF Replace, ConfigInv
  <2> QED BY <2>1, <2>2, <2>3, <2>4 DEF ConfigInv
<1>2. ASSUME UNCHANGED <<asked, number, image, config, hostname, taken, had>> PROVE ConfigInv'
  BY <1>2 DEF ConfigInv, StillAsked, Kept
<1>3. CASE Rewire \/ UNCHANGED vars
  BY <1>2, <1>3 DEF Rewire, vars
<1> QED BY <1>1, <1>3 DEF Next

\* Whatever is asked for, whatever the releases bring, however many of them there
\* are and whether their images were still there to inspect or not: a container is
\* configured as if created by hand from its release (inherited_config).
THEOREM ConfiguredAsAsked == Spec => []AsAsked
<1>1. ConfigInv => AsAsked
  BY AskedIsKept DEF ConfigInv, AsAsked
<1> QED BY <1>1, ConfigStarts, ConfigKept, PTL DEF Spec

-----------------------------------------------------------------------------
(* What is mounted.                                                        *)

\* HostConfig names every volume it asks for.
Named == \A a \in Asks, p \in Paths : a.mounts[p] # Unnamed

\* What HostConfig asks for is what is there, and has a name.
MountsInv ==
    /\ number \in Nat
    /\ \A p \in Paths : /\ mounts[p] # Unnamed /\ mounted[p] # Unnamed
                        /\ mounts[p] # None => mounted[p] = mounts[p]

\* What is mounted in a container that HostConfig asks named volumes for.
LEMMA NamedMounts ==
    ASSUME NEW ask, NEW vols, NEW id \in Nat, NEW p \in Paths, ask[p] # Unnamed
    PROVE  /\ Mounted(ask, vols, id)[p] # Unnamed
           /\ ask[p] # None => Mounted(ask, vols, id)[p] = ask[p]
<1>1. Fresh(p, id) # Unnamed
  BY ConstantsAssumption DEF Fresh
<1>2. None # Unnamed
  BY ConstantsAssumption
<1> QED BY <1>1, <1>2 DEF Mounted

LEMMA MountsStart == Named /\ Init => MountsInv
<1> SUFFICES ASSUME Named, Init PROVE MountsInv
  OBVIOUS
<1>1. asked \in Asks /\ mounts = asked.mounts /\ number = 0 /\ mounted = Mounted(mounts, volumes, number)
  BY DEF Init
<1>2. \A p \in Paths : mounts[p] # Unnamed
  BY <1>1 DEF Named
<1> QED BY <1>1, <1>2, NamedMounts DEF MountsInv

\* What was mounted and what HostConfig asks for, after a replacement.
LEMMA MountsCarried ==
    ASSUME MountsInv, NEW release, NEW shown, Replace(release, shown), NEW p \in Paths
    PROVE  /\ mounts'[p] # Unnamed /\ mounted'[p] # Unnamed
           /\ mounts'[p] # None => mounted'[p] = mounts'[p]
           /\ mounted[p] # None => mounted'[p] = mounted[p]
<1>1. mounts'[p] = IF mounts[p] = None THEN mounted[p] ELSE mounts[p]
  BY DEF Replace, Carried
<1>2. mounts'[p] # Unnamed
  BY <1>1 DEF MountsInv
<1>3. mounted' = Mounted(mounts', volumes', number') /\ number' \in Nat
  BY DEF Replace, MountsInv
<1>4. mounted'[p] # Unnamed /\ (mounts'[p] # None => mounted'[p] = mounts'[p])
  BY <1>2, <1>3, NamedMounts
<1>5. mounted[p] # None => mounts'[p] = mounted[p]
  BY <1>1 DEF MountsInv
<1> QED BY <1>2, <1>4, <1>5

LEMMA MountsKept == MountsInv /\ [Next]_vars => MountsInv'
<1> SUFFICES ASSUME MountsInv, [Next]_vars PROVE MountsInv'
  OBVIOUS
<1>1. ASSUME NEW release, NEW shown, Replace(release, shown) PROVE MountsInv'
  <2>1. number' \in Nat
    BY <1>1 DEF Replace, MountsInv
  <2> QED BY <1>1, <2>1, MountsCarried DEF MountsInv
<1>2. CASE Rewire
  BY <1>2 DEF Rewire, MountsInv
<1>3. CASE UNCHANGED vars
  BY <1>3 DEF vars, MountsInv
<1> QED BY <1>1, <1>2, <1>3 DEF Next

LEMMA DataStep ==
    ASSUME MountsInv, [Next]_vars, NEW p \in Paths, mounted[p] # None
    PROVE  mounted'[p] = mounted[p]
<1>1. ASSUME NEW release, NEW shown, Replace(release, shown) PROVE mounted'[p] = mounted[p]
  BY <1>1, MountsCarried
<1>2. CASE Rewire
  BY <1>2 DEF Rewire
<1>3. CASE UNCHANGED vars
  BY <1>3 DEF vars
<1> QED BY <1>1, <1>2, <1>3 DEF Next

\* Where HostConfig names its volumes, nothing that is mounted is ever lost or
\* exchanged, through any number of releases with any VOLUME lines.
THEOREM NothingIsLost == ASSUME Named PROVE Spec => DataStays
<1>1. MountsInv /\ [Next]_vars => [\A p \in Paths : mounted[p] # None => mounted'[p] = mounted[p]]_vars
  BY DataStep
<1>2. Init => MountsInv
  BY MountsStart
<1> QED BY <1>1, <1>2, MountsKept, PTL DEF Spec, DataStays

-----------------------------------------------------------------------------
(* Networks.                                                               *)

\* A container on the host's network has joined no other, and among its aliases
\* there is no id but its own.
NetworksInv ==
    /\ asked \in Asks /\ number \in Nat
    /\ joined \in [Networks -> Attachments \cup {None}]
    /\ \A n \in Networks : joined[n] # None => joined[n].aliases \subseteq Names \cup {number}
    /\ asked.network = HostNetwork => \A n \in Networks : joined[n] = None

\* What joining what was asked for makes of a network.
LEMMA JoinedIs ==
    ASSUME NEW joins \in [Networks -> Endpoints \cup {None}], NEW id \in Nat
    PROVE  /\ Joined(joins, id) \in [Networks -> Attachments \cup {None}]
           /\ \A n \in Networks : Joined(joins, id)[n] # None => Joined(joins, id)[n].aliases \subseteq Names \cup {id}
           /\ \A n \in Networks : joins[n] = None => Joined(joins, id)[n] = None
           /\ \A n \in Networks : joins[n] # None => /\ Joined(joins, id)[n] # None
                                                     /\ Joined(joins, id)[n].address = joins[n].address
                                                     /\ Joined(joins, id)[n].aliases = joins[n].aliases \cup {id}
<1> SUFFICES ASSUME NEW n \in Networks
             PROVE  /\ Joined(joins, id)[n] \in Attachments \cup {None}
                    /\ Joined(joins, id)[n] # None => Joined(joins, id)[n].aliases \subseteq Names \cup {id}
                    /\ joins[n] = None => Joined(joins, id)[n] = None
                    /\ joins[n] # None => /\ Joined(joins, id)[n] # None
                                          /\ Joined(joins, id)[n].address = joins[n].address
                                          /\ Joined(joins, id)[n].aliases = joins[n].aliases \cup {id}
  BY DEF Joined
<1> DEFINE there == [address |-> joins[n].address, aliases |-> joins[n].aliases \cup {id}]
<1>1. Joined(joins, id)[n] = IF joins[n] = None THEN None ELSE there
  BY DEF Joined
<1>2. CASE joins[n] = None
  BY <1>1, <1>2
<1>3. CASE joins[n] # None
  <2>1. joins[n] \in Endpoints
    BY <1>3
  <2>2. joins[n].address \in Addresses \cup {None} /\ joins[n].aliases \subseteq Names
    BY <2>1 DEF Endpoints
  <2>3. there \in Attachments
    BY <2>2 DEF Attachments
  <2>4. there # None
    BY <2>3, ConstantsAssumption
  <2> QED BY <1>1, <1>3, <2>2, <2>3, <2>4
<1> QED BY <1>2, <1>3

\* What the code asks for are endpoints with nothing of the old container in them.
LEMMA ToJoinIs ==
    ASSUME NetworksInv
    PROVE  /\ ToJoin(asked.network, joined, number) \in [Networks -> Endpoints \cup {None}]
           /\ \A n \in Networks : joined[n] = None => ToJoin(asked.network, joined, number)[n] = None
           /\ \A n \in Networks : joined[n] # None =>
                /\ ToJoin(asked.network, joined, number)[n] # None
                /\ ToJoin(asked.network, joined, number)[n].address = joined[n].address
                /\ ToJoin(asked.network, joined, number)[n].aliases = joined[n].aliases \ {number}
<1> DEFINE ask == ToJoin(asked.network, joined, number)
<1> SUFFICES ASSUME NEW n \in Networks
             PROVE  /\ ask[n] \in Endpoints \cup {None}
                    /\ joined[n] = None => ask[n] = None
                    /\ joined[n] # None => /\ ask[n] # None
                                           /\ ask[n].address = joined[n].address
                                           /\ ask[n].aliases = joined[n].aliases \ {number}
  BY DEF ToJoin
<1> DEFINE settings == [address |-> joined[n].address, aliases |-> joined[n].aliases \ {number}]
<1>1. ask[n] = IF joined[n] = None THEN None ELSE settings
  BY DEF ToJoin, EndpointSettings, NetworksInv
<1>2. CASE joined[n] = None
  BY <1>1, <1>2
<1>3. CASE joined[n] # None
  <2>1. joined[n] \in Attachments /\ joined[n].aliases \subseteq Names \cup {number}
    BY <1>3 DEF NetworksInv
  <2>2. joined[n].address \in Addresses \cup {None} /\ joined[n].aliases \ {number} \subseteq Names
    BY <2>1 DEF Attachments
  <2>3. settings \in Endpoints
    BY <2>2 DEF Endpoints
  <2>4. Endpoints \subseteq Attachments
    BY DEF Endpoints, Attachments
  <2>5. settings # None
    BY <2>3, <2>4, ConstantsAssumption
  <2> QED BY <1>1, <1>3, <2>3, <2>5
<1> QED BY <1>2, <1>3

LEMMA NetworksStart == Init => NetworksInv
<1> SUFFICES ASSUME Init PROVE NetworksInv
  OBVIOUS
<1> DEFINE made == Created(asked.network, asked.joins)
<1>1. asked \in Asks /\ number = 0 /\ joined = Joined(made, number)
  BY DEF Init
<1>2. asked.joins \in [Networks -> Endpoints \cup {None}]
  BY <1>1, ConstantTypes
<1>3. made \in [Networks -> Endpoints \cup {None}]
  <2>1. [address |-> None, aliases |-> {}] \in Endpoints
    BY DEF Endpoints
  <2> QED BY <1>2, <2>1 DEF Created
<1>4. asked.network = HostNetwork => \A n \in Networks : made[n] = None
  BY ConstantsAssumption DEF Init, Created
<1> HIDE DEF made
<1> QED BY <1>1, <1>3, <1>4, JoinedIs DEF NetworksInv

\* What the new container is created with: what the code asks for or, when that is
\* nothing, what HostConfig names.
LEMMA CreatedIs ==
    ASSUME NetworksInv
    PROVE  LET ask == ToJoin(asked.network, joined, number)
               made == Created(asked.network, ask) IN
           /\ made \in [Networks -> Endpoints \cup {None}]
           /\ ~CutOff => made = ask
           /\ CutOff => \A n \in Networks : made[n] = IF n = asked.network THEN [address |-> None, aliases |-> {}] ELSE None
<1> DEFINE ask == ToJoin(asked.network, joined, number)
           made == Created(asked.network, ask)
           bare == [address |-> None, aliases |-> {}]
<1>1. ask \in [Networks -> Endpoints \cup {None}] /\ \A n \in Networks : ask[n] = None <=> joined[n] = None
  BY ToJoinIs
<1>2. bare \in Endpoints
  BY DEF Endpoints
<1>3. \A n \in Networks : made[n] = IF n = asked.network /\ \A m \in Networks : ask[m] = None THEN bare ELSE ask[n]
  BY DEF Created
<1>4. made \in [Networks -> Endpoints \cup {None}]
  BY <1>1, <1>2 DEF Created
<1>5. CASE CutOff
  BY <1>1, <1>3, <1>4, <1>5 DEF CutOff
<1>6. CASE ~CutOff
  <2>1. asked.network \notin Networks \/ \E m \in Networks : ask[m] # None
    BY <1>1, <1>6, ConstantsAssumption DEF CutOff
  <2>2. \A n \in Networks : made[n] = ask[n]
    BY <1>3, <2>1
  <2>3. made = ask
    BY <1>1, <2>2 DEF Created
  <2> QED BY <1>4, <1>6, <2>3
<1> HIDE DEF ask, made
<1> QED BY <1>4, <1>5, <1>6 DEF ask, made

\* After a replacement.
SameOn(n) ==
    IF CutOff
    THEN joined'[n] = IF n = asked.network THEN [address |-> None, aliases |-> {number'}] ELSE None
    ELSE /\ joined'[n] = None <=> joined[n] = None
         /\ joined[n] # None => /\ joined'[n].address = joined[n].address
                                /\ joined'[n].aliases \ {number'} = joined[n].aliases \ {number}

LEMMA NetworksCarried ==
    ASSUME NetworksInv, NEW release, NEW shown, Replace(release, shown), NEW n \in Networks
    PROVE  SameOn(n)
<1> DEFINE ask == ToJoin(asked.network, joined, number)
           made == Created(asked.network, ask)
<1>1. joined' = Joined(made, number') /\ number' = number + 1 /\ number' \in Nat
  BY DEF Replace, NetworksInv
<1>2. made \in [Networks -> Endpoints \cup {None}]
  BY CreatedIs
<1>3. CASE CutOff
  <2>1. made[n] = IF n = asked.network THEN [address |-> None, aliases |-> {}] ELSE None
    BY <1>3, CreatedIs
  <2>2. [address |-> None, aliases |-> {}] # None
    <3>1. [address |-> None, aliases |-> {}] \in Attachments
      BY DEF Attachments
    <3> QED BY <3>1, ConstantsAssumption
  <2>3. joined'[n] = IF made[n] = None THEN None
                     ELSE [address |-> made[n].address, aliases |-> made[n].aliases \cup {number'}]
    BY <1>1 DEF Joined
  <2>4. CASE n = asked.network
    <3>1. joined'[n] = [address |-> None, aliases |-> {number'}]
      BY <2>1, <2>2, <2>3, <2>4
    <3> QED BY <1>3, <2>4, <3>1 DEF SameOn
  <2>5. CASE n # asked.network
    BY <1>3, <2>1, <2>3, <2>5 DEF SameOn
  <2> QED BY <2>4, <2>5
<1>4. CASE ~CutOff /\ joined[n] = None
  <2>1. made[n] = None
    BY <1>4, CreatedIs, ToJoinIs
  <2>2. joined'[n] = None
    BY <1>1, <1>2, <2>1, JoinedIs
  <2> QED BY <1>4, <2>2 DEF SameOn
<1>5. CASE ~CutOff /\ joined[n] # None
  <2>1. /\ made[n] # None /\ made[n].address = joined[n].address
        /\ made[n].aliases = joined[n].aliases \ {number}
    BY <1>5, CreatedIs, ToJoinIs
  <2>2. /\ joined'[n] # None /\ joined'[n].address = made[n].address
        /\ joined'[n].aliases = made[n].aliases \cup {number'}
    BY <1>1, <1>2, <2>1, JoinedIs
  <2>3. joined[n].aliases \subseteq Names \cup {number}
    BY <1>5 DEF NetworksInv
  <2>4. number' \notin Names /\ number' # number
    BY <1>1, ConstantsAssumption DEF NetworksInv
  <2>5. joined'[n].aliases \ {number'} = joined[n].aliases \ {number}
    BY <2>1, <2>2, <2>3, <2>4
  <2> QED BY <1>5, <2>1, <2>2, <2>5 DEF SameOn
<1> QED BY <1>3, <1>4, <1>5

LEMMA NetworksKept == NetworksInv /\ [Next]_vars => NetworksInv'
<1> SUFFICES ASSUME NetworksInv, [Next]_vars PROVE NetworksInv'
  OBVIOUS
<1>1. ASSUME NEW release, NEW shown, Replace(release, shown) PROVE NetworksInv'
  <2> DEFINE made == Created(asked.network, ToJoin(asked.network, joined, number))
  <2>1. joined' = Joined(made, number') /\ number' \in Nat /\ asked' = asked
    BY <1>1 DEF Replace, NetworksInv
  <2>2. made \in [Networks -> Endpoints \cup {None}]
    BY CreatedIs
  <2>3. /\ joined' \in [Networks -> Attachments \cup {None}]
        /\ \A n \in Networks : joined'[n] # None => joined'[n].aliases \subseteq Names \cup {number'}
    BY <2>1, <2>2, JoinedIs
  <2>4. asked.network = HostNetwork => \A n \in Networks : joined'[n] = None
    BY <1>1, NetworksCarried DEF NetworksInv, CutOff, SameOn
  <2> QED BY <2>1, <2>3, <2>4 DEF NetworksInv
<1>2. CASE Rewire
  <2>1. PICK a \in Asks : joined' = Joined(a.joins, number)
    BY <1>2 DEF Rewire
  <2>2. a.joins \in [Networks -> Endpoints \cup {None}]
    BY ConstantTypes
  <2>3. asked' = asked /\ number' = number /\ asked.network # HostNetwork
    BY <1>2 DEF Rewire
  <2> QED BY <2>1, <2>2, <2>3, JoinedIs DEF NetworksInv
<1>3. CASE UNCHANGED vars
  BY <1>3 DEF vars, NetworksInv
<1> QED BY <1>1, <1>2, <1>3 DEF Next

LEMMA NetworksStep ==
    ASSUME NetworksInv, [Next]_vars, number' # number, NEW n \in Networks
    PROVE  SameOn(n)
<1>1. ~Rewire /\ ~UNCHANGED vars
  BY DEF Rewire, vars
<1>2. PICK release \in Images, shown \in {image, Gone} : Replace(release, shown)
  BY <1>1 DEF Next
<1> QED BY <1>2, NetworksCarried

\* On whatever networks the container was when it was replaced, however often that
\* happens and whatever was connected in between: its successor is on the same or,
\* when it was on none, on the one its HostConfig names (endpoint_settings).
THEOREM SameNetworks == Spec => NetworksStay
<1>1. NetworksInv /\ [Next]_vars => [number' # number => \A n \in Networks : SameOn(n)]_vars
  BY NetworksStep
<1>2. [number' # number => \A n \in Networks : SameOn(n)]_vars
      => [number' # number =>
            \A n \in Networks :
              IF CutOff
              THEN joined'[n] = IF n = asked.network THEN [address |-> None, aliases |-> {number'}] ELSE None
              ELSE /\ joined'[n] = None <=> joined[n] = None
                   /\ joined[n] # None => /\ joined'[n].address = joined[n].address
                                          /\ joined'[n].aliases \ {number'} = joined[n].aliases \ {number}]_vars
  BY DEF SameOn
<1> QED BY <1>1, <1>2, NetworksStart, NetworksKept, PTL DEF Spec, NetworksStay

=============================================================================
