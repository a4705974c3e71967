------------------------------ MODULE Recreate ------------------------------
(***************************************************************************)
(* What the update helper makes a new container from: build_create_body    *)
(* of app/helper.py, applied release after release.  The old container     *)
(* shows what it was asked for and what its image brought all in one, and  *)
(* the part that was asked for has to be told from the rest again.  The    *)
(* steps of a replacement, and how they fail, are in Helper: here one that *)
(* succeeds is one step.                                                   *)
(*                                                                         *)
(* A setting is a scalar of Config (Cmd, User, ...), a key of one of its   *)
(* maps (a label, a port) or a variable of its environment: the code       *)
(* treats all of them alike.                                               *)
(***************************************************************************)
EXTENDS Naturals

CONSTANTS Settings, Values,
          Entrypoint, Cmd,   \* the settings that the Engine treats in a way of its own
          Paths,             \* where something can be mounted in the container
          Sources,           \* volumes and directories somebody has named, with their mode
          Networks, HostNetwork,
          Addresses, Names,  \* fixed addresses; names a person gives
          None,              \* not set, not mounted, not joined
          Unnamed,           \* HostConfig asks for a volume and names none
          Images,            \* releases: what each brings, and its VOLUME lines
          Asks,              \* what a container may be asked for
          MaxReplaced        \* bound: replacements of a container

\* What is asked of a network, and what a container on it shows.
Endpoints == [address : Addresses \cup {None}, aliases : SUBSET Names]
Attachments == [address : Addresses \cup {None}, aliases : SUBSET (Names \cup Nat)]

ASSUME ConstantsAssumption ==
    /\ {Entrypoint, Cmd} \subseteq Settings /\ Entrypoint # Cmd
    /\ None \notin Values \cup Sources \cup Addresses \cup Names \cup Attachments
    /\ Unnamed \notin Sources \cup {None}
    /\ {None, Unnamed} \cap (Nat \X Paths) = {}
    /\ HostNetwork \notin Networks
    /\ (Names \cup {None}) \cap Nat = {}
    /\ MaxReplaced \in Nat
    /\ Images \subseteq [brings : [Settings -> Values \cup {None}], volumes : SUBSET Paths]
    /\ Asks \subseteq [settings : [Settings -> Values \cup {None}], volumes : SUBSET Paths,
                       mounts : [Paths -> Sources \cup {Unnamed, None}],
                       hostname : Names \cup {None},
                       network : Networks \cup {HostNetwork},
                       joins : [Networks -> Endpoints \cup {None}]]

VARIABLES asked,      \* what a person asked for when the first one was created
          number,     \* the container's id: replacements so far
          image,      \* the release it was created from
          config,     \* Config, as inspected: asked for and inherited in one
          volumes,    \* Config.Volumes
          mounts,     \* HostConfig.Binds and Mounts
          mounted,    \* Mounts: what is really there
          hostname,   \* Config.Hostname
          joined,     \* NetworkSettings.Networks
          taken,      \* history: the settings that counted as asked for, last read whole
          had         \* history: what the releases since then have brought

vars == <<asked, number, image, config, volumes, mounts, mounted, hostname, joined, taken, had>>

-----------------------------------------------------------------------------
(* The Engine.                                                             *)

\* What a container gets that asks for own; who brings an entrypoint does
\* without the image's command.
Merged(own, release) ==
    [s \in Settings |-> IF own[s] # None THEN own[s]
                        ELSE IF s = Cmd /\ own[Entrypoint] # None THEN None
                        ELSE release.brings[s]]

\* A volume that nobody has named is a new one.
Fresh(p, id) == <<id, p>>

Mounted(ask, vols, id) ==
    [p \in Paths |-> IF ask[p] \notin {Unnamed, None} THEN ask[p]
                     ELSE IF ask[p] = Unnamed \/ p \in vols THEN Fresh(p, id)
                     ELSE None]

\* The names of a container on a network include its id.
Joined(endpoints, id) ==
    [n \in Networks |-> IF endpoints[n] = None THEN None
                        ELSE [address |-> endpoints[n].address, aliases |-> endpoints[n].aliases \cup {id}]]

\* A container that names no network to join is put on the one that its HostConfig
\* names as its NetworkMode, by its id alone.
Created(network, endpoints) ==
    [n \in Networks |-> IF n = network /\ \A m \in Networks : endpoints[m] = None
                        THEN [address |-> None, aliases |-> {}]
                        ELSE endpoints[n]]

Hostname(name, id) == IF name = None THEN id ELSE name

-----------------------------------------------------------------------------
(* build_create_body.                                                      *)

\* What the old image is taken for when it cannot be inspected.
Gone == [brings |-> [s \in Settings |-> None], volumes |-> {}]

\* Variant: Config is copied as it stands.
AskedFor_Everything(own, release) == own
\* inherited_config: what the old image brought is not asked for.
AskedFor(own, release) == [s \in Settings |-> IF own[s] = release.brings[s] THEN None ELSE own[s]]

AskedVolumes(vols, release) == vols \ release.volumes

\* Variant: the replacement is created from HostConfig alone.
Carried_HostConfig(ask, there) == ask
\* mounts_to_carry: what is mounted and HostConfig does not provide for is named.
Carried(ask, there) == [p \in Paths |-> IF ask[p] = None THEN there[p] ELSE ask[p]]

\* Variant: all aliases are configured ones.
EndpointSettings_Aliases(e, id) == e
\* endpoint_settings
EndpointSettings(e, id) == [address |-> e.address, aliases |-> e.aliases \ {id}]

\* On the host's network, or another container's, there is nothing to join.  Else
\* one network is joined at creation and the rest before the start.
ToJoin(network, endpoints, id) ==
    [n \in Networks |-> IF network = HostNetwork \/ endpoints[n] = None THEN None
                        ELSE EndpointSettings(endpoints[n], id)]

AskedName(name, id) == IF name = id THEN None ELSE name

-----------------------------------------------------------------------------
Init ==
    /\ asked \in Asks /\ image \in Images
    /\ asked.network = HostNetwork => \A n \in Networks : asked.joins[n] = None
    /\ number = 0
    /\ config = Merged(asked.settings, image)
    /\ volumes = asked.volumes \cup image.volumes
    /\ mounts = asked.mounts
    /\ mounted = Mounted(mounts, volumes, number)
    /\ hostname = Hostname(asked.hostname, number)
    /\ joined = Joined(Created(asked.network, asked.joins), number)
    /\ taken = asked.settings
    /\ had = [s \in Settings |-> {}]

\* A newer release has been pulled; the old container makes room for one created
\* from what was read of it, and of its image, shown: the image or, when that
\* cannot be inspected any more, nothing, and Config is copied as it stands.
Replace(release, shown) ==
    /\ number < MaxReplaced /\ release # image
    /\ number' = number + 1 /\ image' = release
    /\ config' = Merged(AskedFor(config, shown), release)
    /\ volumes' = AskedVolumes(volumes, shown) \cup release.volumes
    /\ mounts' = Carried(mounts, mounted)
    /\ mounted' = Mounted(mounts', volumes', number')
    /\ hostname' = Hostname(AskedName(hostname, number), number')
    /\ joined' = Joined(Created(asked.network, ToJoin(asked.network, joined, number)), number')
    /\ IF shown = Gone THEN taken' = config /\ had' = [s \in Settings |-> {}]
       ELSE taken' = taken /\ had' = [s \in Settings |-> had[s] \cup {image.brings[s]}]
    /\ UNCHANGED asked

\* Somebody connects the container to networks, or disconnects it, as it runs.
Rewire ==
    /\ asked.network # HostNetwork
    /\ \E joins \in {a.joins : a \in Asks} : joined' = Joined(joins, number)
    /\ UNCHANGED <<asked, number, image, config, volumes, mounts, mounted, hostname, taken, had>>

Next == Rewire \/ \E release \in Images, shown \in {image, Gone} : Replace(release, shown)

Spec == Init /\ [][Next]_vars

-----------------------------------------------------------------------------
\* Every variable stays within its type.
TypeOK ==
    /\ asked \in Asks /\ image \in Images /\ number \in 0 .. MaxReplaced
    /\ config \in [Settings -> Values \cup {None}]
    /\ volumes \subseteq Paths
    /\ mounts \in [Paths -> Sources \cup {Unnamed, None} \cup (Nat \X Paths)]
    /\ mounted \in [Paths -> Sources \cup {None} \cup (Nat \X Paths)]
    /\ hostname \in Names \cup (0 .. MaxReplaced)
    /\ joined \in [Networks -> Attachments \cup {None}]
    /\ taken \in [Settings -> Values \cup {None}]
    /\ had \in [Settings -> SUBSET (Values \cup {None})]

\* What counted as asked for, save what some release since then brought as well:
\* that can no longer be told from what was inherited.
StillAsked == [s \in Settings |-> IF taken[s] \in had[s] THEN None ELSE taken[s]]

\* What a container may have got from some release.
Inheritable(s) == {None} \cup {release.brings[s] : release \in Images}

\* After any number of replacements the container is configured as if it had just
\* been created by hand from the release it runs: nothing of an older release is
\* pinned, nothing asked for is lost, and its name is its own (inherited_config).
\* A replacement that could not inspect the old image is where "asked for" starts
\* anew, with all that the container showed then ("copy the config as it stands");
\* what no release brings is kept through that as well.
AsAsked ==
    /\ config = Merged(StillAsked, image)
    /\ \A s \in Settings : asked.settings[s] \notin Inheritable(s) => config[s] = asked.settings[s]
    /\ hostname = Hostname(asked.hostname, number)

\* Every setting is one that was asked for or comes from the release that runs:
\* "leaving out anything the old container merely inherited from its image"
\* (README).  The code does not keep it when the old image is gone.
NothingPinned == \A s \in Settings : config[s] \in {asked.settings[s], image.brings[s], None}

\* Whatever is mounted stays mounted, at the same place, through every
\* replacement: also what the image alone asked for, and does not any more
\* (mounts_to_carry).
DataStays == [][\A p \in Paths : mounted[p] # None => mounted'[p] = mounted[p]]_vars

\* Disconnected from every network, and not by having the host's.
CutOff == asked.network # HostNetwork /\ \A n \in Networks : joined[n] = None

\* A replacement is on the same networks, with the same fixed addresses, under the
\* same names, and under none of the old container's (endpoint_settings); one that
\* was disconnected from all of them is back on the network its HostConfig names,
\* and on no other, under its own id.
NetworksStay ==
    [][number' # number =>
         \A n \in Networks :
           IF CutOff
           THEN joined'[n] = IF n = asked.network THEN [address |-> None, aliases |-> {number'}] ELSE None
           ELSE /\ joined'[n] = None <=> joined[n] = None
                /\ joined[n] # None => /\ joined'[n].address = joined[n].address
                                       /\ joined'[n].aliases \ {number'} = joined[n].aliases \ {number}]_vars

=============================================================================
