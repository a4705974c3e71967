------------------------------ MODULE MCRecreate ------------------------------
(* Three releases; everything that can be asked for in settings, and in mounts, *)
(* and on networks, one of the three at a time.                                  *)
EXTENDS Recreate, TLC

CONSTANTS Label, x, y, data, logs, disk, lan, web, fixed, nick

Release(entry, command, label, vols) ==
    [brings |-> Entrypoint :> entry @@ Cmd :> command @@ Label :> label, volumes |-> vols]

MCSettings == {Entrypoint, Cmd, Label}
MCImages == {Release(x, x, None, {data}), Release(x, y, x, {data, logs}), Release(None, y, y, {})}

Plain == [settings |-> [s \in MCSettings |-> None], volumes |-> {}, mounts |-> [p \in Paths |-> None],
          hostname |-> None, network |-> lan, joins |-> [n \in Networks |-> [address |-> None, aliases |-> {}]]]

Settled == {[Plain EXCEPT !.settings = s, !.hostname = h] : s \in [MCSettings -> Values \cup {None}], h \in {None, nick}}

Mounting(ways) == {[Plain EXCEPT !.mounts = w, !.volumes = v] : w \in [Paths -> ways], v \in SUBSET Paths}

MCEndpoints == [address : {None, fixed}, aliases : SUBSET {nick}] \cup {None}
Wired == {[Plain EXCEPT !.joins = j] : j \in [Networks -> MCEndpoints]}
         \cup {[Plain EXCEPT !.joins = [n \in Networks |-> None], !.network = HostNetwork]}

MCAsks == Settled \cup Mounting({None, disk}) \cup Wired
\* HostConfig may also ask for a volume that it does not name.
MCAsksUnnamed == Mounting({None, disk, Unnamed})

=============================================================================
