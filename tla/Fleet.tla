-------------------------------- MODULE Fleet --------------------------------
(***************************************************************************)
(* The instances Restruo manages, app/instances.py: their records in a     *)
(* file and in memory (InstanceStore), a client for each (ClientManager),  *)
(* the routes that change them and the requests that hold a client while   *)
(* they work.  A route saves, publishes and refreshes without an await in  *)
(* between, so it is one step, unless the write fails or the process dies. *)
(*                                                                         *)
(* The form is everything of a record but its id.  Which forms are         *)
(* rejected is left out: a rejected one changes nothing.                   *)
(***************************************************************************)
EXTENDS Naturals, SequencesExt

CONSTANTS Forms, Requests,
          NoFile, NoClient,
          Files,          \* what the file may hold when it is first read
          Imported,       \* the forms of the instances in config.yaml
          MaxId,          \* bound: ids given out
          MaxMade,        \* bound: clients made for an id in a process
          MaxTrouble,     \* bound: failed writes and crashes
          RetireAfter,    \* RETIRE_AFTER_SECONDS, in ticks
          JobLimit        \* the ticks the longest job takes

Ids == 1 .. MaxId
Records == [id : Ids, form : Forms]
Contents == [next : 1 .. MaxId + 1, records : Seq(Records)]
IdsIn(records) == {r.id : r \in ToSet(records)}
Distinct(records) == \A j, k \in DOMAIN records : records[j].id = records[k].id => j = k

ASSUME ConstantsAssumption ==
    /\ MaxId \in Nat /\ MaxMade \in Nat \ {0} /\ MaxTrouble \in Nat /\ RetireAfter \in Nat /\ JobLimit \in Nat
    /\ Imported \in Seq(Forms) /\ Len(Imported) <= MaxId
    /\ Files \subseteq Contents /\ \A file \in Files : Distinct(file.records)
    /\ NoFile \notin Contents

VARIABLES disk,       \* the file: [next, records], or NoFile
          up,         \* the process runs
          store,      \* _next and _records
          clients,    \* _clients
          made,       \* how many clients were made for an id since the process started
          retiring,   \* clients in _close_later, and for how long
          closed,     \* clients that are closed
          holds,      \* the client a request works on
          age,        \* for how long it has held it
          given,      \* history: ids that were ever handed out
          trouble

process == <<store, clients, made, retiring, closed, holds, age>>
vars == <<disk, up, process, given, trouble>>

\* A client is of a record; there may be several of a kind one after another.
Clients == [id : Ids, form : Forms, no : 1 .. MaxMade]

Nothing == [next |-> 1, records |-> <<>>]

\* The next id is above all there are: an older file knew no nextId.
Load(file) == IF file = NoFile THEN Nothing
              ELSE [next |-> Max({file.next} \cup {i + 1 : i \in IdsIn(file.records)}), records |-> file.records]

Idle == [r \in Requests |-> NoClient]
NoTime == [r \in Requests |-> 0]
NoneMade == [i \in Ids |-> 0]

Init ==
    /\ disk \in Files \cup {NoFile}
    /\ up = FALSE /\ store = Nothing
    /\ clients = {} /\ made = NoneMade /\ retiring = {} /\ closed = {} /\ holds = Idle /\ age = NoTime
    /\ given = IF disk = NoFile THEN {} ELSE {i \in Ids : i < Load(disk).next}
    /\ trouble = 0

-----------------------------------------------------------------------------
(* ClientManager.                                                          *)

\* Variant: an edit of one instance throws away all clients.
Fits_Never(c, r) == FALSE
Fits(c, r) == c.id = r.id /\ c.form = r.form

Fresh(r) == [id |-> r.id, form |-> r.form, no |-> made[r.id] + 1]

\* Variant: the client of a deleted instance is just forgotten.
Replaced_IfThere == {c \in clients \ clients' : \E d \in clients' : d.id = c.id}
Replaced == clients \ clients'

\* Clients whose record has not changed stay; the others are retired.
Refresh(records) ==
    /\ clients' = UNION {IF \E c \in clients : Fits(c, r) THEN {c \in clients : Fits(c, r)} ELSE {Fresh(r)}
                         : r \in ToSet(records)}
    /\ made' = [i \in Ids |-> IF \E c \in clients' \ clients : c.id = i THEN made[i] + 1 ELSE made[i]]
    /\ retiring' = retiring \cup {[client |-> c, ticks |-> 0] : c \in Replaced}

Ripe(x) == x.ticks >= RetireAfter

\* _close_later
Close(x) ==
    /\ x \in retiring /\ Ripe(x)
    /\ retiring' = retiring \ {x} /\ closed' = closed \cup {x.client}
    /\ UNCHANGED <<disk, up, store, clients, made, holds, age, given, trouble>>

-----------------------------------------------------------------------------
(* InstanceStore.                                                          *)

Trouble == trouble < MaxTrouble /\ trouble' = trouble + 1

\* The process ends: what was in its memory is gone, and so is who held what.
Gone ==
    /\ up' = FALSE /\ store' = Nothing
    /\ clients' = {} /\ made' = NoneMade /\ retiring' = {} /\ closed' = {} /\ holds' = Idle /\ age' = NoTime

\* Variant: published first, and then persisted.
Unsaved_Published(s) == disk' = disk /\ store' = s
Unsaved(s) == disk' = disk /\ store' = store

Written(s) == disk' = s /\ given' = given \cup IdsIn(s.records)

\* A route that leaves s, with what it does once s is saved.  The write may fail,
\* and the process may die when the file is in place and nothing else is done.
Persist(s, afterwards) ==
    /\ up
    /\ \/ Written(s) /\ store' = s /\ afterwards
          /\ UNCHANGED <<up, closed, holds, age, trouble>>
       \/ Trouble /\ Unsaved(s) /\ UNCHANGED <<up, clients, made, retiring, closed, holds, age, given>>
       \/ Trouble /\ Written(s) /\ Gone

Record(i, f) == [id |-> i, form |-> f]
With(records) == [next |-> store.next, records |-> records]

AfterAdd(f) == [next |-> store.next + 1, records |-> Append(store.records, Record(store.next, f))]

Add(f) == store.next <= MaxId /\ Persist(AfterAdd(f), Refresh(AfterAdd(f).records))

AfterEdit(k, f) == With([store.records EXCEPT ![k] = Record(store.records[k].id, f)])

Edit(k, f) ==
    /\ k \in DOMAIN store.records
    /\ made[store.records[k].id] < MaxMade
    /\ Persist(AfterEdit(k, f), Refresh(AfterEdit(k, f).records))

AfterMove(k) ==
    With([store.records EXCEPT ![k] = store.records[k + 1], ![k + 1] = store.records[k]])

\* One is moved down or the next one up; the clients stay as they are.
Move(k) ==
    /\ k \in DOMAIN store.records /\ k + 1 \in DOMAIN store.records
    /\ Persist(AfterMove(k), UNCHANGED <<clients, made, retiring>>)

\* Variant: the last id becomes free again.
AfterDelete_Reused(k) ==
    [next |-> IF store.records[k].id + 1 = store.next THEN store.next - 1 ELSE store.next,
     records |-> RemoveAt(store.records, k)]
AfterDelete(k) == With(RemoveAt(store.records, k))

Delete(k) ==
    /\ k \in DOMAIN store.records
    /\ Persist(AfterDelete(k), Refresh(AfterDelete(k).records))

\* seed: the instances of config.yaml, where there is no file.
Seeding == disk = NoFile /\ Imported # <<>>
Seed == [next |-> Len(Imported) + 1,
         records |-> [k \in DOMAIN Imported |-> Record(k, Imported[k])]]

\* lifespan; the process may die, or never come up, once the seed is written.
Boot ==
    /\ ~up
    /\ \/ /\ up' = TRUE /\ UNCHANGED trouble
          /\ IF Seeding THEN Written(Seed) /\ store' = Seed
             ELSE store' = Load(disk) /\ UNCHANGED <<disk, given>>
          /\ Refresh(store'.records)
          /\ UNCHANGED <<closed, holds, age>>
       \/ Seeding /\ Trouble /\ Written(Seed) /\ UNCHANGED <<up, process>>

Crash == up /\ Trouble /\ Gone /\ UNCHANGED <<disk, given>>

-----------------------------------------------------------------------------
(* Requests that work on an instance.                                      *)

\* _get_client: the request keeps it until it is done.
Begin(r) ==
    /\ up /\ holds[r] = NoClient
    /\ \E c \in clients : holds' = [holds EXCEPT ![r] = c]
    /\ age' = [age EXCEPT ![r] = 0]
    /\ UNCHANGED <<disk, up, store, clients, made, retiring, closed, given, trouble>>

Finish(r) ==
    /\ holds[r] # NoClient
    /\ holds' = [holds EXCEPT ![r] = NoClient] /\ age' = [age EXCEPT ![r] = 0]
    /\ UNCHANGED <<disk, up, store, clients, made, retiring, closed, given, trouble>>

Busy == {r \in Requests : holds[r] # NoClient}

\* Time passes for requests and retired clients; what is due happens first.
Tick ==
    /\ Busy # {} \/ retiring # {}
    /\ \A r \in Busy : age[r] < JobLimit
    /\ \A x \in retiring : ~Ripe(x)
    /\ age' = [r \in Requests |-> IF r \in Busy THEN age[r] + 1 ELSE 0]
    /\ retiring' = {[client |-> x.client, ticks |-> x.ticks + 1] : x \in retiring}
    /\ UNCHANGED <<disk, up, store, clients, made, closed, holds, given, trouble>>

Change ==
    \/ \E f \in Forms : Add(f)
    \/ \E k \in DOMAIN store.records : Move(k) \/ Delete(k) \/ \E f \in Forms : Edit(k, f)

Next ==
    \/ Boot \/ Crash \/ Change \/ Tick
    \/ \E x \in retiring : Close(x)
    \/ \E r \in Requests : Begin(r) \/ Finish(r)

Spec == Init /\ [][Next]_vars

\* Timers run off, and a request ends by its deadlines.
FairSpec ==
    /\ Spec /\ WF_vars(Tick) /\ WF_vars(\E x \in retiring : Close(x))
    /\ \A r \in Requests : WF_vars(Finish(r) /\ age[r] >= JobLimit)

-----------------------------------------------------------------------------
\* Every variable stays within its type.
TypeOK ==
    /\ disk # NoFile => disk \in Contents
    /\ up \in BOOLEAN
    /\ store \in Contents /\ Distinct(store.records)
    /\ clients \subseteq Clients /\ made \in [Ids -> 0 .. MaxMade] /\ closed \subseteq Clients
    /\ \A x \in retiring : x.client \in Clients /\ x.ticks \in 0 .. RetireAfter
    /\ holds \in [Requests -> Clients \cup {NoClient}] /\ age \in [Requests -> 0 .. JobLimit]
    /\ given \subseteq Ids /\ trouble \in 0 .. MaxTrouble

\* Memory, disk and the running clients agree, whatever writes have failed: every
\* record has one client, of that very record (the docstring of _save).
Agreement ==
    up => /\ store = Load(disk)
          /\ {[id |-> c.id, form |-> c.form] : c \in clients} = ToSet(store.records)
          /\ \A c, d \in clients : c.id = d.id => c = d

\* A client is closed under a request only after the request has held it for
\* longer than a retired client is kept.
NotClosedEarly == \A r \in Busy : holds[r] \in closed => age[r] >= RetireAfter

\* A change of one instance leaves the clients of the others alone, with the
\* sessions they hold.
SessionsKept ==
    [][up /\ up' => \A c \in clients : (\E r \in ToSet(store'.records) : r.id = c.id /\ r.form = c.form)
                                       => c \in clients']_vars

\* Every client that is no longer in use is closed some time, that of a deleted
\* instance as well.
RetiredAreClosed ==
    \A i \in Ids, n \in 1 .. MaxMade :
      n <= made[i] /\ (\A c \in clients : <<c.id, c.no>> # <<i, n>>)
        ~> (\E c \in closed : <<c.id, c.no>> = <<i, n>>) \/ ~up

Shown == IF up THEN store.records ELSE Load(disk).records

\* The store keeps the promise of the registry through failed writes and crashes:
\* what was shown stays, and no id is given out twice.
Kept == INSTANCE Registry WITH instances <- ToSet(Shown), used <- given

ImplementsRegistry == Kept!RegistrySpec

=============================================================================
