----------------------------- MODULE Operations -----------------------------
(***************************************************************************)
(* The operations of app/main.py that change something on a host: start,   *)
(* stop and update of a stack or a container, and the clean-up of an       *)
(* instance.  A handler first looks (fetches the stack or the container    *)
(* and what it runs), then refuses or runs its work under the key of its   *)
(* target: start, stop and prune inside the handler, an update in a job    *)
(* of its own that may outlive the HTTP request.                           *)
(*                                                                         *)
(* Everything runs in one asyncio event loop, so what happens between two  *)
(* awaits is one step.  The host (Portainer and the Docker daemon behind   *)
(* it) works on its own and does not stop when Restruo stops watching.     *)
(***************************************************************************)
EXTENDS Exclusion, Naturals

CONSTANTS Requests,     \* HTTP requests, each arriving at most once
          NoKey,        \* a request that has no key yet
          NoCall,       \* a request that has not arrived
          Runs,         \* Runs[t]: what the containers of target t are images of
          Moved,        \* Moved[t]: those of Runs[t] whose tag was pulled again elsewhere
          Retention,    \* JOB_RETENTION_SECONDS, in ticks
          JobLimit,     \* the ticks the longest job takes
          MaxRestarts   \* bound: restarts of the process

Roles == {"plain", "restruo", "agent", "portainer"}

ASSUME ConstantsAssumption ==
    /\ NoKey \notin Keys
    /\ Runs \in [Targets -> SUBSET Roles]
    /\ \A t \in Targets : t.on = "container" => \E role \in Roles : Runs[t] = {role}
    /\ Moved \in [Targets -> SUBSET Roles]
    /\ \A t \in Targets : Moved[t] \subseteq Runs[t]
    /\ Retention \in Nat /\ JobLimit \in Nat /\ MaxRestarts \in Nat

\* A clean-up is of an instance as a whole.
Whole(i) == [on |-> "instance", iid |-> i]

Calls == [verb : {"start", "stop", "update"}, at : Targets]
         \cup [verb : {"prune"}, at : {Whole(i) : i \in Instances}]

VARIABLES stage,      \* where the handler (or its job) of a request is
          call,       \* what the request asks for
          key,        \* the key it runs under, once decided
          inFlight,   \* app.state.in_flight
          host,       \* the work on the host: not begun, going on, over
          jobs,       \* app.state.jobs: the requests whose job is kept
          outcome,    \* job["result"], and job["done"] when it is not "none"
          age,        \* ticks since job["started"]
          reply,      \* what the client knows so far
          cleared,    \* targets whose badge mark_updated took away
          restarts,
          hidden      \* history: what of its target the guard of a request could not see

vars == <<stage, call, key, inFlight, host, jobs, outcome, age, reply, cleared, restarts, hidden>>

Stages == {"idle", "guarding", "spawned", "working", "ended"}
Outcomes == {"none", "ok", "failed"}
Replies == {"none", "refused", "conflict", "ok", "failed", "accepted", "gone", "lost"}

Working == {r \in Requests : stage[r] = "working"}
Commanded == {r \in Requests : host[r] # "idle"}
Updates(r) == call[r].verb = "update"
Done(r) == outcome[r] # "none"

Init ==
    /\ stage = [r \in Requests |-> "idle"]
    /\ call = [r \in Requests |-> NoCall]
    /\ key = [r \in Requests |-> NoKey]
    /\ inFlight = {}
    /\ host = [r \in Requests |-> "idle"]
    /\ jobs = {}
    /\ outcome = [r \in Requests |-> "none"]
    /\ age = [r \in Requests |-> 0]
    /\ reply = [r \in Requests |-> "none"]
    /\ cleared = {}
    /\ restarts = 0
    /\ hidden = [r \in Requests |-> {}]

-----------------------------------------------------------------------------
(* What a handler looks at before it acts.                                 *)

\* start and clean-up ask nothing about what runs.
Guarded(c) == c.verb \in {"stop", "update"}

\* What the two calls behind a bare digest tell: the configuration of the
\* container, then the tags of its image; either call may fail.
Looks(c) ==
    IF Guarded(c) THEN [inspect : SUBSET Moved[c.at], image : SUBSET Moved[c.at]]
    ELSE {[inspect |-> {}, image |-> {}]}

\* Variant: the image is not asked when the container does not tell.
Seen_InspectOnly(t, look) == (Runs[t] \ Moved[t]) \cup look.inspect

\* resolve_image_name: a container whose tag has moved is listed with a bare
\* digest, which is all there is of it when neither call tells.
Seen(t, look) == (Runs[t] \ Moved[t]) \cup look.inspect \cup look.image

Hidden(c, look) == IF Guarded(c) THEN Moved[c.at] \ (look.inspect \cup look.image) ELSE {}

CannotRecreate(images) == images \cap {"portainer", "agent"} # {}
SelfCritical(images) == images \cap {"portainer", "agent", "restruo"} # {}

\* The guard of each handler; an update of a container is never denied, it is
\* handed to the helper instead.
Denied(c, images) ==
    \/ c.verb = "stop" /\ SelfCritical(images)
    \/ c.verb = "update" /\ c.at.on = "stack" /\ CannotRecreate(images)

\* Variant: the helper's replacement runs under the key of an ordinary container.
KeyOf_NoHelperKinds(c, images) ==
    IF c.verb = "prune" THEN PruneKey(c.at.iid) ELSE TargetKey(c.at.on, c.at)

KeyOf(c, images) ==
    IF c.verb = "prune" THEN PruneKey(c.at.iid)
    ELSE IF c.verb = "update" /\ c.at.on = "container" /\ CannotRecreate(images)
         THEN TargetKey(IF "portainer" \in images THEN "portainer" ELSE "agent", c.at)
         ELSE TargetKey(c.at.on, c.at)

Images(c, look) == IF Guarded(c) THEN Seen(c.at, look) ELSE {}

\* Variant: only an equal key blocks.
Blocked_SameOnly(k) == k \in inFlight

Blocked(k) == \E held \in inFlight : Conflicts(k, held)

\* Variant: a job as old as the retention has expired already.
Expired_Early == {r \in jobs : Done(r) /\ age[r] >= Retention}

\* _prune_jobs: done, and started longer ago than the retention.
Expired == {r \in jobs : Done(r) /\ age[r] > Retention}

-----------------------------------------------------------------------------
Receive(r) ==
    /\ stage[r] = "idle"
    /\ \E c \in Calls : call' = [call EXCEPT ![r] = c]
    /\ stage' = [stage EXCEPT ![r] = "guarding"]
    /\ UNCHANGED <<key, inFlight, host, jobs, outcome, age, reply, cleared, restarts, hidden>>

\* The handler answers without having taken a lock.
TurnAway(r, answer) ==
    /\ stage' = [stage EXCEPT ![r] = "ended"]
    /\ reply' = [reply EXCEPT ![r] = answer]
    /\ UNCHANGED <<call, key, inFlight, host, jobs, outcome, age, cleared, restarts, hidden>>

\* The stack, the container or the listing could not be read: 404 or 502.
LookupFails(r) == stage[r] = "guarding" /\ TurnAway(r, "refused")

GuardDenies(r) ==
    /\ stage[r] = "guarding"
    /\ \E look \in Looks(call[r]) : Denied(call[r], Images(call[r], look))
    /\ TurnAway(r, "refused")

\* Both _exclusive and the check at the head of _run_job: 409.
FindsConflict(r) ==
    /\ stage[r] = "guarding"
    /\ \E look \in Looks(call[r]) :
         LET images == Images(call[r], look) IN
         ~Denied(call[r], images) /\ Blocked(KeyOf(call[r], images))
    /\ TurnAway(r, "conflict")

\* A look after which nothing stands in the way.
LetThrough(r, look) ==
    LET images == Images(call[r], look)
        k == KeyOf(call[r], images) IN
    /\ ~Denied(call[r], images)
    /\ ~Blocked(k)
    /\ key' = [key EXCEPT ![r] = k]
    /\ hidden' = [hidden EXCEPT ![r] = Hidden(call[r], look)]

\* start, stop and prune enter _exclusive right after their last look.
EnterDirectly(r) ==
    /\ stage[r] = "guarding"
    /\ ~Updates(r)
    /\ \E look \in Looks(call[r]) : LetThrough(r, look)
    /\ inFlight' = inFlight \cup {key'[r]}
    /\ stage' = [stage EXCEPT ![r] = "working"]
    /\ UNCHANGED <<call, host, jobs, outcome, age, reply, cleared, restarts>>

\* _run_job: the job is entered and its task created; the task runs later.
SpawnJob(r) ==
    /\ stage[r] = "guarding"
    /\ Updates(r)
    /\ \E look \in Looks(call[r]) : LetThrough(r, look)
    /\ stage' = [stage EXCEPT ![r] = "spawned"]
    /\ jobs' = (jobs \ Expired) \cup {r}
    /\ UNCHANGED <<call, inFlight, host, outcome, age, reply, cleared, restarts>>

\* Variant: the check at the head of _run_job is the only one.
RunnerRefused_Never(r) == FALSE

RunnerRefused(r) == Blocked(key[r])

\* Variant: a refused runner never marks its job done.
NoteRefusal_Lost(r) == UNCHANGED outcome

\* The 409 that _exclusive raises inside the job becomes its result.
NoteRefusal(r) == outcome' = [outcome EXCEPT ![r] = "failed"]

\* runner() enters _exclusive, which looks at the keys in flight once more.
RunnerEnters(r) ==
    /\ stage[r] = "spawned"
    /\ IF RunnerRefused(r)
       THEN /\ NoteRefusal(r)
            /\ stage' = [stage EXCEPT ![r] = "ended"]
            /\ UNCHANGED inFlight
       ELSE /\ inFlight' = inFlight \cup {key[r]}
            /\ stage' = [stage EXCEPT ![r] = "working"]
            /\ UNCHANGED outcome
    /\ UNCHANGED <<call, key, host, jobs, age, reply, cleared, restarts, hidden>>

\* The command reaches the host, which begins to carry it out.
Dispatch(r) ==
    /\ stage[r] = "working"
    /\ host[r] = "idle"
    /\ host' = [host EXCEPT ![r] = "running"]
    /\ UNCHANGED <<stage, call, key, inFlight, jobs, outcome, age, reply, cleared, restarts, hidden>>

HostFinishes(r) ==
    /\ host[r] = "running"
    /\ host' = [host EXCEPT ![r] = "finished"]
    /\ UNCHANGED <<stage, call, key, inFlight, jobs, outcome, age, reply, cleared, restarts, hidden>>

(***************************************************************************)
(* The work is reported to have gone well: the host is done with it, or,   *)
(* for a redeploy, which Portainer only accepts and runs in the            *)
(* background, the containers have looked settled (module DeployWatch).    *)
(***************************************************************************)
ConfirmedOk(r) ==
    \/ host[r] = "finished"
    \/ host[r] = "running" /\ Updates(r) /\ call[r].at.on = "stack"

\* Work can fail at any time: an error answer, a timeout, a watch that gives up.
MayEnd(r, result) == result = "ok" => ConfirmedOk(r)

\* Variant: the lock is released on success only.
Unlock_OnSuccess(r, result) == inFlight' = IF result = "ok" THEN inFlight \ {key[r]} ELSE inFlight

\* The finally of _exclusive.
Unlock(r, result) == inFlight' = inFlight \ {key[r]}

\* Variant: mark_updated is called whatever the result.
ClearBadge_Always(r, result) == cleared' = IF Updates(r) THEN cleared \cup {call[r].at} ELSE cleared

\* The call of mark_updated at the end of an update.
ClearBadge(r, result) ==
    cleared' = IF Updates(r) /\ result = "ok" THEN cleared \cup {call[r].at} ELSE cleared

\* The work ends, its lock is released, and the result goes to the job of an
\* update, or straight to the client.
EndWork(r, result) ==
    /\ stage[r] = "working"
    /\ MayEnd(r, result)
    /\ Unlock(r, result)
    /\ ClearBadge(r, result)
    /\ stage' = [stage EXCEPT ![r] = "ended"]
    /\ outcome' = IF Updates(r) THEN [outcome EXCEPT ![r] = result] ELSE outcome
    /\ reply' = IF Updates(r) THEN reply ELSE [reply EXCEPT ![r] = result]
    /\ UNCHANGED <<call, key, host, jobs, age, restarts, hidden>>

-----------------------------------------------------------------------------
(* How the client of an update learns the result.                          *)

\* The job was done within JOB_SYNC_WAIT_SECONDS.
RespondInline(r) ==
    /\ reply[r] = "none" /\ Done(r)
    /\ reply' = [reply EXCEPT ![r] = outcome[r]]
    /\ UNCHANGED <<stage, call, key, inFlight, host, jobs, outcome, age, cleared, restarts, hidden>>

\* 202 with the job's id.
RespondAccepted(r) ==
    /\ reply[r] = "none" /\ ~Done(r)
    /\ stage[r] \in {"spawned", "working"} /\ Updates(r)
    /\ reply' = [reply EXCEPT ![r] = "accepted"]
    /\ UNCHANGED <<stage, call, key, inFlight, host, jobs, outcome, age, cleared, restarts, hidden>>

\* get_job: expired jobs are dropped first, then the job is looked up.
Poll(r) ==
    /\ reply[r] = "accepted"
    /\ jobs' = jobs \ Expired
    /\ reply' = [reply EXCEPT ![r] = IF r \notin jobs' THEN "gone"
                                     ELSE IF Done(r) THEN outcome[r] ELSE "accepted"]
    /\ UNCHANGED <<stage, call, key, inFlight, host, outcome, age, cleared, restarts, hidden>>

(***************************************************************************)
(* Time passes for the jobs.  A client that waits for a job asks every two *)
(* seconds, and the server answers an update within 25: neither lets a     *)
(* tick pass over a finished job.  No job runs for more than JobLimit.     *)
(***************************************************************************)
Tick ==
    /\ \E r \in jobs : age[r] <= Retention
    /\ \A r \in jobs : IF Done(r) THEN reply[r] \notin {"none", "accepted"}
                                  ELSE age[r] < JobLimit
    /\ age' = [r \in Requests |-> IF r \in jobs /\ age[r] <= Retention THEN age[r] + 1 ELSE age[r]]
    /\ UNCHANGED <<stage, call, key, inFlight, host, jobs, outcome, reply, cleared, restarts, hidden>>

\* The process dies and comes back: its memory is gone, connections are cut,
\* and the host carries on with what it was told.
Restart ==
    /\ restarts < MaxRestarts
    /\ restarts' = restarts + 1
    /\ stage' = [r \in Requests |-> IF stage[r] = "idle" THEN "idle" ELSE "ended"]
    /\ reply' = [r \in Requests |-> IF stage[r] # "idle" /\ reply[r] = "none"
                                    THEN "lost" ELSE reply[r]]
    /\ inFlight' = {}
    /\ jobs' = {}
    /\ cleared' = {}
    /\ UNCHANGED <<call, key, host, outcome, age, hidden>>

Next ==
    \/ \E r \in Requests :
         \/ Receive(r) \/ LookupFails(r) \/ GuardDenies(r) \/ FindsConflict(r)
         \/ EnterDirectly(r) \/ SpawnJob(r) \/ RunnerEnters(r)
         \/ Dispatch(r) \/ HostFinishes(r)
         \/ \E result \in {"ok", "failed"} : EndWork(r, result)
         \/ RespondInline(r) \/ RespondAccepted(r) \/ Poll(r)
    \/ Tick
    \/ Restart

Spec == Init /\ [][Next]_vars

(***************************************************************************)
(* The event loop runs every task that is ready: a handler looks, enters   *)
(* or is turned away; every watch ends by its deadline (10 s reads, 600 s  *)
(* deploys, 900 s helpers); a client goes on polling.  Nothing is assumed  *)
(* of the host.                                                            *)
(***************************************************************************)
LeaveGuard(r) == LookupFails(r) \/ GuardDenies(r) \/ FindsConflict(r) \/ EnterDirectly(r) \/ SpawnJob(r)

Fairness ==
    \A r \in Requests :
      /\ WF_vars(LeaveGuard(r))
      /\ WF_vars(RunnerEnters(r))
      /\ WF_vars(EndWork(r, "failed"))
      /\ WF_vars(RespondInline(r) \/ RespondAccepted(r))
      /\ WF_vars(Poll(r) /\ reply' # reply)

FairSpec == Spec /\ Fairness

-----------------------------------------------------------------------------
\* Every variable stays within its type; a key is set exactly from the moment
\* a request is let through.
TypeOK ==
    /\ stage \in [Requests -> Stages]
    /\ call \in [Requests -> Calls \cup {NoCall}]
    /\ key \in [Requests -> Keys \cup {NoKey}]
    /\ inFlight \subseteq Keys
    /\ host \in [Requests -> {"idle", "running", "finished"}]
    /\ jobs \subseteq Requests
    /\ outcome \in [Requests -> Outcomes]
    /\ age \in [Requests -> 0 .. Retention + 1]
    /\ reply \in [Requests -> Replies]
    /\ cleared \subseteq Targets
    /\ restarts \in 0 .. MaxRestarts
    /\ hidden \in [Requests -> SUBSET Roles]

\* The set of keys is exactly the keys of the requests at work: no key leaks
\* when work fails or a runner is refused, and none is discarded under the
\* request that still works with it (the finally of _exclusive).
LockMatchesHolders == inFlight = {key[r] : r \in Working}

\* No two requests at work hold keys that conflict, although the check of
\* _run_job and the entry of its runner are steps apart.
MutualExclusion ==
    \A r, s \in Working : r # s => ~Conflicts(key[r], key[s])

Replaces(r, role) == Updates(r) /\ call[r].at.on = "container" /\ Runs[call[r].at] = {role}

\* A replacement whose guard saw, past a moved tag, what it is about to replace.
Knowingly(r, role) == Replaces(r, role) /\ role \notin hidden[r]

\* What the docstring of _exclusive promises, said of what the targets run and
\* not of keys: while the agent of an environment is replaced nothing works on
\* that environment, and while Portainer is replaced or an instance cleaned up
\* nothing works on that instance.  A replacement whose guard could not see that
\* it replaces an agent or Portainer is the exception (resolve_image_name).
GroundHolds ==
    \A r, s \in Working :
      r # s /\ call[r].at.iid = call[s].at.iid =>
        /\ call[r].verb # "prune"
        /\ ~Knowingly(r, "portainer")
        /\ ~(Knowingly(r, "agent") /\ call[s].at.eid = call[r].at.eid)

\* What carries the connection is not stopped, nor redeployed or recreated
\* through itself; a replacement of it runs under the helper's key.
Spared(r, roles) ==
    /\ call[r].verb = "stop" => roles \subseteq {"plain"}
    /\ Updates(r) /\ roles \cap {"portainer", "agent"} # {}
          => call[r].at.on = "container" /\ key[r].kind \in {"agent", "portainer"}

\* No command that reaches the host stops, redeploys or recreates through itself
\* a carrier that the listing or either of the two calls behind a moved tag had
\* shown to its guard, even when the rest of the stack could not be seen; however
\* long the job waited, and whether Restruo was restarted since.
CarriersSpared == \A r \in Commanded : Spared(r, Runs[call[r].at] \ hidden[r])

\* "A guard that cannot look must not pass" (_stack_image_names): the code keeps it
\* for a failed listing, and not for a tag that has moved and that no call tells.
BlindGuardsRefuse == \A r \in Commanded : Spared(r, Runs[call[r].at])

\* A badge is taken away only for an update that the host was told to carry out
\* and that was reported to have gone well.
ClearedWasUpdated ==
    \A t \in cleared : \E r \in Requests :
      /\ call[r] = [verb |-> "update", at |-> t]
      /\ host[r] # "idle" /\ outcome[r] = "ok"

\* A client that keeps polling the job it was given gets the job's result; only
\* a restart of the process can lose it (README: poll until done is true).
PollerGetsItsResult == (\E r \in Requests : reply[r] = "gone") => restarts > 0

\* Whatever the host does, the key of a request at work is given back: every watch
\* ends, and the finally of _exclusive discards the key when it ends badly, too.
LocksReleased == \A r \in Requests : stage[r] = "working" ~> key[r] \notin inFlight

\* Every request gets an answer that says how it went, or finds its connection
\* cut or its job gone by a restart.
EveryRequestAnswered ==
    \A r \in Requests : stage[r] = "guarding" ~> reply[r] \notin {"none", "accepted"}

\* The first promise of the docstring of _exclusive ("no stack deploy while its
\* environment's agent is being replaced"), said of the host and not of locks.
NoDeployWhileAgentReplaced ==
    ~ \E r, s \in Requests :
        /\ host[r] = "running" /\ Updates(r) /\ call[r].at.on = "stack"
        /\ host[s] = "running" /\ Replaces(s, "agent")
        /\ call[r].at.iid = call[s].at.iid /\ call[r].at.eid = call[s].at.eid

\* The set of keys implements the lock of TargetLock.
Lock == INSTANCE TargetLock WITH owns <- [r \in Requests |-> IF stage[r] = "working" THEN key[r] ELSE NoKey]

\* Every step of the handlers takes a key nobody conflicts with, releases one of
\* its own, forgets all (a restart), or leaves the locks alone.
ImplementsLock == Lock!LockSpec

=============================================================================
