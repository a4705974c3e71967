----------------------------- MODULE DeployWatch -----------------------------
(***************************************************************************)
(* The update of one stack: _update_one and _await_deploy of app/main.py.  *)
(* Portainer accepts a redeploy and carries it out in the background; the  *)
(* watch lists the stack's containers every two seconds until what it sees *)
(* has changed and then stayed the same for DEPLOY_SETTLE_POLLS polls.     *)
(*                                                                         *)
(* The host is external: a deploy replaces the containers of the services  *)
(* one by one, or gives up half-way, and containers change state on their  *)
(* own.  Listings may fail.                                                *)
(***************************************************************************)
EXTENDS Naturals

CONSTANTS Services,      \* the services of the stack, a container each
          SettlePolls,   \* DEPLOY_SETTLE_POLLS
          MaxPolls,      \* polls until DEPLOY_TIMEOUT_SECONDS have passed
          PauseLimit     \* polls a deploy that has replaced something may go on for
                         \* without showing anything, to count as steady

ASSUME ConstantsAssumption ==
    /\ SettlePolls \in Nat \ {0}
    /\ MaxPolls \in Nat
    /\ PauseLimit \in Nat

\* A container is its id (of before the deploy, or of it), whether it runs, and
\* whether it is fit: healthy while running, status 0 once exited.  The states
\* that never count as working (restarting, created, paused) are unfit exits.
Containers == [id : {"old", "new"}, state : {"running", "exited"}, fit : BOOLEAN]
Absent == [id |-> "none", state |-> "none", fit |-> FALSE]

VARIABLES phase,      \* of the watch: baseline, requesting, polling, done
          stack,      \* the stack's containers on the host, one per service
          deploy,     \* none, going, over
          touched,    \* services whose container the deploy has removed or created
          pause,      \* polls since the deploy last showed something; once
                      \* beyond PauseLimit it stays there
          flapped,    \* an old container has changed state on its own since the baseline
          baselined,  \* the listing before the redeploy was answered
          before,     \* fingerprint before the redeploy
          changed, last, stable, polls,   \* locals of _await_deploy
          look,       \* what Judge says of last_containers
          verdict

host == <<stack, deploy, touched, pause, flapped>>
watch == <<phase, baselined, before, changed, last, look, stable, polls, verdict>>
vars == <<host, watch>>

Marks == [id : {"old", "new", "none"}, state : {"running", "exited", "none"}]

\* _fingerprint: identity and state, not the health shown in Status.
Fingerprint(listing) == [s \in Services |-> [id |-> listing[s].id, state |-> listing[s].state]]

NoContainers == [s \in Services |-> Absent]

\* _container_working
IsWorking(c) == c.fit

Init ==
    /\ phase = "baseline" /\ verdict = "none"
    /\ stack \in [Services -> {c \in Containers : c.id = "old"} \cup {Absent}]
    /\ deploy = "none" /\ touched = {} /\ pause = 0 /\ flapped = FALSE
    /\ baselined = FALSE /\ before = Fingerprint(NoContainers) /\ changed = FALSE /\ last = before /\ look = "empty"
    /\ stable = 0 /\ polls = 0

-----------------------------------------------------------------------------
(* The host.                                                               *)

\* The deploy shows a step.
Shown == pause' = IF pause > PauseLimit THEN pause ELSE 0

\* Compose stops and removes the old container of a service ...
Remove(s) ==
    /\ deploy = "going" /\ stack[s].id = "old"
    /\ stack' = [stack EXCEPT ![s] = Absent]
    /\ touched' = touched \cup {s} /\ Shown
    /\ UNCHANGED <<deploy, flapped, watch>>

\* ... and starts a new one, which may or may not come up.
Create(s) ==
    /\ deploy = "going" /\ stack[s] = Absent
    /\ \E c \in Containers : c.id = "new" /\ stack' = [stack EXCEPT ![s] = c]
    /\ touched' = touched \cup {s} /\ Shown
    /\ UNCHANGED <<deploy, flapped, watch>>

\* The deploy ends: every service replaced that had to be, or given up half-way.
DeployEnds ==
    /\ deploy = "going" /\ touched # {}
    /\ deploy' = "over"
    /\ UNCHANGED <<stack, touched, pause, flapped, watch>>

\* A container restarts, exits, comes up, or changes health.
Flap(s) ==
    /\ stack[s] # Absent
    /\ \E c \in Containers : c.id = stack[s].id /\ stack' = [stack EXCEPT ![s] = c]
    /\ flapped' = (flapped \/ (phase # "baseline" /\ stack[s].id = "old"))
    /\ UNCHANGED <<deploy, touched, pause, watch>>

-----------------------------------------------------------------------------
(* The watch.                                                              *)

\* The listing before the redeploy; when it fails, an empty one stands in.
Baseline ==
    /\ phase = "baseline"
    /\ \/ before' = Fingerprint(stack) /\ baselined' = TRUE
       \/ before' = Fingerprint(NoContainers) /\ baselined' = FALSE
    /\ phase' = "requesting"
    /\ UNCHANGED <<host, changed, last, look, stable, polls, verdict>>

\* update_stack is accepted, and _await_deploy starts from the baseline.
Accepted ==
    /\ phase = "requesting"
    /\ deploy' = "going"
    /\ last' = before
    /\ phase' = "polling"
    /\ UNCHANGED <<stack, touched, pause, flapped, baselined, before, changed, look, stable, polls, verdict>>

\* update_stack raises: an error answer, or a timeout although it was accepted.
Rejected ==
    /\ phase = "requesting"
    /\ deploy' \in {"none", "going"}
    /\ phase' = "done" /\ verdict' = "rejected"
    /\ UNCHANGED <<stack, touched, pause, flapped, baselined, before, changed, last, look, stable, polls>>

\* One turn of the loop before the deadline.
Poll ==
    /\ phase = "polling" /\ polls < MaxPolls
    /\ pause' = IF deploy = "going" /\ touched # {} /\ pause <= PauseLimit THEN pause + 1 ELSE pause
    /\ UNCHANGED <<stack, deploy, touched, flapped, baselined, before>>

\* Variant: every poll that sees a change starts the clock again.
Clock_Restarts(saw) == polls' = IF saw THEN 0 ELSE polls + 1

\* The deadline is fixed when the watch starts.
Clock(saw) == polls' = polls + 1

\* A failed listing says nothing: the watch goes on.
PollFails ==
    /\ Poll
    /\ Clock(FALSE)
    /\ UNCHANGED <<phase, changed, last, look, stable, verdict>>

\* The end of _await_deploy, of the containers it would judge.
Judge(listing) ==
    IF listing = NoContainers THEN "empty"
    ELSE IF \E s \in Services : listing[s] # Absent /\ ~IsWorking(listing[s]) THEN "broken"
    ELSE "ok"

PollSeesChange ==
    /\ Poll
    /\ Fingerprint(stack) # last
    /\ changed' = TRUE /\ last' = Fingerprint(stack) /\ look' = Judge(stack) /\ stable' = 0
    /\ Clock(TRUE)
    /\ UNCHANGED <<phase, verdict>>

\* Variant: the listing of the last change is judged, whatever has become of it.
Relist_Not == UNCHANGED look

\* An unchanged fingerprint may hide a changed health: the latest listing counts.
Relist == look' = Judge(stack)

\* Variant: settled as soon as one poll agrees with the one before.
Settled_Once == TRUE

Settled == stable' >= SettlePolls

\* Variant: polls count as stable before anything has changed.
Counts_Always == TRUE
Counts == changed

PollSeesSame ==
    /\ Poll
    /\ Fingerprint(stack) = last
    /\ Relist
    /\ Clock(FALSE)
    /\ stable' = IF Counts THEN stable + 1 ELSE stable
    /\ IF Counts /\ Settled
       THEN phase' = "done" /\ verdict' = look'
       ELSE UNCHANGED <<phase, verdict>>
    /\ UNCHANGED <<changed, last>>

\* The deadline passes before the stack has settled.
DeadlinePasses ==
    /\ phase = "polling" /\ polls = MaxPolls
    /\ phase' = "done"
    /\ verdict' = IF changed THEN "unsettled" ELSE "unchanged"
    /\ UNCHANGED <<host, baselined, before, changed, last, look, stable, polls>>

HostStep == DeployEnds \/ \E s \in Services : Remove(s) \/ Create(s) \/ Flap(s)
WatchStep == Baseline \/ Accepted \/ Rejected \/ PollFails \/ PollSeesChange \/ PollSeesSame \/ DeadlinePasses
Next == HostStep \/ WatchStep

Spec == Init /\ [][Next]_vars

\* The event loop runs the watch; the host owes nothing.
FairSpec == Spec /\ WF_vars(WatchStep)

-----------------------------------------------------------------------------
\* Every variable stays within its type.
TypeOK ==
    /\ phase \in {"baseline", "requesting", "polling", "done"}
    /\ stack \in [Services -> Containers \cup {Absent}]
    /\ deploy \in {"none", "going", "over"}
    /\ touched \subseteq Services
    /\ pause \in 0 .. PauseLimit + 1
    /\ flapped \in BOOLEAN /\ baselined \in BOOLEAN /\ changed \in BOOLEAN
    /\ before \in [Services -> Marks] /\ last \in [Services -> Marks]
    /\ look \in {"empty", "broken", "ok"}
    /\ stable \in 0 .. SettlePolls /\ polls \in 0 .. MaxPolls
    /\ verdict \in {"none", "rejected", "ok", "empty", "broken", "unsettled", "unchanged"}

\* Steady circumstances: the baseline was listed, and no old container has
\* changed state on its own.
Steady == baselined /\ ~flapped

\* In steady circumstances a success means that the deploy has replaced
\* something: failed listings and the restarts of other polls never pass for a
\* change (the None of _stack_containers_now, the fingerprint without Status).
OkMeansReplaced == verdict = "ok" /\ Steady => touched # {}

\* A deploy that shows a step at least every SettlePolls polls, once it has replaced
\* something, is over when it is called a success: the settling window is not
\* fooled by listings that failed in between.
OkMeansOver == verdict = "ok" /\ Steady /\ pause <= PauseLimit => deploy = "over"

\* At the moment a success is reported every container there is works, whatever
\* happened since the last change that the fingerprint shows.
OkOnlyWhenWorking ==
    [][verdict' = "ok" /\ verdict # "ok" =>
         /\ \E s \in Services : stack[s] # Absent
         /\ \A s \in Services : stack[s] # Absent => IsWorking(stack[s])]_vars

\* The watch ends, even over a container that restarts for ever or a host that
\* never answers.
VerdictReached == <>(phase = "done")

\* The docstring of _await_deploy: "ok means the stack's containers were replaced
\* and are all working", whatever the circumstances.
OkAlwaysMeansReplaced == verdict = "ok" => touched # {}

=============================================================================
