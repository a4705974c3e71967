------------------------------- MODULE Helper -------------------------------
(***************************************************************************)
(* The replacement of a container that carries the connection it would be  *)
(* replaced through.  app/main.py (_replace_with_helper) starts a helper   *)
(* container on the target host and watches it; the helper (app/helper.py) *)
(* stops the original and sets it aside under another name, creates and    *)
(* starts a new container under the old name, waits until it has proven    *)
(* itself and removes the original, or undoes what it did.                 *)
(*                                                                         *)
(* Every call to the Docker Engine may be carried out, be refused, or be   *)
(* carried out although its answer is lost.  The helper and the watcher    *)
(* may be killed between any two steps.                                    *)
(***************************************************************************)
EXTENDS Naturals

CONSTANTS ReadyPolls,    \* READY_POLLS
          StablePolls    \* READY_STABLE_POLLS

ASSUME ConstantsAssumption == ReadyPolls \in Nat /\ StablePolls \in Nat \ {0}

VARIABLES pc,        \* the next step of the helper
          old,       \* the original: its state and which name it goes by
          new,       \* the new container, which only ever has the own name
          done,      \* the dict of that name in replace
          problems,  \* what _recover could not undo
          stable, polls,   \* locals of wait_ready
          report,    \* what the helper's last line says; "killed": there is none
          watcher,   \* _replace_with_helper: launching, watching, answered
          told,      \* what it returned
          lost,      \* a call was carried out and its answer lost
          wandered   \* the original is, or has come, down without the helper

docker == <<old, new>>
outside == <<watcher, told, wandered>>
helper == <<pc, done, problems, stable, polls, report, lost>>
vars == <<docker, outside, helper>>

\* fit: running, and healthy where there is a health check.  down: exited or
\* between two restarts.
Up == {"starting", "fit", "unhealthy"}
States == {"running", "stopped", "gone"}

Init ==
    /\ \E s \in {"running", "stopped"} :
         old = [state |-> s, name |-> "own"] /\ wandered = (s = "stopped")
    /\ new = "none"
    /\ pc = "absent" /\ done = {} /\ problems = {} /\ stable = 0 /\ polls = 0
    /\ report = "none" /\ lost = FALSE
    /\ watcher = "launching" /\ told = "none"

-----------------------------------------------------------------------------
(* Calls and their answers.                                                *)

Answers == {"done", "refused", "lost"}

Stopped == [old EXCEPT !.state = "stopped"]
Running == [old EXCEPT !.state = "running"]
Named(name) == [old EXCEPT !.name = name]

\* What a call with this answer leaves of a thing it would have turned into x.
After(a, thing, x) == IF a = "refused" THEN thing ELSE x

Answer(a) == lost' = (lost \/ a = "lost")

Exit(says) == pc' = "exited" /\ report' = says

\* A step of the try block of replace: an exception sends it to _recover.
Step(from, a, mark, to) ==
    /\ pc = from
    /\ Answer(a)
    /\ IF a = "done" THEN done' = done \cup {mark} /\ pc' = to
                     ELSE pc' = "undoNew" /\ UNCHANGED done
    /\ UNCHANGED <<problems, polls, stable, report, outside>>

-----------------------------------------------------------------------------
(* The helper.                                                             *)

\* Everything before the stop: inspect, pull, compare.  Nothing is touched.
Prepare ==
    /\ pc = "preparing"
    /\ \/ pc' = "stopping" /\ UNCHANGED report
       \/ \E says \in {"refused", "current"} : Exit(says)
    /\ UNCHANGED <<docker, outside, done, problems, stable, polls, lost>>

Stop(a) == Step("stopping", a, "stopped", "parking") /\ old' = After(a, old, Stopped) /\ UNCHANGED new

Park(a) == Step("parking", a, "parked", "creating") /\ old' = After(a, old, Named("parked")) /\ UNCHANGED new

Create(a) == Step("creating", a, "created", "connecting") /\ new' = After(a, new, "created") /\ UNCHANGED old

\* The joins to the other networks, of which the first that fails ends the try.
Connect(a) == Step("connecting", a, "created", "launching") /\ UNCHANGED docker

Launch(a) ==
    /\ Step("launching", a, "created", "waiting")
    /\ \E s \in Up \cup {"down"} : new' = After(a, new, s)
    /\ UNCHANGED old

Proven == stable' >= StablePolls

\* Variant: a poll that sees it still starting is not counted.
CountPoll_NotStarting == polls' = IF new = "starting" THEN polls ELSE polls + 1
CountPoll == polls' = polls + 1

\* wait_ready: a poll that cannot look, or sees it down or unhealthy, gives up.
PollGood ==
    /\ pc = "waiting" /\ polls < ReadyPolls
    /\ new \in {"starting", "fit"}
    /\ CountPoll
    /\ stable' = IF new = "fit" THEN stable + 1 ELSE 0
    /\ pc' = IF new = "fit" /\ Proven THEN "removing" ELSE "waiting"
    /\ UNCHANGED <<docker, outside, done, problems, report, lost>>

\* It is down or unhealthy, the inspection fails, or all polls are used up.
GiveUp ==
    /\ pc = "waiting"
    /\ pc' = "undoNew"
    /\ UNCHANGED <<docker, outside, done, problems, stable, polls, report, lost>>

\* Variant: the removal of the original is a step of the try block.
RemovalFails_InTry == pc' = "undoNew" /\ UNCHANGED report

\* An exception that nobody catches before main.
RemovalFails == Exit("leftover")

RemoveOld(a) ==
    /\ pc = "removing"
    /\ Answer(a)
    /\ old' = After(a, old, [old EXCEPT !.state = "gone"])
    /\ IF a = "done" THEN Exit("updated") ELSE RemovalFails
    /\ UNCHANGED <<new, outside, done, problems, stable, polls>>

-----------------------------------------------------------------------------
(* _recover: each step is tried, whatever became of the others.            *)

Note(a, problem) == problems' = IF a = "done" THEN problems ELSE problems \cup {problem}

\* Variant: only a container that was started is removed.
Created_IfStarted == "created" \in done /\ polls > 0
Created == "created" \in done

UndoNew(a) ==
    /\ pc = "undoNew" /\ pc' = "undoName"
    /\ IF Created
       THEN new' = After(a, new, "none") /\ Note(a, "remove") /\ Answer(a)
       ELSE UNCHANGED <<new, problems, lost>>
    /\ UNCHANGED <<old, outside, done, stable, polls, report>>

\* The name is taken as long as there is a new container.
UndoName(a) ==
    /\ pc = "undoName" /\ pc' = "undoStop"
    /\ IF "parked" \in done
       THEN /\ new # "none" => a = "refused"
            /\ old' = After(a, old, Named("own")) /\ Note(a, "rename") /\ Answer(a)
       ELSE UNCHANGED <<old, problems, lost>>
    /\ UNCHANGED <<new, outside, done, stable, polls, report>>

\* Variant: a restart that fails goes unnoticed.
Summary_NoRestart == IF problems' \subseteq {"start"} THEN "rolledback" ELSE "incomplete"
Summary == IF problems' = {} THEN "rolledback" ELSE "incomplete"

UndoStop(a) ==
    /\ pc = "undoStop"
    /\ IF "stopped" \in done
       THEN old' = After(a, old, Running) /\ Note(a, "start") /\ Answer(a)
       ELSE UNCHANGED <<old, problems, lost>>
    /\ Exit(Summary)
    /\ UNCHANGED <<new, outside, done, stable, polls>>

\* What the message of an incomplete rollback says of the original.
SaysRunning == "start" \notin problems
SaysName == IF "rename" \in problems THEN "parked" ELSE "own"

\* The helper's container is killed, or its host goes down.
Killed ==
    /\ pc \notin {"absent", "exited"}
    /\ Exit("killed")
    /\ UNCHANGED <<docker, outside, done, problems, stable, polls, lost>>

-----------------------------------------------------------------------------
(* The containers change on their own.                                     *)

NewChanges ==
    /\ new \in Up \cup {"down"}
    /\ new' \in (Up \cup {"down"}) \ {new}
    /\ UNCHANGED <<old, outside, helper>>

OldExits ==
    /\ old.state = "running"
    /\ old' = Stopped /\ wandered' = TRUE
    /\ UNCHANGED <<new, watcher, told, helper>>

-----------------------------------------------------------------------------
(* The watcher.                                                            *)

\* The helper's container is created and started, or not, or unknown to be.
StartHelper(a) ==
    /\ watcher = "launching"
    /\ pc' = After(a, pc, "preparing")
    /\ IF a = "done" THEN watcher' = "watching" /\ UNCHANGED told
                     ELSE watcher' = "answered" /\ told' = "failed"
    /\ UNCHANGED <<docker, wandered, done, problems, stable, polls, report, lost>>

\* Variant: no result counts as a good one.
Reading_Hopeful == IF report \in {"updated", "current", "killed"} THEN "ok" ELSE "failed"

\* parse_helper_result.
Reading == IF report \in {"updated", "current"} THEN "ok" ELSE "failed"

\* The helper has exited; its logs can be read, or count as empty.
ReadResult ==
    /\ watcher = "watching" /\ pc = "exited"
    /\ watcher' = "answered" /\ told' \in {Reading, "failed"}
    /\ UNCHANGED <<docker, wandered, helper>>

\* HELPER_TIMEOUT_SECONDS pass, whatever the helper does.
LoseTrack ==
    /\ watcher = "watching"
    /\ watcher' = "answered" /\ told' = "lost"
    /\ UNCHANGED <<docker, wandered, helper>>

HelperStep ==
    \/ Prepare \/ PollGood \/ GiveUp
    \/ \E a \in Answers :
         \/ Stop(a) \/ Park(a) \/ Create(a) \/ Connect(a) \/ Launch(a) \/ RemoveOld(a)
         \/ UndoNew(a) \/ UndoName(a) \/ UndoStop(a)

Surroundings == Killed \/ NewChanges \/ OldExits
WatcherStep == ReadResult \/ LoseTrack \/ \E a \in Answers : StartHelper(a)

Next == HelperStep \/ Surroundings \/ WatcherStep

Spec == Init /\ [][Next]_vars

(***************************************************************************)
(* Both programs go on with their next step.  Giving up on the new         *)
(* container is no duty while a poll is left: it is owed only for what the *)
(* code gives up on.                                                       *)
(***************************************************************************)
Progress ==
    \/ HelperStep /\ ~GiveUp
    \/ GiveUp /\ (polls >= ReadyPolls \/ new \notin {"starting", "fit"})

FairSpec == Spec /\ WF_vars(Progress) /\ WF_vars(WatcherStep)

-----------------------------------------------------------------------------
\* Every variable stays within its type.
TypeOK ==
    /\ pc \in {"absent", "preparing", "stopping", "parking", "creating", "connecting", "launching",
               "waiting", "removing", "undoNew", "undoName", "undoStop", "exited"}
    /\ old \in [state : States, name : {"own", "parked"}]
    /\ new \in Up \cup {"none", "created", "down"}
    /\ done \subseteq {"stopped", "parked", "created"}
    /\ problems \subseteq {"remove", "rename", "start"}
    /\ stable \in 0 .. StablePolls /\ polls \in 0 .. ReadyPolls
    /\ report \in {"none", "refused", "current", "updated", "leftover", "rolledback", "incomplete", "killed"}
    /\ watcher \in {"launching", "watching", "answered"}
    /\ told \in {"none", "ok", "failed", "lost"}
    /\ lost \in BOOLEAN /\ wandered \in BOOLEAN

\* Whatever is refused, lost or killed, the host is never left without either
\* container: the original is removed last, outside the try block whose
\* failure would remove the new one.
NeverBothGone == old.state = "gone" => new # "none"

\* The original and the new container, which share their volumes, run side by
\* side only after the new one could not be removed, of which the report tells.
OneAtATime == old.state = "running" /\ new \in Up => "remove" \in problems

Untouched == old.name = "own" /\ new = "none" /\ (old.state = "running" \/ wandered)

\* Unless an answer was lost, the last line is true: a rollback has brought the
\* original back, an incomplete one says under which name it is and whether it
\* was started, and a success means that it has been replaced.
ReportIsTrue ==
    ~lost =>
      /\ report \in {"refused", "current", "rolledback"} => Untouched
      /\ report = "incomplete" => /\ old.name = SaysName
                                  /\ SaysRunning => old.state = "running" \/ wandered
                                  /\ ~SaysRunning => old.state = "stopped"
      /\ report = "updated" => old.state = "gone" /\ new # "none"

\* What the user is told is a success was one: the helper found nothing to do
\* or replaced the container (parse_helper_result, and a helper that was killed
\* or whose logs cannot be read).
SuccessIsTrue ==
    told = "ok" => \/ report = "current" /\ old.name = "own" /\ new = "none"
                   \/ report = "updated" /\ old.state = "gone" /\ new # "none"

\* A helper that was started comes to an end, and the user to an answer, even
\* over a container that is starting for ever.
HelperEnds == pc = "preparing" ~> pc = "exited" /\ told # "none"

\* The docstring of replace: a failure "says whether the original is running
\* again, and under what name".  One that says nothing of it must not have
\* touched it.
FailureTellsOfOriginal ==
    ~lost /\ report \in {"refused", "leftover"} => Untouched

\* The comment in _replace_with_helper: once the helper is launched, a failed
\* call means nothing, "only the helper's own exit says how it went".
FailureIsTheHelpers ==
    [][watcher = "watching" /\ told' = "failed" => report \notin {"updated", "current"}]_vars

=============================================================================
