# Restruo in TLA+

Restruo is a small dashboard (FastAPI, one asyncio process) that starts, stops and updates the stacks and
containers of several Portainer instances. This directory holds TLA+ models of its core, the configurations
that check them with TLC, and theorems that TLAPS checks for every value of the constants. `PROJECT.json`
says, definition by definition, which lines of the repository a model stands for. Paths below are relative to
the repository.

Contents: [the system](#the-system) · [the models](#the-models) · [the runs](#the-runs) ·
[the proofs](#the-proofs) · [disagreements](#where-code-and-text-disagree) ·
[what is not modelled](#not-modelled-and-why) · [what is left](#what-is-left)

## The system

| Component | State it keeps | Operations | What makes it correct |
|---|---|---|---|
| Operation handlers, `app/main.py` | none of their own | start, stop, update of a stack or container; clean-up of an instance | the guards spare what carries the connection; conflicting work never overlaps; every request is answered |
| Exclusion, `app/main.py` (`_conflicts`, `_exclusive`) | `app.state.in_flight`, a set of keys | enter, leave | the set is exactly the keys at work; none leaks |
| Jobs, `app/main.py` (`_run_job`, `get_job`) | `app.state.jobs` | start, answer inline within 25 s or with a job id, poll, prune | who polls gets the result |
| Deploy watch, `app/main.py` (`_update_one`, `_await_deploy`) | locals of one coroutine | baseline, redeploy, poll until settled | a success means replaced, over and working |
| Helper runner, `app/main.py` (`_replace_with_helper`) | locals | launch the helper, watch it, read its last line | no success is told that was none |
| Update helper, `app/helper.py` | the two containers on the host | build the new one's request; stop, park, create, start, prove, remove; or undo | never both gone, never both running; a true report; the new one is configured as asked, on the same data and networks |
| Update checker, `app/updates.py` | results, memos, record of what was announced (memory and disk) | check, mark updated, notify | fresh findings; announced once, and at all |
| Notifiers, `app/notifiers.py` | none | send | |
| Registry client, `app/registry.py` | tokens | digest of a tag | |
| Portainer client, `app/portainer.py` | session, CSRF token, cookies, connection pool | three-pass request, login, reconnect, resend | heals what is stale; nothing is carried out twice |
| Stack files and listings, `app/portainer.py`, `app/main.py` (`_stacks_for_instance`) | locals of one request | list stacks, environments, containers and files; interpolate variables; tell what belongs to whom | what is unknown is told as such; every container once; what must not be stopped is marked |
| Instance store and client manager, `app/instances.py` | records in memory and on disk; a client per record, retired clients | add, edit, move, delete, test; refresh | ids are never reused; a client in use is not closed; a stored secret goes nowhere it was not typed for |
| Sessions and login limiter, `app/auth.py` | signed cookies; recent failures per address | log in, out; ask, record, reset | the budget holds; who is blocked gets free |
| Configuration, `app/config.py` | read once | | |
| Page, `web/index.html` | in the browser | polls jobs | |

They interact in three ways. Handlers call the Portainer client and await its answers: everything between two
awaits is one step of the event loop, and everything shared (`in_flight`, `jobs`, the session, the checker's
results) may change at an await. Updates run as tasks of their own that outlive their HTTP request and are
polled for. And the outside world, that is Portainer with its Docker daemons, the registries, the helper container and the
network, acts on its own, goes on when Restruo stops watching, and may answer late, wrongly or not at all.

The hard behaviours are therefore: a check and the action it guards standing in different steps; a watch that
ends before the thing it watches; an answer lost after the call was carried out; a helper, or the process,
killed between two steps; memos and records that outlive what they describe; several requests that each repair
the session they share; a listing put together from answers of different moments; a limit that is asked first and
charged later; what a container was asked for and what it inherited shown as one. `PROJECT.json` lists these hazards at their lines, with the properties that cover them.

## The models

| Module | Models | Composed of |
|---|---|---|
| `Exclusion` | the keys and `_conflicts` | |
| `TargetLock` | abstract: each request owns at most one key, taken only when nobody owns a conflicting one | extends `Exclusion` |
| `Operations` | handlers, `_exclusive`, `_run_job`, `get_job`, `_prune_jobs`, the guards, restarts | extends `Exclusion`, implements `TargetLock` |
| `DeployWatch` | `_update_one`, `_await_deploy`, `_fingerprint`, `_container_working` against a host that deploys | |
| `Helper` | `helper.replace`, `wait_ready`, `_recover`, and `_replace_with_helper` as its watcher | |
| `Recreate` | `build_create_body` with `inherited_config`, `mounts_to_carry`, `endpoint_settings`, release after release | the data of a replacement whose steps are in `Helper` |
| `UpdateChecker` | `check_all`, the memos, `mark_updated`, `_notify_new`, the record on disk | |
| `PortainerSession` | `_request`, `_login`, `_fetch_csrf`, `_harvest_csrf`, `_send`, `reconnect` with concurrent requests | |
| `Registry` | abstract: a set of instances, each with an id that is never another's | |
| `Fleet` | `InstanceStore`, `ClientManager`, the routes that change instances, `lifespan`, and requests that hold a client | implements `Registry` |
| `Credentials` | which secret a record ends up with (`InstanceStore.update`, `check_auth_fields`) and where it is sent (`test_instance`, the client) | the part of a form that `Fleet` leaves out |
| `Dashboard` | `_stacks_for_instance` with `interpolate`, `stack_images`, `stack_containers`, `standalone_containers`, while the world moves | |
| `Logins` | `LoginLimiter`, `_basic_auth_ok`, `login` with requests that run at the same time | |

`MC*` modules give small instances for TLC, `*Proofs` modules hold the theorems. Definitions that end in
`_Something` next to a definition of the code are variants of it that a plausible mistake would produce; each
property is known to fail under one of them.

**Operations.** A request goes `idle → guarding → (spawned →) working → ended`. `guarding` is the stretch of
awaits in which a handler fetches its target and what it runs; the step out of it is `GuardDenies`, `LookupFails`,
`FindsConflict`, `EnterDirectly` (start, stop and prune work inside the handler) or `SpawnJob` (updates). The
runner of a job enters one task switch after the check, in `RunnerEnters`, and may find that someone else entered.
`host[r]` is the work on the host, separate from `stage[r]`, the work of Restruo: `EndWork` may come while the
host is still running, since every watch has a deadline. `Tick` lets jobs age; `Restart` is the loss of everything
in memory. A target is a record with instance, environment and name, and `Runs` says which roles its containers
have; `Moved` says for which of them the tag was pulled again elsewhere, so that `resolve_image_name` depends on two further
calls. `Looks` are their possible answers: each of the two may tell any part of it, or fail. A guard judges by what it was shown (`Seen`), in a
stack container by container, and `hidden` is a history variable: what the guard of a request could not see.

**DeployWatch.** The host removes and creates the containers of a stack service by service, may pause or give up;
containers crash and recover. `fit` folds health, status and exit code into what `_container_working` tells
apart. `Fingerprint` keeps, as the code does, identity and state and not health. A poll lists or fails; `Counts`,
`Settled` and `Clock` are the three rules of the loop.

**Helper.** `old` and `new` are the containers, `pc` is the helper's next step. Each call to the Docker Engine has
one of three answers: done, refused, or carried out with its answer lost. `Killed` may come anywhere. The watcher
is a second process that sees only exit and log.

**Recreate.** A container shows in `config` what it was asked for merged with what its image brings. `Replace` takes
that apart again with the helper's functions and lets the Engine (external: `Merged`, `Mounted`, `Created`, `Joined`, `Hostname`) put a
new one together from the request and another release. A container that is created without naming a network is put on the one of its
`HostConfig.NetworkMode` (`Created`). The old image may have gone (`Gone`): the code then takes its config for empty and copies Config as it stands. `asked` keeps what a person asked for at first; `taken` what has counted as asked for since, which is all of Config from a replacement on that found the image gone;
and `had` what the releases since then have brought: a setting that was asked for and that some release happened to bring as well cannot
be told from an inherited one, so `AsAsked` expects it to follow the releases from then on. A setting is a scalar, a key of a map or a
variable of the environment alike; `Entrypoint` and `Cmd` are named because the Engine treats them specially.

**UpdateChecker.** A place is an image some stack runs. A check looks places up one by one, through memos per
image, while the world moves; publishing and sorting what is new is one step (no await in between), then each
notifier is asked and the record is saved. Failures and restarts draw on one budget, `MaxTrouble`.

**PortainerSession.** A session is the era it was opened in and a token the secret it was made with, so being
outdated is a comparison; a token counts only with its cookie, and cookies belong to a connection pool. Each
request is at one await (`login`, `fetch1`, `fetch2`, `call`, or waiting for the lock), with what it sent (`wire`)
and what came back (`answer`). `disturbed` is a history variable: requests under which something changed that was
not their own doing.

**Fleet.** A record is an id and a form, that is all of it that can be edited. `disk` is the file (or none), `store` what
memory holds, `clients` what the manager has for each record. A route saves, publishes and refreshes without an
await in between, so `Add`, `Edit`, `Move` and `Delete` are one step each, with three outcomes in `Persist`: all of
it, a failed write and nothing, or a crash once the file is in place. A client is told from an
earlier one of the same record by its number. Clients that `Refresh` replaces go to `retiring`, `Tick` lets them and the
requests that hold one age, `Close` closes what is ripe. A request takes its client in `Begin` and keeps it, however the records
change. `given` is a history variable: the ids ever handed out.

**Credentials.** A secret is the place (scheme and host) it was typed for, and whether it was typed in sight, under the way to log in that it is for: the
page posts both fields whichever way is selected, `InstanceInput` accepts both, and so may each form here. `Edit` merges a form with the record, `TestEdited` borrows
what is left blank, `Use` is the client of the instance; `sent` is the last secret sent and where to.

**Dashboard.** One look goes `stacks → environments → containers → files → names → done`, each step an await, with environments asked
in parallel and files and names behind a gate of `DASHBOARD_CONCURRENCY`. Every answer may fail. Stacks and containers come, go, start and stop in
between (`Change`); `saw` remembers what each has been during the look, so that a property can say "all the time". What a row
shows is an operator over the answers (`Own`, `Down`, `Unchecked`, `SelfCritical`, ...). A reference in a file is
a record of operator, variable and text, of which `Interpolated` makes an image or nothing.

**Logins.** The code keeps a list of moments per address and only ever asks how many of them are recent. So the model keeps the profile of the
list: at `k` how many of its failures are `k` ticks old or younger (`OneMore` adds one, `Older` lets time pass, `Younger` is what `_recent` leaves).
Asking (`Ask`) and recording or resetting (`Fail`, `Succeed`) are two steps, since the password is judged in between, in worker
threads and with awaits. `wrong` counts independently what should count. The specifications of `Logins` and `Credentials`
are called `LimiterSpec` and `SecretsSpec`, so that one module of proofs can speak of both beside `Operations`.

## The runs

| Run | Question | Result |
|---|---|---|
| `operations` | two requests over five targets of all roles on two instances, tags that have moved, ageing jobs, a restart: exclusion refining `TargetLock`, guards, badges, keys given back, answers | holds |
| `operations_overlap` | can a deploy and the replacement of its agent overlap on the host? | violated |
| `deploy_watch` | does success mean replaced, over and working, and does the watch end? | holds |
| `helper_replace` | containers, reports and answers through refusals, lost answers and kills | holds |
| `recreate` | is a replacement configured as asked, on the same data and networks, after several releases, image gone and networks rewired included? | holds |
| `recreate_unnamed` | does it keep its data when HostConfig asks for a volume without naming it? | violated |
| `checks` | fresh findings, announcements sent, none needless, all made | holds |
| `session_heals` | at most once, healing, one login, requests end | holds |
| `fleet` | file, memory and clients agree and refine `Registry` through failed writes and crashes; sessions survive edits elsewhere; retired clients are closed | holds |
| `credentials` | does a secret typed for its way to log in stay where it was typed for, through edits, tests and changes of that way, whatever the forms hold out of sight? | holds |
| `dashboard` | does a listing tell the truth about what it could and could not read, while things change? | holds |
| `logins` | is every failure counted, the budget kept, a blocked address freed? | holds |

Further configurations show by hand what the properties above leave out; `tlc -config <cfg> <module>` finds each of them violated:

| Configuration | Module | Shows |
|---|---|---|
| `MCOperations_blind.cfg` | `MCOperations` | an image tag has moved and neither of the two calls behind it tells: a guard passes an agent |
| `MCDeployWatch_promise.cfg` | `MCDeployWatch` | the listing before the redeploy failed: success with nothing replaced |
| `MCHelper_leftover.cfg` | `MCHelper` | a failure that says nothing of the original |
| `MCHelper_logs.cfg` | `MCHelper` | a helper that succeeded is told to have failed |
| `MCUpdateChecker_again.cfg` | `MCUpdateChecker` | an announced update is mailed again |
| `MCRecreate_gone.cfg` | `MCRecreate` | the old image is gone: settings of its release stay pinned |
| `MCCredentials_both.cfg` | `MCCredentials` | a secret typed out of sight is sent to a place it was not typed for |

Type invariants are theorems (`TypeCorrect`) of `Operations`, `DeployWatch`, `Helper`, `UpdateChecker`, `PortainerSession`, `Fleet` and
`Dashboard`, and not repeated by the runs.

### Bounds

* `operations`: conflicts, lock leaks and job hand-overs are matters of two requests: a key conflicts with one
  other key. The theorems below say the same of any number. `Retention = JobLimit = 1` is the smallest pair
  in which a job can grow too old and in which one just does not. Two instances and two environments tell every
  branch of `_conflicts` apart. In the run the tag of an agent's container has moved, and in a stack of two that of the plain container
  beside an agent (`MovedSome`): a guard that sees all, a part, or nothing of what it must spare.
* `deploy_watch`: two services are the least with a half-way; a settling window of 2 and 4 polls leave room for a
  change, a failed listing, settling and the deadline. `PauseLimit = SettlePolls` is the longest silence
  for which `OkMeansOver` can hold.
* `helper_replace`: 2 stable polls of 4, so that the count is reset and reached again.
* `checks`: two places on two instances share one image, so that the memo is used and one instance can be down
  while the other is not; two changes of version; one failure or restart of any kind. The theorems cover any number.
* `session_heals`: a reading and a changing request, one restart of Portainer, one connection that fails. Larger
  instances (two restarts, two failures, three requests without failures) were checked with the same result and
  take minutes.
* `fleet`: two ids, so that a second instance could take the number of a deleted first, with a new installation, a file whose only
  instance is gone, and an older file that names no next id; two clients per record; two failed writes or crashes. A job may take
  longer than a retired client is kept (`JobLimit = 3`, `RetireAfter = 2`), as in the code.

* `recreate`: three releases that differ in entrypoint, command, a label and volumes, and three replacements, so that each release can follow each
  and come back. Everything that can be asked for in settings, in mounts and on two networks, one of the three at a time: the functions treat them apart. At each replacement the image may be
  gone or not, and before each the container may be put on any networks, or on none.
* `credentials`: four places, so that a secret can be two moves away from where it was typed; every form there is, with
  one secret typed, both, or none.
* `dashboard`: two stacks that are one after another of the same name, one of that name elsewhere, one whose environment is gone; a container of a
  role each and one of nobody; a gate of two; one change during the look, so that each listing may be before or after it. The theorems cover any number of each.
* `logins`: a budget and a window of two, three addresses with a sweep above one, two requests at a time.

### Fairness

Every liveness property is checked under weak fairness of Restruo's own steps only: asyncio runs each ready
task, and each await has a deadline in the code (10 s reads, 600 s deploys, 900 s helpers, `ReadyPolls` polls). Nothing
is assumed of hosts, registries or Portainer, except in `PortainerSession`, where a request that was
sent is eventually answered or lost, which the read timeout of `httpx` guarantees, and in `UpdateChecker`, where the scheduled
check comes round. In `Dashboard` every step of a look is owed, its calls being answered or timed out by `httpx`. In `Logins` time passes, and
a password is judged once its request was let in. In `Fleet` the timers of retired clients run off, and a request ends by its deadlines. `Helper` owes its next step, but giving up on the new container is owed only when the code gives up.
Deadlock checking is off where requests, a watch or a helper really come to an end.

## The proofs

TLAPS checks, for every value of the constants within the named assumptions:

| Module | Theorem | Says |
|---|---|---|
| `OperationsProofs` | `TypeCorrect`, `LockIsExact`, `MutuallyExclusive` | types; keys in flight are exactly those at work; no conflicting pair at work |
| | `GuardsSpareCarriers`, `GroundIsKept` | the guards and the ground rule, whatever tags have moved and whichever calls fail, as far as the guard was shown what runs |
| | `PollersAreServed` | no job is pruned under its poller, if `JobLimit <= Retention` |
| | `BadgesFollowUpdates` | a badge is cleared only for an update that was carried out and reported to have gone well |
| | `LockImplemented` | `Operations` implements `TargetLock` |
| | `LimiterTypes`, `FailuresCount` | `Logins`: every wrong password within the window counts, no other does, for any requests, addresses, limits and sweep |
| | `BudgetIsKept` | `Logins`: an address tries at most `MaxFailures - 1` wrong passwords in a window, and one for each request under way |
| | `SecretsStay` | `Credentials`: a secret typed in sight goes only where it was typed for, and none lingers, whatever the forms hold out of sight |
| `DeployWatchProofs` | `TypeCorrect`, `SuccessMeansReplaced` | |
| | `SuccessMeansOver` | if `PauseLimit <= SettlePolls` |
| | `SuccessMeansWorking` | a deploy told as a success has left every container of the stack working |
| | `WatchIsBounded` | the watch takes at most `MaxPolls + 3` steps |
| `HelperProofs` | `TypeCorrect`, `OneIsKept`, `NotSideBySide`, `ReportsAreTrue`, `SuccessesAreTrue` | any number of polls, refusals and lost answers |
| | `HelperIsBounded` | the helper takes at most `ReadyPolls + 10` steps, undoing included |
| `UpdateCheckerProofs` | `TypeCorrect`, `FindingsAreFresh`, `OnlyTheSentIsOnRecord`, `NothingIsRepeated` | |
| `PortainerSessionProofs` | `TypeCorrect`, `CarriedOutOnce`, `NoSecondLogin`, `StaleIsHealed` | any number of requests, restarts and failures; any number of passes, for `StaleIsHealed` three or more (`range(3)` in `_request`) |
| | `RequestsAreBounded` | a request takes at most `7 * Passes` steps, and nobody waits for a lock that is neither free nor with one on the wire |
| `FleetProofs` | `TypeCorrect`, `AllAgree`, `ClosedLate`, `SessionsStay` | any number of instances, clients and requests, from any file |
| | `RegistryImplemented` | `Fleet` implements `Registry` |
| `RecreateProofs` | `ConfiguredAsAsked`, `SameNetworks` | any settings, values, releases, networks, rewiring and number of replacements, the old image there or gone |
| | `NothingIsLost` | if HostConfig names its volumes (`Named`) |
| `DashboardProofs` | `TypeCorrect`, `UnknownIsTold`, `ShownOnce`, `CriticalAreMarked` | any stacks, containers, environments, files and changes during a look |
| | `GateNeverClogs` | the gate is never overfull, who is past it can leave it, no stack is passed over |

The assumptions on constants are real conditions on the code, not conveniences. `Named`
is where `recreate_unnamed` shows that data is lost otherwise. `JobLimit <= Retention` holds
because a job takes at most about half an hour and is kept for an hour, counted from its start.

How they go. `Operations`: exclusion alone is not inductive, because the keys in flight must first be known to be
those at work; `IInv` joins types, exactness, and what a stage says of key and job. For guards and ground rule it adds `Admitted`: some look that hid
no more than `hidden` showed the guard images that it let pass and that gave the request its key; what the look showed is in `Runs`, so role and key agree wherever it was seen. Refinement: each action releases, acquires, forgets or
stutters. `DeployWatch`: the strengthening ties `last`, `stable` and `changed` to how long the deploy has
shown nothing; `SuccessMeansOver` compares that silence with the window. `Helper`: a conjunct per step of the
helper says which containers exist under which name, with and without lost answers. `UpdateChecker`: what is in a memo was
true when the check began, unless the place moved; what is about to be recorded was sent by every notifier.
`PortainerSession`: `Types` includes that the lock's holder is exactly the request that logs in or fetches, that a
request has something on the wire exactly while it awaits an answer, and that counters bound eras and pools; `Account`
says what Portainer has carried out for a request from where the request is and how it was answered, and is kept because only
an unanswered request is sent again and a pass follows only a refusal. `Fleet`: what Restruo writes is `Sound`, no id twice and
the next one above them all, and reading a sound file gives it back unchanged (`LoadIsExact`), so failed writes and crashes
leave what is shown alone; clients are numbered per id and in `Counted` never beyond what was made, so a fresh one is neither
retired nor closed; `Timed` says that who holds a retired client has held it at least as long as it is retired, from which
`NotClosedEarly` follows when the timer runs off.

`PortainerSession`: `HealsUndisturbed` says nothing of the way to a refusal, so `HealInv` follows each request that is under way and undisturbed:
from its second pass on the client has a session of today, or a token that fits its cookie and a first 403 behind it (`Second`); from its third
on it has both (`Third`), as has what the request sent. A 401 therefore leaves at most two passes behind, a 403 too, and the last pass cannot
end in either. What ties this to the client is `Orderly`: nobody logs in over a session, only a login brings one, and a session is in cookies or
in headers but not in both.

`Recreate`: `AsAsked` is inductive once types are
known, because what is stripped as inherited is exactly what the merge adds again, or a setting that `had` then counts as inherited; where the image had gone, `Kept` says that
what no release brings is in `taken`, however often it starts anew;
`MountsInv` says that what HostConfig names is what is there; `NetworksInv` that a container's aliases hold no id but its own, and `CreatedIs` that with the helper's request the network of HostConfig is
joined by default only when the old container was on none. `Dashboard`: `Faithful` says that each
answer shows every thing as it was at some moment of the look, `Accounted` that each environment has been asked, read or reported, `FilesRead` what
`stack_images` made of a file that was read; from these the three properties follow for each row.

`DashboardProofs` also proves of the gate that waiting, past it and answered are always disjoint and make up the listed stacks (`GateHolds`), so a
place is given back by whoever fails, too.

`Logins`: `NothingForgotten` is inductive with the types, since a sweep, a look and a new failure each leave a profile whose younger part is the old one
moved on. The budget needs `Growing`: what is younger than `k` ticks is younger than `k + 1`, so that time only lowers the count; a request is let in
while the count is below the limit, and each request under way can add one. `Credentials`: a record is `Settled` when the secret in use is
at its place, if it was typed in sight, and the other one, if there is any, was not; a form that is let through either brings the secret of its way to log in or stays
at the place of the record (`MergedSettled`, `BorrowedAtHome`), and a change of that way drops the old secret. `OperationsProofs` holds these because `Logins` and `Credentials` share no variable with
`Operations` or with each other.

`SuccessMeansWorking` is an action property: a verdict of success is given only by a poll that listed the stack's containers, all of them working,
as they are in that very step.

Every watch, helper and request has a number of steps left (`StepsLeft`) that each of its steps lowers and nothing raises: polls for the watch and the
helper, and for a request seven for each pass it may still begin and a place in the present one. These are the safety halves of `VerdictReached`, `HelperEnds`
and `RequestsEnd`: no loop of retries goes on for ever. That the next step is taken at all is fairness, and left to TLC. For `RequestsEnd` it also takes `NobodyIsStuck`, for
`LookEnds` the gate.

Only model-checked: the liveness properties (`LocksReleased`, `EveryRequestAnswered`, `VerdictReached`, `HelperEnds`, `Announced`, `RequestsEnd`, `RetiredAreClosed`,
`LookEnds`, `FreeAgain`), which rest on fairness and `ENABLED` and are outside the prover's reach. Every safety property of the passing runs is a
theorem.

## Where code and text disagree

The first two are runs, with their quotations in `PROJECT.json`; the configurations that others name are run by hand.

1. A lock is freed when the watch gives up, while the host goes on: a deploy and the replacement of its agent can
   overlap (`operations_overlap`); `_exclusive` says "no stack deploy while its environment's agent is being replaced" (`src/app/main.py:613-614`).
2. A volume that HostConfig asks for without naming it counts as covered, so the replacement gets a new, empty one
   (`recreate_unnamed`); `mounts_to_carry` is to "Name every such volume so the new container reattaches to the same data" (`src/app/helper.py:197-198`).
3. `resolve_image_name` returns a bare digest when both lookups fail, and the guards pass it (`MCOperations_blind.cfg`); "A guard that
   cannot look must not pass" (`src/app/main.py:950`).
4. A failed listing before the redeploy makes the old containers look new (`MCDeployWatch_promise.cfg`); "ok means the stack's containers were
   replaced and are all working" (`src/app/main.py:682-683`).
5. A failed removal of the original after a good replacement is reported as a failure that does not say where the original is
   (`MCHelper_leftover.cfg`); "the message says whether the original is running again, and under what name" (`src/app/helper.py:285-287`).
6. Unreadable logs of a helper that succeeded are told as its failure (`MCHelper_logs.cfg`); "Only the helper's own exit says how it went" (`src/app/main.py:849-851`).
7. A place that one check cannot judge is mailed again by the next (`MCUpdateChecker_again.cfg`); mail is sent "only for findings it hasn't
   already reported" (`src/README.md:148-149`).
8. When the old image cannot be inspected, `replace` takes its config for empty and copies the container's whole Config, so the old release's command,
   environment and labels are pinned on the new one (`src/app/helper.py:296-300`, `MCRecreate_gone.cfg`); the README says "leaving out anything the
   old container merely inherited from its image" (`src/README.md:174-176`), and `inherited_config` names the harm (`src/app/helper.py:137-139`).
   The comment at the place, "copy the config as it stands", accepts it.
9. A container that was disconnected from every network is back on the one its HostConfig names, because the request then names none
   (`src/app/helper.py:240-241`); the replacement is to have "the same ports, mounts, networks" (`src/README.md:174`). `NetworksStay` states what happens (`CutOff`).
10. The page posts both secrets whichever way to log in is selected (`src/web/index.html:1105-1115`), `InstanceInput` accepts both (`src/app/main.py:302-322`), and
   the one out of sight is stored, survives a change of address for which only the other is asked, and is sent there once the way is
   changed (`MCCredentials_both.cfg`); "A saved credential is never sent anywhere the person did not type it for", nor may it "linger on disk unused"
   (`src/app/instances.py:157-158`, `172-173`), and it is "used only to call the Portainer instance you entered them for" (`src/SECURITY.md:17`).
   `SecretsStayPut` says what is kept of this.
11. `RETIRE_AFTER_SECONDS`, twenty minutes, is to be "Longer than any one job can run (a helper gets fifteen minutes), so a replaced client is never
   closed under something still using it" (`src/app/instances.py:24-25`), but a pull (600 s) followed by the watch of a helper (900 s), or a redeploy (600 s) by the watch of a deploy
   (600 s), takes as long or longer. `ClosedLate` is all that can be promised: who has held a client for less than that does not meet it closed.

Observed while modelling, and contradicted by no text: the rollback starts the original even if the new
container could not be removed, and says so; `stack_images` says that a file that cannot be read makes it fall back to the containers
(`src/app/portainer.py:137-138`), but `images_for` then never calls it and returns nothing, and the row still judges by its containers; a helper killed between its steps leaves the original stopped under the
parked name; an announcement is recorded by image, not by version, so one published right after another was applied may go
unannounced; a check under way puts back a badge that `mark_updated` has cleared; the record keeps the keys of
deleted instances; and the late 401 or token of one request may undo what another has just renewed.

## Not modelled, and why

* The texts of answers, the log, counts, statistics, `list_instances` and the other routes that only read.
* Docker, Portainer, registries and the network: external, modelled by how they may answer.
* SMTP, TLS, signed cookies, password hashes, HTTP over the Engine's socket: library code and pure I/O.
* Registry authentication and manifests, `config.py`: no state that other components see.
* Images the checker skips (pinned, local, never deployed).
* Finding image lines and profiles in a compose file (`extract_images`, `profiled_images`), and dropping malformed entries of an answer
  (`well_formed`): reading of text. `Dashboard` starts from what they return.
* Rules for names and addresses in a form: conditions on text.
* Identities that change during an operation: a container whose id was looked up before its lock was free may have been
  recreated meanwhile, and the work then fails with a 404, which is the failing end of the model's work (`src/app/main.py:1098`).
* Instances deleted between listing and probing them (`src/app/main.py:342`): that one request fails and nothing is changed.
* The page: its polling loop is the client of `Operations`.

Two behaviours are in the model of the checker and no text of the project promises otherwise, so no property claims it: a badge put back by a
check under way (`src/app/updates.py:462`), and an update announced by image and not by version (`src/app/updates.py:491`).

## What is left

Done, in this order: `Exclusion`, `TargetLock`, `Operations`; `DeployWatch`; `Helper`; `UpdateChecker`;
`PortainerSession`; `Registry`, `Fleet`; `Recreate`; `Dashboard`; `Logins`; `Credentials`; with their proofs. What a continuation would take up:

1. An abstract specification of an update as the user sees it (asked, then told a truth or nothing), implemented by `DeployWatch` and by `Helper`.
2. Bounds on the steps of an operation and of a check, as there are for the watch, the helper and a request.
3. The checker's verdicts on images that are pinned, local or not deployed.
