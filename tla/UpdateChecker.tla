---------------------------- MODULE UpdateChecker ----------------------------
(***************************************************************************)
(* The update checker, app/updates.py: one check at a time compares what   *)
(* runs on the hosts with what the registries offer, publishes what it     *)
(* found, and, when it ran on schedule, mails what has not been mailed     *)
(* yet.  Registry answers are memoised for the length of a check; what has *)
(* been announced is kept on disk.                                         *)
(*                                                                         *)
(* A place is an image that a stack (or a container on its own) of some    *)
(* instance runs; places that run the same image ask the registry once.    *)
(* Only images that are checked at all are modelled: a moving tag, from a  *)
(* registry, deployed.                                                     *)
(***************************************************************************)
EXTENDS Naturals

CONSTANTS Places, Images, Instances, Notifiers,
          ImageOf,       \* the image of a place
          InstanceOf,    \* the instance of a place
          MaxVersion,    \* bound: versions of an image
          MaxManual,     \* bound: checks asked for from the dashboard
          MaxTrouble     \* bound: failures and restarts

ASSUME ConstantsAssumption ==
    /\ ImageOf \in [Places -> Images] /\ InstanceOf \in [Places -> Instances]
    /\ MaxVersion \in Nat /\ MaxManual \in Nat /\ MaxTrouble \in Nat
    /\ Notifiers # {}   \* there is always the log

Versions == 0 .. MaxVersion
Unasked == MaxVersion + 1   \* not looked at in this check
Failed == MaxVersion + 2    \* looked at in vain

VARIABLES registry,   \* the version each registry offers
          runs,       \* the version each place runs
          phase,      \* of the check: idle, looking, mailing
          kind,       \* scheduled (notify=True) or manual
          memo,       \* _remote_tasks
          local,      \* versions seen running in this check
          found,      \* statuses found in this check
          down,       \* instances whose stacks could not be listed in this check
          results,    \* self.results
          notified,   \* self._notified
          saved,      \* what the state file holds
          current,    \* locals of _notify_new: updates there are,
          events,     \*   those to be mailed,
          carried,    \*   and those of instances not seen
          tried,      \* notifiers that have been asked to send
          delivered,  \* no notifier has failed so far
          accepted,   \* history: notifiers that have sent the mail of this check
          told,       \* history: places in a mail that all notifiers have sent, until
                      \* a scheduled check has found them up to date, on record too
          unclear,    \* history: places that, since they were mailed, a scheduled check
                      \* could not judge, or whose record could not be saved
          moved,      \* history: places whose version or registry changed
                      \* during this check
          manuals, trouble

world == <<registry, runs>>
check == <<phase, kind, memo, local, found, down>>
mailing == <<current, events, carried, tried, delivered>>
record == <<notified, saved>>
history == <<accepted, told, unclear>>
counters == <<manuals, trouble>>
vars == <<world, check, results, mailing, record, history, moved, counters>>

Due(p) == runs[p] # registry[ImageOf[p]]

NoFindings == [p \in Places |-> "none"]

\* The locals of a check that is over.
Forget ==
    /\ local' = [p \in Places |-> Unasked] /\ found' = NoFindings /\ down' = {}
    /\ current' = {} /\ events' = {} /\ carried' = {} /\ tried' = {} /\ delivered' = TRUE
    /\ accepted' = {} /\ moved' = {}

Init ==
    /\ registry = [i \in Images |-> 0] /\ runs = [p \in Places |-> 0]
    /\ phase = "idle" /\ kind = "scheduled"
    /\ memo = [i \in Images |-> Unasked] /\ local = [p \in Places |-> Unasked]
    /\ found = NoFindings /\ down = {}
    /\ results = NoFindings
    /\ notified = {} /\ saved = {}
    /\ current = {} /\ events = {} /\ carried = {} /\ tried = {} /\ delivered = TRUE
    /\ accepted = {} /\ told = {} /\ unclear = {} /\ moved = {}
    /\ manuals = 0 /\ trouble = 0

-----------------------------------------------------------------------------
(* The world.                                                              *)

Publish(i) ==
    /\ registry[i] < MaxVersion
    /\ registry' = [registry EXCEPT ![i] = @ + 1]
    /\ moved' = IF phase = "looking" THEN moved \cup {p \in Places : ImageOf[p] = i} ELSE moved
    /\ UNCHANGED <<runs, check, results, mailing, record, history, counters>>

\* An update on the host, asked for through Restruo or not.
Apply(p) ==
    /\ Due(p)
    /\ runs' = [runs EXCEPT ![p] = registry[ImageOf[p]]]
    /\ moved' = IF phase = "looking" THEN moved \cup {p} ELSE moved
    /\ UNCHANGED <<registry, check, results, mailing, record, history, counters>>

\* mark_updated, called once an update has gone well; it changes the cached
\* results in place.
MarkUpdated(p) ==
    /\ results[p] = "update"
    /\ results' = [results EXCEPT ![p] = "current"]
    /\ UNCHANGED <<world, check, mailing, record, history, moved, counters>>

Trouble == trouble < MaxTrouble /\ trouble' = trouble + 1 /\ UNCHANGED manuals

-----------------------------------------------------------------------------
(* A check looks.                                                          *)

\* Variant: the answers of the check before are still good enough.
FreshMemo_Kept == UNCHANGED memo

\* The memos are cleared when a check begins.
FreshMemo == memo' = [i \in Images |-> Unasked]

Start(k) ==
    /\ phase = "idle" /\ phase' = "looking" /\ kind' = k
    /\ FreshMemo
    /\ UNCHANGED <<world, local, found, down, results, mailing, record, history, moved>>

\* run_periodic.  When a check is running already it waits for that one, and
\* sleeps again.
Scheduled == Start("scheduled") /\ UNCHANGED counters

\* check_updates; while a check is running it waits for that one's result.
Manual ==
    /\ manuals < MaxManual
    /\ Start("manual")
    /\ manuals' = manuals + 1 /\ UNCHANGED trouble

\* An instance that cannot be listed has an error and no statuses.
ListingFails(i) ==
    /\ phase = "looking" /\ i \notin down
    /\ \A p \in Places : InstanceOf[p] = i => local[p] = Unasked
    /\ down' = down \cup {i}
    /\ Trouble
    /\ UNCHANGED <<world, phase, kind, memo, local, found, results, mailing, record, history, moved>>

\* What a place runs is read from its host.
Look(p) ==
    /\ phase = "looking" /\ InstanceOf[p] \notin down /\ local[p] = Unasked
    /\ \/ local' = [local EXCEPT ![p] = runs[p]] /\ UNCHANGED <<found, counters>>
       \/ local' = [local EXCEPT ![p] = Failed] /\ found' = [found EXCEPT ![p] = "unknown"] /\ Trouble
    /\ UNCHANGED <<world, phase, kind, memo, down, results, mailing, record, history, moved>>

Wanted(p) == phase = "looking" /\ local[p] \in Versions /\ found[p] = "none"

\* _remote_digest asks once for all who want to know; a failure is an answer.
Ask(i) ==
    /\ memo[i] = Unasked
    /\ \E p \in Places : Wanted(p) /\ ImageOf[p] = i
    /\ \/ memo' = [memo EXCEPT ![i] = registry[i]] /\ UNCHANGED counters
       \/ memo' = [memo EXCEPT ![i] = Failed] /\ Trouble
    /\ UNCHANGED <<world, phase, kind, local, found, down, results, mailing, record, history, moved>>

\* The end of _check_image.
Compare(p) ==
    /\ Wanted(p) /\ memo[ImageOf[p]] # Unasked
    /\ found' = [found EXCEPT ![p] = IF memo[ImageOf[p]] = Failed THEN "unknown"
                                     ELSE IF memo[ImageOf[p]] = local[p] THEN "current"
                                     ELSE "update"]
    /\ UNCHANGED <<world, phase, kind, memo, local, down, results, mailing, record, history, moved, counters>>

\* An exception that _check_instance does not foresee: the results stay.
Aborts ==
    /\ phase = "looking" /\ phase' = "idle"
    /\ Trouble
    /\ Forget
    /\ UNCHANGED <<world, kind, memo, results, record, told, unclear>>

Seen(p) == InstanceOf[p] \notin down

Complete == phase = "looking" /\ \A p \in Places : Seen(p) => found[p] # "none"

\* A check that somebody asked for publishes its results and mails nothing.
PublishQuietly ==
    /\ Complete /\ kind = "manual"
    /\ results' = found /\ phase' = "idle"
    /\ Forget
    /\ UNCHANGED <<world, kind, memo, record, told, unclear, counters>>

-----------------------------------------------------------------------------
(* _notify_new.                                                            *)

\* Variant: an instance that was not seen is forgotten.
Carried_None == {}
Carried == {p \in notified : ~Seen(p)}

New(due) == due \ notified

\* Everything up to the first await: results, events and what is carried over.
PublishAndSort ==
    /\ Complete /\ kind = "scheduled"
    /\ results' = found
    /\ LET due == {p \in Places : found[p] = "update"}
       IN  current' = due /\ events' = New(due)
    /\ carried' = Carried
    /\ tried' = {} /\ delivered' = TRUE /\ accepted' = {}
    /\ phase' = "mailing"
    /\ unclear' = (unclear \cup {p \in Places : found[p] = "unknown"}) \ {p \in Places : found[p] = "current"}
    /\ UNCHANGED <<world, kind, memo, local, found, down, record, told, moved, counters>>

\* Variant: the last notifier's fate decides.
Verdict_Last(ok) == ok
Verdict(ok) == delivered /\ ok

Send(n) ==
    /\ phase = "mailing" /\ events # {} /\ n \notin tried
    /\ tried' = tried \cup {n}
    /\ \/ /\ delivered' = Verdict(TRUE)
          /\ accepted' = accepted \cup {n}
          /\ IF accepted' = Notifiers THEN told' = told \cup events /\ unclear' = unclear \ events
                                      ELSE UNCHANGED <<told, unclear>>
          /\ UNCHANGED counters
       \/ delivered' = Verdict(FALSE) /\ UNCHANGED history /\ Trouble
    /\ UNCHANGED <<world, check, results, current, events, carried, record, moved>>

\* Variant: what was tried to be sent counts as announced.
Recorded_Tried == current \cup carried

\* What was new counts as announced only when every notifier has sent it.
Recorded == (IF delivered THEN current ELSE notified \cap current) \cup carried

\* The new record is written to a file of its own, which then replaces the old
\* one; when that fails the old one stays.
Record ==
    /\ phase = "mailing" /\ (events = {} \/ tried = Notifiers)
    /\ notified' = Recorded
    /\ \/ saved' = notified' /\ UNCHANGED counters
       \/ UNCHANGED saved /\ Trouble
    /\ told' = {p \in told : found[p] = "current" => p \in notified' \cup saved'}
    /\ unclear' = IF saved' = notified' THEN unclear ELSE unclear \cup (told' \ notified')
    /\ phase' = "idle"
    /\ Forget
    /\ UNCHANGED <<world, kind, memo, results>>

-----------------------------------------------------------------------------
\* The process dies and comes back with what the file holds.  What is not on
\* record there may be mailed again.
Restart ==
    /\ Trouble
    /\ phase' = "idle" /\ results' = NoFindings
    /\ notified' = saved
    /\ told' = told \cap saved
    /\ memo' = [i \in Images |-> Unasked]
    /\ Forget
    /\ UNCHANGED <<world, kind, saved, unclear>>

World == (\E i \in Images : Publish(i)) \/ (\E p \in Places : Apply(p) \/ MarkUpdated(p))

Looking ==
    \/ \E p \in Places : Look(p) \/ Compare(p)
    \/ \E i \in Images : Ask(i)
    \/ PublishQuietly

Mailing == PublishAndSort \/ Record \/ \E n \in Notifiers : Send(n)

Mishap == Aborts \/ Restart \/ \E i \in Instances : ListingFails(i)

Next == World \/ Scheduled \/ Manual \/ Looking \/ Mailing \/ Mishap

Spec == Init /\ [][Next]_vars

\* The event loop runs a check to its end, and the schedule comes round.
FairSpec == Spec /\ WF_vars(Looking) /\ WF_vars(Mailing) /\ WF_vars(Scheduled)

-----------------------------------------------------------------------------
\* Every variable stays within its type.
TypeOK ==
    /\ registry \in [Images -> Versions] /\ runs \in [Places -> Versions]
    /\ phase \in {"idle", "looking", "mailing"} /\ kind \in {"scheduled", "manual"}
    /\ memo \in [Images -> Versions \cup {Unasked, Failed}]
    /\ local \in [Places -> Versions \cup {Unasked, Failed}]
    /\ found \in [Places -> {"none", "current", "update", "unknown"}]
    /\ results \in [Places -> {"none", "current", "update", "unknown"}]
    /\ down \subseteq Instances
    /\ notified \subseteq Places /\ saved \subseteq Places /\ current \subseteq Places
    /\ events \subseteq current /\ carried \subseteq Places
    /\ tried \subseteq Notifiers /\ delivered \in BOOLEAN
    /\ accepted \subseteq Notifiers /\ told \subseteq Places /\ unclear \subseteq Places /\ moved \subseteq Places
    /\ manuals \in 0 .. MaxManual /\ trouble \in 0 .. MaxTrouble

\* What a check finds of a place that stands still while it runs is true, and
\* never an answer left over from the check before (the memos).
ChecksAreFresh ==
    phase = "looking" =>
      \A p \in Places \ moved : found[p] \in {"none", "unknown", IF Due(p) THEN "update" ELSE "current"}

\* Nothing counts as announced that some notifier has not sent, neither in
\* memory nor on disk: a failed mail is tried again.
AnnouncedWasSent == notified \cup saved \subseteq told

\* A place everyone has been told of is not mailed again, through failed
\* listings, failed mails and restarts, before it has been up to date; unless a
\* check could not judge it, or the record could not be saved, in between.
NoNeedlessMail ==
    [][PublishAndSort => events' \cap told \subseteq unclear]_vars

\* A place that stays behind is announced, whatever went wrong before.
Announced == \A p \in Places : Due(p) ~> ~Due(p) \/ p \in told

\* README: mail is sent "only for findings it hasn't already reported".
NeverMailedTwice == [][PublishAndSort => events' \cap told = {}]_vars

=============================================================================
