------------------------- MODULE UpdateCheckerProofs -------------------------
(***************************************************************************)
(* What a check finds and what counts as announced, for any places,        *)
(* images, instances, notifiers and any number of failures.                *)
(***************************************************************************)
EXTENDS UpdateChecker, TLAPS

\* Between two checks nothing is under way.
AtRest ==
    phase = "idle" => local = [p \in Places |-> Unasked] /\ found = NoFindings /\ moved = {}

\* What this check has seen of a place that stands still is still so.
Sights ==
    phase = "looking" =>
      \A p \in Places \ moved :
        /\ local[p] \in Versions => local[p] = runs[p]
        /\ memo[ImageOf[p]] \in Versions => memo[ImageOf[p]] = registry[ImageOf[p]]

\* While mails are sent, the round keeps its books: a notifier that was tried
\* has sent the mail, or the round is not delivered.
Round ==
    phase = "mailing" =>
      /\ accepted \subseteq tried
      /\ delivered <=> accepted = tried
      /\ accepted = Notifiers => events \subseteq told
      /\ current = {p \in Places : found[p] = "update"}
      /\ events = current \ notified
      /\ carried \subseteq notified
      /\ \A p \in notified : found[p] = "none" => p \in carried
      /\ \A p \in Places : found[p] = "unknown" => p \in unclear

\* Whoever has been told is on record, or there is a reason why not.
Remembered ==
    /\ phase # "mailing" => told \subseteq notified \cup unclear
    /\ phase = "mailing" =>
         \A p \in told : \/ p \in notified \cup unclear
                         \/ p \in events /\ accepted = Notifiers
                         \/ found[p] = "current"

IInv == TypeOK /\ AtRest /\ Sights /\ ChecksAreFresh /\ Round /\ Remembered /\ AnnouncedWasSent

LEMMA NoSuchVersion == Unasked \notin Versions /\ Failed \notin Versions
  BY ConstantsAssumption DEF Unasked, Failed, Versions

LEMMA InitIInv == Init => IInv
  <1> SUFFICES ASSUME Init PROVE IInv
    OBVIOUS
  <1>1. TypeOK
    BY ConstantsAssumption DEF Init, TypeOK, Versions, NoFindings
  <1>2. phase = "idle" /\ notified = {} /\ saved = {} /\ told = {}
    BY DEF Init
  <1>3. AtRest /\ Sights /\ ChecksAreFresh /\ Round /\ Remembered /\ AnnouncedWasSent
    BY <1>2 DEF Init, AtRest, Sights, ChecksAreFresh, Round, Remembered, AnnouncedWasSent
  <1> QED BY <1>1, <1>3 DEF IInv

LEMMA TypeOKStep == TypeOK /\ [Next]_vars => TypeOK'
  <1> SUFFICES ASSUME TypeOK, [Next]_vars PROVE TypeOK'
    OBVIOUS
  <1> USE ConstantsAssumption DEF TypeOK, Versions, NoFindings, world, check, mailing, record, history, counters
  <1>1. ASSUME NEW i \in Images, Publish(i) PROVE TypeOK'
    BY <1>1 DEF Publish
  <1>2. ASSUME NEW p \in Places, Apply(p) PROVE TypeOK'
    BY <1>2 DEF Apply
  <1>3. ASSUME NEW p \in Places, MarkUpdated(p) PROVE TypeOK'
    BY <1>3 DEF MarkUpdated
  <1>4. CASE Scheduled
    BY <1>4 DEF Scheduled, Start, FreshMemo
  <1>5. CASE Manual
    BY <1>5 DEF Manual, Start, FreshMemo
  <1>6. ASSUME NEW i \in Instances, ListingFails(i) PROVE TypeOK'
    BY <1>6 DEF ListingFails, Trouble
  <1>7. ASSUME NEW p \in Places, Look(p) PROVE TypeOK'
    BY <1>7 DEF Look, Trouble
  <1>8. ASSUME NEW i \in Images, Ask(i) PROVE TypeOK'
    BY <1>8 DEF Ask, Trouble
  <1>9. ASSUME NEW p \in Places, Compare(p) PROVE TypeOK'
    BY <1>9 DEF Compare, Wanted
  <1>10. CASE Aborts
    BY <1>10 DEF Aborts, Forget, NoFindings, Trouble
  <1>11. CASE PublishQuietly
    BY <1>11 DEF PublishQuietly, Complete, Forget, NoFindings
  <1>12. CASE PublishAndSort
    BY <1>12 DEF PublishAndSort, Complete, New, Carried
  <1>13. ASSUME NEW n \in Notifiers, Send(n) PROVE TypeOK'
    <2>1. /\ UNCHANGED <<world, check, results, current, events, carried, record, moved>>
          /\ tried' = tried \cup {n}
      BY <1>13 DEF Send
    <2>2. accepted' \subseteq Notifiers /\ told' \subseteq Places /\ unclear' \subseteq Places
      BY <1>13 DEF Send
    <2>3. delivered' \in BOOLEAN
      BY <1>13 DEF Send, Verdict
    <2>4. trouble' \in 0 .. MaxTrouble /\ manuals' = manuals
      <3>1. UNCHANGED counters \/ Trouble
        BY <1>13 DEF Send
      <3> QED BY <3>1 DEF Trouble
    <2> QED BY <2>1, <2>2, <2>3, <2>4
  <1>14. CASE Record
    BY <1>14 DEF Record, Recorded, Forget, NoFindings, Trouble
  <1>15. CASE Restart
    BY <1>15 DEF Restart, Forget, NoFindings, Trouble
  <1>16. CASE UNCHANGED vars
    BY <1>16 DEF vars
  <1> QED
    BY <1>1, <1>2, <1>3, <1>4, <1>5, <1>6, <1>7, <1>8, <1>9, <1>10, <1>11, <1>12, <1>13, <1>14, <1>15, <1>16
    DEF Next, World, Looking, Mailing, Mishap

LEMMA AtRestStep == TypeOK /\ AtRest /\ [Next]_vars => AtRest'
  <1> SUFFICES ASSUME TypeOK, AtRest, [Next]_vars PROVE AtRest'
    OBVIOUS
  <1> USE ConstantsAssumption DEF AtRest, world, check, mailing, record, history, counters
  <1>1. ASSUME NEW i \in Images, Publish(i) PROVE AtRest'
    BY <1>1 DEF Publish
  <1>2. ASSUME NEW p \in Places, Apply(p) PROVE AtRest'
    BY <1>2 DEF Apply
  <1>3. ASSUME NEW p \in Places, MarkUpdated(p) PROVE AtRest'
    BY <1>3 DEF MarkUpdated
  <1>4. CASE Scheduled
    BY <1>4 DEF Scheduled, Start, FreshMemo
  <1>5. CASE Manual
    BY <1>5 DEF Manual, Start, FreshMemo
  <1>6. ASSUME NEW i \in Instances, ListingFails(i) PROVE AtRest'
    BY <1>6 DEF ListingFails, Trouble
  <1>7. ASSUME NEW p \in Places, Look(p) PROVE AtRest'
    BY <1>7 DEF Look, Trouble
  <1>8. ASSUME NEW i \in Images, Ask(i) PROVE AtRest'
    BY <1>8 DEF Ask, Trouble
  <1>9. ASSUME NEW p \in Places, Compare(p) PROVE AtRest'
    BY <1>9 DEF Compare, Wanted
  <1>10. CASE Aborts
    BY <1>10 DEF Aborts, Forget, NoFindings, Trouble
  <1>11. CASE PublishQuietly
    BY <1>11 DEF PublishQuietly, Complete, Forget, NoFindings
  <1>12. CASE PublishAndSort
    BY <1>12 DEF PublishAndSort, Complete, New, Carried
  <1>13. ASSUME NEW n \in Notifiers, Send(n) PROVE AtRest'
    BY <1>13 DEF Send, Verdict, Trouble
  <1>14. CASE Record
    BY <1>14 DEF Record, Recorded, Forget, NoFindings, Trouble
  <1>15. CASE Restart
    BY <1>15 DEF Restart, Forget, NoFindings, Trouble
  <1>16. CASE UNCHANGED vars
    BY <1>16 DEF vars
  <1> QED
    BY <1>1, <1>2, <1>3, <1>4, <1>5, <1>6, <1>7, <1>8, <1>9, <1>10, <1>11, <1>12, <1>13, <1>14, <1>15, <1>16
    DEF Next, World, Looking, Mailing, Mishap

LEMMA SightsStep == TypeOK /\ AtRest /\ Sights /\ [Next]_vars => Sights'
  <1> SUFFICES ASSUME TypeOK, AtRest, Sights, [Next]_vars PROVE Sights'
    OBVIOUS
  <1> USE ConstantsAssumption DEF TypeOK, AtRest, Sights, world, check, mailing, record, history, counters
  <1>1. ASSUME NEW i \in Images, Publish(i) PROVE Sights'
    BY <1>1 DEF Publish
  <1>2. ASSUME NEW p \in Places, Apply(p) PROVE Sights'
    BY <1>2 DEF Apply
  <1>3. ASSUME NEW p \in Places, MarkUpdated(p) PROVE Sights'
    BY <1>3 DEF MarkUpdated
  <1>4. CASE Scheduled
    <2>1. /\ local' = [p \in Places |-> Unasked] /\ memo' = [i \in Images |-> Unasked]
      BY <1>4 DEF Scheduled, Start, FreshMemo
    <2>2. \A p \in Places : local'[p] \notin Versions /\ memo'[ImageOf[p]] \notin Versions
      BY <2>1, NoSuchVersion
    <2> QED BY <2>2
  <1>5. CASE Manual
    <2>1. /\ local' = [p \in Places |-> Unasked] /\ memo' = [i \in Images |-> Unasked]
      BY <1>5 DEF Manual, Start, FreshMemo
    <2>2. \A p \in Places : local'[p] \notin Versions /\ memo'[ImageOf[p]] \notin Versions
      BY <2>1, NoSuchVersion
    <2> QED BY <2>2
  <1>6. ASSUME NEW i \in Instances, ListingFails(i) PROVE Sights'
    BY <1>6 DEF ListingFails, Trouble
  <1>7. ASSUME NEW p \in Places, Look(p) PROVE Sights'
    <2>1. /\ UNCHANGED <<phase, moved, memo, runs, registry>>
          /\ local' \in {[local EXCEPT ![p] = runs[p]], [local EXCEPT ![p] = Failed]}
      BY <1>7 DEF Look
    <2>2. \A q \in Places : local'[q] = local[q] \/ local'[q] = runs[q] \/ local'[q] = Failed
      BY <2>1
    <2> QED BY <2>1, <2>2, NoSuchVersion
  <1>8. ASSUME NEW i \in Images, Ask(i) PROVE Sights'
    <2>1. /\ UNCHANGED <<phase, moved, local, runs, registry>>
          /\ memo' \in {[memo EXCEPT ![i] = registry[i]], [memo EXCEPT ![i] = Failed]}
      BY <1>8 DEF Ask
    <2>2. \A j \in Images : memo'[j] = memo[j] \/ memo'[j] = registry[j] \/ memo'[j] = Failed
      BY <2>1
    <2> QED BY <2>1, <2>2, NoSuchVersion
  <1>9. ASSUME NEW p \in Places, Compare(p) PROVE Sights'
    BY <1>9 DEF Compare, Wanted
  <1>10. CASE Aborts
    BY <1>10 DEF Aborts, Forget, NoFindings, Trouble
  <1>11. CASE PublishQuietly
    BY <1>11 DEF PublishQuietly, Complete, Forget, NoFindings
  <1>12. CASE PublishAndSort
    BY <1>12 DEF PublishAndSort, Complete, New, Carried
  <1>13. ASSUME NEW n \in Notifiers, Send(n) PROVE Sights'
    BY <1>13 DEF Send, Verdict, Trouble
  <1>14. CASE Record
    BY <1>14 DEF Record, Recorded, Forget, NoFindings, Trouble
  <1>15. CASE Restart
    BY <1>15 DEF Restart, Forget, NoFindings, Trouble
  <1>16. CASE UNCHANGED vars
    BY <1>16 DEF vars
  <1> QED
    BY <1>1, <1>2, <1>3, <1>4, <1>5, <1>6, <1>7, <1>8, <1>9, <1>10, <1>11, <1>12, <1>13, <1>14, <1>15, <1>16
    DEF Next, World, Looking, Mailing, Mishap

LEMMA ChecksAreFreshStep == TypeOK /\ AtRest /\ Sights /\ ChecksAreFresh /\ [Next]_vars => ChecksAreFresh'
  <1> SUFFICES ASSUME TypeOK, AtRest, Sights, ChecksAreFresh, [Next]_vars PROVE ChecksAreFresh'
    OBVIOUS
  <1> USE ConstantsAssumption DEF TypeOK, AtRest, Sights, ChecksAreFresh, Due, world, check, mailing, record, history, counters
  <1>1. ASSUME NEW i \in Images, Publish(i) PROVE ChecksAreFresh'
    BY <1>1 DEF Publish
  <1>2. ASSUME NEW p \in Places, Apply(p) PROVE ChecksAreFresh'
    BY <1>2 DEF Apply
  <1>3. ASSUME NEW p \in Places, MarkUpdated(p) PROVE ChecksAreFresh'
    BY <1>3 DEF MarkUpdated
  <1>4. CASE Scheduled
    BY <1>4 DEF Scheduled, Start, NoFindings
  <1>5. CASE Manual
    BY <1>5 DEF Manual, Start, NoFindings
  <1>6. ASSUME NEW i \in Instances, ListingFails(i) PROVE ChecksAreFresh'
    BY <1>6 DEF ListingFails, Trouble
  <1>7. ASSUME NEW p \in Places, Look(p) PROVE ChecksAreFresh'
    BY <1>7 DEF Look, Trouble
  <1>8. ASSUME NEW i \in Images, Ask(i) PROVE ChecksAreFresh'
    BY <1>8 DEF Ask, Trouble
  <1>9. ASSUME NEW p \in Places, Compare(p) PROVE ChecksAreFresh'
    BY <1>9 DEF Compare, Wanted
  <1>10. CASE Aborts
    BY <1>10 DEF Aborts, Forget, NoFindings, Trouble
  <1>11. CASE PublishQuietly
    BY <1>11 DEF PublishQuietly, Complete, Forget, NoFindings
  <1>12. CASE PublishAndSort
    BY <1>12 DEF PublishAndSort, Complete, New, Carried
  <1>13. ASSUME NEW n \in Notifiers, Send(n) PROVE ChecksAreFresh'
    BY <1>13 DEF Send, Verdict, Trouble
  <1>14. CASE Record
    BY <1>14 DEF Record, Recorded, Forget, NoFindings, Trouble
  <1>15. CASE Restart
    BY <1>15 DEF Restart, Forget, NoFindings, Trouble
  <1>16. CASE UNCHANGED vars
    BY <1>16 DEF vars
  <1> QED
    BY <1>1, <1>2, <1>3, <1>4, <1>5, <1>6, <1>7, <1>8, <1>9, <1>10, <1>11, <1>12, <1>13, <1>14, <1>15, <1>16
    DEF Next, World, Looking, Mailing, Mishap

LEMMA RoundStep == TypeOK /\ Round /\ [Next]_vars => Round'
  <1> SUFFICES ASSUME TypeOK, Round, [Next]_vars PROVE Round'
    OBVIOUS
  <1> USE ConstantsAssumption DEF TypeOK, Round, world, check, mailing, record, history, counters
  <1>1. ASSUME NEW i \in Images, Publish(i) PROVE Round'
    BY <1>1 DEF Publish
  <1>2. ASSUME NEW p \in Places, Apply(p) PROVE Round'
    BY <1>2 DEF Apply
  <1>3. ASSUME NEW p \in Places, MarkUpdated(p) PROVE Round'
    BY <1>3 DEF MarkUpdated
  <1>4. CASE Scheduled
    BY <1>4 DEF Scheduled, Start, FreshMemo
  <1>5. CASE Manual
    BY <1>5 DEF Manual, Start, FreshMemo
  <1>6. ASSUME NEW i \in Instances, ListingFails(i) PROVE Round'
    BY <1>6 DEF ListingFails, Trouble
  <1>7. ASSUME NEW p \in Places, Look(p) PROVE Round'
    BY <1>7 DEF Look, Trouble
  <1>8. ASSUME NEW i \in Images, Ask(i) PROVE Round'
    BY <1>8 DEF Ask, Trouble
  <1>9. ASSUME NEW p \in Places, Compare(p) PROVE Round'
    BY <1>9 DEF Compare, Wanted
  <1>10. CASE Aborts
    BY <1>10 DEF Aborts, Forget, NoFindings, Trouble
  <1>11. CASE PublishQuietly
    BY <1>11 DEF PublishQuietly, Complete, Forget, NoFindings
  <1>12. CASE PublishAndSort
    BY <1>12 DEF PublishAndSort, Complete, New, Carried
  <1>13. ASSUME NEW n \in Notifiers, Send(n) PROVE Round'
    BY <1>13 DEF Send, Verdict, Trouble
  <1>14. CASE Record
    BY <1>14 DEF Record, Recorded, Forget, NoFindings, Trouble
  <1>15. CASE Restart
    BY <1>15 DEF Restart, Forget, NoFindings, Trouble
  <1>16. CASE UNCHANGED vars
    BY <1>16 DEF vars
  <1> QED
    BY <1>1, <1>2, <1>3, <1>4, <1>5, <1>6, <1>7, <1>8, <1>9, <1>10, <1>11, <1>12, <1>13, <1>14, <1>15, <1>16
    DEF Next, World, Looking, Mailing, Mishap

LEMMA RememberedStep == TypeOK /\ Round /\ Remembered /\ [Next]_vars => Remembered'
  <1> SUFFICES ASSUME TypeOK, Round, Remembered, [Next]_vars PROVE Remembered'
    OBVIOUS
  <1> USE ConstantsAssumption DEF TypeOK, Round, Remembered, world, check, mailing, record, history, counters
  <1>1. ASSUME NEW i \in Images, Publish(i) PROVE Remembered'
    BY <1>1 DEF Publish
  <1>2. ASSUME NEW p \in Places, Apply(p) PROVE Remembered'
    BY <1>2 DEF Apply
  <1>3. ASSUME NEW p \in Places, MarkUpdated(p) PROVE Remembered'
    BY <1>3 DEF MarkUpdated
  <1>4. CASE Scheduled
    BY <1>4 DEF Scheduled, Start, FreshMemo
  <1>5. CASE Manual
    BY <1>5 DEF Manual, Start, FreshMemo
  <1>6. ASSUME NEW i \in Instances, ListingFails(i) PROVE Remembered'
    BY <1>6 DEF ListingFails, Trouble
  <1>7. ASSUME NEW p \in Places, Look(p) PROVE Remembered'
    BY <1>7 DEF Look, Trouble
  <1>8. ASSUME NEW i \in Images, Ask(i) PROVE Remembered'
    BY <1>8 DEF Ask, Trouble
  <1>9. ASSUME NEW p \in Places, Compare(p) PROVE Remembered'
    BY <1>9 DEF Compare, Wanted
  <1>10. CASE Aborts
    BY <1>10 DEF Aborts, Forget, NoFindings, Trouble
  <1>11. CASE PublishQuietly
    BY <1>11 DEF PublishQuietly, Complete, Forget, NoFindings
  <1>12. CASE PublishAndSort
    BY <1>12 DEF PublishAndSort, Complete, New, Carried
  <1>13. ASSUME NEW n \in Notifiers, Send(n) PROVE Remembered'
    BY <1>13 DEF Send, Verdict, Trouble
  <1>14. CASE Record
    BY <1>14 DEF Record, Recorded, Forget, NoFindings, Trouble
  <1>15. CASE Restart
    BY <1>15 DEF Restart, Forget, NoFindings, Trouble
  <1>16. CASE UNCHANGED vars
    BY <1>16 DEF vars
  <1> QED
    BY <1>1, <1>2, <1>3, <1>4, <1>5, <1>6, <1>7, <1>8, <1>9, <1>10, <1>11, <1>12, <1>13, <1>14, <1>15, <1>16
    DEF Next, World, Looking, Mailing, Mishap

LEMMA AnnouncedWasSentStep == TypeOK /\ Round /\ AnnouncedWasSent /\ [Next]_vars => AnnouncedWasSent'
  <1> SUFFICES ASSUME TypeOK, Round, AnnouncedWasSent, [Next]_vars PROVE AnnouncedWasSent'
    OBVIOUS
  <1> USE ConstantsAssumption DEF TypeOK, Round, AnnouncedWasSent, world, check, mailing, record, history, counters
  <1>1. ASSUME NEW i \in Images, Publish(i) PROVE AnnouncedWasSent'
    BY <1>1 DEF Publish
  <1>2. ASSUME NEW p \in Places, Apply(p) PROVE AnnouncedWasSent'
    BY <1>2 DEF Apply
  <1>3. ASSUME NEW p \in Places, MarkUpdated(p) PROVE AnnouncedWasSent'
    BY <1>3 DEF MarkUpdated
  <1>4. CASE Scheduled
    BY <1>4 DEF Scheduled, Start, FreshMemo
  <1>5. CASE Manual
    BY <1>5 DEF Manual, Start, FreshMemo
  <1>6. ASSUME NEW i \in Instances, ListingFails(i) PROVE AnnouncedWasSent'
    BY <1>6 DEF ListingFails, Trouble
  <1>7. ASSUME NEW p \in Places, Look(p) PROVE AnnouncedWasSent'
    BY <1>7 DEF Look, Trouble
  <1>8. ASSUME NEW i \in Images, Ask(i) PROVE AnnouncedWasSent'
    BY <1>8 DEF Ask, Trouble
  <1>9. ASSUME NEW p \in Places, Compare(p) PROVE AnnouncedWasSent'
    BY <1>9 DEF Compare, Wanted
  <1>10. CASE Aborts
    BY <1>10 DEF Aborts, Forget, NoFindings, Trouble
  <1>11. CASE PublishQuietly
    BY <1>11 DEF PublishQuietly, Complete, Forget, NoFindings
  <1>12. CASE PublishAndSort
    BY <1>12 DEF PublishAndSort, Complete, New, Carried
  <1>13. ASSUME NEW n \in Notifiers, Send(n) PROVE AnnouncedWasSent'
    BY <1>13 DEF Send, Verdict, Trouble
  <1>14. CASE Record
    BY <1>14 DEF Record, Recorded, Forget, NoFindings, Trouble
  <1>15. CASE Restart
    BY <1>15 DEF Restart, Forget, NoFindings, Trouble
  <1>16. CASE UNCHANGED vars
    BY <1>16 DEF vars
  <1> QED
    BY <1>1, <1>2, <1>3, <1>4, <1>5, <1>6, <1>7, <1>8, <1>9, <1>10, <1>11, <1>12, <1>13, <1>14, <1>15, <1>16
    DEF Next, World, Looking, Mailing, Mishap

-----------------------------------------------------------------------------
(* The theorems.                                                           *)

LEMMA Invariance == Spec => []IInv
  <1>1. IInv /\ [Next]_vars => IInv'
    BY TypeOKStep, AtRestStep, SightsStep, ChecksAreFreshStep, RoundStep, RememberedStep,
       AnnouncedWasSentStep DEF IInv
  <1> QED BY InitIInv, <1>1, PTL DEF Spec

\* Every reachable state is well typed.
THEOREM TypeCorrect == Spec => []TypeOK
  <1>1. IInv => TypeOK
    BY DEF IInv
  <1> QED BY Invariance, <1>1, PTL

\* What a check finds of a place that stands still is true of the time it ran
\* (the memos of check_all).
THEOREM FindingsAreFresh == Spec => []ChecksAreFresh
  <1>1. IInv => ChecksAreFresh
    BY DEF IInv
  <1> QED BY Invariance, <1>1, PTL

\* Nothing is on record that some notifier has not sent, however many mails,
\* saves and restarts went wrong (_notify_new, _save_notified).
THEOREM OnlyTheSentIsOnRecord == Spec => []AnnouncedWasSent
  <1>1. IInv => AnnouncedWasSent
    BY DEF IInv
  <1> QED BY Invariance, <1>1, PTL

\* What everyone has been told is not mailed again without a reason.
THEOREM NothingIsRepeated == Spec => NoNeedlessMail
  <1>1. IInv /\ [Next]_vars => [PublishAndSort => events' \cap told \subseteq unclear]_vars
    <2> SUFFICES ASSUME IInv, PublishAndSort PROVE events' \cap told \subseteq unclear
      OBVIOUS
    <2>1. events' \cap notified = {} /\ phase = "looking"
      BY DEF PublishAndSort, New, Complete
    <2> QED BY <2>1 DEF IInv, Remembered
  <1> QED BY Invariance, <1>1, PTL DEF Spec, NoNeedlessMail

=============================================================================
