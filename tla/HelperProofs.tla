---------------------------- MODULE HelperProofs ----------------------------
(***************************************************************************)
(* What the helper leaves behind, for any number of polls.                 *)
(***************************************************************************)
EXTENDS Helper, TLAPS

Steps == {"stopped", "parked", "created"}
Live == Up \cup {"down"}
Before == {"absent", "preparing", "stopping"}
Trying == {"connecting", "launching", "waiting", "removing"}
Undoing == {"undoNew", "undoName", "undoStop"}

\* On the way forward the helper has done what it has noted, and nothing else.
Forward ==
    /\ watcher = "launching" => pc = "absent"
    /\ pc \in Before => done = {} /\ problems = {} /\ Untouched /\ old.state # "gone"
    /\ pc = "parking" => done = {"stopped"} /\ old = [state |-> "stopped", name |-> "own"] /\ new = "none"
    /\ pc = "creating" => /\ done = {"stopped", "parked"} /\ new = "none"
                          /\ old = [state |-> "stopped", name |-> "parked"]
    /\ pc \in Trying => /\ done = Steps /\ new # "none"
                        /\ old = [state |-> "stopped", name |-> "parked"]
    /\ pc \in {"connecting", "launching"} => new = "created"
    /\ pc \in {"absent", "parking", "creating"} \cup Trying => problems = {}

\* Whatever the answers were: the original is there, it is down while there is a
\* new container, and a new one that was started is noted.
Safe ==
    /\ pc \in Undoing => old.state # "gone" /\ (new # "none" => old.state = "stopped")
    /\ pc \in Undoing /\ new \in Live => "created" \in done
    /\ pc \in Undoing /\ "stopped" \notin done => new = "none" /\ done = {}
    /\ pc \in {"undoName", "undoStop"} /\ new \in Live => "remove" \in problems
    /\ pc = "exited" => NeverBothGone /\ OneAtATime
    /\ pc = "exited" /\ old.state = "running" /\ new \in Live => "remove" \in problems

\* When no answer was lost, what is left to undo is exactly what was done.
Back ==
    pc \in Undoing /\ ~lost =>
      /\ "stopped" \in done => old.state = "stopped"
      /\ "stopped" \notin done => old.state = "running" \/ wandered
      /\ "parked" \notin done => old.name = "own"
      /\ pc = "undoNew" => problems = {} /\ ("parked" \in done => old.name = "parked")
                           /\ ("created" \notin done => new = "none")
      /\ pc = "undoName" => problems \subseteq {"remove"} /\ ("parked" \in done => old.name = "parked")
      /\ pc = "undoStop" => problems \subseteq {"remove", "rename"} /\ old.name = SaysName
      /\ pc # "undoNew" /\ "remove" \notin problems => new = "none"

Results ==
    /\ pc = "exited" => report # "none"
    /\ pc # "exited" => report = "none"
    /\ pc = "removing" => stable = StablePolls
    /\ pc # "removing" /\ pc # "exited" /\ pc \notin Undoing => stable < StablePolls
    /\ report = "current" => Untouched
    /\ report = "updated" => old.state = "gone" /\ new # "none"

IInv == TypeOK /\ Forward /\ Safe /\ Back /\ Results /\ ReportIsTrue /\ SuccessIsTrue

LEMMA InitIInv == Init => IInv
  <1> SUFFICES ASSUME Init PROVE IInv
    OBVIOUS
  <1>1. TypeOK
    <2>1. old \in [state : States, name : {"own", "parked"}] /\ wandered \in BOOLEAN
      BY DEF Init, States
    <2>2. stable \in 0 .. StablePolls /\ polls \in 0 .. ReadyPolls
      BY ConstantsAssumption DEF Init
    <2> QED BY <2>1, <2>2 DEF Init, TypeOK
  <1>2. Forward /\ Safe /\ Back
    <2>1. pc = "absent" /\ done = {} /\ problems = {} /\ new = "none"
      BY DEF Init
    <2>2. old.name = "own" /\ (old.state = "running" \/ wandered) /\ old.state # "gone"
      <3>1. PICK x \in {"running", "stopped"} : old = [state |-> x, name |-> "own"] /\ wandered = (x = "stopped")
        BY DEF Init
      <3> QED BY <3>1
    <2> QED BY <2>1, <2>2 DEF Forward, Safe, Back, Untouched, Before, Trying, Undoing, Live, Up
  <1>3. Results /\ ReportIsTrue /\ SuccessIsTrue
    BY ConstantsAssumption DEF Init, Results, ReportIsTrue, SuccessIsTrue, Undoing, Before
  <1> QED BY <1>1, <1>2, <1>3 DEF IInv

LEMMA TypeOKStep == IInv /\ [Next]_vars => TypeOK'
  <1> SUFFICES ASSUME IInv, [Next]_vars PROVE TypeOK'
    OBVIOUS
  <1> USE ConstantsAssumption DEF IInv, TypeOK, outside, Results, Forward, States, Answers, Up, Trying
  <1>1. ASSUME NEW a \in Answers, Stop(a) PROVE TypeOK'
    BY <1>1 DEF Stop, Step, After, Stopped, Answer
  <1>2. ASSUME NEW a \in Answers, Park(a) PROVE TypeOK'
    BY <1>2 DEF Park, Step, After, Named, Answer
  <1>3. ASSUME NEW a \in Answers, Create(a) PROVE TypeOK'
    BY <1>3 DEF Create, Step, After, Answer
  <1>4. ASSUME NEW a \in Answers, Connect(a) PROVE TypeOK'
    BY <1>4 DEF Connect, Step, Answer, docker
  <1>5. ASSUME NEW a \in Answers, Launch(a) PROVE TypeOK'
    <2>1. new' \in Up \cup {"none", "created", "down"} /\ lost' \in BOOLEAN
      BY <1>5 DEF Launch, Step, After, Answer
    <2> QED BY <1>5, <2>1 DEF Launch, Step
  <1>6. ASSUME NEW a \in Answers, RemoveOld(a) PROVE TypeOK'
    BY <1>6 DEF RemoveOld, RemovalFails, Exit, After, Answer
  <1>7. ASSUME NEW a \in Answers, UndoNew(a) PROVE TypeOK'
    <2>1. new' \in {new, "none"} /\ lost' \in BOOLEAN /\ problems' \subseteq {"remove", "rename", "start"}
      BY <1>7 DEF UndoNew, After, Note, Answer
    <2> QED BY <1>7, <2>1 DEF UndoNew
  <1>8. ASSUME NEW a \in Answers, UndoName(a) PROVE TypeOK'
    BY <1>8 DEF UndoName, After, Named, Note, Answer
  <1>9. ASSUME NEW a \in Answers, UndoStop(a) PROVE TypeOK'
    BY <1>9 DEF UndoStop, After, Running, Note, Answer, Exit, Summary
  <1>10. CASE Prepare
    BY <1>10 DEF Prepare, Exit, docker
  <1>11. CASE PollGood
    <2>1. stable < StablePolls /\ polls < ReadyPolls /\ stable \in Nat /\ polls \in Nat
      BY <1>11 DEF PollGood, Undoing
    <2>2. stable' \in 0 .. StablePolls /\ polls' \in 0 .. ReadyPolls
      BY <1>11, <2>1 DEF PollGood, CountPoll
    <2>3. pc' \in {"removing", "waiting"} /\ UNCHANGED <<docker, outside, done, problems, report, lost>>
      BY <1>11 DEF PollGood
    <2> QED BY <2>2, <2>3 DEF docker
  <1>12. CASE GiveUp
    BY <1>12 DEF GiveUp, docker
  <1>13. CASE Killed
    BY <1>13 DEF Killed, Exit, docker
  <1>14. CASE NewChanges
    BY <1>14 DEF NewChanges, helper
  <1>15. CASE OldExits
    BY <1>15 DEF OldExits, Stopped, helper
  <1>16. CASE ReadResult
    BY <1>16 DEF ReadResult, Reading, docker, helper
  <1>17. CASE LoseTrack
    BY <1>17 DEF LoseTrack, docker, helper
  <1>18. ASSUME NEW a \in Answers, StartHelper(a) PROVE TypeOK'
    BY <1>18 DEF StartHelper, After, docker
  <1>19. CASE UNCHANGED vars
    BY <1>19 DEF vars, docker, helper
  <1> QED BY <1>1, <1>2, <1>3, <1>4, <1>5, <1>6, <1>7, <1>8, <1>9, <1>10, <1>11, <1>12, <1>13, <1>14, <1>15, <1>16, <1>17, <1>18, <1>19 DEF Next, HelperStep, Surroundings, WatcherStep

LEMMA ForwardStep == IInv /\ [Next]_vars => Forward'
  <1> SUFFICES ASSUME IInv, [Next]_vars PROVE Forward'
    OBVIOUS
  <1> USE ConstantsAssumption DEF IInv, TypeOK, outside, Forward, Safe, Untouched, Before, Trying, Undoing, Steps, Live, Up, States, Answers, NeverBothGone
  <1>1. ASSUME NEW a \in Answers, Stop(a) PROVE Forward'
    BY <1>1 DEF Stop, Step, After, Stopped, Answer
  <1>2. ASSUME NEW a \in Answers, Park(a) PROVE Forward'
    BY <1>2 DEF Park, Step, After, Named, Answer
  <1>3. ASSUME NEW a \in Answers, Create(a) PROVE Forward'
    BY <1>3 DEF Create, Step, After, Answer
  <1>4. ASSUME NEW a \in Answers, Connect(a) PROVE Forward'
    BY <1>4 DEF Connect, Step, Answer, docker
  <1>5. ASSUME NEW a \in Answers, Launch(a) PROVE Forward'
    BY <1>5 DEF Launch, Step, After, Answer, Up
  <1>6. ASSUME NEW a \in Answers, RemoveOld(a) PROVE Forward'
    BY <1>6 DEF RemoveOld, RemovalFails, Exit, After, Answer
  <1>7. ASSUME NEW a \in Answers, UndoNew(a) PROVE Forward'
    BY <1>7 DEF UndoNew, Created, After, Note, Answer
  <1>8. ASSUME NEW a \in Answers, UndoName(a) PROVE Forward'
    BY <1>8 DEF UndoName, After, Named, Note, Answer
  <1>9. ASSUME NEW a \in Answers, UndoStop(a) PROVE Forward'
    BY <1>9 DEF UndoStop, After, Running, Note, Answer, Exit, Summary
  <1>10. CASE Prepare
    BY <1>10 DEF Prepare, Exit, docker
  <1>11. CASE PollGood
    BY <1>11 DEF PollGood, CountPoll, Proven, docker
  <1>12. CASE GiveUp
    BY <1>12 DEF GiveUp, docker
  <1>13. CASE Killed
    BY <1>13 DEF Killed, Exit, docker
  <1>14. CASE NewChanges
    BY <1>14 DEF NewChanges, helper
  <1>15. CASE OldExits
    BY <1>15 DEF OldExits, Stopped, helper
  <1>16. CASE ReadResult
    BY <1>16 DEF ReadResult, Reading, docker, helper
  <1>17. CASE LoseTrack
    BY <1>17 DEF LoseTrack, docker, helper
  <1>18. ASSUME NEW a \in Answers, StartHelper(a) PROVE Forward'
    BY <1>18 DEF StartHelper, After, docker
  <1>19. CASE UNCHANGED vars
    BY <1>19 DEF vars, docker, helper
  <1> QED BY <1>1, <1>2, <1>3, <1>4, <1>5, <1>6, <1>7, <1>8, <1>9, <1>10, <1>11, <1>12, <1>13, <1>14, <1>15, <1>16, <1>17, <1>18, <1>19 DEF Next, HelperStep, Surroundings, WatcherStep

LEMMA SafeStep == IInv /\ [Next]_vars => Safe'
  <1> SUFFICES ASSUME IInv, [Next]_vars PROVE Safe'
    OBVIOUS
  <1> USE ConstantsAssumption DEF IInv, TypeOK, outside, Forward, Safe, NeverBothGone, OneAtATime, Untouched, Before, Trying, Undoing, Steps, Live, Up, States, Answers
  <1>1. ASSUME NEW a \in Answers, Stop(a) PROVE Safe'
    BY <1>1 DEF Stop, Step, After, Stopped, Answer
  <1>2. ASSUME NEW a \in Answers, Park(a) PROVE Safe'
    BY <1>2 DEF Park, Step, After, Named, Answer
  <1>3. ASSUME NEW a \in Answers, Create(a) PROVE Safe'
    BY <1>3 DEF Create, Step, After, Answer
  <1>4. ASSUME NEW a \in Answers, Connect(a) PROVE Safe'
    BY <1>4 DEF Connect, Step, Answer, docker
  <1>5. ASSUME NEW a \in Answers, Launch(a) PROVE Safe'
    BY <1>5 DEF Launch, Step, After, Answer, Up
  <1>6. ASSUME NEW a \in Answers, RemoveOld(a) PROVE Safe'
    BY <1>6 DEF RemoveOld, RemovalFails, Exit, After, Answer
  <1>7. ASSUME NEW a \in Answers, UndoNew(a) PROVE Safe'
    BY <1>7 DEF UndoNew, Created, After, Note, Answer
  <1>8. ASSUME NEW a \in Answers, UndoName(a) PROVE Safe'
    BY <1>8 DEF UndoName, After, Named, Note, Answer
  <1>9. ASSUME NEW a \in Answers, UndoStop(a) PROVE Safe'
    BY <1>9 DEF UndoStop, After, Running, Note, Answer, Exit, Summary
  <1>10. CASE Prepare
    BY <1>10 DEF Prepare, Exit, docker
  <1>11. CASE PollGood
    BY <1>11 DEF PollGood, CountPoll, Proven, docker
  <1>12. CASE GiveUp
    BY <1>12 DEF GiveUp, docker
  <1>13. CASE Killed
    BY <1>13 DEF Killed, Exit, docker
  <1>14. CASE NewChanges
    BY <1>14 DEF NewChanges, helper
  <1>15. CASE OldExits
    BY <1>15 DEF OldExits, Stopped, helper
  <1>16. CASE ReadResult
    BY <1>16 DEF ReadResult, Reading, docker, helper
  <1>17. CASE LoseTrack
    BY <1>17 DEF LoseTrack, docker, helper
  <1>18. ASSUME NEW a \in Answers, StartHelper(a) PROVE Safe'
    BY <1>18 DEF StartHelper, After, docker
  <1>19. CASE UNCHANGED vars
    BY <1>19 DEF vars, docker, helper
  <1> QED BY <1>1, <1>2, <1>3, <1>4, <1>5, <1>6, <1>7, <1>8, <1>9, <1>10, <1>11, <1>12, <1>13, <1>14, <1>15, <1>16, <1>17, <1>18, <1>19 DEF Next, HelperStep, Surroundings, WatcherStep

LEMMA BackStep == IInv /\ [Next]_vars => Back'
  <1> SUFFICES ASSUME IInv, [Next]_vars PROVE Back'
    OBVIOUS
  <1> USE ConstantsAssumption DEF IInv, TypeOK, outside, Forward, Safe, Back, SaysName, Untouched, Before, Trying, Undoing, Steps, Live, Up, States, Answers
  <1>1. ASSUME NEW a \in Answers, Stop(a) PROVE Back'
    BY <1>1 DEF Stop, Step, After, Stopped, Answer
  <1>2. ASSUME NEW a \in Answers, Park(a) PROVE Back'
    <2>1. done = {"stopped"} /\ old.state = "stopped" /\ old.name = "own" /\ new = "none" /\ problems = {}
      BY <1>2 DEF Park, Step
    <2>2. /\ old'.state = "stopped" /\ UNCHANGED <<new, problems, wandered>>
          /\ a = "refused" => old'.name = "own"
      BY <1>2, <2>1 DEF Park, Step, After, Named
    <2>3. CASE a = "done"
      BY <1>2, <2>3 DEF Park, Step
    <2>4. CASE a # "done"
      <3>1. pc' = "undoNew" /\ done' = done /\ (a = "lost" => lost')
        BY <1>2, <2>4 DEF Park, Step, Answer
      <3> QED BY <2>1, <2>2, <2>4, <3>1
    <2> QED BY <2>3, <2>4
  <1>3. ASSUME NEW a \in Answers, Create(a) PROVE Back'
    <2>1. done = {"stopped", "parked"} /\ old.state = "stopped" /\ old.name = "parked" /\ new = "none"
          /\ problems = {}
      BY <1>3 DEF Create, Step
    <2>2. UNCHANGED <<old, problems, wandered>> /\ (a = "refused" => new' = "none")
      BY <1>3, <2>1 DEF Create, Step, After
    <2>3. CASE a = "done"
      BY <1>3, <2>3 DEF Create, Step
    <2>4. CASE a # "done"
      <3>1. pc' = "undoNew" /\ done' = done /\ (a = "lost" => lost')
        BY <1>3, <2>4 DEF Create, Step, Answer
      <3> QED BY <2>1, <2>2, <2>4, <3>1
    <2> QED BY <2>3, <2>4
  <1>4. ASSUME NEW a \in Answers, Connect(a) PROVE Back'
    BY <1>4 DEF Connect, Step, Answer, docker
  <1>5. ASSUME NEW a \in Answers, Launch(a) PROVE Back'
    BY <1>5 DEF Launch, Step, After, Answer, Up
  <1>6. ASSUME NEW a \in Answers, RemoveOld(a) PROVE Back'
    BY <1>6 DEF RemoveOld, RemovalFails, Exit, After, Answer
  <1>7. ASSUME NEW a \in Answers, UndoNew(a) PROVE Back'
    BY <1>7 DEF UndoNew, Created, After, Note, Answer
  <1>8. ASSUME NEW a \in Answers, UndoName(a) PROVE Back'
    <2>1. /\ pc = "undoName" /\ pc' = "undoStop" /\ UNCHANGED <<new, done, wandered>>
          /\ ~lost' => ~lost /\ (a # "lost" \/ "parked" \notin done)
      BY <1>8 DEF UndoName, Answer
    <2>2. CASE "parked" \in done
      <3>1. old'.state = old.state /\ (a # "refused" => old'.name = "own") /\ (a = "refused" => old'.name = old.name)
        BY <1>8, <2>2 DEF UndoName, After, Named
      <3>2. problems' = IF a = "done" THEN problems ELSE problems \cup {"rename"}
        BY <1>8, <2>2 DEF UndoName, Note
      <3> QED BY <2>1, <2>2, <3>1, <3>2
    <2>3. CASE "parked" \notin done
      <3>1. UNCHANGED <<old, problems>>
        BY <1>8, <2>3 DEF UndoName
      <3> QED BY <2>1, <2>3, <3>1
    <2> QED BY <2>2, <2>3
  <1>9. ASSUME NEW a \in Answers, UndoStop(a) PROVE Back'
    BY <1>9 DEF UndoStop, After, Running, Note, Answer, Exit, Summary
  <1>10. CASE Prepare
    BY <1>10 DEF Prepare, Exit, docker
  <1>11. CASE PollGood
    BY <1>11 DEF PollGood, CountPoll, Proven, docker
  <1>12. CASE GiveUp
    BY <1>12 DEF GiveUp, docker
  <1>13. CASE Killed
    BY <1>13 DEF Killed, Exit, docker
  <1>14. CASE NewChanges
    BY <1>14 DEF NewChanges, helper
  <1>15. CASE OldExits
    BY <1>15 DEF OldExits, Stopped, helper
  <1>16. CASE ReadResult
    BY <1>16 DEF ReadResult, Reading, docker, helper
  <1>17. CASE LoseTrack
    BY <1>17 DEF LoseTrack, docker, helper
  <1>18. ASSUME NEW a \in Answers, StartHelper(a) PROVE Back'
    BY <1>18 DEF StartHelper, After, docker
  <1>19. CASE UNCHANGED vars
    BY <1>19 DEF vars, docker, helper
  <1> QED BY <1>1, <1>2, <1>3, <1>4, <1>5, <1>6, <1>7, <1>8, <1>9, <1>10, <1>11, <1>12, <1>13, <1>14, <1>15, <1>16, <1>17, <1>18, <1>19 DEF Next, HelperStep, Surroundings, WatcherStep

LEMMA ResultsStep == IInv /\ [Next]_vars => Results'
  <1> SUFFICES ASSUME IInv, [Next]_vars PROVE Results'
    OBVIOUS
  <1> USE ConstantsAssumption DEF IInv, TypeOK, outside, Results, Forward, Untouched, Before, Trying, Undoing, Steps, Live, Up, States, Answers
  <1>1. ASSUME NEW a \in Answers, Stop(a) PROVE Results'
    BY <1>1 DEF Stop, Step, After, Stopped, Answer
  <1>2. ASSUME NEW a \in Answers, Park(a) PROVE Results'
    BY <1>2 DEF Park, Step, After, Named, Answer
  <1>3. ASSUME NEW a \in Answers, Create(a) PROVE Results'
    BY <1>3 DEF Create, Step, After, Answer
  <1>4. ASSUME NEW a \in Answers, Connect(a) PROVE Results'
    BY <1>4 DEF Connect, Step, Answer, docker
  <1>5. ASSUME NEW a \in Answers, Launch(a) PROVE Results'
    BY <1>5 DEF Launch, Step, After, Answer, Up
  <1>6. ASSUME NEW a \in Answers, RemoveOld(a) PROVE Results'
    BY <1>6 DEF RemoveOld, RemovalFails, Exit, After, Answer
  <1>7. ASSUME NEW a \in Answers, UndoNew(a) PROVE Results'
    BY <1>7 DEF UndoNew, Created, After, Note, Answer
  <1>8. ASSUME NEW a \in Answers, UndoName(a) PROVE Results'
    BY <1>8 DEF UndoName, After, Named, Note, Answer
  <1>9. ASSUME NEW a \in Answers, UndoStop(a) PROVE Results'
    BY <1>9 DEF UndoStop, After, Running, Note, Answer, Exit, Summary
  <1>10. CASE Prepare
    BY <1>10 DEF Prepare, Exit, docker
  <1>11. CASE PollGood
    BY <1>11 DEF PollGood, CountPoll, Proven, docker
  <1>12. CASE GiveUp
    BY <1>12 DEF GiveUp, docker
  <1>13. CASE Killed
    BY <1>13 DEF Killed, Exit, docker
  <1>14. CASE NewChanges
    BY <1>14 DEF NewChanges, helper
  <1>15. CASE OldExits
    BY <1>15 DEF OldExits, Stopped, helper
  <1>16. CASE ReadResult
    BY <1>16 DEF ReadResult, Reading, docker, helper
  <1>17. CASE LoseTrack
    BY <1>17 DEF LoseTrack, docker, helper
  <1>18. ASSUME NEW a \in Answers, StartHelper(a) PROVE Results'
    BY <1>18 DEF StartHelper, After, docker
  <1>19. CASE UNCHANGED vars
    BY <1>19 DEF vars, docker, helper
  <1> QED BY <1>1, <1>2, <1>3, <1>4, <1>5, <1>6, <1>7, <1>8, <1>9, <1>10, <1>11, <1>12, <1>13, <1>14, <1>15, <1>16, <1>17, <1>18, <1>19 DEF Next, HelperStep, Surroundings, WatcherStep

LEMMA ReportIsTrueStep == IInv /\ [Next]_vars => ReportIsTrue'
  <1> SUFFICES ASSUME IInv, [Next]_vars PROVE ReportIsTrue'
    OBVIOUS
  <1> USE ConstantsAssumption DEF IInv, TypeOK, outside, Forward, Safe, Back, Results, ReportIsTrue, SaysName, SaysRunning, Untouched, Before, Trying, Undoing, Steps, Live, Up, States, Answers
  <1>1. ASSUME NEW a \in Answers, Stop(a) PROVE ReportIsTrue'
    BY <1>1 DEF Stop, Step, After, Stopped, Answer
  <1>2. ASSUME NEW a \in Answers, Park(a) PROVE ReportIsTrue'
    BY <1>2 DEF Park, Step, After, Named, Answer
  <1>3. ASSUME NEW a \in Answers, Create(a) PROVE ReportIsTrue'
    BY <1>3 DEF Create, Step, After, Answer
  <1>4. ASSUME NEW a \in Answers, Connect(a) PROVE ReportIsTrue'
    BY <1>4 DEF Connect, Step, Answer, docker
  <1>5. ASSUME NEW a \in Answers, Launch(a) PROVE ReportIsTrue'
    BY <1>5 DEF Launch, Step, After, Answer, Up
  <1>6. ASSUME NEW a \in Answers, RemoveOld(a) PROVE ReportIsTrue'
    BY <1>6 DEF RemoveOld, RemovalFails, Exit, After, Answer
  <1>7. ASSUME NEW a \in Answers, UndoNew(a) PROVE ReportIsTrue'
    BY <1>7 DEF UndoNew, Created, After, Note, Answer
  <1>8. ASSUME NEW a \in Answers, UndoName(a) PROVE ReportIsTrue'
    BY <1>8 DEF UndoName, After, Named, Note, Answer
  <1>9. ASSUME NEW a \in Answers, UndoStop(a) PROVE ReportIsTrue'
    <2>1. pc = "undoStop" /\ report' = Summary /\ UNCHANGED <<new, wandered, done>>
      BY <1>9 DEF UndoStop, Exit
    <2>2. CASE lost'
      BY <2>2
    <2>3. ASSUME ~lost, old'.name = old.name, problems' \in {problems, problems \cup {"start"}},
                 "start" \notin problems' => old'.state = "running" \/ wandered,
                 "start" \in problems' => old'.state = "stopped"
          PROVE  ReportIsTrue'
      <3>1. "start" \notin problems /\ old.name = SaysName /\ ("remove" \notin problems => new = "none")
        BY <2>1, <2>3
      <3>2. old'.name = SaysName'
        BY <2>3, <3>1
      <3>3. problems' = {} => Untouched'
        BY <2>1, <2>3, <3>1
      <3> QED BY <2>1, <2>3, <3>2, <3>3 DEF Summary
    <2>4. CASE ~lost' /\ "stopped" \in done
      <3>1. ~lost /\ a # "lost" /\ old.state = "stopped" /\ "start" \notin problems
        BY <1>9, <2>1, <2>4 DEF UndoStop, Answer
      <3>2. CASE a = "done"
        <4>1. old' = Running /\ problems' = problems
          BY <1>9, <2>4, <3>2 DEF UndoStop, After, Note
        <4> QED BY <2>3, <3>1, <4>1 DEF Running
      <3>3. CASE a = "refused"
        <4>1. old' = old /\ problems' = problems \cup {"start"}
          BY <1>9, <2>4, <3>3 DEF UndoStop, After, Note
        <4> QED BY <2>3, <3>1, <4>1
      <3> QED BY <3>1, <3>2, <3>3
    <2>5. CASE ~lost' /\ "stopped" \notin done
      <3>1. UNCHANGED <<old, problems, lost>>
        BY <1>9, <2>5 DEF UndoStop
      <3>2. (old.state = "running" \/ wandered) /\ "start" \notin problems
        BY <2>1, <2>5, <3>1
      <3> QED BY <2>3, <2>5, <3>1, <3>2
    <2> QED BY <2>2, <2>4, <2>5
  <1>10. CASE Prepare
    BY <1>10 DEF Prepare, Exit, docker
  <1>11. CASE PollGood
    BY <1>11 DEF PollGood, CountPoll, Proven, docker
  <1>12. CASE GiveUp
    BY <1>12 DEF GiveUp, docker
  <1>13. CASE Killed
    BY <1>13 DEF Killed, Exit, docker
  <1>14. CASE NewChanges
    BY <1>14 DEF NewChanges, helper
  <1>15. CASE OldExits
    BY <1>15 DEF OldExits, Stopped, helper
  <1>16. CASE ReadResult
    BY <1>16 DEF ReadResult, Reading, docker, helper
  <1>17. CASE LoseTrack
    BY <1>17 DEF LoseTrack, docker, helper
  <1>18. ASSUME NEW a \in Answers, StartHelper(a) PROVE ReportIsTrue'
    BY <1>18 DEF StartHelper, After, docker
  <1>19. CASE UNCHANGED vars
    BY <1>19 DEF vars, docker, helper
  <1> QED BY <1>1, <1>2, <1>3, <1>4, <1>5, <1>6, <1>7, <1>8, <1>9, <1>10, <1>11, <1>12, <1>13, <1>14, <1>15, <1>16, <1>17, <1>18, <1>19 DEF Next, HelperStep, Surroundings, WatcherStep

LEMMA SuccessIsTrueStep == IInv /\ [Next]_vars => SuccessIsTrue'
  <1> SUFFICES ASSUME IInv, [Next]_vars PROVE SuccessIsTrue'
    OBVIOUS
  <1> USE ConstantsAssumption DEF IInv, TypeOK, outside, Results, SuccessIsTrue, Forward, Untouched, Undoing, Before, Trying, Live, Up, States, Answers
  <1>1. ASSUME NEW a \in Answers, Stop(a) PROVE SuccessIsTrue'
    BY <1>1 DEF Stop, Step, After, Stopped, Answer
  <1>2. ASSUME NEW a \in Answers, Park(a) PROVE SuccessIsTrue'
    BY <1>2 DEF Park, Step, After, Named, Answer
  <1>3. ASSUME NEW a \in Answers, Create(a) PROVE SuccessIsTrue'
    BY <1>3 DEF Create, Step, After, Answer
  <1>4. ASSUME NEW a \in Answers, Connect(a) PROVE SuccessIsTrue'
    BY <1>4 DEF Connect, Step, Answer, docker
  <1>5. ASSUME NEW a \in Answers, Launch(a) PROVE SuccessIsTrue'
    BY <1>5 DEF Launch, Step, After, Answer, Up
  <1>6. ASSUME NEW a \in Answers, RemoveOld(a) PROVE SuccessIsTrue'
    BY <1>6 DEF RemoveOld, RemovalFails, Exit, After, Answer
  <1>7. ASSUME NEW a \in Answers, UndoNew(a) PROVE SuccessIsTrue'
    BY <1>7 DEF UndoNew, Created, After, Note, Answer
  <1>8. ASSUME NEW a \in Answers, UndoName(a) PROVE SuccessIsTrue'
    BY <1>8 DEF UndoName, After, Named, Note, Answer
  <1>9. ASSUME NEW a \in Answers, UndoStop(a) PROVE SuccessIsTrue'
    BY <1>9 DEF UndoStop, After, Running, Note, Answer, Exit, Summary
  <1>10. CASE Prepare
    BY <1>10 DEF Prepare, Exit, docker
  <1>11. CASE PollGood
    BY <1>11 DEF PollGood, CountPoll, Proven, docker
  <1>12. CASE GiveUp
    BY <1>12 DEF GiveUp, docker
  <1>13. CASE Killed
    BY <1>13 DEF Killed, Exit, docker
  <1>14. CASE NewChanges
    BY <1>14 DEF NewChanges, helper
  <1>15. CASE OldExits
    BY <1>15 DEF OldExits, Stopped, helper
  <1>16. CASE ReadResult
    BY <1>16 DEF ReadResult, Reading, docker, helper
  <1>17. CASE LoseTrack
    BY <1>17 DEF LoseTrack, docker, helper
  <1>18. ASSUME NEW a \in Answers, StartHelper(a) PROVE SuccessIsTrue'
    BY <1>18 DEF StartHelper, After, docker
  <1>19. CASE UNCHANGED vars
    BY <1>19 DEF vars, docker, helper
  <1> QED BY <1>1, <1>2, <1>3, <1>4, <1>5, <1>6, <1>7, <1>8, <1>9, <1>10, <1>11, <1>12, <1>13, <1>14, <1>15, <1>16, <1>17, <1>18, <1>19 DEF Next, HelperStep, Surroundings, WatcherStep

-----------------------------------------------------------------------------
(* The theorems.                                                           *)

LEMMA Invariance == Spec => []IInv
  <1>1. IInv /\ [Next]_vars => IInv'
    BY TypeOKStep, ForwardStep, SafeStep, BackStep, ResultsStep, ReportIsTrueStep, SuccessIsTrueStep DEF IInv
  <1> QED BY InitIInv, <1>1, PTL DEF Spec

\* Every reachable state is well typed.
THEOREM TypeCorrect == Spec => []TypeOK
  <1>1. IInv => TypeOK
    BY DEF IInv
  <1> QED BY Invariance, <1>1, PTL

\* The host is never left without both containers, wherever replace or _recover
\* is interrupted and whatever the Docker Engine answers.
THEOREM OneIsKept == Spec => []NeverBothGone
  <1>1. IInv => NeverBothGone
    <2> SUFFICES ASSUME IInv PROVE NeverBothGone
      OBVIOUS
    <2> QED BY DEF IInv, TypeOK, Forward, Safe, NeverBothGone, Before, Trying, Undoing
  <1> QED BY Invariance, <1>1, PTL

\* The two containers run side by side only where _recover says that it could
\* not remove the new one.
THEOREM NotSideBySide == Spec => []OneAtATime
  <1>1. IInv => OneAtATime
    <2> SUFFICES ASSUME IInv PROVE OneAtATime
      OBVIOUS
    <2> QED BY DEF IInv, TypeOK, Forward, Safe, OneAtATime, Untouched, Before, Trying, Undoing, Live, Up
  <1> QED BY Invariance, <1>1, PTL

\* Unless an answer was lost, what the helper reports is how things are.
THEOREM ReportsAreTrue == Spec => []ReportIsTrue
  <1>1. IInv => ReportIsTrue
    BY DEF IInv
  <1> QED BY Invariance, <1>1, PTL

\* A success that _replace_with_helper returns was one on the host, whatever
\* was lost, killed or could not be read on the way.
THEOREM SuccessesAreTrue == Spec => []SuccessIsTrue
  <1>1. IInv => SuccessIsTrue
    BY DEF IInv
  <1> QED BY Invariance, <1>1, PTL

-----------------------------------------------------------------------------
(* The helper is bounded: what HelperEnds rests on, apart from fairness.   *)

\* The steps the helper has left at most.
StepsLeft ==
    CASE pc = "absent" -> ReadyPolls + 11
      [] pc = "preparing" -> ReadyPolls + 10
      [] pc = "stopping" -> ReadyPolls + 9
      [] pc = "parking" -> ReadyPolls + 8
      [] pc = "creating" -> ReadyPolls + 7
      [] pc = "connecting" -> ReadyPolls + 6
      [] pc = "launching" -> ReadyPolls + 5
      [] pc = "waiting" -> ReadyPolls - polls + 4
      [] pc = "undoNew" -> 3
      [] pc = "undoName" -> 2
      [] pc \in {"undoStop", "removing"} -> 1
      [] OTHER -> 0

\* Every step of the helper uses one up, and nothing gives one back.
UsesUp == /\ HelperStep => StepsLeft' < StepsLeft
          /\ StepsLeft' <= StepsLeft

LEMMA UsesUpStep == IInv /\ [Next]_vars => [UsesUp]_vars
  <1> SUFFICES ASSUME IInv, Next PROVE UsesUp
    OBVIOUS
  <1>0. TypeOK /\ (watcher = "launching" => pc = "absent")
    BY DEF IInv, Forward
  <1> USE <1>0, ConstantsAssumption DEF TypeOK
  <1>1. StepsLeft \in Nat
    BY DEF StepsLeft
  <1>2. ASSUME HelperStep PROVE StepsLeft' < StepsLeft
    <2>1. CASE Prepare
      BY <2>1 DEF Prepare, Exit, helper, StepsLeft
    <2>2. ASSUME NEW a \in Answers, Stop(a) \/ Park(a) \/ Create(a) \/ Connect(a) \/ Launch(a)
          PROVE  StepsLeft' < StepsLeft
      <3>1. ASSUME NEW from, NEW to, NEW mark, Step(from, a, mark, to)
            PROVE  pc = from /\ pc' \in {to, "undoNew"} /\ polls' = polls
        BY <3>1 DEF Step
      <3> QED BY <2>2, <3>1 DEF Stop, Park, Create, Connect, Launch, StepsLeft
    <2>3. CASE PollGood
      <3>1. pc = "waiting" /\ polls < ReadyPolls /\ polls' = polls + 1 /\ pc' \in {"waiting", "removing"}
        BY <2>3 DEF PollGood, CountPoll
      <3> QED BY <3>1 DEF StepsLeft
    <2>4. CASE GiveUp
      BY <2>4 DEF GiveUp, StepsLeft
    <2>5. ASSUME NEW a \in Answers, RemoveOld(a) \/ UndoNew(a) \/ UndoName(a) \/ UndoStop(a)
          PROVE  StepsLeft' < StepsLeft
      <3>1. \/ pc \in {"removing", "undoStop"} /\ pc' = "exited"
            \/ pc = "undoNew" /\ pc' = "undoName"
            \/ pc = "undoName" /\ pc' = "undoStop"
        BY <2>5 DEF RemoveOld, RemovalFails, UndoNew, UndoName, UndoStop, Exit
      <3> QED BY <3>1 DEF StepsLeft
    <2> QED BY <1>2, <2>1, <2>2, <2>3, <2>4, <2>5 DEF HelperStep
  <1>3. ASSUME Surroundings PROVE StepsLeft' <= StepsLeft
    <2>1. CASE Killed
      BY <1>1, <2>1 DEF Killed, Exit, StepsLeft
    <2>2. CASE UNCHANGED helper
      BY <1>1, <2>2 DEF helper, StepsLeft
    <2> QED BY <1>3, <2>1, <2>2 DEF Surroundings, NewChanges, OldExits
  <1>4. ASSUME WatcherStep PROVE StepsLeft' <= StepsLeft
    <2>1. ASSUME NEW a \in Answers, StartHelper(a) PROVE StepsLeft' <= StepsLeft
      <3>1. pc = "absent" /\ pc' \in {pc, "preparing"} /\ polls' = polls
        BY <2>1 DEF StartHelper, After
      <3> QED BY <1>1, <3>1 DEF StepsLeft
    <2>2. CASE UNCHANGED helper
      BY <1>1, <2>2 DEF helper, StepsLeft
    <2> QED BY <1>4, <2>1, <2>2 DEF WatcherStep, ReadResult, LoseTrack
  <1>5. ASSUME HelperStep PROVE StepsLeft' <= StepsLeft
    <2>1. StepsLeft' \in Nat
      <3>1. HelperStep => polls' \in 0 .. ReadyPolls
        BY TypeOKStep
      <3> QED BY <1>5, <3>1 DEF StepsLeft
    <2> QED BY <1>1, <1>2, <1>5, <2>1
  <1> QED BY <1>2, <1>3, <1>4, <1>5 DEF UsesUp, Next

\* However often an answer is lost, whatever the new container does and however its
\* undoing fails, the helper takes at most ReadyPolls + 10 steps: neither wait_ready
\* nor _recover can go on for ever.
THEOREM HelperIsBounded ==
    Spec => [](pc # "absent" => StepsLeft \in 0 .. ReadyPolls + 10) /\ [][UsesUp]_vars
  <1>1. IInv => (pc # "absent" => StepsLeft \in 0 .. ReadyPolls + 10)
    BY ConstantsAssumption DEF IInv, TypeOK, StepsLeft
  <1> QED BY <1>1, Invariance, UsesUpStep, PTL DEF Spec

=============================================================================
