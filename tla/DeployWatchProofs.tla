-------------------------- MODULE DeployWatchProofs --------------------------
(***************************************************************************)
(* What a success of the deploy watch means, for any stack, settling       *)
(* window and deadline.                                                    *)
(***************************************************************************)
EXTENDS DeployWatch, TLAPS

LEMMA MarksType == \A c \in Containers \cup {Absent} : [id |-> c.id, state |-> c.state] \in Marks
  BY DEF Containers, Absent, Marks

LEMMA FingerprintType ==
    ASSUME NEW cs \in [Services -> Containers \cup {Absent}]
    PROVE  Fingerprint(cs) \in [Services -> Marks]
  BY MarksType DEF Fingerprint

\* A watch that is still polling has not seen enough equal polls yet.
Window == phase # "done" => stable < SettlePolls

LEMMA TypeInit == Init => TypeOK /\ Window
  <1> SUFFICES ASSUME Init PROVE TypeOK /\ Window
    OBVIOUS
  <1>1. before \in [Services -> Marks] /\ last \in [Services -> Marks]
    BY FingerprintType DEF Init, NoContainers
  <1>2. stack \in [Services -> Containers \cup {Absent}]
    BY DEF Init
  <1>3. stable = 0 /\ polls = 0 /\ pause = 0
    BY DEF Init
  <1>4. stable \in 0 .. SettlePolls /\ polls \in 0 .. MaxPolls /\ pause \in 0 .. PauseLimit + 1
        /\ stable < SettlePolls
    BY <1>3, ConstantsAssumption
  <1> QED BY <1>1, <1>2, <1>4 DEF Init, TypeOK, Window

LEMMA TypeStep == TypeOK /\ Window /\ [Next]_vars => TypeOK' /\ Window'
  <1> SUFFICES ASSUME TypeOK, Window, [Next]_vars PROVE TypeOK' /\ Window'
    OBVIOUS
  <1> USE ConstantsAssumption DEF TypeOK, Window
  <1>1. Fingerprint(stack) \in [Services -> Marks] /\ Fingerprint(NoContainers) \in [Services -> Marks]
    BY FingerprintType DEF NoContainers
  <1>2. Judge(stack) \in {"empty", "broken", "ok"}
    BY DEF Judge
  <1>3. ASSUME NEW s \in Services, Remove(s) PROVE TypeOK' /\ Window'
    <2>1. stack' \in [Services -> Containers \cup {Absent}] /\ touched' \subseteq Services
      BY <1>3 DEF Remove
    <2>2. pause' \in 0 .. PauseLimit + 1
      BY <1>3 DEF Remove, Shown
    <2> QED BY <1>3, <2>1, <2>2 DEF Remove, watch
  <1>4. ASSUME NEW s \in Services, Create(s) PROVE TypeOK' /\ Window'
    <2>1. stack' \in [Services -> Containers \cup {Absent}] /\ touched' \subseteq Services
      BY <1>4 DEF Create
    <2>2. pause' \in 0 .. PauseLimit + 1
      BY <1>4 DEF Create, Shown
    <2> QED BY <1>4, <2>1, <2>2 DEF Create, watch
  <1>5. ASSUME NEW s \in Services, Flap(s) PROVE TypeOK' /\ Window'
    <2>1. stack' \in [Services -> Containers \cup {Absent}] /\ flapped' \in BOOLEAN
      BY <1>5 DEF Flap
    <2> QED BY <1>5, <2>1 DEF Flap, watch
  <1>6. CASE DeployEnds
    BY <1>6 DEF DeployEnds, watch
  <1>7. CASE Baseline \/ Accepted \/ Rejected \/ DeadlinePasses
    <2>1. CASE Baseline
      BY <1>1, <2>1 DEF Baseline, host
    <2>2. CASE Accepted
      BY <1>1, <2>2 DEF Accepted, host
    <2>3. CASE Rejected
      BY <1>1, <2>3 DEF Rejected, host
    <2>4. CASE DeadlinePasses
      BY <1>1, <2>4 DEF DeadlinePasses, host
    <2> QED BY <1>7, <2>1, <2>2, <2>3, <2>4
  <1>8. ASSUME Poll, polls' = polls + 1
        PROVE  /\ polls' \in 0 .. MaxPolls /\ pause' \in 0 .. PauseLimit + 1
               /\ UNCHANGED <<stack, deploy, touched, flapped, baselined, before>>
    BY <1>8 DEF Poll
  <1>9. CASE PollFails
    BY <1>8, <1>9 DEF PollFails, Clock
  <1>10. CASE PollSeesChange
    BY <1>1, <1>2, <1>8, <1>10 DEF PollSeesChange, Clock
  <1>11. CASE PollSeesSame
    <2>1. stable' \in 0 .. SettlePolls /\ (phase' # "done" => stable' < SettlePolls)
      BY <1>11 DEF PollSeesSame, Poll, Counts, Settled
    <2>2. phase' \in {"polling", "done"} /\ look' \in {"empty", "broken", "ok"}
          /\ verdict' \in {verdict, look'}
      BY <1>2, <1>11 DEF PollSeesSame, Poll, Relist
    <2> QED BY <1>8, <1>11, <2>1, <2>2 DEF PollSeesSame, Clock
  <1>12. CASE UNCHANGED vars
    BY <1>12 DEF vars, host, watch
  <1> QED BY <1>3, <1>4, <1>5, <1>6, <1>7, <1>9, <1>10, <1>11, <1>12 DEF Next, HostStep, WatchStep

-----------------------------------------------------------------------------
(* Why a change that is seen is a change the deploy has made.              *)

\* Before the deploy has touched anything, a host whose old containers keep
\* their state looks like the baseline, and the watch has seen nothing else.
Unchanged ==
    /\ touched = {} => \A s \in Services : stack[s].id # "new"
    /\ phase \in {"baseline", "requesting"} => touched = {} /\ deploy = "none" /\ ~changed /\ verdict = "none"
    /\ phase = "baseline" => ~flapped
    /\ phase # "baseline" /\ Steady /\ touched = {} => Fingerprint(stack) = before
    /\ phase = "polling" /\ ~changed => last = before
    /\ Steady /\ changed => touched # {}
    /\ phase = "polling" => verdict = "none" /\ deploy # "none"
    /\ verdict = "ok" => changed

\* A service the watch has last seen new is new, and one that is still old the
\* watch has last seen old: the deploy only goes forward.
Behind ==
    /\ phase = "requesting" /\ baselined => \A s \in Services : before[s].id = stack[s].id
    /\ phase = "polling" /\ baselined =>
         \A s \in Services : /\ last[s].id = "new" => stack[s].id = "new"
                             /\ stack[s].id = "old" => last[s].id = "old"

\* While a deploy goes on unseen, the polls that agreed are polls it kept silent.
Silence ==
    phase = "polling" /\ Steady /\ changed /\ deploy = "going" /\ pause <= PauseLimit
      /\ (\A s \in Services : last[s].id = stack[s].id)
    => stable < pause

IInv == TypeOK /\ Window /\ Unchanged /\ Behind /\ Silence /\ OkMeansReplaced /\ OkMeansOver

LEMMA FingerprintIds ==
    ASSUME NEW cs, NEW s \in Services
    PROVE  Fingerprint(cs)[s].id = cs[s].id /\ Fingerprint(cs)[s].state = cs[s].state
  BY DEF Fingerprint

LEMMA UnchangedStep == TypeOK /\ Unchanged /\ [Next]_vars => Unchanged'
  <1> SUFFICES ASSUME TypeOK, Unchanged, [Next]_vars PROVE Unchanged'
    OBVIOUS
  <1> USE DEF TypeOK, Unchanged, Steady
  <1>1. ASSUME NEW s \in Services, Remove(s) \/ Create(s) PROVE Unchanged'
    <2>1. touched' # {} /\ deploy = "going" /\ UNCHANGED <<deploy, flapped, watch>>
      BY <1>1 DEF Remove, Create
    <2> QED BY <2>1 DEF watch
  <1>2. ASSUME NEW s \in Services, Flap(s) PROVE Unchanged'
    <2>1. /\ \A x \in Services : stack'[x].id = stack[x].id
          /\ touched = {} => stack[s].id = "old"
          /\ UNCHANGED <<deploy, touched, watch>>
          /\ flapped' = (flapped \/ (phase # "baseline" /\ stack[s].id = "old"))
      BY <1>2 DEF Flap, Containers, Absent
    <2> QED BY <2>1 DEF watch
  <1>3. CASE DeployEnds
    BY <1>3 DEF DeployEnds, watch
  <1>4. CASE Baseline
    BY <1>4 DEF Baseline, host
  <1>5. CASE Accepted \/ Rejected
    BY <1>5 DEF Accepted, Rejected
  <1>6. CASE PollFails
    BY <1>6 DEF PollFails, Poll, Clock
  <1>7. CASE PollSeesChange
    BY <1>7 DEF PollSeesChange, Poll
  <1>8. CASE PollSeesSame
    BY <1>8 DEF PollSeesSame, Poll, Counts
  <1>9. CASE DeadlinePasses
    BY <1>9 DEF DeadlinePasses, host
  <1>10. CASE UNCHANGED vars
    BY <1>10 DEF vars, host, watch
  <1> QED BY <1>1, <1>2, <1>3, <1>4, <1>5, <1>6, <1>7, <1>8, <1>9, <1>10 DEF Next, HostStep, WatchStep

LEMMA BehindStep == TypeOK /\ Unchanged /\ Behind /\ [Next]_vars => Behind'
  <1> SUFFICES ASSUME TypeOK, Unchanged, Behind, [Next]_vars PROVE Behind'
    OBVIOUS
  <1> USE DEF TypeOK, Behind
  <1>1. ASSUME NEW s \in Services, Remove(s) \/ Create(s) PROVE Behind'
    <2>1. /\ phase # "requesting" /\ UNCHANGED watch
          /\ \A x \in Services \ {s} : stack'[x] = stack[x]
          /\ stack[s].id # "new" /\ stack'[s].id # "old"
      BY <1>1 DEF Remove, Create, Unchanged, Containers, Absent
    <2> QED BY <1>1, <2>1 DEF watch, Remove, Create, Absent
  <1>2. ASSUME NEW s \in Services, Flap(s) PROVE Behind'
    <2>1. (\A x \in Services : stack'[x].id = stack[x].id) /\ UNCHANGED watch
      BY <1>2 DEF Flap
    <2> QED BY <2>1 DEF watch
  <1>3. CASE Baseline
    BY <1>3, FingerprintIds DEF Baseline, host
  <1>4. CASE Accepted \/ Rejected
    BY <1>4 DEF Accepted, Rejected
  <1>5. CASE PollSeesChange
    BY <1>5, FingerprintIds DEF PollSeesChange, Poll
  <1>6. CASE PollFails \/ PollSeesSame
    <2>1. phase = "polling" /\ phase' \in {"polling", "done"} /\ UNCHANGED <<stack, baselined, last>>
      BY <1>6 DEF PollFails, PollSeesSame, Poll
    <2> QED BY <2>1
  <1>7. CASE DeployEnds \/ DeadlinePasses \/ UNCHANGED vars
    BY <1>7 DEF DeployEnds, DeadlinePasses, vars, host, watch
  <1> QED BY <1>1, <1>2, <1>3, <1>4, <1>5, <1>6, <1>7 DEF Next, HostStep, WatchStep

LEMMA SilenceStep == TypeOK /\ Unchanged /\ Behind /\ Silence /\ [Next]_vars => Silence'
  <1> SUFFICES ASSUME TypeOK, Unchanged, Behind, Silence, [Next]_vars PROVE Silence'
    OBVIOUS
  <1> USE DEF TypeOK, Silence, Steady
  <1>1. ASSUME NEW s \in Services, Remove(s) PROVE Silence'
    <2>1. stack[s].id = "old" /\ stack'[s].id = "none" /\ UNCHANGED watch /\ deploy = "going"
      BY <1>1 DEF Remove, Absent
    <2>2. phase = "polling" /\ baselined => last'[s].id # stack'[s].id
      BY <2>1 DEF Behind, watch
    <2> QED BY <2>1, <2>2 DEF watch
  <1>2. ASSUME NEW s \in Services, Create(s) PROVE Silence'
    <2>1. stack[s].id = "none" /\ stack'[s].id = "new" /\ UNCHANGED watch
      BY <1>2 DEF Create, Absent
    <2>2. phase = "polling" /\ baselined => last'[s].id # stack'[s].id
      BY <2>1 DEF Behind, watch
    <2> QED BY <2>1, <2>2 DEF watch
  <1>3. ASSUME NEW s \in Services, Flap(s) PROVE Silence'
    <2>1. (\A x \in Services : stack'[x].id = stack[x].id) /\ UNCHANGED <<watch, deploy, pause>>
          /\ (flapped => flapped')
      BY <1>3 DEF Flap
    <2> QED BY <2>1 DEF watch
  <1>4. CASE DeployEnds
    BY <1>4 DEF DeployEnds
  <1>5. CASE Baseline \/ Accepted \/ Rejected \/ DeadlinePasses
    BY <1>5 DEF Baseline, Accepted, Rejected, DeadlinePasses, Unchanged
  <1>6. ASSUME Poll, Steady, touched # {}, deploy = "going", pause' <= PauseLimit
        PROVE  pause' = pause + 1 /\ pause <= PauseLimit
    BY <1>6, ConstantsAssumption DEF Poll
  <1>7. CASE PollFails
    BY <1>6, <1>7 DEF PollFails, Poll, Unchanged
  <1>8. CASE PollSeesChange
    <2>1. Steady => touched # {}
      BY <1>8 DEF PollSeesChange, Unchanged, Poll
    <2> QED BY <1>6, <1>8, <2>1 DEF PollSeesChange, Poll
  <1>9. CASE PollSeesSame
    BY <1>6, <1>9 DEF PollSeesSame, Poll, Unchanged, Counts
  <1>10. CASE UNCHANGED vars
    BY <1>10 DEF vars, host, watch
  <1> QED BY <1>1, <1>2, <1>3, <1>4, <1>5, <1>7, <1>8, <1>9, <1>10 DEF Next, HostStep, WatchStep

LEMMA OverStep ==
    ASSUME PauseLimit <= SettlePolls, IInv, [Next]_vars
    PROVE  OkMeansOver'
  <1> USE ConstantsAssumption DEF IInv, TypeOK, Window, OkMeansOver, Steady
  <1>1. ASSUME verdict = "ok" PROVE OkMeansOver'
    <2>1. phase = "done"
      BY <1>1, ConstantsAssumption DEF Unchanged
    <2>2. ASSUME NEW s \in Services, Remove(s) \/ Create(s) PROVE OkMeansOver'
      <3>1. deploy = "going" /\ UNCHANGED <<verdict, baselined, flapped>>
        BY <2>2 DEF Remove, Create, watch
      <3>2. pause > PauseLimit => pause' = pause
        BY <2>2 DEF Remove, Create, Shown
      <3>3. verdict' = "ok" /\ Steady' => pause > PauseLimit
        BY <3>1
      <3> QED BY <3>2, <3>3
    <2>3. ASSUME NEW s \in Services, Flap(s) PROVE OkMeansOver'
      BY <2>3 DEF Flap, watch
    <2>4. CASE DeployEnds \/ UNCHANGED vars
      BY <2>4 DEF DeployEnds, vars, host, watch
    <2>5. ~WatchStep
      BY <2>1 DEF WatchStep, Baseline, Accepted, Rejected, PollFails, PollSeesChange, PollSeesSame,
                  DeadlinePasses, Poll
    <2> QED BY <2>2, <2>3, <2>4, <2>5 DEF Next, HostStep
  <1>2. ASSUME verdict # "ok", verdict' = "ok" PROVE OkMeansOver'
    <2>1. PollSeesSame
      <3>1. ASSUME NEW s \in Services, Remove(s) \/ Create(s) \/ Flap(s) PROVE FALSE
        BY <1>2, <3>1 DEF Remove, Create, Flap, watch
      <3>2. ~DeployEnds /\ ~UNCHANGED vars
        BY <1>2 DEF DeployEnds, vars, watch
      <3>3. ~(Baseline \/ Accepted \/ Rejected \/ PollFails \/ PollSeesChange \/ DeadlinePasses)
        BY <1>2 DEF Baseline, Accepted, Rejected, PollFails, PollSeesChange, DeadlinePasses
      <3> QED BY <3>1, <3>2, <3>3 DEF Next, HostStep, WatchStep
    <2>2. changed /\ stable + 1 >= SettlePolls /\ phase = "polling"
      BY <1>2, <2>1 DEF PollSeesSame, Poll, Counts, Settled
    <2>3. \A s \in Services : last[s].id = stack[s].id
      BY <2>1, FingerprintIds DEF PollSeesSame
    <2>4. UNCHANGED <<deploy, baselined, flapped>>
      BY <2>1 DEF PollSeesSame, Poll
    <2>5. ASSUME Steady, deploy = "going" PROVE ~(pause' <= PauseLimit)
      <3>1. touched # {}
        BY <2>2, <2>5 DEF Unchanged
      <3>2. pause <= PauseLimit => pause' = pause + 1 /\ stable < pause
        BY <2>1, <2>2, <2>3, <2>5, <3>1 DEF PollSeesSame, Poll, Silence
      <3>3. pause > PauseLimit => pause' = pause
        BY <2>1 DEF PollSeesSame, Poll
      <3> QED BY <2>2, <3>2, <3>3
    <2>6. deploy \in {"going", "over"}
      BY <2>2 DEF Unchanged
    <2>7. Steady' => Steady
      BY <2>4
    <2> QED BY <2>4, <2>5, <2>6, <2>7
  <1> QED BY <1>1, <1>2

-----------------------------------------------------------------------------
(* The theorems.                                                           *)

LEMMA InitIInv == Init => IInv
  <1> SUFFICES ASSUME Init PROVE IInv
    OBVIOUS
  <1>1. TypeOK /\ Window
    BY TypeInit
  <1>2. Unchanged
    <2>1. \A s \in Services : stack[s].id # "new"
      BY DEF Init, Absent
    <2>2. phase = "baseline" /\ touched = {} /\ deploy = "none" /\ ~changed /\ ~baselined
          /\ ~flapped /\ verdict = "none"
      BY DEF Init
    <2>3. phase \in {"baseline", "requesting"} /\ phase # "polling" /\ verdict # "ok" /\ ~Steady
      BY <2>2 DEF Steady
    <2> QED BY <2>1, <2>2, <2>3, Zenon DEF Unchanged
  <1>3. Behind /\ Silence /\ OkMeansReplaced /\ OkMeansOver
    <2>1. phase = "baseline" /\ verdict = "none"
      BY DEF Init
    <2> QED BY <2>1 DEF Behind, Silence, OkMeansReplaced, OkMeansOver
  <1> QED BY <1>1, <1>2, <1>3 DEF IInv

\* Whatever the stack, the settling window and the deadline are.
THEOREM TypeCorrect == Spec => []TypeOK
  <1>1. TypeOK /\ Window /\ [Next]_vars => TypeOK' /\ Window'
    BY TypeStep
  <1> QED BY TypeInit, <1>1, PTL DEF Spec

\* A success in steady circumstances means that the deploy has replaced
\* something, however the polls, their failures and the containers'
\* restarts interleave (_await_deploy and _fingerprint).
THEOREM SuccessMeansReplaced == Spec => []OkMeansReplaced
  <1>1. Init => TypeOK /\ Window /\ Unchanged
    BY InitIInv DEF IInv
  <1>2. (TypeOK /\ Window /\ Unchanged) /\ [Next]_vars => (TypeOK /\ Window /\ Unchanged)'
    BY TypeStep, UnchangedStep
  <1>3. Unchanged => OkMeansReplaced
    BY DEF Unchanged, OkMeansReplaced
  <1> QED BY <1>1, <1>2, <1>3, PTL DEF Spec

LEMMA Invariance == ASSUME PauseLimit <= SettlePolls PROVE Spec => []IInv
  <1>1. IInv /\ [Next]_vars => IInv'
    <2> SUFFICES ASSUME IInv, [Next]_vars PROVE IInv'
      OBVIOUS
    <2>1. TypeOK' /\ Window' /\ Unchanged' /\ Behind' /\ Silence' /\ OkMeansOver'
      BY TypeStep, UnchangedStep, BehindStep, SilenceStep, OverStep DEF IInv
    <2>2. OkMeansReplaced'
      BY <2>1 DEF Unchanged, OkMeansReplaced
    <2> QED BY <2>1, <2>2 DEF IInv
  <1> QED BY <1>1, InitIInv, PTL DEF Spec

\* A success in steady circumstances means that the deploy is over, provided it
\* never goes on unseen for longer than the settling window it is given
\* (DEPLOY_SETTLE_POLLS polls of _await_deploy).
THEOREM SuccessMeansOver == ASSUME PauseLimit <= SettlePolls PROVE Spec => []OkMeansOver
  <1>1. IInv => OkMeansOver
    BY DEF IInv
  <1> QED BY Invariance, <1>1, PTL

-----------------------------------------------------------------------------
(* What a success says of the containers.                                  *)

\* The verdict is passed on the listing of the very poll that settles.
Reported ==
    verdict' = "ok" /\ verdict # "ok" =>
      /\ \E s \in Services : stack[s] # Absent
      /\ \A s \in Services : stack[s] # Absent => IsWorking(stack[s])

LEMMA OkIsJudged ==
    ASSUME NEW cs \in [Services -> Containers \cup {Absent}], Judge(cs) = "ok"
    PROVE  /\ \E s \in Services : cs[s] # Absent
           /\ \A s \in Services : cs[s] # Absent => IsWorking(cs[s])
  <1>1. cs # NoContainers
    BY DEF Judge
  <1>2. \E s \in Services : cs[s] # Absent
    <2> SUFFICES ASSUME \A s \in Services : cs[s] = Absent PROVE cs = NoContainers
      BY <1>1
    <2> QED BY DEF NoContainers
  <1>3. \A s \in Services : cs[s] # Absent => IsWorking(cs[s])
    BY DEF Judge
  <1> QED BY <1>2, <1>3

LEMMA ReportedStep == TypeOK /\ [Next]_vars => Reported
  <1> SUFFICES ASSUME TypeOK, [Next]_vars, verdict' = "ok", verdict # "ok"
               PROVE  /\ \E s \in Services : stack[s] # Absent
                      /\ \A s \in Services : stack[s] # Absent => IsWorking(stack[s])
    BY DEF Reported
  <1>1. PollSeesSame
    <2>1. ASSUME NEW s \in Services, Remove(s) \/ Create(s) \/ Flap(s) PROVE FALSE
      BY <2>1 DEF Remove, Create, Flap, watch
    <2>2. ~DeployEnds /\ ~UNCHANGED vars
      BY DEF DeployEnds, vars, watch
    <2>3. ~(Baseline \/ Accepted \/ Rejected \/ PollFails \/ PollSeesChange \/ DeadlinePasses)
      BY DEF Baseline, Accepted, Rejected, PollFails, PollSeesChange, DeadlinePasses
    <2> QED BY <2>1, <2>2, <2>3 DEF Next, HostStep, WatchStep
  <1>2. Judge(stack) = "ok"
    BY <1>1 DEF PollSeesSame, Relist
  <1> QED BY <1>2, OkIsJudged DEF TypeOK

\* Whatever has happened since the fingerprint last changed, and however many polls
\* failed: a success is only told of containers that were all seen to work in the
\* poll that tells it (_await_deploy keeps last_containers of each listing).
THEOREM SuccessMeansWorking == Spec => OkOnlyWhenWorking
  <1>1. TypeOK /\ [Next]_vars => [Reported]_vars
    BY ReportedStep
  <1> QED BY <1>1, TypeCorrect, PTL DEF Spec, OkOnlyWhenWorking, Reported

-----------------------------------------------------------------------------
(* The watch is bounded: what VerdictReached rests on, apart from fairness. *)

\* The steps the watch has left at most.
StepsLeft ==
    CASE phase = "baseline" -> MaxPolls + 3
      [] phase = "requesting" -> MaxPolls + 2
      [] phase = "polling" -> MaxPolls + 1 - polls
      [] OTHER -> 0

\* Every step of the watch uses one up, and none of the host's gives it back.
UsesUp == /\ WatchStep => StepsLeft' < StepsLeft
          /\ HostStep => StepsLeft' = StepsLeft

LEMMA UsesUpStep == TypeOK /\ [Next]_vars => [UsesUp]_vars
  <1> SUFFICES ASSUME TypeOK, Next PROVE UsesUp
    OBVIOUS
  <1> USE ConstantsAssumption DEF TypeOK
  <1>1. ASSUME HostStep PROVE UNCHANGED <<phase, polls>>
    BY <1>1 DEF HostStep, DeployEnds, Remove, Create, Flap, watch
  <1>2. ASSUME WatchStep PROVE StepsLeft' < StepsLeft
    <2>1. CASE Baseline
      BY <2>1 DEF Baseline, StepsLeft
    <2>2. CASE Accepted
      BY <2>2 DEF Accepted, StepsLeft
    <2>3. CASE Rejected
      BY <2>3 DEF Rejected, StepsLeft
    <2>4. CASE PollFails \/ PollSeesChange
      <3>1. phase = "polling" /\ phase' = "polling" /\ polls' = polls + 1
        BY <2>4 DEF PollFails, PollSeesChange, Poll, Clock
      <3> QED BY <3>1 DEF StepsLeft
    <2>5. CASE PollSeesSame
      <3>1. phase = "polling" /\ phase' \in {"polling", "done"} /\ polls' = polls + 1 /\ polls < MaxPolls
        BY <2>5 DEF PollSeesSame, Poll, Clock
      <3> QED BY <3>1 DEF StepsLeft
    <2>6. CASE DeadlinePasses
      BY <2>6 DEF DeadlinePasses, StepsLeft
    <2> QED BY <1>2, <2>1, <2>2, <2>3, <2>4, <2>5, <2>6 DEF WatchStep
  <1>3. HostStep => StepsLeft' = StepsLeft
    BY <1>1 DEF StepsLeft
  <1> QED BY <1>2, <1>3 DEF UsesUp

\* However the host behaves and however often it fails to answer, the watch takes at
\* most MaxPolls + 3 steps (the deadline of _await_deploy is set once, when it starts).
THEOREM WatchIsBounded ==
    Spec => StepsLeft = MaxPolls + 3 /\ [](StepsLeft \in Nat) /\ [][UsesUp]_vars
  <1>1. TypeOK /\ [Next]_vars => [UsesUp]_vars
    BY UsesUpStep
  <1>2. Init => StepsLeft = MaxPolls + 3
    BY DEF Init, StepsLeft
  <1>3. TypeOK => StepsLeft \in Nat
    BY ConstantsAssumption DEF TypeOK, StepsLeft
  <1> QED BY <1>1, <1>2, <1>3, TypeCorrect, PTL DEF Spec

=============================================================================
