--------------------------- MODULE OperationsProofs ---------------------------
(***************************************************************************)
(* Proofs about Operations, for any set of requests and targets; about     *)
(* Logins, who is let in to ask; and about Credentials, what becomes of    *)
(* the secrets that are edited there.  The three share no variable.        *)
(***************************************************************************)
EXTENDS Operations, Logins, Credentials, FiniteSetTheorems, TLAPS

USE DEF Stages, Outcomes, Replies

-----------------------------------------------------------------------------
(* The exclusion rule and the keys.                                        *)

\* _conflicts does not depend on which of two operations came first.
LEMMA ConflictsSymmetric ==
    ASSUME NEW k, NEW h, Conflicts(k, h)
    PROVE  Conflicts(h, k)
  BY DEF Conflicts

\* A key conflicts with itself: the same target is never worked on twice.
LEMMA ConflictsReflexive == ASSUME NEW k PROVE Conflicts(k, k)
  BY DEF Conflicts

\* A key has a kind and an instance that exists, whatever the guard has seen.
LEMMA KeyOfType ==
    ASSUME NEW c \in Calls, NEW images
    PROVE  KeyOf(c, images) \in Keys
  <1>1. CASE c \in [verb : {"start", "stop", "update"}, at : Targets]
    <2>1. c.verb # "prune" /\ c.at \in Targets /\ c.at.on \in {"stack", "container"}
      BY <1>1, TargetsAssumption
    <2>2. \A kind \in {"stack", "container", "agent", "portainer"} : TargetKey(kind, c.at) \in Keys
      BY <2>1 DEF Keys
    <2> QED BY <2>1, <2>2 DEF KeyOf
  <1>2. CASE c \in [verb : {"prune"}, at : {Whole(i) : i \in Instances}]
    BY <1>2 DEF KeyOf, Keys, Whole
  <1> QED BY <1>1, <1>2 DEF Calls

-----------------------------------------------------------------------------
(* The inductive invariant.                                                *)

\* Whose guard has passed: at work, about to be, or commanded the host before.
Passed == {r \in Requests : stage[r] \in {"spawned", "working"} \/ host[r] # "idle"}

\* A request that is being looked at has a call, and one that was let through
\* runs under the key its guard decided, from a look that was not denied; what
\* that look did not show is noted.
Admitted ==
    /\ \A r \in Requests :
         /\ stage[r] = "guarding" => call[r] \in Calls
         /\ stage[r] \in {"idle", "guarding", "spawned"} => host[r] = "idle"
    /\ \A r \in Passed :
         /\ call[r] \in Calls
         /\ \E look \in Looks(call[r]) :
              /\ ~Denied(call[r], Images(call[r], look))
              /\ key[r] = KeyOf(call[r], Images(call[r], look))
              /\ hidden[r] = Hidden(call[r], look)

LockInv == LockMatchesHolders /\ MutualExclusion

IInv == TypeOK /\ Admitted /\ LockInv

\* What was let through has a key.
LEMMA AdmittedKey ==
    ASSUME Admitted, NEW r \in Requests, stage[r] \in {"spawned", "working"}
    PROVE  key[r] \in Keys
  BY KeyOfType DEF Admitted, Passed

\* A look that lets a request through gives it a key and notes some of the roles.
LEMMA LetThroughTypes ==
    ASSUME TypeOK, NEW r \in Requests, call[r] \in Calls,
           NEW look \in Looks(call[r]), LetThrough(r, look)
    PROVE  key' \in [Requests -> Keys \cup {NoKey}] /\ hidden' \in [Requests -> SUBSET Roles]
  <1>1. Hidden(call[r], look) \subseteq Roles
    <2>1. Guarded(call[r]) => call[r].at \in Targets
      BY DEF Guarded, Calls
    <2> QED BY <2>1, ConstantsAssumption DEF Hidden
  <1> QED BY <1>1, KeyOfType DEF LetThrough, TypeOK

LEMMA TypeInit == Init => TypeOK
  BY ConstantsAssumption DEF Init, TypeOK

\* No step of a handler, a job, a client, the clock or a restart leaves the types.
LEMMA TypeStep == TypeOK /\ Admitted /\ [Next]_vars => TypeOK'
  <1> SUFFICES ASSUME TypeOK, Admitted, [Next]_vars PROVE TypeOK'
    OBVIOUS
  <1> USE DEF TypeOK
  <1>1. ASSUME NEW r \in Requests, Receive(r) PROVE TypeOK'
    BY <1>1 DEF Receive
  <1>2. ASSUME NEW r \in Requests, NEW answer \in Replies, TurnAway(r, answer) PROVE TypeOK'
    BY <1>2 DEF TurnAway
  <1>3. ASSUME NEW r \in Requests, LookupFails(r) \/ GuardDenies(r) \/ FindsConflict(r) PROVE TypeOK'
    BY <1>2, <1>3 DEF LookupFails, GuardDenies, FindsConflict
  <1>4. ASSUME NEW r \in Requests, EnterDirectly(r) PROVE TypeOK'
    <2>1. PICK look \in Looks(call[r]) : LetThrough(r, look)
      BY <1>4 DEF EnterDirectly
    <2>2. call[r] \in Calls
      BY <1>4 DEF EnterDirectly, Admitted
    <2>3. key'[r] \in Keys
      BY <2>1, <2>2, KeyOfType DEF LetThrough
    <2>4. key' \in [Requests -> Keys \cup {NoKey}] /\ hidden' \in [Requests -> SUBSET Roles]
      BY <2>1, <2>2, LetThroughTypes
    <2> QED BY <1>4, <2>3, <2>4 DEF EnterDirectly
  <1>5. ASSUME NEW r \in Requests, SpawnJob(r) PROVE TypeOK'
    <2>1. PICK look \in Looks(call[r]) : LetThrough(r, look)
      BY <1>5 DEF SpawnJob
    <2>2. call[r] \in Calls
      BY <1>5 DEF SpawnJob, Admitted
    <2>3. key' \in [Requests -> Keys \cup {NoKey}] /\ hidden' \in [Requests -> SUBSET Roles]
      BY <2>1, <2>2, LetThroughTypes
    <2> QED BY <1>5, <2>3 DEF SpawnJob
  <1>6. ASSUME NEW r \in Requests, RunnerEnters(r) PROVE TypeOK'
    BY <1>6, AdmittedKey DEF RunnerEnters, NoteRefusal
  <1>7. ASSUME NEW r \in Requests, Dispatch(r) \/ HostFinishes(r) PROVE TypeOK'
    BY <1>7 DEF Dispatch, HostFinishes
  <1>8. ASSUME NEW r \in Requests, NEW result \in {"ok", "failed"}, EndWork(r, result)
        PROVE TypeOK'
    <2>1. call[r] \in Calls
      BY <1>8 DEF EndWork, Admitted, Passed
    <2>2. Updates(r) => call[r].at \in Targets
      BY <2>1 DEF Updates, Calls
    <2> QED BY <1>8, <2>2 DEF EndWork, Unlock, ClearBadge
  <1>9. ASSUME NEW r \in Requests, RespondInline(r) \/ RespondAccepted(r) \/ Poll(r) PROVE TypeOK'
    BY <1>9 DEF RespondInline, RespondAccepted, Poll
  <1>10. CASE Tick
    BY <1>10, ConstantsAssumption DEF Tick
  <1>11. CASE Restart
    BY <1>11, ConstantsAssumption DEF Restart
  <1>12. CASE UNCHANGED vars
    BY <1>12 DEF vars
  <1> QED
    BY <1>1, <1>3, <1>4, <1>5, <1>6, <1>7, <1>8, <1>9, <1>10, <1>11, <1>12 DEF Next

\* Only a request that is let through gets a key, and it keeps the call it was
\* judged by.
LEMMA AdmittedStep == TypeOK /\ Admitted /\ [Next]_vars => Admitted'
  <1> SUFFICES ASSUME TypeOK, Admitted, [Next]_vars PROVE Admitted'
    OBVIOUS
  <1> USE DEF TypeOK
  <1>1. ASSUME NEW r \in Requests, Receive(r) PROVE Admitted'
    BY <1>1 DEF Receive, Admitted, Passed
  <1>2. ASSUME Passed' \subseteq Passed, UNCHANGED <<call, key, host, hidden>>,
               \A r \in Requests : stage'[r] \in {stage[r], "working", "ended"}
        PROVE  Admitted'
    <2>1. \A r \in Passed : Passed' \subseteq Passed /\ call'[r] = call[r] /\ key'[r] = key[r] /\ hidden'[r] = hidden[r]
      BY <1>2
    <2>2. \A r \in Requests :
            /\ stage'[r] = "guarding" => call'[r] \in Calls
            /\ stage'[r] \in {"idle", "guarding", "spawned"} => host'[r] = "idle"
      BY <1>2 DEF Admitted
    <2> QED BY <1>2, <2>1, <2>2 DEF Admitted
  <1>3. ASSUME NEW r \in Requests, LookupFails(r) \/ GuardDenies(r) \/ FindsConflict(r) PROVE Admitted'
    BY <1>2, <1>3 DEF LookupFails, GuardDenies, FindsConflict, TurnAway, Passed
  <1>4. ASSUME NEW r \in Requests, EnterDirectly(r) \/ SpawnJob(r) PROVE Admitted'
    <2>1. PICK look \in Looks(call[r]) : LetThrough(r, look)
      BY <1>4 DEF EnterDirectly, SpawnJob
    <2>2. /\ stage[r] = "guarding" /\ UNCHANGED <<call, host>>
          /\ stage' \in {[stage EXCEPT ![r] = "working"], [stage EXCEPT ![r] = "spawned"]}
      BY <1>4 DEF EnterDirectly, SpawnJob
    <2>3. call[r] \in Calls /\ host[r] = "idle"
      BY <2>2 DEF Admitted
    <2>4. \A s \in Requests \ {r} : key'[s] = key[s] /\ hidden'[s] = hidden[s] /\ stage'[s] = stage[s]
      BY <2>1, <2>2 DEF LetThrough
    <2>5. /\ ~Denied(call[r], Images(call[r], look))
          /\ key'[r] = KeyOf(call[r], Images(call[r], look))
          /\ hidden'[r] = Hidden(call[r], look)
      BY <2>1 DEF LetThrough
    <2>6. Passed' = Passed \cup {r}
      BY <2>2, <2>4 DEF Passed
    <2>7. \A s \in Requests :
            /\ stage'[s] = "guarding" => call'[s] \in Calls
            /\ stage'[s] \in {"idle", "guarding", "spawned"} => host'[s] = "idle"
      BY <2>2, <2>3, <2>4 DEF Admitted
    <2>8. \A s \in Passed \ {r} :
            /\ call'[s] \in Calls
            /\ \E l \in Looks(call'[s]) :
                 /\ ~Denied(call'[s], Images(call'[s], l))
                 /\ key'[s] = KeyOf(call'[s], Images(call'[s], l))
                 /\ hidden'[s] = Hidden(call'[s], l)
      BY <2>2, <2>4 DEF Admitted, Passed
    <2> QED BY <2>1, <2>2, <2>3, <2>5, <2>6, <2>7, <2>8 DEF Admitted
  <1>5. ASSUME NEW r \in Requests, RunnerEnters(r) PROVE Admitted'
    BY <1>2, <1>5 DEF RunnerEnters, Passed
  <1>6. ASSUME NEW r \in Requests, NEW result \in {"ok", "failed"}, EndWork(r, result) PROVE Admitted'
    BY <1>2, <1>6 DEF EndWork, Passed
  <1>7. ASSUME NEW r \in Requests, Dispatch(r) \/ HostFinishes(r) PROVE Admitted'
    <2>1. /\ UNCHANGED <<stage, call, key, hidden>> /\ \A s \in Requests \ {r} : host'[s] = host[s]
          /\ r \in Passed /\ stage[r] \notin {"idle", "guarding", "spawned"}
      BY <1>7 DEF Dispatch, HostFinishes, Passed, Admitted
    <2>2. Passed' \subseteq Passed
      BY <2>1 DEF Passed
    <2> QED BY <2>1, <2>2 DEF Admitted
  <1>8. ASSUME NEW r \in Requests, RespondInline(r) \/ RespondAccepted(r) \/ Poll(r) PROVE Admitted'
    BY <1>2, <1>8 DEF RespondInline, RespondAccepted, Poll, Passed
  <1>9. CASE Tick \/ UNCHANGED vars
    BY <1>2, <1>9 DEF Tick, vars, Passed
  <1>10. CASE Restart
    BY <1>2, <1>10 DEF Restart, Passed
  <1> QED
    BY <1>1, <1>3, <1>4, <1>5, <1>6, <1>7, <1>8, <1>9, <1>10 DEF Next

-----------------------------------------------------------------------------
(* The lock.                                                               *)

\* Taking a key nobody in flight conflicts with keeps the locks sound.
LEMMA LockEnter ==
    ASSUME TypeOK, LockInv, NEW r \in Requests, NEW k,
           stage[r] # "working", ~Blocked(k),
           stage' = [stage EXCEPT ![r] = "working"],
           key'[r] = k, \A s \in Requests \ {r} : key'[s] = key[s],
           inFlight' = inFlight \cup {k}
    PROVE  LockInv'
  <1>1. Working' = Working \cup {r} /\ r \notin Working
    BY DEF TypeOK, Working
  <1>2. \A s \in Working : key'[s] = key[s] /\ key[s] \in inFlight
    BY <1>1 DEF Working, LockInv, LockMatchesHolders
  <1>3. LockMatchesHolders'
    BY <1>1, <1>2 DEF LockInv, LockMatchesHolders
  <1>4. \A s \in Working : ~Conflicts(k, key[s]) /\ ~Conflicts(key[s], k)
    BY <1>2, ConflictsSymmetric DEF Blocked
  <1>5. MutualExclusion'
    BY <1>1, <1>2, <1>4 DEF LockInv, MutualExclusion
  <1> QED BY <1>3, <1>5 DEF LockInv

\* Discarding one's own key leaves the key of everybody else in place, because
\* no two requests at work have the same key.
LEMMA LockLeave ==
    ASSUME TypeOK, LockInv, NEW r \in Requests,
           stage[r] = "working", stage' = [stage EXCEPT ![r] = "ended"],
           key' = key, inFlight' = inFlight \ {key[r]}
    PROVE  LockInv'
  <1>1. Working' = Working \ {r} /\ r \in Working
    BY DEF TypeOK, Working
  <1>2. \A s \in Working : s # r => key[s] # key[r]
    BY <1>1, ConflictsReflexive DEF LockInv, MutualExclusion
  <1>3. LockMatchesHolders'
    BY <1>1, <1>2 DEF LockInv, LockMatchesHolders
  <1>4. MutualExclusion'
    BY <1>1 DEF LockInv, MutualExclusion
  <1> QED BY <1>3, <1>4 DEF LockInv

\* A step that moves nobody in or out of work keeps the locks as they are.
LEMMA LockKeep ==
    ASSUME LockInv, Working' = Working, inFlight' = inFlight,
           \A s \in Working : key'[s] = key[s]
    PROVE  LockInv'
  BY DEF LockInv, LockMatchesHolders, MutualExclusion

LEMMA LockStep == TypeOK /\ LockInv /\ [Next]_vars => LockInv'
  <1> SUFFICES ASSUME TypeOK, LockInv, [Next]_vars PROVE LockInv'
    OBVIOUS
  <1>1. ASSUME NEW r \in Requests, Receive(r) PROVE LockInv'
    BY <1>1, LockKeep DEF Receive, TypeOK, Working
  <1>2. ASSUME NEW r \in Requests, LookupFails(r) \/ GuardDenies(r) \/ FindsConflict(r) PROVE LockInv'
    BY <1>2, LockKeep DEF LookupFails, GuardDenies, FindsConflict, TurnAway, TypeOK, Working
  <1>3. ASSUME NEW r \in Requests, EnterDirectly(r) PROVE LockInv'
    <2>1. PICK look \in Looks(call[r]) : LetThrough(r, look)
      BY <1>3 DEF EnterDirectly
    <2> DEFINE k == KeyOf(call[r], Images(call[r], look))
    <2>2. /\ ~Blocked(k) /\ key' = [key EXCEPT ![r] = k] /\ inFlight' = inFlight \cup {k}
          /\ stage[r] # "working" /\ stage' = [stage EXCEPT ![r] = "working"]
          /\ key'[r] = k /\ \A s \in Requests \ {r} : key'[s] = key[s]
      BY <1>3, <2>1 DEF EnterDirectly, LetThrough, TypeOK
    <2> HIDE DEF k
    <2> QED BY <2>2, LockEnter
  <1>4. ASSUME NEW r \in Requests, SpawnJob(r) PROVE LockInv'
    BY <1>4, LockKeep DEF SpawnJob, LetThrough, TypeOK, Working
  <1>5. ASSUME NEW r \in Requests, RunnerEnters(r) PROVE LockInv'
    <2>1. CASE RunnerRefused(r)
      BY <1>5, <2>1, LockKeep DEF RunnerEnters, TypeOK, Working
    <2>2. CASE ~RunnerRefused(r)
      BY <1>5, <2>2, LockEnter DEF RunnerEnters, RunnerRefused
    <2> QED BY <2>1, <2>2
  <1>6. ASSUME NEW r \in Requests, NEW result \in {"ok", "failed"}, EndWork(r, result) PROVE LockInv'
    BY <1>6, LockLeave DEF EndWork, Unlock
  <1>7. ASSUME NEW r \in Requests, \/ Dispatch(r) \/ HostFinishes(r)
                                  \/ RespondInline(r) \/ RespondAccepted(r) \/ Poll(r)
        PROVE  LockInv'
    BY <1>7, LockKeep DEF Dispatch, HostFinishes, RespondInline, RespondAccepted, Poll, Working
  <1>8. CASE Tick \/ UNCHANGED vars
    BY <1>8, LockKeep DEF Tick, vars, Working
  <1>9. CASE Restart
    <2>1. Working' = {} /\ inFlight' = {}
      BY <1>9 DEF Restart, Working
    <2> QED BY <2>1 DEF LockInv, LockMatchesHolders, MutualExclusion
  <1> QED
    BY <1>1, <1>2, <1>3, <1>4, <1>5, <1>6, <1>7, <1>8, <1>9 DEF Next

-----------------------------------------------------------------------------
(* The theorems.                                                           *)

\* IInv holds of every reachable state.
THEOREM Invariance == Spec => []IInv
  <1>1. Init => IInv
    <2>1. Init => Admitted
      BY DEF Init, Admitted, Passed
    <2>2. Init => LockInv
      BY DEF Init, LockInv, LockMatchesHolders, MutualExclusion, Working
    <2> QED BY <2>1, <2>2, TypeInit DEF IInv
  <1>2. IInv /\ [Next]_vars => IInv'
    BY TypeStep, AdmittedStep, LockStep DEF IInv
  <1> QED BY <1>1, <1>2, PTL DEF Spec

\* Type correctness of the operations, for any requests and targets.
THEOREM TypeCorrect == Spec => []TypeOK
  BY Invariance, PTL DEF IInv

\* The keys in flight are exactly those of the requests at work (the finally of
\* _exclusive, the refused runner, the restart).
THEOREM LockIsExact == Spec => []LockMatchesHolders
  BY Invariance, PTL DEF IInv, LockInv

\* Operations that conflict are never both at work (_run_job and _exclusive).
THEOREM MutuallyExclusive == Spec => []MutualExclusion
  BY Invariance, PTL DEF IInv, LockInv

-----------------------------------------------------------------------------
(* The guards.                                                             *)

\* What a guard acted on is what runs, but for what its look did not show.
LEMMA SeenIsShown ==
    ASSUME NEW c \in Calls, Guarded(c), NEW look \in Looks(c)
    PROVE  /\ c.at \in Targets
           /\ Images(c, look) = Runs[c.at] \ Hidden(c, look)
  <1>1. c.at \in Targets
    BY DEF Guarded, Calls
  <1>2. Moved[c.at] \subseteq Runs[c.at]
    BY <1>1, ConstantsAssumption
  <1> QED BY <1>1, <1>2 DEF Images, Seen, Hidden, Looks

\* The key of a request that was let through is the key of what its target was
\* seen to run.
LEMMA KeyTellsRole ==
    ASSUME Admitted, NEW r \in Passed
    PROVE  /\ call[r] \in Calls
           /\ call[r].verb = "prune" => key[r] = PruneKey(call[r].at.iid)
           /\ Guarded(call[r]) =>
                LET shown == Runs[call[r].at] \ hidden[r] IN
                call[r].at \in Targets /\ ~Denied(call[r], shown) /\ key[r] = KeyOf(call[r], shown)
  <1>1. PICK look \in Looks(call[r]) :
          /\ ~Denied(call[r], Images(call[r], look))
          /\ key[r] = KeyOf(call[r], Images(call[r], look))
          /\ hidden[r] = Hidden(call[r], look)
    BY DEF Admitted
  <1>2. call[r] \in Calls
    BY DEF Admitted
  <1> QED BY <1>1, <1>2, SeenIsShown DEF KeyOf

\* The instance and, for a target, the environment of a key are those of the call.
LEMMA KeyPlace ==
    ASSUME NEW c \in Calls, NEW images
    PROVE  /\ KeyOf(c, images).iid = c.at.iid
           /\ c.verb # "prune" => KeyOf(c, images).eid = c.at.eid
  BY DEF KeyOf, PruneKey, TargetKey

LEMMA AdmittedPlace ==
    ASSUME Admitted, NEW r \in Passed
    PROVE  key[r].iid = call[r].at.iid /\ (call[r].verb # "prune" => key[r].eid = call[r].at.eid)
  BY KeyPlace DEF Admitted

LEMMA CarriersSparedStep == Admitted => CarriersSpared
  <1> SUFFICES ASSUME Admitted, NEW r \in Commanded
               PROVE  Spared(r, Runs[call[r].at] \ hidden[r])
    BY DEF CarriersSpared
  <1> DEFINE t == call[r].at
             shown == Runs[t] \ hidden[r]
  <1>0. r \in Passed
    BY DEF Passed, Commanded
  <1>1. ASSUME call[r].verb = "stop" PROVE shown \subseteq {"plain"}
    <2>1. t \in Targets /\ ~SelfCritical(shown)
      BY <1>0, <1>1, KeyTellsRole DEF Denied, Guarded
    <2>2. shown \subseteq Roles
      BY <2>1, ConstantsAssumption
    <2> QED BY <2>1, <2>2 DEF SelfCritical, Roles
  <1>2. ASSUME Updates(r), shown \cap {"portainer", "agent"} # {}
        PROVE  t.on = "container" /\ key[r].kind \in {"agent", "portainer"}
    <2>1. t \in Targets /\ CannotRecreate(shown) /\ t.on # "stack" /\ key[r] = KeyOf(call[r], shown)
      BY <1>0, <1>2, KeyTellsRole DEF Updates, Denied, CannotRecreate, Guarded
    <2>2. t.on = "container"
      BY <2>1, TargetsAssumption
    <2> QED BY <1>2, <2>1, <2>2 DEF KeyOf, TargetKey, Updates
  <1> QED BY <1>1, <1>2 DEF Spared

LEMMA GroundHoldsStep == Admitted /\ MutualExclusion => GroundHolds
  <1> SUFFICES ASSUME Admitted, MutualExclusion,
                      NEW r \in Working, NEW s \in Working, r # s,
                      call[r].at.iid = call[s].at.iid
               PROVE  /\ call[r].verb # "prune"
                      /\ ~Knowingly(r, "portainer")
                      /\ ~(Knowingly(r, "agent") /\ call[s].at.eid = call[r].at.eid)
    BY DEF GroundHolds
  <1>0. Working \subseteq Passed
    BY DEF Working, Passed
  <1>1. ~Conflicts(key[r], key[s])
    BY DEF MutualExclusion
  <1>2. key[r].iid = key[s].iid
    BY <1>0, AdmittedPlace
  <1>3. \A q \in Working : call[q].verb = "prune" => key[q].kind = "prune"
    <2>1. \A i : PruneKey(i).kind = "prune"
      BY DEF PruneKey
    <2> QED BY <1>0, <2>1, KeyTellsRole
  <1>4. key[r].kind # "prune" /\ key[s].kind # "prune"
    BY <1>1, <1>2 DEF Conflicts
  <1>5. ASSUME NEW role \in {"portainer", "agent"}, Knowingly(r, role)
        PROVE  key[r].kind = role
    <2> DEFINE shown == Runs[call[r].at] \ hidden[r]
    <2>1. shown = {role} /\ call[r].verb = "update" /\ call[r].at.on = "container"
      BY <1>5 DEF Knowingly, Replaces, Updates
    <2>2. key[r] = KeyOf(call[r], shown)
      BY <1>0, <2>1, KeyTellsRole DEF Guarded
    <2> QED BY <1>5, <2>1, <2>2 DEF KeyOf, TargetKey, CannotRecreate
  <1>6. ~Knowingly(r, "portainer")
    BY <1>1, <1>2, <1>5 DEF Conflicts
  <1>7. ASSUME Knowingly(r, "agent"), call[s].at.eid = call[r].at.eid PROVE FALSE
    <2>1. key[r].kind = "agent"
      BY <1>5, <1>7
    <2>2. call[s].verb # "prune" /\ call[r].verb # "prune"
      BY <1>3, <1>4
    <2>3. key[s].eid = call[s].at.eid /\ key[r].eid = call[r].at.eid
      BY <1>0, <2>2, AdmittedPlace
    <2> QED BY <1>1, <1>2, <1>7, <2>1, <2>3 DEF Conflicts
  <1> QED BY <1>3, <1>6, <1>7, <1>4

\* Whatever tags have moved and whichever calls fail: no command to the host stops
\* or recreates through itself a carrier that the guard of _stack_image_names or
\* resolve_image_name was shown, and none stops a Restruo that it was shown.
THEOREM GuardsSpareCarriers == Spec => []CarriersSpared
  <1>1. IInv => CarriersSpared
    BY CarriersSparedStep DEF IInv
  <1> QED BY <1>1, Invariance, PTL

\* The docstring of _exclusive holds of the work Restruo is watching, whatever tags
\* have moved: nothing on an environment whose agent is knowingly replaced, nothing
\* beside a clean-up or a replacement of Portainer that was seen to be one.
THEOREM GroundIsKept == Spec => []GroundHolds
  <1>1. IInv => GroundHolds
    BY GroundHoldsStep DEF IInv, LockInv
  <1> QED BY <1>1, Invariance, PTL

-----------------------------------------------------------------------------
(* The jobs and their results.                                             *)

\* A job is in the table from its creation until it is done and was asked for;
\* what has no result yet, or was not fetched yet, is no older than any job gets.
JobInv ==
    /\ \A r \in Requests :
         /\ stage[r] # "ended" => outcome[r] = "none"
         /\ stage[r] \in {"idle", "guarding"} => r \notin jobs /\ age[r] = 0 /\ reply[r] = "none"
         /\ r \in jobs /\ (~Done(r) \/ reply[r] \in {"none", "accepted"}) => age[r] <= JobLimit
         /\ restarts = 0 /\ stage[r] \in {"spawned", "working"} /\ Updates(r) => r \in jobs
         /\ restarts = 0 /\ reply[r] = "accepted" => r \in jobs
    /\ PollerGetsItsResult

LEMMA JobInit == Init => JobInv
  BY ConstantsAssumption DEF Init, JobInv, PollerGetsItsResult, Done

LEMMA JobStep ==
    ASSUME JobLimit <= Retention, TypeOK, JobInv, [Next]_vars
    PROVE  JobInv'
  <1> USE DEF TypeOK, JobInv, PollerGetsItsResult, Done, Updates
  <1>1. ASSUME NEW r \in Requests, Receive(r) PROVE JobInv'
    BY <1>1 DEF Receive
  <1>2. ASSUME NEW r \in Requests, LookupFails(r) \/ GuardDenies(r) \/ FindsConflict(r) PROVE JobInv'
    BY <1>2 DEF LookupFails, GuardDenies, FindsConflict, TurnAway
  <1>3. ASSUME NEW r \in Requests, EnterDirectly(r) PROVE JobInv'
    BY <1>3 DEF EnterDirectly
  <1>4. \A r \in Expired : r \in jobs /\ Done(r) /\ reply[r] \notin {"none", "accepted"}
    BY ConstantsAssumption DEF Expired
  <1>5. ASSUME NEW r \in Requests, SpawnJob(r) PROVE JobInv'
    BY <1>4, <1>5, ConstantsAssumption DEF SpawnJob
  <1>6. ASSUME NEW r \in Requests, RunnerEnters(r) PROVE JobInv'
    BY <1>6 DEF RunnerEnters, NoteRefusal
  <1>7. ASSUME NEW r \in Requests, Dispatch(r) \/ HostFinishes(r) PROVE JobInv'
    BY <1>7 DEF Dispatch, HostFinishes
  <1>8. ASSUME NEW r \in Requests, NEW result \in {"ok", "failed"}, EndWork(r, result) PROVE JobInv'
    BY <1>8 DEF EndWork
  <1>9. ASSUME NEW r \in Requests, RespondInline(r) \/ RespondAccepted(r) PROVE JobInv'
    BY <1>9 DEF RespondInline, RespondAccepted
  <1>10. ASSUME NEW r \in Requests, Poll(r) PROVE JobInv'
    BY <1>4, <1>10 DEF Poll
  <1>11. CASE Tick
    BY <1>11, ConstantsAssumption DEF Tick
  <1>12. CASE Restart
    BY <1>12, ConstantsAssumption DEF Restart
  <1>13. CASE UNCHANGED vars
    BY <1>13 DEF vars
  <1> QED
    BY <1>1, <1>2, <1>3, <1>5, <1>6, <1>7, <1>8, <1>9, <1>10, <1>11, <1>12, <1>13 DEF Next

\* As long as no job runs for longer than jobs are kept, a client that polls gets
\* the result of its job unless the process was restarted: _prune_jobs, which
\* counts from the start of a job, drops none that somebody still waits for.
THEOREM PollersAreServed == ASSUME JobLimit <= Retention PROVE Spec => []PollerGetsItsResult
  <1>1. TypeOK /\ JobInv /\ [Next]_vars => JobInv'
    BY JobStep
  <1>2. JobInv => PollerGetsItsResult
    BY DEF JobInv
  <1> QED BY <1>1, <1>2, JobInit, TypeCorrect, PTL DEF Spec

-----------------------------------------------------------------------------
(* The refinement.                                                         *)

Owns == [r \in Requests |-> IF stage[r] = "working" THEN key[r] ELSE NoKey]

\* Somebody owns a key exactly while it is at work, and its key is in flight.
LEMMA OwnsInFlight ==
    ASSUME IInv, NEW s \in Requests, Owns[s] # NoKey
    PROVE  s \in Working /\ Owns[s] = key[s] /\ Owns[s] \in inFlight
  BY DEF Owns, Working, IInv, LockInv, LockMatchesHolders

LEMMA SameKeys == Lock!Keys = Keys
  BY DEF Lock!Keys, Keys, Lock!TargetKey, TargetKey, Lock!PruneKey, PruneKey, Lock!Instances, Instances

LEMMA EnterAcquires ==
    ASSUME IInv, NEW r \in Requests, NEW k \in Keys,
           stage[r] # "working", ~Blocked(k),
           stage' = [stage EXCEPT ![r] = "working"],
           key'[r] = k, \A s \in Requests \ {r} : key'[s] = key[s]
    PROVE  Lock!LockNext
  <1>1. Owns[r] = NoKey
    BY DEF Owns
  <1>2. \A s \in Requests : Owns[s] # NoKey => ~Conflicts(k, Owns[s])
    BY OwnsInFlight DEF Blocked
  <1>3. Owns' = [Owns EXCEPT ![r] = k]
    BY DEF Owns, IInv, TypeOK
  <1>4. /\ Owns[r] = NoKey
        /\ \A s \in Requests : Owns[s] # NoKey => ~Lock!Conflicts(k, Owns[s])
        /\ Owns' = [Owns EXCEPT ![r] = k]
    BY <1>1, <1>2, <1>3 DEF Lock!Conflicts, Conflicts
  <1> QED BY <1>4, SameKeys DEF Lock!LockNext, Lock!Acquire, Owns

LEMMA LockRefinementStep == IInv /\ IInv' /\ [Next]_vars => [Lock!LockNext]_Owns
  <1> SUFFICES ASSUME IInv, IInv', [Next]_vars PROVE Lock!LockNext \/ Owns' = Owns
    OBVIOUS
  <1>1. ASSUME UNCHANGED <<stage, key>> PROVE Owns' = Owns
    BY <1>1 DEF Owns
  <1>2. ASSUME NEW r \in Requests, stage[r] # "working", NEW next \in Stages \ {"working"},
               stage' = [stage EXCEPT ![r] = next], \A s \in Requests \ {r} : key'[s] = key[s]
        PROVE  Owns' = Owns
    BY <1>2 DEF Owns, IInv, TypeOK
  <1>3. ASSUME NEW r \in Requests, Receive(r) PROVE Owns' = Owns
    BY <1>2, <1>3 DEF Receive
  <1>4. ASSUME NEW r \in Requests, LookupFails(r) \/ GuardDenies(r) \/ FindsConflict(r) PROVE Owns' = Owns
    BY <1>2, <1>4 DEF LookupFails, GuardDenies, FindsConflict, TurnAway
  <1>5. ASSUME NEW r \in Requests, EnterDirectly(r) PROVE Lock!LockNext
    <2>1. PICK look \in Looks(call[r]) : LetThrough(r, look)
      BY <1>5 DEF EnterDirectly
    <2>2. call[r] \in Calls /\ stage[r] # "working" /\ stage' = [stage EXCEPT ![r] = "working"]
      BY <1>5 DEF EnterDirectly, IInv, Admitted
    <2> DEFINE k == KeyOf(call[r], Images(call[r], look))
    <2>3. k \in Keys
      BY <2>2, KeyOfType
    <2>4. key'[r] = k /\ \A s \in Requests \ {r} : key'[s] = key[s]
      BY <2>1 DEF LetThrough, IInv, TypeOK
    <2>5. ~Blocked(k)
      BY <2>1 DEF LetThrough
    <2> HIDE DEF k
    <2> QED BY <2>2, <2>3, <2>4, <2>5, EnterAcquires
  <1>6. ASSUME NEW r \in Requests, SpawnJob(r) PROVE Owns' = Owns
    <2>1. \A s \in Requests \ {r} : key'[s] = key[s]
      BY <1>6 DEF SpawnJob, LetThrough, IInv, TypeOK
    <2> QED BY <1>2, <1>6, <2>1 DEF SpawnJob
  <1>7. ASSUME NEW r \in Requests, RunnerEnters(r) PROVE Lock!LockNext \/ Owns' = Owns
    <2>1. CASE RunnerRefused(r)
      BY <1>2, <1>7, <2>1 DEF RunnerEnters
    <2>2. CASE ~RunnerRefused(r)
      <3>1. /\ stage[r] = "spawned" /\ ~Blocked(key[r]) /\ key' = key
            /\ stage' = [stage EXCEPT ![r] = "working"]
        BY <1>7, <2>2 DEF RunnerEnters, RunnerRefused
      <3>2. key[r] \in Keys
        BY <3>1, AdmittedKey DEF IInv
      <3> QED BY <3>1, <3>2, EnterAcquires
    <2> QED BY <2>1, <2>2
  <1>8. ASSUME NEW r \in Requests, NEW result \in {"ok", "failed"}, EndWork(r, result) PROVE Lock!LockNext
    <2>1. stage[r] = "working" /\ stage' = [stage EXCEPT ![r] = "ended"] /\ key' = key
      BY <1>8 DEF EndWork
    <2>2. key[r] \in Keys
      BY <2>1, AdmittedKey DEF IInv
    <2>3. Owns[r] # NoKey
      BY <2>1, <2>2, ConstantsAssumption DEF Owns
    <2>4. Owns' = [Owns EXCEPT ![r] = NoKey]
      BY <2>1 DEF Owns, IInv, TypeOK
    <2> QED BY <2>3, <2>4 DEF Lock!LockNext, Lock!Release, Owns
  <1>9. ASSUME NEW r \in Requests, \/ Dispatch(r) \/ HostFinishes(r)
                                  \/ RespondInline(r) \/ RespondAccepted(r) \/ Poll(r)
        PROVE  Owns' = Owns
    BY <1>1, <1>9 DEF Dispatch, HostFinishes, RespondInline, RespondAccepted, Poll
  <1>10. CASE Tick \/ UNCHANGED vars
    BY <1>1, <1>10 DEF Tick, vars
  <1>11. CASE Restart
    BY <1>11 DEF Restart, Owns, Lock!LockNext, Lock!Forget
  <1> QED
    BY <1>3, <1>4, <1>5, <1>6, <1>7, <1>8, <1>9, <1>10, <1>11 DEF Next

\* The handlers, with the set of keys in flight, implement the lock of TargetLock.
THEOREM LockImplemented == Spec => ImplementsLock
  <1>1. Init => Lock!LockInit
    BY DEF Init, Lock!LockInit
  <1>2. IInv /\ IInv' /\ [Next]_vars => [Lock!LockNext]_Owns
    BY LockRefinementStep
  <1> QED BY <1>1, <1>2, Invariance, PTL DEF Spec, ImplementsLock, Lock!LockSpec, Owns


-----------------------------------------------------------------------------
(* Badges.                                                                 *)

\* A result is final: who has one takes no further step of work.
Final == \A r \in Requests : outcome[r] = "ok" => stage[r] = "ended"

\* A badge that is gone stays accounted for, as nothing of a request that has ended
\* is taken back.
LEMMA StillAccounted ==
    ASSUME ClearedWasUpdated, cleared' \subseteq cleared,
           \A r \in Requests : outcome[r] = "ok" /\ host[r] # "idle" =>
             /\ call'[r] = call[r]
             /\ host'[r] # "idle" /\ outcome'[r] = "ok"
    PROVE  ClearedWasUpdated'
  BY DEF ClearedWasUpdated

LEMMA BadgeStep == IInv /\ Final /\ ClearedWasUpdated /\ [Next]_vars => (Final /\ ClearedWasUpdated)'
  <1> SUFFICES ASSUME IInv, Final, ClearedWasUpdated, [Next]_vars
               PROVE  Final' /\ ClearedWasUpdated'
    OBVIOUS
  <1> USE DEF IInv, TypeOK, Final
  <1>1. ASSUME NEW r \in Requests, Receive(r) PROVE Final' /\ ClearedWasUpdated'
    BY <1>1, StillAccounted DEF Receive
  <1>2. ASSUME NEW r \in Requests, LookupFails(r) \/ GuardDenies(r) \/ FindsConflict(r)
        PROVE  Final' /\ ClearedWasUpdated'
    BY <1>2, StillAccounted DEF LookupFails, GuardDenies, FindsConflict, TurnAway
  <1>3. ASSUME NEW r \in Requests, EnterDirectly(r) \/ SpawnJob(r) PROVE Final' /\ ClearedWasUpdated'
    BY <1>3, StillAccounted DEF EnterDirectly, SpawnJob
  <1>4. ASSUME NEW r \in Requests, RunnerEnters(r) PROVE Final' /\ ClearedWasUpdated'
    BY <1>4, StillAccounted DEF RunnerEnters, NoteRefusal
  <1>5. ASSUME NEW r \in Requests, Dispatch(r) \/ HostFinishes(r) PROVE Final' /\ ClearedWasUpdated'
    BY <1>5, StillAccounted DEF Dispatch, HostFinishes
  <1>6. ASSUME NEW r \in Requests, NEW result \in {"ok", "failed"}, EndWork(r, result)
        PROVE  Final' /\ ClearedWasUpdated'
    <2>1. /\ stage[r] = "working" /\ stage' = [stage EXCEPT ![r] = "ended"] /\ UNCHANGED <<call, host>>
          /\ outcome' = IF Updates(r) THEN [outcome EXCEPT ![r] = result] ELSE outcome
      BY <1>6 DEF EndWork
    <2>2. \A s \in Requests : outcome[s] = "ok" => s # r /\ outcome'[s] = "ok"
      BY <2>1
    <2>3. Final'
      BY <2>1
    <2>4. CASE Updates(r) /\ result = "ok"
      <3>1. host[r] # "idle"
        BY <1>6, <2>4 DEF EndWork, MayEnd, ConfirmedOk
      <3>2. call[r] = [verb |-> "update", at |-> call[r].at]
        <4>1. call[r] \in Calls
          BY <2>1 DEF Admitted, Passed
        <4> QED BY <2>4, <4>1 DEF Calls, Updates
      <3>3. cleared' = cleared \cup {call[r].at}
        BY <1>6, <2>4 DEF EndWork, ClearBadge
      <3>4. outcome'[r] = "ok"
        BY <2>1, <2>4
      <3> QED BY <2>1, <2>2, <2>3, <3>1, <3>2, <3>3, <3>4 DEF ClearedWasUpdated
    <2>5. CASE ~(Updates(r) /\ result = "ok")
      <3>1. cleared' = cleared
        BY <1>6, <2>5 DEF EndWork, ClearBadge
      <3> QED BY <2>1, <2>2, <2>3, <3>1, StillAccounted
    <2> QED BY <2>4, <2>5
  <1>7. ASSUME NEW r \in Requests, RespondInline(r) \/ RespondAccepted(r) \/ Poll(r)
        PROVE  Final' /\ ClearedWasUpdated'
    BY <1>7, StillAccounted DEF RespondInline, RespondAccepted, Poll
  <1>8. CASE Tick \/ UNCHANGED vars
    BY <1>8, StillAccounted DEF Tick, vars
  <1>9. CASE Restart
    BY <1>9, StillAccounted DEF Restart
  <1> QED BY <1>1, <1>2, <1>3, <1>4, <1>5, <1>6, <1>7, <1>8, <1>9 DEF Next

\* No badge is taken away for an update that failed, was refused, or never reached the
\* host, by any number of requests.
THEOREM BadgesFollowUpdates == Spec => []ClearedWasUpdated
  <1>1. Init => Final /\ ClearedWasUpdated
    BY DEF Init, Final, ClearedWasUpdated
  <1> QED BY <1>1, BadgeStep, Invariance, PTL DEF Spec

-----------------------------------------------------------------------------
(* Who is let in to ask at all: the limiter of wrong passwords, Logins.    *)

\* Ages of a failure, and those before and after them.
LEMMA Ages ==
    /\ Window - 1 \in 0 .. Window /\ Window \in 0 .. Window /\ Window - 1 \in 0 .. Window - 1 /\ Window - 1 # Window
    /\ \A k \in 0 .. Window : k \in 0 .. Window - 1 \/ k = Window
    /\ \A k \in 0 .. Window - 1 : k \in 0 .. Window /\ k # Window
    /\ \A k \in 1 .. Window : k - 1 \in 0 .. Window - 1 /\ k \in 0 .. Window
    /\ \A k \in 1 .. Window - 1 : k - 1 \in 0 .. Window - 1 /\ k \in 0 .. Window - 1 /\ k \in 1 .. Window /\ k # 0
    /\ \A k \in 0 .. Window : k = 0 \/ k \in 1 .. Window
  BY LimiterAssumption

\* What a profile becomes, point by point.
LEMMA ProfileOps ==
    ASSUME NEW f \in Profiles
    PROVE  /\ NoFailures \in Profiles /\ \A k \in 0 .. Window : NoFailures[k] = 0
           /\ Younger(f) \in Profiles
           /\ \A k \in 0 .. Window - 1 : Younger(f)[k] = f[k]
           /\ Younger(f)[Window] = f[Window - 1]
           /\ OneMore(f) \in Profiles /\ \A k \in 0 .. Window : OneMore(f)[k] = f[k] + 1
           /\ Older(f) \in Profiles /\ Older(f)[Window] = f[Window] /\ Older(f)[0] = 0
           /\ \A k \in 1 .. Window - 1 : Older(f)[k] = f[k - 1]
  <1> USE LimiterAssumption
  <1>1. NoFailures \in Profiles /\ \A k \in 0 .. Window : NoFailures[k] = 0
    BY DEF NoFailures, Profiles
  <1>2. Younger(f) = [f EXCEPT ![Window] = f[Window - 1]] /\ f[Window - 1] \in Nat
    BY Ages DEF Younger, Count, Profiles
  <1>3. /\ Younger(f) \in Profiles /\ Younger(f)[Window] = f[Window - 1]
        /\ \A k \in 0 .. Window - 1 : Younger(f)[k] = f[k]
    BY <1>2, Ages DEF Profiles
  <1>4. OneMore(f) \in Profiles /\ \A k \in 0 .. Window : OneMore(f)[k] = f[k] + 1
    BY DEF OneMore, Profiles
  <1>5. \A k \in 0 .. Window : k # 0 => k - 1 \in 0 .. Window /\ f[k - 1] \in Nat
    BY Ages DEF Profiles
  <1>6. Older(f) \in Profiles
    BY <1>5 DEF Older, Profiles
  <1>7. Older(f)[Window] = f[Window]
    BY Ages DEF Older
  <1>8. Older(f)[0] = 0 /\ \A k \in 1 .. Window - 1 : Older(f)[k] = f[k - 1]
    BY Ages DEF Older
  <1> QED BY <1>1, <1>3, <1>4, <1>6, <1>7, <1>8

\* Profiles that agree below Window and both end there are the same.
LEMMA SameProfile ==
    ASSUME NEW f \in Profiles, NEW g \in Profiles, \A k \in 0 .. Window : f[k] = g[k]
    PROVE  f = g
  <1> USE LimiterAssumption
  <1>1. f = [k \in 0 .. Window |-> f[k]] /\ g = [k \in 0 .. Window |-> g[k]]
    BY DEF Profiles
  <1> QED BY <1>1

LEMMA YoungerTwice ==
    ASSUME NEW f \in Profiles
    PROVE  Younger(Younger(f)) = Younger(f)
  <1> USE LimiterAssumption
  <1>1. Younger(f) \in Profiles /\ Younger(Younger(f)) \in Profiles
    BY ProfileOps
  <1>2. \A k \in 0 .. Window - 1 : Younger(Younger(f))[k] = Younger(f)[k]
    BY <1>1, ProfileOps
  <1>3. Younger(Younger(f))[Window] = Younger(f)[Window]
    BY <1>1, ProfileOps
  <1> QED BY <1>1, <1>2, <1>3, Ages, SameProfile

\* A tick makes no difference between those that have been forgotten and those that
\* have not.
LEMMA YoungerOlder ==
    ASSUME NEW f \in Profiles
    PROVE  Younger(Older(f)) = Younger(Older(Younger(f)))
  <1> USE LimiterAssumption
  <1>1. Younger(f) \in Profiles /\ Older(f) \in Profiles /\ Older(Younger(f)) \in Profiles
    BY ProfileOps
  <1>2. Younger(Older(f)) \in Profiles /\ Younger(Older(Younger(f))) \in Profiles
    BY <1>1, ProfileOps
  <1>3. \A k \in 0 .. Window - 1 : Older(f)[k] = Older(Younger(f))[k]
    <2> TAKE k \in 0 .. Window - 1
    <2>1. CASE k = 0
      BY <1>1, <2>1, ProfileOps
    <2>2. CASE k \in 1 .. Window - 1
      <3>1. k - 1 \in 0 .. Window - 1
        BY <2>2
      <3> QED BY <1>1, <2>2, <3>1, ProfileOps
    <2> QED BY <2>1, <2>2
  <1>4. Window - 1 \in 0 .. Window - 1
    OBVIOUS
  <1>5. \A k \in 0 .. Window - 1 : Younger(Older(f))[k] = Younger(Older(Younger(f)))[k]
    BY <1>1, <1>3, ProfileOps
  <1>6. Younger(Older(f))[Window] = Younger(Older(Younger(f)))[Window]
    BY <1>1, <1>3, <1>4, ProfileOps
  <1>7. \A k \in 0 .. Window : k \in 0 .. Window - 1 \/ k = Window
    OBVIOUS
  <1> QED BY <1>2, <1>5, <1>6, <1>7, SameProfile

LEMMA YoungerOneMore ==
    ASSUME NEW f \in Profiles
    PROVE  Younger(OneMore(Younger(f))) = OneMore(Younger(f))
  <1> USE LimiterAssumption
  <1>1. Younger(f) \in Profiles /\ OneMore(Younger(f)) \in Profiles /\ Younger(OneMore(Younger(f))) \in Profiles
    BY ProfileOps
  <1>2. \A k \in 0 .. Window - 1 : Younger(OneMore(Younger(f)))[k] = OneMore(Younger(f))[k]
    BY <1>1, ProfileOps
  <1>3. Younger(OneMore(Younger(f)))[Window] = OneMore(Younger(f))[Window]
    <2>1. Younger(f)[Window] = f[Window - 1] /\ Younger(f)[Window - 1] = f[Window - 1]
      BY Ages, ProfileOps
    <2>2. OneMore(Younger(f))[Window] = f[Window - 1] + 1 /\ OneMore(Younger(f))[Window - 1] = f[Window - 1] + 1
      <3> DEFINE y == Younger(f)
      <3>1. y \in Profiles /\ y[Window] = f[Window - 1] /\ y[Window - 1] = f[Window - 1]
        BY <1>1, <2>1
      <3> HIDE DEF y
      <3>2. \A k \in 0 .. Window : OneMore(y)[k] = y[k] + 1
        BY <3>1, ProfileOps
      <3>3. OneMore(y)[Window] = f[Window - 1] + 1 /\ OneMore(y)[Window - 1] = f[Window - 1] + 1
        BY <3>1, <3>2, Ages
      <3> QED BY <3>3 DEF y
    <2> QED BY <1>1, <2>2, ProfileOps
  <1> QED BY <1>1, <1>2, <1>3, Ages, SameProfile

LEMMA YoungerNone == Younger(NoFailures) = NoFailures
  BY LimiterAssumption DEF Younger, NoFailures, Count

\* record_failure adds one to what counts against the address, and to nobody else's,
\* whether it sweeps or not.
LEMMA RecordedOne ==
    ASSUME LimiterTypeOK, NEW a \in Addresses
    PROVE  /\ Recorded(a) \in [Addresses -> Profiles]
           /\ Younger(Recorded(a)[a]) = OneMore(Younger(failures[a]))
           /\ \A b \in Addresses \ {a} : Younger(Recorded(a)[b]) = Younger(failures[b])
  <1> USE LimiterAssumption
  <1> DEFINE fs == [failures EXCEPT ![a] = OneMore(Younger(@))]
  <1>1. /\ fs \in [Addresses -> Profiles] /\ fs[a] = OneMore(Younger(failures[a]))
        /\ \A b \in Addresses \ {a} : fs[b] = failures[b]
    <2>1. OneMore(Younger(failures[a])) \in Profiles
      BY ProfileOps DEF LimiterTypeOK
    <2> QED BY <2>1 DEF LimiterTypeOK
  <1>2. Younger(fs[a]) = fs[a]
    BY <1>1, YoungerOneMore DEF LimiterTypeOK
  <1>3. \A b \in Addresses : Younger(fs[b]) \in Profiles /\ Younger(Younger(fs[b])) = Younger(fs[b])
    BY <1>1, ProfileOps, YoungerTwice
  <1>4. CASE Recorded(a) = fs
    BY <1>1, <1>2, <1>4
  <1>5. CASE Recorded(a) = Swept(fs)
    <2>1. \A b \in Addresses : Recorded(a)[b] = Younger(fs[b])
      BY <1>5 DEF Swept
    <2>2. Recorded(a) \in [Addresses -> Profiles]
      BY <1>3, <1>5 DEF Swept
    <2> QED BY <1>1, <1>2, <1>3, <2>1, <2>2
  <1> QED BY <1>4, <1>5 DEF Recorded

-----------------------------------------------------------------------------
LEMMA InitForgets == LimiterInit => LimiterTypeOK /\ NothingForgotten
  <1> USE LimiterAssumption
  <1> SUFFICES ASSUME LimiterInit PROVE LimiterTypeOK /\ NothingForgotten
    OBVIOUS
  <1>1. NoFailures \in Profiles
    BY DEF NoFailures, Profiles
  <1> QED BY <1>1, YoungerNone DEF LimiterInit, LimiterTypeOK, NothingForgotten

LEMMA StepForgets ==
    LimiterTypeOK /\ NothingForgotten /\ [LimiterNext]_limiterVars => LimiterTypeOK' /\ NothingForgotten'
  <1> USE LimiterAssumption
  <1> SUFFICES ASSUME LimiterTypeOK, NothingForgotten, [LimiterNext]_limiterVars PROVE LimiterTypeOK' /\ NothingForgotten'
    OBVIOUS
  <1> USE DEF LimiterTypeOK, NothingForgotten
  <1>1. ASSUME NEW r \in Attempts, NEW a \in Addresses, Ask(r, a) PROVE LimiterTypeOK' /\ NothingForgotten'
    <2>1. failures' = [failures EXCEPT ![a] = Younger(@)] /\ wrong' = wrong
      BY <1>1 DEF Ask, Refuse, Recent
    <2>2. admitted' \in [Attempts -> Addresses \cup {Nobody}]
      BY <1>1 DEF Ask
    <2>3. Younger(failures[a]) \in Profiles /\ Younger(Younger(failures[a])) = Younger(failures[a])
      BY ProfileOps, YoungerTwice
    <2> QED BY <2>1, <2>2, <2>3
  <1>2. ASSUME NEW r \in Attempts, Fail(r) PROVE LimiterTypeOK' /\ NothingForgotten'
    <2> DEFINE a == admitted[r]
    <2>1. a \in Addresses /\ failures' = Recorded(a) /\ wrong' = [wrong EXCEPT ![a] = OneMore(@)]
          /\ admitted' \in [Attempts -> Addresses \cup {Nobody}]
      BY <1>2 DEF Fail
    <2> HIDE DEF a
    <2>2. OneMore(wrong[a]) \in Profiles /\ wrong' \in [Addresses -> Profiles]
      BY <2>1, ProfileOps
    <2>3. wrong'[a] = OneMore(wrong[a]) /\ \A b \in Addresses \ {a} : wrong'[b] = wrong[b]
      BY <2>1
    <2>4. /\ Recorded(a) \in [Addresses -> Profiles]
          /\ Younger(Recorded(a)[a]) = OneMore(Younger(failures[a]))
          /\ \A b \in Addresses \ {a} : Younger(Recorded(a)[b]) = Younger(failures[b])
      BY <2>1, RecordedOne
    <2> QED BY <2>1, <2>2, <2>3, <2>4
  <1>3. ASSUME NEW r \in Attempts, Succeed(r) PROVE LimiterTypeOK' /\ NothingForgotten'
    <2>1. NoFailures \in Profiles
      BY DEF NoFailures, Profiles
    <2> QED BY <1>3, <2>1, YoungerNone DEF Succeed, Reset
  <1>4. CASE TimePasses
    <2>1. \A a \in Addresses : /\ Older(failures[a]) \in Profiles
                               /\ Older(wrong[a]) \in Profiles /\ Younger(Older(wrong[a])) \in Profiles
      BY ProfileOps
    <2>2. \A a \in Addresses : Younger(Older(failures[a])) = Younger(Older(wrong[a]))
      BY YoungerOlder
    <2>3. failures' \in [Addresses -> Profiles] /\ wrong' \in [Addresses -> Profiles] /\ admitted' = admitted
      BY <1>4, <2>1 DEF TimePasses
    <2> QED BY <1>4, <2>2, <2>3 DEF TimePasses
  <1>5. CASE StartAfresh
    <2>1. NoFailures \in Profiles
      BY DEF NoFailures, Profiles
    <2> QED BY <1>5, <2>1, YoungerNone DEF StartAfresh
  <1>6. CASE UNCHANGED limiterVars
    BY <1>6 DEF limiterVars
  <1> QED BY <1>1, <1>2, <1>3, <1>4, <1>5, <1>6 DEF LimiterNext

\* The limiter stays well typed.
THEOREM LimiterTypes == LimiterSpec => []LimiterTypeOK
  <1> QED BY InitForgets, StepForgets, PTL DEF LimiterSpec

\* What counts against an address in LoginLimiter is each wrong password that came
\* from there within the window, for any requests, addresses and limits: no sweep,
\* no other address and no request beside it loses or adds one.
THEOREM FailuresCount == LimiterSpec => []NothingForgotten
  <1> USE LimiterAssumption
  <1> QED BY InitForgets, StepForgets, PTL DEF LimiterSpec

-----------------------------------------------------------------------------
\* Who is younger than k ticks is younger than k + 1.
Growing == \A a \in Addresses : \A k \in 1 .. Window : wrong[a][k - 1] <= wrong[a][k]

BudgetInv == Growing /\ BudgetHolds

LEMMA NobodyThere ==
    \A a \in Addresses : IsFiniteSet(AdmittedFrom(a)) /\ Cardinality(AdmittedFrom(a)) \in 0 .. Cardinality(Attempts)
  <1> USE LimiterAssumption
  <1>1. \A a \in Addresses : AdmittedFrom(a) \subseteq Attempts
    BY DEF AdmittedFrom
  <1> QED BY <1>1, FS_Subset, FS_CardinalityType

LEMMA NothingCounts == Count(NoFailures) = 0
  BY Ages DEF Count, NoFailures

LEMMA InitBudget == LimiterInit => BudgetInv
  <1> USE LimiterAssumption
  <1> SUFFICES ASSUME LimiterInit PROVE BudgetInv
    OBVIOUS
  <1>1. \A a \in Addresses : wrong[a] = NoFailures /\ AdmittedFrom(a) = {}
    BY DEF LimiterInit, AdmittedFrom
  <1>2. Growing
    BY <1>1 DEF Growing, NoFailures
  <1>3. Cardinality(Attempts) \in Nat
    BY FS_CardinalityType
  <1>4. \A a \in Addresses : Count(wrong[a]) = 0 /\ Cardinality(AdmittedFrom(a)) = 0
    BY <1>1, NothingCounts, FS_EmptySet
  <1> QED BY <1>2, <1>3, <1>4 DEF BudgetInv, BudgetHolds

\* A request comes to an address, or leaves it.
LEMMA OneComes ==
    ASSUME LimiterTypeOK, NEW r \in Attempts, NEW a \in Addresses, admitted[r] = Nobody,
           admitted' = [admitted EXCEPT ![r] = a]
    PROVE  /\ Cardinality(AdmittedFrom(a)') <= Cardinality(Attempts)
           /\ \A b \in Addresses \ {a} : AdmittedFrom(b)' = AdmittedFrom(b)
  <1> USE LimiterAssumption
  <1>1. AdmittedFrom(a)' \subseteq Attempts
    BY DEF AdmittedFrom
  <1>2. Cardinality(AdmittedFrom(a)') <= Cardinality(Attempts)
    BY <1>1, FS_Subset
  <1>3. \A b \in Addresses \ {a} : AdmittedFrom(b)' = AdmittedFrom(b)
    BY DEF LimiterTypeOK, AdmittedFrom
  <1> QED BY <1>2, <1>3

LEMMA OneGoes ==
    ASSUME LimiterTypeOK, NEW r \in Attempts, NEW a \in Addresses, admitted[r] = a,
           admitted' = [admitted EXCEPT ![r] = Nobody]
    PROVE  /\ Cardinality(AdmittedFrom(a)') = Cardinality(AdmittedFrom(a)) - 1
           /\ \A b \in Addresses \ {a} : AdmittedFrom(b)' = AdmittedFrom(b)
  <1> USE LimiterAssumption
  <1>1. AdmittedFrom(a)' = AdmittedFrom(a) \ {r} /\ r \in AdmittedFrom(a)
    BY DEF LimiterTypeOK, AdmittedFrom
  <1>2. Cardinality(AdmittedFrom(a)') = Cardinality(AdmittedFrom(a)) - 1
    <2>1. IsFiniteSet(AdmittedFrom(a))
      BY NobodyThere
    <2>2. Cardinality(AdmittedFrom(a) \ {r}) = Cardinality(AdmittedFrom(a)) - 1
      BY <1>1, <2>1, FS_RemoveElement
    <2> QED BY <1>1, <2>2, Zenon
  <1>3. \A b \in Addresses \ {a} : AdmittedFrom(b)' = AdmittedFrom(b)
    BY DEF LimiterTypeOK, AdmittedFrom
  <1> QED BY <1>2, <1>3

LEMMA StepGrows == LimiterTypeOK /\ Growing /\ [LimiterNext]_limiterVars => Growing'
  <1> USE LimiterAssumption
  <1> SUFFICES ASSUME LimiterTypeOK, Growing, [LimiterNext]_limiterVars PROVE Growing'
    OBVIOUS
  <1>1. \A f \in Profiles : /\ f[Window] \in Nat
                            /\ \A k \in 1 .. Window : k \in 0 .. Window /\ k - 1 \in 0 .. Window - 1
                                                      /\ f[k] \in Nat /\ f[k - 1] \in Nat
    BY DEF Profiles
  <1>2. ASSUME NEW r \in Attempts, Fail(r) PROVE Growing'
    <2>1. PICK a \in Addresses : wrong' = [wrong EXCEPT ![a] = OneMore(@)]
      BY <1>2 DEF Fail, LimiterTypeOK
    <2>2. wrong'[a] = OneMore(wrong[a]) /\ \A b \in Addresses \ {a} : wrong'[b] = wrong[b]
      BY <2>1 DEF LimiterTypeOK
    <2>3. \A k \in 1 .. Window : OneMore(wrong[a])[k - 1] <= OneMore(wrong[a])[k]
      <3> TAKE k \in 1 .. Window
      <3>1. wrong[a] \in Profiles /\ k \in 0 .. Window /\ k - 1 \in 0 .. Window
        BY Ages DEF LimiterTypeOK
      <3>2. OneMore(wrong[a])[k] = wrong[a][k] + 1 /\ OneMore(wrong[a])[k - 1] = wrong[a][k - 1] + 1
        BY <3>1, ProfileOps
      <3>3. wrong[a][k - 1] <= wrong[a][k] /\ wrong[a][k - 1] \in Nat /\ wrong[a][k] \in Nat
        BY <1>1, <3>1 DEF Growing
      <3> QED BY <3>2, <3>3
    <2> QED BY <2>2, <2>3 DEF Growing
  <1>3. \A k \in 1 .. Window : NoFailures[k - 1] <= NoFailures[k]
    BY DEF NoFailures
  <1>4. ASSUME NEW r \in Attempts, Succeed(r) PROVE Growing'
    <2>1. PICK a \in Addresses : wrong' = [wrong EXCEPT ![a] = NoFailures]
      BY <1>4 DEF Succeed, Reset, LimiterTypeOK
    <2>2. wrong'[a] = NoFailures /\ \A b \in Addresses \ {a} : wrong'[b] = wrong[b]
      BY <2>1 DEF LimiterTypeOK
    <2> QED BY <1>3, <2>2 DEF Growing
  <1>5. CASE TimePasses
    <2>1. ASSUME NEW a \in Addresses, NEW k \in 1 .. Window PROVE wrong'[a][k - 1] <= wrong'[a][k]
      <3> DEFINE f == wrong[a]
                 g == Younger(Older(f))
      <3>1. wrong'[a] = g /\ f \in Profiles
        BY <1>5 DEF TimePasses, LimiterTypeOK
      <3>2. \A j \in 1 .. Window : f[j - 1] <= f[j] /\ f[j] \in Nat /\ f[j - 1] \in Nat
        BY <1>1, <3>1 DEF Growing
      <3> HIDE DEF f
      <3>3. Older(f) \in Profiles /\ Older(f)[0] = 0 /\ \A j \in 1 .. Window - 1 : Older(f)[j] = f[j - 1]
        BY <3>1, ProfileOps
      <3>4. /\ \A j \in 0 .. Window - 1 : g[j] = Older(f)[j]
            /\ g[Window] = Older(f)[Window - 1]
        BY <3>3, ProfileOps
      <3>5. \A j \in 0 .. Window - 1 : Older(f)[j] \in Nat
        BY <3>3 DEF Profiles
      <3> HIDE DEF g
      <3>6. CASE k = Window
        <4>1. Window - 1 \in 0 .. Window - 1
          OBVIOUS
        <4> QED BY <3>1, <3>4, <3>5, <3>6, <4>1
      <3>7. CASE k = 1 /\ k < Window
        <4>1. 0 \in 0 .. Window - 1 /\ 1 \in 0 .. Window - 1
          BY <3>7
        <4> QED BY <3>1, <3>3, <3>4, <3>5, <3>7, <4>1
      <3>8. CASE k > 1 /\ k < Window
        <4>1. k \in 1 .. Window - 1 /\ k - 1 \in 1 .. Window - 1 /\ k - 1 \in 0 .. Window - 1 /\ k \in 0 .. Window - 1
          BY <3>8
        <4>2. g[k] = f[k - 1] /\ g[k - 1] = f[(k - 1) - 1]
          BY <3>3, <3>4, <4>1
        <4>3. k - 1 \in 1 .. Window
          BY <4>1
        <4>4. f[(k - 1) - 1] <= f[k - 1]
          BY <3>2, <4>3
        <4> QED BY <3>1, <4>2, <4>4
      <3> QED BY <3>6, <3>7, <3>8
    <2> QED BY <2>1 DEF Growing
  <1>6. CASE StartAfresh
    <2>1. \A a \in Addresses : wrong'[a] = NoFailures
      BY <1>6 DEF StartAfresh
    <2> QED BY <1>3, <2>1 DEF Growing
  <1>7. ASSUME wrong' = wrong PROVE Growing'
    BY <1>7 DEF Growing
  <1>8. ASSUME NEW r \in Attempts, NEW a \in Addresses, Ask(r, a) PROVE Growing'
    BY <1>7, <1>8 DEF Ask
  <1> QED BY <1>2, <1>4, <1>5, <1>6, <1>7, <1>8 DEF LimiterNext, limiterVars

LEMMA StepBudget ==
    LimiterTypeOK /\ LimiterTypeOK' /\ NothingForgotten /\ BudgetInv /\ [LimiterNext]_limiterVars => BudgetInv'
  <1> USE LimiterAssumption
  <1> SUFFICES ASSUME LimiterTypeOK, LimiterTypeOK', NothingForgotten, BudgetInv, [LimiterNext]_limiterVars PROVE BudgetHolds'
    BY StepGrows DEF BudgetInv
  <1>1. /\ \A a \in Addresses : wrong[a] \in Profiles /\ wrong'[a] \in Profiles
        /\ \A f \in Profiles : Count(f) \in Nat
        /\ MaxFailures \in Nat \ {0} /\ Cardinality(Attempts) \in Nat
    BY FS_CardinalityType DEF LimiterTypeOK, Profiles, Count
  <1>2. /\ \A a \in Addresses : Cardinality(AdmittedFrom(a)) \in Nat
        /\ \A a \in Addresses : Count(wrong[a]) + Cardinality(AdmittedFrom(a)) < MaxFailures + Cardinality(Attempts)
    BY NobodyThere, <1>1 DEF BudgetInv, BudgetHolds
  <1>3. ASSUME NEW r \in Attempts, NEW a \in Addresses, Ask(r, a) PROVE BudgetHolds'
    <2>1. CASE UNCHANGED <<admitted, wrong>>
      BY <1>2, <2>1 DEF BudgetHolds, AdmittedFrom
    <2>2. CASE ~IsBlocked(a) /\ admitted' = [admitted EXCEPT ![r] = a] /\ wrong' = wrong
      <3>1. Count(wrong[a]) < MaxFailures
        <4>1. Count(Younger(failures[a])) = Count(failures[a])
          BY ProfileOps DEF LimiterTypeOK, Count
        <4>2. Count(failures[a]) = Count(wrong[a])
          BY <4>1 DEF NothingForgotten
        <4> QED BY <1>1, <2>2, <4>2 DEF IsBlocked
      <3>2. /\ Cardinality(AdmittedFrom(a)') <= Cardinality(Attempts)
            /\ \A b \in Addresses \ {a} : AdmittedFrom(b)' = AdmittedFrom(b)
        BY <1>3, <2>2, OneComes DEF Ask
      <3>3. Cardinality(AdmittedFrom(a)') \in Nat
        <4>1. AdmittedFrom(a)' \subseteq Attempts
          BY DEF AdmittedFrom
        <4> QED BY <4>1, FS_Subset, FS_CardinalityType
      <3>4. Count(wrong'[a]) + Cardinality(AdmittedFrom(a)') < MaxFailures + Cardinality(Attempts)
        BY <1>1, <2>2, <3>1, <3>2, <3>3
      <3>5. \A b \in Addresses \ {a} : Count(wrong'[b]) + Cardinality(AdmittedFrom(b)') < MaxFailures + Cardinality(Attempts)
        BY <1>2, <2>2, <3>2
      <3> QED BY <3>4, <3>5 DEF BudgetHolds
    <2> QED BY <1>3, <2>1, <2>2 DEF Ask
  <1>4. ASSUME NEW r \in Attempts, Fail(r) \/ Succeed(r) PROVE BudgetHolds'
    <2>1. PICK a \in Addresses : /\ admitted[r] = a /\ admitted' = [admitted EXCEPT ![r] = Nobody]
                                 /\ \/ wrong' = [wrong EXCEPT ![a] = OneMore(@)]
                                    \/ wrong' = [wrong EXCEPT ![a] = NoFailures]
      BY <1>4 DEF Fail, Succeed, Reset, LimiterTypeOK
    <2>2. /\ Cardinality(AdmittedFrom(a)') = Cardinality(AdmittedFrom(a)) - 1
          /\ \A b \in Addresses \ {a} : AdmittedFrom(b)' = AdmittedFrom(b)
      BY <2>1, OneGoes
    <2>3. \A b \in Addresses \ {a} : wrong'[b] = wrong[b]
      BY <2>1 DEF LimiterTypeOK
    <2>4. Count(wrong'[a]) <= Count(wrong[a]) + 1
      <3>1. Count(OneMore(wrong[a])) = Count(wrong[a]) + 1 /\ Count(NoFailures) = 0
        BY <1>1 DEF Count, OneMore, NoFailures
      <3>2. wrong'[a] \in {OneMore(wrong[a]), NoFailures}
        BY <2>1 DEF LimiterTypeOK
      <3> QED BY <1>1, <3>1, <3>2
    <2>5. Count(wrong'[a]) + Cardinality(AdmittedFrom(a)') < MaxFailures + Cardinality(Attempts)
      BY <1>1, <1>2, <2>2, <2>4
    <2>6. \A b \in Addresses \ {a} : Count(wrong'[b]) + Cardinality(AdmittedFrom(b)') < MaxFailures + Cardinality(Attempts)
      BY <1>2, <2>2, <2>3
    <2> QED BY <2>5, <2>6 DEF BudgetHolds
  <1>5. CASE TimePasses
    <2>1. ASSUME NEW a \in Addresses PROVE Count(wrong'[a]) <= Count(wrong[a])
      <3>1. wrong'[a] = Younger(Older(wrong[a])) /\ Older(wrong[a]) \in Profiles
        BY <1>1, <1>5, ProfileOps DEF TimePasses
      <3>2. Count(wrong'[a]) = Older(wrong[a])[Window - 1]
        <4>1. \A f \in Profiles : Younger(f)[Window - 1] = f[Window - 1]
          BY Ages, ProfileOps
        <4> QED BY <3>1, <4>1 DEF Count
      <3>3. CASE Window = 1
        BY <1>1, <3>2, <3>3, ProfileOps
      <3>4. CASE Window > 1
        <4>1. Window - 1 \in 1 .. Window - 1 /\ Window - 1 \in 1 .. Window
          BY <3>4
        <4>2. Older(wrong[a])[Window - 1] = wrong[a][(Window - 1) - 1]
          BY <1>1, <4>1, ProfileOps
        <4>3. wrong[a][(Window - 1) - 1] <= wrong[a][Window - 1]
          BY <4>1 DEF BudgetInv, Growing
        <4> QED BY <3>2, <4>2, <4>3 DEF Count
      <3> QED BY <3>3, <3>4
    <2>2. \A a \in Addresses : AdmittedFrom(a)' = AdmittedFrom(a)
      BY <1>5 DEF TimePasses, AdmittedFrom
    <2>3. \A a \in Addresses : Count(wrong'[a]) \in Nat /\ Count(wrong[a]) \in Nat
      BY <1>1
    <2>4. \A a \in Addresses : Count(wrong'[a]) + Cardinality(AdmittedFrom(a)) < MaxFailures + Cardinality(Attempts)
      BY <1>1, <1>2, <2>1, <2>3
    <2> QED BY <2>2, <2>4 DEF BudgetHolds
  <1>6. CASE StartAfresh
    <2>1. \A a \in Addresses : wrong'[a] = NoFailures /\ AdmittedFrom(a)' = {}
      BY <1>6 DEF StartAfresh, AdmittedFrom
    <2>2. \A a \in Addresses : Count(wrong'[a]) = 0 /\ Cardinality(AdmittedFrom(a)') = 0
      BY <2>1, NothingCounts, FS_EmptySet
    <2>3. 0 + 0 < MaxFailures + Cardinality(Attempts)
      BY <1>1
    <2> QED BY <2>2, <2>3 DEF BudgetHolds
  <1>7. CASE UNCHANGED limiterVars
    <2>1. \A a \in Addresses : AdmittedFrom(a)' = AdmittedFrom(a) /\ wrong'[a] = wrong[a]
      BY <1>7 DEF limiterVars, AdmittedFrom
    <2> QED BY <1>2, <2>1 DEF BudgetHolds
  <1> QED BY <1>3, <1>4, <1>5, <1>6, <1>7 DEF LimiterNext

\* blocked and record_failure are two steps of require_auth, and yet an address never
\* tries more wrong passwords within the window than MaxFailures - 1 and one for each
\* request under way.
THEOREM BudgetIsKept == LimiterSpec => []BudgetHolds
  <1> USE LimiterAssumption
  <1>1. LimiterSpec => [](LimiterTypeOK /\ NothingForgotten)
    BY InitForgets, StepForgets, PTL DEF LimiterSpec
  <1>2. BudgetInv => BudgetHolds
    BY DEF BudgetInv
  <1> QED BY <1>1, <1>2, InitBudget, StepBudget, PTL DEF LimiterSpec

-----------------------------------------------------------------------------
(* Where the secrets of an instance go, Credentials.                       *)

\* What a record becomes whose secrets and user are set.
LEMMA Fields ==
    ASSUME NEW to, NEW auth, NEW user0, NEW key0, NEW password0, NEW u, NEW k, NEW p,
           NEW t, t = [to |-> to, auth |-> auth, user |-> user0, key |-> key0, password |-> password0]
    PROVE  [t EXCEPT !.key = k, !.password = p, !.user = u]
             = [to |-> to, auth |-> auth, user |-> u, key |-> k, password |-> p]
  <1> DEFINE R(x, y, z) == [to |-> to, auth |-> auth, user |-> x, key |-> y, password |-> z]
  <1>1. [R(user0, key0, password0) EXCEPT !.key = k] = R(user0, k, password0)
    OBVIOUS
  <1>2. [R(user0, k, password0) EXCEPT !.password = p] = R(user0, k, p)
    OBVIOUS
  <1>3. [R(user0, k, p) EXCEPT !.user = u] = R(u, k, p)
    OBVIOUS
  <1>4. [R(user0, key0, password0) EXCEPT !.key = k, !.password = p, !.user = u]
          = [[[R(user0, key0, password0) EXCEPT !.key = k] EXCEPT !.password = p] EXCEPT !.user = u]
    OBVIOUS
  <1> HIDE DEF R
  <1>5. [R(user0, key0, password0) EXCEPT !.key = k, !.password = p, !.user = u] = R(u, k, p)
    BY <1>1, <1>2, <1>3, <1>4
  <1> QED BY <1>5 DEF R

\* Typed in sight, a secret is for this place.
AtHome(secret, place) == secret.inSight => secret.typedFor = place

\* What is true of the stored record, and of what was sent, whatever was hidden.
Settled(r) ==
    /\ r \in Records /\ Valid(r)
    /\ AtHome(Secret(r), r.to)
    /\ Unused(r) # None => ~Unused(r).inSight

\* A form as it is typed holds secrets for its own place, and only the one of the
\* way it chooses is in sight.
LEMMA TypedFields ==
    ASSUME NEW form \in Forms
    PROVE  LET t == Typed(form) IN
           /\ t \in Records /\ t.to = form.to /\ t.auth = form.auth
           /\ t.key # None => t.key.typedFor = form.to /\ (t.key.inSight <=> form.auth = "api_key")
           /\ t.password # None => t.password.typedFor = form.to /\ (t.password.inSight <=> form.auth = "credentials")
  <1> DEFINE t == Typed(form)
             seenKey == [typedFor |-> form.to, inSight |-> form.auth = "api_key"]
             seenPassword == [typedFor |-> form.to, inSight |-> form.auth = "credentials"]
  <1>1. form.to \in Places /\ form.auth \in Ways /\ form.user \in BOOLEAN
    BY SecretsAssumption
  <1>2. seenKey \in Secrets /\ seenPassword \in Secrets
    BY <1>1 DEF Secrets
  <1>3. t = [to |-> form.to, auth |-> form.auth, user |-> form.user,
             key |-> IF form.key THEN seenKey ELSE None,
             password |-> IF form.password THEN seenPassword ELSE None]
    BY DEF Typed
  <1>4. t.key \in {seenKey, None} /\ t.password \in {seenPassword, None}
    BY <1>3
  <1>5. t \in Records
    BY <1>1, <1>2, <1>3 DEF Records
  <1>6. t.to = form.to /\ t.auth = form.auth
    BY <1>3
  <1>7. /\ seenKey.typedFor = form.to /\ (seenKey.inSight <=> form.auth = "api_key")
        /\ seenPassword.typedFor = form.to /\ (seenPassword.inSight <=> form.auth = "credentials")
    OBVIOUS
  <1> HIDE DEF t, seenKey, seenPassword
  <1>8. /\ t.key # None => t.key.typedFor = form.to /\ (t.key.inSight <=> form.auth = "api_key")
        /\ t.password # None => t.password.typedFor = form.to /\ (t.password.inSight <=> form.auth = "credentials")
    BY <1>4, <1>7
  <1> QED BY <1>5, <1>6, <1>8 DEF t

\* So is what a form is typed as, if it is complete.
LEMMA TypedSettled ==
    ASSUME NEW form \in Forms, Valid(Typed(form))
    PROVE  Settled(Typed(form)) /\ Typed(form).to = form.to
  <1> DEFINE t == Typed(form)
  <1>1. /\ t \in Records /\ t.to = form.to /\ t.auth = form.auth /\ form.auth \in Ways
        /\ t.key # None => t.key.typedFor = form.to /\ (t.key.inSight <=> form.auth = "api_key")
        /\ t.password # None => t.password.typedFor = form.to /\ (t.password.inSight <=> form.auth = "credentials")
    BY TypedFields, SecretsAssumption
  <1>2. Valid(t) /\ Secret(t) # None
    BY DEF Valid
  <1> HIDE DEF t
  <1>3. ASSUME t.auth = "api_key" PROVE Settled(t)
    BY <1>1, <1>2, <1>3 DEF Settled, AtHome, Secret, Unused
  <1>4. ASSUME t.auth = "credentials" PROVE Settled(t)
    BY <1>1, <1>2, <1>4 DEF Settled, AtHome, Secret, Unused
  <1> QED BY <1>1, <1>3, <1>4 DEF t, Ways

\* The fields of what an edit stores.
LEMMA MergedFields ==
    ASSUME Settled(record), NEW form \in Forms
    PROVE  LET t == Typed(form)
               r == Merged(form) IN
           /\ r \in Records /\ r.to = form.to /\ r.auth = form.auth
           /\ r.key = (IF form.auth # record.auth /\ form.auth # "api_key" THEN None
                       ELSE IF t.key # None THEN t.key ELSE record.key)
           /\ r.password = (IF form.auth # record.auth /\ form.auth # "credentials" THEN None
                            ELSE IF t.password # None THEN t.password ELSE record.password)
  <1> DEFINE t == Typed(form)
             r == Merged(form)
             newKey == IF form.auth # record.auth /\ form.auth # "api_key" THEN None
                       ELSE IF t.key # None THEN t.key ELSE record.key
             newPassword == IF form.auth # record.auth /\ form.auth # "credentials" THEN None
                            ELSE IF t.password # None THEN t.password ELSE record.password
             newUser == t.user /\ ~(form.auth = "api_key" /\ record.auth = "credentials")
  <1>1. t \in Records /\ t.to = form.to /\ t.auth = form.auth /\ record \in Records
    BY TypedFields DEF Settled
  <1>2. r = [t EXCEPT !.key = newKey, !.password = newPassword, !.user = newUser]
    BY DEF Merged
  <1>3. /\ newKey \in Secrets \cup {None} /\ newPassword \in Secrets \cup {None} /\ newUser \in BOOLEAN
        /\ t.to \in Places /\ t.auth \in Ways
    BY <1>1 DEF Records
  <1>4. t = [to |-> t.to, auth |-> t.auth, user |-> t.user, key |-> t.key, password |-> t.password]
    BY <1>1 DEF Records
  <1> HIDE DEF newKey, newPassword, newUser, t, r
  <1>5. r = [to |-> t.to, auth |-> t.auth, user |-> newUser, key |-> newKey, password |-> newPassword]
    BY <1>2, <1>4, Fields
  <1>6. r \in Records
    BY <1>3, <1>5 DEF Records
  <1>7. r.to = form.to /\ r.auth = form.auth /\ r.key = newKey /\ r.password = newPassword
    BY <1>1, <1>5
  <1> QED BY <1>6, <1>7 DEF newKey, newPassword, t, r

\* An edit that is let through keeps the record settled: a secret that goes to a new
\* place was typed again, and one that is in sight is not left behind by a change of
\* the way to log in.
LEMMA MergedSettled ==
    ASSUME Settled(record), NEW form \in Forms, ~Elsewhere(form), Valid(Merged(form))
    PROVE  Settled(Merged(form))
  <1> DEFINE t == Typed(form)
             r == Merged(form)
  <1>1. /\ r \in Records /\ r.to = form.to /\ r.auth = form.auth
        /\ r.key = (IF form.auth # record.auth /\ form.auth # "api_key" THEN None
                    ELSE IF t.key # None THEN t.key ELSE record.key)
        /\ r.password = (IF form.auth # record.auth /\ form.auth # "credentials" THEN None
                         ELSE IF t.password # None THEN t.password ELSE record.password)
    BY MergedFields
  <1>2. /\ t.auth = form.auth /\ form.auth \in Ways
        /\ t.key # None => t.key.typedFor = form.to /\ (t.key.inSight <=> form.auth = "api_key")
        /\ t.password # None => t.password.typedFor = form.to /\ (t.password.inSight <=> form.auth = "credentials")
    BY TypedFields, SecretsAssumption
  <1>3. form.to = record.to \/ Secret(t) # None
    BY DEF Elsewhere
  <1>4. Valid(r) /\ Secret(r) # None
    BY DEF Valid
  <1>5. /\ record.auth \in Ways /\ AtHome(Secret(record), record.to)
        /\ Unused(record) # None => ~Unused(record).inSight
    BY DEF Settled, Records
  <1> HIDE DEF t, r
  <1>6. ASSUME form.auth = "api_key" PROVE Settled(r)
    <2>1. r.key # None /\ Secret(r) = r.key /\ Unused(r) = r.password
      BY <1>1, <1>4, <1>6 DEF Secret, Unused
    <2>2. t.key # None \/ (form.to = record.to /\ r.key = record.key)
      BY <1>1, <1>2, <1>3, <1>6 DEF Secret
    <2>3. CASE t.key # None
      <3>1. AtHome(r.key, r.to)
        BY <1>1, <1>2, <1>6, <2>3 DEF AtHome
      <3> QED BY <1>1, <1>2, <1>4, <1>5, <1>6, <2>1, <3>1 DEF Settled, Secret, Unused, Ways
    <2>4. CASE t.key = None
      <3>1. r.key = record.key /\ r.to = record.to
        BY <1>1, <2>2, <2>4
      <3>2. AtHome(r.key, r.to)
        BY <1>5, <2>1, <3>1 DEF AtHome, Secret, Unused, Ways
      <3> QED BY <1>1, <1>2, <1>4, <1>5, <1>6, <2>1, <3>2 DEF Settled, Secret, Unused, Ways
    <2> QED BY <2>3, <2>4
  <1>7. ASSUME form.auth = "credentials" PROVE Settled(r)
    <2>1. r.password # None /\ Secret(r) = r.password /\ Unused(r) = r.key
      BY <1>1, <1>4, <1>7 DEF Secret, Unused
    <2>2. t.password # None \/ (form.to = record.to /\ r.password = record.password)
      BY <1>1, <1>2, <1>3, <1>7 DEF Secret
    <2>3. CASE t.password # None
      <3>1. AtHome(r.password, r.to)
        BY <1>1, <1>2, <1>7, <2>3 DEF AtHome
      <3> QED BY <1>1, <1>2, <1>4, <1>5, <1>7, <2>1, <3>1 DEF Settled, Secret, Unused, Ways
    <2>4. CASE t.password = None
      <3>1. r.password = record.password /\ r.to = record.to
        BY <1>1, <2>2, <2>4
      <3>2. AtHome(r.password, r.to)
        BY <1>5, <2>1, <3>1 DEF AtHome, Secret, Unused, Ways
      <3> QED BY <1>1, <1>2, <1>4, <1>5, <1>7, <2>1, <3>2 DEF Settled, Secret, Unused, Ways
    <2> QED BY <2>3, <2>4
  <1> QED BY <1>2, <1>6, <1>7 DEF r, Ways

\* What a test borrows is stored for that very place.
LEMMA BorrowedAtHome ==
    ASSUME Settled(record), NEW form \in Forms, ~Elsewhere(form), Valid(Borrowed(form))
    PROVE  /\ Secret(Borrowed(form)) \in Secrets /\ Borrowed(form).to = form.to
           /\ AtHome(Secret(Borrowed(form)), form.to)
  <1> DEFINE t == Typed(form)
             b == Borrowed(form)
  <1>1. t \in Records /\ t.to = form.to /\ t.auth = form.auth /\ form.auth \in Ways
    BY TypedFields, SecretsAssumption
  <1>2. /\ record \in Records /\ record.auth \in Ways /\ AtHome(Secret(record), record.to)
        /\ Unused(record) # None => ~Unused(record).inSight
        /\ record.key \in Secrets \cup {None} /\ record.password \in Secrets \cup {None}
    BY DEF Settled, Records
  <1>3. Valid(b) /\ Secret(b) # None
    BY DEF Valid
  <1>4. CASE Secret(t) # None
    <2>1. b = t
      BY <1>4 DEF Borrowed
    <2>2. Settled(t)
      BY <1>3, <2>1, TypedSettled
    <2> QED BY <1>1, <1>3, <2>1, <2>2 DEF Settled, Secret, Records
  <1>5. CASE Secret(t) = None
    <2>1. form.to = record.to
      BY <1>5 DEF Elsewhere
    <2>2. CASE form.auth = "api_key"
      <3>1. b = [t EXCEPT !.key = record.key]
        BY <1>5, <2>2 DEF Borrowed
      <3>2. b.to = form.to /\ Secret(b) = record.key
        BY <1>1, <2>2, <3>1 DEF Secret, Records
      <3> HIDE DEF b
      <3>3. AtHome(record.key, form.to)
        BY <1>2, <1>3, <2>1, <3>2 DEF AtHome, Secret, Unused, Ways
      <3> QED BY <1>2, <1>3, <3>2, <3>3 DEF b
    <2>3. CASE form.auth = "credentials"
      <3>1. b = [t EXCEPT !.password = record.password]
        BY <1>5, <2>3 DEF Borrowed
      <3>2. b.to = form.to /\ Secret(b) = record.password
        BY <1>1, <2>3, <3>1 DEF Secret, Records
      <3> HIDE DEF b
      <3>3. AtHome(record.password, form.to)
        BY <1>2, <1>3, <2>1, <3>2 DEF AtHome, Secret, Unused, Ways
      <3> QED BY <1>2, <1>3, <3>2, <3>3 DEF b
    <2> QED BY <1>1, <2>2, <2>3 DEF Ways
  <1> QED BY <1>4, <1>5

SecretsInv ==
    /\ record # None => Settled(record)
    /\ sent # None => sent.secret \in Secrets /\ sent.to \in Places /\ AtHome(sent.secret, sent.to)

LEMMA SecretsStep == SecretsInv /\ [SecretsNext]_secretVars => SecretsInv'
  <1> SUFFICES ASSUME SecretsInv, [SecretsNext]_secretVars PROVE SecretsInv'
    OBVIOUS
  <1>1. ASSUME NEW form \in Forms, Add(form) PROVE SecretsInv'
    BY <1>1, TypedSettled DEF Add, SecretsInv, Settled
  <1>2. ASSUME NEW form \in Forms, Edit(form) PROVE SecretsInv'
    BY <1>2, MergedSettled DEF Edit, SecretsInv, Settled
  <1>3. CASE Delete
    BY <1>3 DEF Delete, SecretsInv
  <1>4. ASSUME NEW r, Secret(r) \in Secrets, r.to \in Places, AtHome(Secret(r), r.to),
               SendWith(r), record' = record
        PROVE  SecretsInv'
    <2>1. sent'.secret = Secret(r) /\ sent'.to = r.to
      BY <1>4 DEF SendWith
    <2> QED BY <1>4, <2>1 DEF SecretsInv
  <1>5. ASSUME NEW r, Settled(r), SendWith(r), record' = record PROVE SecretsInv'
    <2>1. Secret(r) \in Secrets /\ r.to \in Places /\ AtHome(Secret(r), r.to)
      BY <1>5 DEF Settled, Valid, Secret, Records
    <2> QED BY <1>4, <1>5, <2>1
  <1>6. ASSUME NEW form \in Forms, TestNew(form) PROVE SecretsInv'
    BY <1>5, <1>6, TypedSettled DEF TestNew
  <1>7. ASSUME NEW form \in Forms, TestEdited(form) PROVE SecretsInv'
    <2>1. Settled(record) /\ form.to \in Places
      BY <1>7, SecretsAssumption DEF TestEdited, SecretsInv
    <2>2. /\ Secret(Borrowed(form)) \in Secrets /\ Borrowed(form).to = form.to
          /\ AtHome(Secret(Borrowed(form)), form.to)
      BY <1>7, <2>1, BorrowedAtHome DEF TestEdited
    <2> QED BY <1>4, <1>7, <2>1, <2>2 DEF TestEdited
  <1>8. CASE Use
    BY <1>5, <1>8 DEF Use, SecretsInv
  <1>9. CASE UNCHANGED secretVars
    BY <1>9 DEF secretVars, SecretsInv
  <1> QED BY <1>1, <1>2, <1>3, <1>6, <1>7, <1>8, <1>9 DEF SecretsNext

\* InstanceStore.update and test_instance, for any places, any forms with anything
\* typed out of sight, and any series of edits: a secret typed in sight is sent to no
\* place but the one it was typed for, and none of them lingers unused.
THEOREM SecretsStay == SecretsSpec => []SecretsStayPut
  <1>1. SecretsInit => SecretsInv
    BY DEF SecretsInit, SecretsInv
  <1>2. SecretsInv => SecretsStayPut
    BY DEF SecretsInv, SecretsStayPut, Settled, AtHome
  <1> QED BY <1>1, <1>2, SecretsStep, PTL DEF SecretsSpec

=============================================================================
