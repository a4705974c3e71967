----------------------- MODULE PortainerSessionProofs -----------------------
(***************************************************************************)
(* What the three passes of a request guarantee, for any number of         *)
(* concurrent requests and any number of changes and failures.             *)
(***************************************************************************)
EXTENDS PortainerSession, TLAPS

Sent == {"login", "fetch1", "fetch2", "call"}
Holding == {"login", "fetch1", "fetch2"}
Awaits == Sent \cup {"idle", "wantLogin", "wantToken", "over"}
Headers == [jwt : Tokens \cup {None}, csrf : Tokens \cup {None}]
Cookies == [session : Tokens \cup {None}, pair : Tokens \cup {None}]

SessionType ==
    /\ logged \in BOOLEAN /\ jwt \in Tokens \cup {None} /\ csrf \in Tokens \cup {None}
    /\ jar \in Cookies /\ pool \in 0 .. MaxTrouble

\* The requests under way; the lock is with the one that logs in or fetches.
FlowType ==
    /\ pc \in [Requests -> Awaits]
    /\ wire \in [Requests -> Wires \cup {None}] /\ answer \in [Requests -> Answers \cup {None}]
    /\ headers \in [Requests -> Headers]
    /\ holder \in Requests \cup {None}
    /\ \A r \in Requests : holder = r <=> pc[r] \in Holding
    /\ \A r \in Requests : wire[r] # None <=> pc[r] \in Sent
    /\ \A r \in Requests : answer[r] # None => wire[r] # None

\* Counters, and what they bound.
Bounds ==
    /\ era \in Tokens /\ secret \in Tokens /\ style \in {"body", "cookie"}
    /\ era <= changes /\ secret <= changes /\ pool <= trouble
    /\ passes \in [Requests -> 0 .. Passes] /\ failures \subseteq Requests
    /\ \A r \in Requests : pc[r] = "idle" => passes[r] = 0
    /\ result \in [Requests -> {"none", "ok", "failed", "denied"}]
    /\ carried \in [Requests -> Nat] /\ disturbed \subseteq Requests
    /\ changes \in 0 .. MaxChanges /\ trouble \in 0 .. MaxTrouble

Types == SessionType /\ FlowType /\ Bounds

LEMMA TypesImply == Types => TypeOK
  BY DEF Types, SessionType, FlowType, Bounds, TypeOK, Headers, Cookies, Awaits, Sent, Holding

LEMMA InitTypes == Init => Types
  <1> SUFFICES ASSUME Init PROVE Types
    OBVIOUS
  <1>1. SessionType
    <2>1. NoCookies \in Cookies
      BY DEF NoCookies, Cookies
    <2>2. pool = 0 /\ 0 \in 0 .. MaxTrouble
      BY ConstantsAssumption DEF Init
    <2> QED BY <2>1, <2>2 DEF Init, SessionType
  <1>2. FlowType
    BY ConstantsAssumption DEF Init, FlowType, NoTokens, Headers, Awaits, Sent, Holding
  <1>3. Bounds
    BY ConstantsAssumption DEF Init, Bounds, Tokens
  <1> QED BY <1>1, <1>2, <1>3 DEF Types

\* A lock that the other requests agree with.
Agrees(r, lock) == lock \in Requests \cup {None} /\ \A q \in Requests \ {r} : lock = q <=> pc[q] \in Holding

LEMMA PutFlow ==
    ASSUME FlowType, SessionType', NEW r \in Requests, NEW what \in Sent, NEW tokens,
           tokens.jwt \in Tokens \cup {None}, tokens.csrf \in Tokens \cup {None},
           NEW lock, Agrees(r, lock), lock = r <=> what \in Holding,
           Put(r, what, tokens, lock), headers' \in [Requests -> Headers]
    PROVE  FlowType'
  <1> DEFINE w == [jwt |-> tokens.jwt, csrf |-> tokens.csrf, session |-> jar'.session,
                   pair |-> jar'.pair, pool |-> pool', again |-> FALSE]
  <1>1. w \in Wires /\ w # None
    <2>1. w \in Wires
      BY DEF SessionType, Cookies, Wires
    <2> HIDE DEF w
    <2> QED BY <2>1, ConstantsAssumption
  <1>2. wire' = [wire EXCEPT ![r] = w] /\ pc' = [pc EXCEPT ![r] = what]
        /\ answer' = [answer EXCEPT ![r] = None] /\ holder' = lock
    BY DEF Put
  <1> HIDE DEF w
  <1> QED BY <1>1, <1>2 DEF FlowType, Agrees, Awaits

LEMMA WaitFlow ==
    ASSUME FlowType, NEW r \in Requests, NEW what \in {"wantLogin", "wantToken", "over"},
           NEW lock, Agrees(r, lock), lock # r,
           Wait(r, what, lock), headers' \in [Requests -> Headers]
    PROVE  FlowType'
  BY DEF FlowType, Agrees, Awaits, Sent, Holding, Wait

LEMMA CallFlow ==
    ASSUME FlowType, SessionType', NEW r \in Requests, NEW lock, Agrees(r, lock), lock # r, Call(r, lock)
    PROVE  FlowType'
  <1>1. headers' \in [Requests -> Headers]
    BY DEF Call, FlowType, SessionType, Headers
  <1>2. headers'[r].jwt \in Tokens \cup {None} /\ headers'[r].csrf \in Tokens \cup {None}
    BY <1>1 DEF Headers
  <1>3. "call" \in Sent /\ "call" \notin Holding
    BY DEF Sent, Holding
  <1>4. Put(r, "call", headers'[r], lock)
    BY DEF Call
  <1> QED BY <1>1, <1>2, <1>3, <1>4, PutFlow

LEMMA FetchFlow ==
    ASSUME FlowType, SessionType', NEW r \in Requests, Agrees(r, r), NEW first \in {"fetch1", "fetch2"},
           Fetch(r, first)
    PROVE  FlowType'
  <1> DEFINE t == [jwt |-> jwt', csrf |-> None]
  <1>1. t.jwt \in Tokens \cup {None} /\ t.csrf \in Tokens \cup {None}
    BY DEF SessionType
  <1>2. Put(r, first, t, r) /\ headers' \in [Requests -> Headers]
    BY DEF Fetch, FlowType
  <1>3. first \in Sent /\ first \in Holding
    BY DEF Sent, Holding
  <1> HIDE DEF t
  <1> QED BY <1>1, <1>2, <1>3, PutFlow

LEMMA LoginFlow ==
    ASSUME FlowType, SessionType', NEW r \in Requests, Agrees(r, r), Login(r)
    PROVE  FlowType'
  <1>1. NoTokens.jwt \in Tokens \cup {None} /\ NoTokens.csrf \in Tokens \cup {None}
    BY DEF NoTokens
  <1>2. Put(r, "login", NoTokens, r) /\ headers' \in [Requests -> Headers]
    BY DEF Login, FlowType
  <1>3. "login" \in Sent /\ "login" \in Holding
    BY DEF Sent, Holding
  <1> QED BY <1>1, <1>2, <1>3, PutFlow

\* A free lock may be taken: nobody else has it.
LEMMA FreeAgrees ==
    ASSUME FlowType, NEW r \in Requests, Agrees(r, None)
    PROVE  Agrees(r, r)
  BY ConstantsAssumption DEF Agrees

LEMMA OnwardFlow ==
    ASSUME FlowType, SessionType', NEW r \in Requests, NEW lock, Agrees(r, lock), lock # r, Onward(r, lock)
    PROVE  FlowType'
  <1>1. CASE r \in Mutating /\ csrf' = None /\ Free(r, lock)
    <2>1. Agrees(r, r) /\ Fetch(r, "fetch1")
      BY <1>1, FreeAgrees DEF Onward, Free
    <2> QED BY <2>1, FetchFlow
  <1>2. CASE r \in Mutating /\ csrf' = None /\ ~Free(r, lock)
    <2>1. Wait(r, "wantToken", lock) /\ headers' \in [Requests -> Headers]
      BY <1>2 DEF Onward, FlowType
    <2> QED BY <2>1, WaitFlow
  <1>3. CASE ~(r \in Mutating /\ csrf' = None)
    BY <1>3, CallFlow DEF Onward
  <1> QED BY <1>1, <1>2, <1>3

LEMMA PassFlow ==
    ASSUME FlowType, SessionType', NEW r \in Requests, NEW lock, Agrees(r, lock), lock # r, Pass(r, lock)
    PROVE  FlowType'
  <1>1. CASE logged'
    BY <1>1, OnwardFlow DEF Pass
  <1>2. CASE ~logged' /\ Free(r, lock)
    <2>1. Agrees(r, r) /\ Login(r)
      BY <1>2, FreeAgrees DEF Pass, Free
    <2> QED BY <2>1, LoginFlow
  <1>3. CASE ~logged' /\ ~Free(r, lock)
    <2>1. Wait(r, "wantLogin", lock) /\ headers' \in [Requests -> Headers]
      BY <1>3 DEF Pass, FlowType
    <2> QED BY <2>1, WaitFlow
  <1> QED BY <1>1, <1>2, <1>3

\* Whatever r does next, it alone moves, and not back to the start.
Moved(r) == \E what \in Awaits \ {"idle"} : pc' = [pc EXCEPT ![r] = what]

LEMMA OnwardMoves == ASSUME NEW r, NEW lock, Onward(r, lock) PROVE Moved(r)
  BY DEF Onward, Fetch, Wait, Call, Put, Moved, Awaits, Sent

LEMMA PassMoves == ASSUME NEW r, NEW lock, Pass(r, lock) PROVE Moved(r)
  <1>1. CASE logged'
    BY <1>1, OnwardMoves DEF Pass
  <1>2. CASE ~logged'
    BY <1>2 DEF Pass, Login, Wait, Put, Moved, Awaits, Sent
  <1> QED BY <1>1, <1>2

LEMMA MovedBounds ==
    ASSUME FlowType, Bounds, NEW r \in Requests, Moved(r),
           UNCHANGED <<era, secret, style, carried, changes, trouble>>, pool' = pool,
           failures' \subseteq Requests, disturbed' \subseteq Requests,
           result' \in [Requests -> {"none", "ok", "failed", "denied"}],
           \/ passes' = passes
           \/ passes[r] < Passes /\ passes' = [passes EXCEPT ![r] = @ + 1]
    PROVE  Bounds'
  <1>1. PICK what \in Awaits \ {"idle"} : pc' = [pc EXCEPT ![r] = what]
    BY DEF Moved
  <1>2. passes' \in [Requests -> 0 .. Passes]
    BY ConstantsAssumption DEF Bounds
  <1>3. ASSUME NEW q \in Requests, pc'[q] = "idle" PROVE passes'[q] = 0
    BY <1>1, <1>3 DEF Bounds, FlowType
  <1> QED BY <1>2, <1>3 DEF Bounds

LEMMA HarvestType ==
    ASSUME Types, NEW r \in Requests, answer[r] # None, Harvest(r)
    PROVE  csrf' \in Tokens \cup {None} /\ jar' \in Cookies /\ disturbed' \subseteq Requests
  <1>1. answer[r] \in Answers
    BY DEF Types, FlowType
  <1>2. answer[r].token \in Tokens \cup {None} /\ answer[r].session \in Tokens \cup {None}
    BY <1>1 DEF Answers
  <1>3. csrf' \in Tokens \cup {None} /\ jar' \in Cookies
    BY <1>2 DEF Harvest, Types, SessionType, Cookies
  <1>4. disturbed' \subseteq Requests
    BY DEF Harvest, Others, Active, Types, Bounds
  <1> QED BY <1>3, <1>4

\* The holder is not r, or lets go.
LEMMA Agreement ==
    ASSUME FlowType, NEW r \in Requests
    PROVE  /\ pc[r] \notin Holding => Agrees(r, holder) /\ holder # r
           /\ holder \in {None, r} => Agrees(r, None) /\ Agrees(r, r)
           /\ pc[r] \in Holding => holder = r
           /\ None # r
  BY ConstantsAssumption DEF FlowType, Agrees

LEMMA LeaveTypes ==
    ASSUME Types, SessionType', NEW r \in Requests, NEW how \in {"ok", "failed", "denied"}, NEW lock,
           Agrees(r, lock), lock # r, Leave(r, how, lock), pool' = pool,
           UNCHANGED <<era, secret, style, carried, changes, trouble>>,
           failures' \subseteq Requests, disturbed' \subseteq Requests
    PROVE  Types'
  <1>1. FlowType'
    <2>1. Wait(r, "over", lock) /\ headers' \in [Requests -> Headers]
      BY DEF Leave, Types, FlowType
    <2> QED BY <2>1, WaitFlow DEF Types
  <1>2. Bounds'
    <2>1. Moved(r)
      BY DEF Leave, Wait, Moved, Awaits
    <2>2. result' \in [Requests -> {"none", "ok", "failed", "denied"}] /\ passes' = passes
      BY DEF Leave, Types, Bounds
    <2> QED BY <2>1, <2>2, MovedBounds DEF Types
  <1> QED BY <1>1, <1>2 DEF Types

-----------------------------------------------------------------------------
LEMMA AskTypes == ASSUME Types, NEW r \in Requests, Ask(r) PROVE Types'
  <1>1. SessionType' /\ pool' = pool
    BY DEF Ask, session, Types, SessionType
  <1>2. Agrees(r, holder) /\ holder # r
    BY Agreement DEF Ask, Types, Holding
  <1>3. FlowType' /\ Moved(r)
    BY <1>1, <1>2, PassFlow, PassMoves DEF Ask, Types
  <1>4. passes[r] < Passes /\ passes' = [passes EXCEPT ![r] = @ + 1]
    BY ConstantsAssumption DEF Ask, Pass, Types, Bounds
  <1>5. Bounds'
    <2>1. UNCHANGED <<era, secret, style, carried, changes, trouble>> /\ failures' = failures
          /\ disturbed' = disturbed /\ result' = result
      BY DEF Ask, portainer
    <2>2. failures' \subseteq Requests /\ disturbed' \subseteq Requests
          /\ result' \in [Requests -> {"none", "ok", "failed", "denied"}]
      BY <2>1 DEF Types, Bounds
    <2> QED BY <1>1, <1>3, <1>4, <2>1, <2>2, MovedBounds DEF Types
  <1> QED BY <1>1, <1>3, <1>5 DEF Types

LEMMA LockTypes == ASSUME Types, NEW r \in Requests, LockComes(r) PROVE Types'
  <1>1. SessionType' /\ pool' = pool /\ csrf' = csrf
    BY DEF LockComes, session, Types, SessionType
  <1>2. Agrees(r, None) /\ Agrees(r, r) /\ None # r
    BY Agreement DEF LockComes, Types
  <1>3. FlowType' /\ Moved(r)
    <2>1. CASE Onward(r, None)
      BY <2>1, <1>1, <1>2, OnwardFlow, OnwardMoves DEF Types
    <2>2. CASE Login(r)
      BY <2>2, <1>1, <1>2, LoginFlow DEF Types, Login, Put, Moved, Awaits, Sent
    <2>3. CASE Fetch(r, "fetch1")
      BY <2>3, <1>1, <1>2, FetchFlow DEF Types, Fetch, Put, Moved, Awaits, Sent
    <2>4. CASE Call(r, None)
      BY <2>4, <1>1, <1>2, CallFlow DEF Types, Call, Put, Moved, Awaits, Sent
    <2> QED BY <2>1, <2>2, <2>3, <2>4 DEF LockComes
  <1>5. Bounds'
    <2>1. UNCHANGED <<era, secret, style, carried, changes, trouble>> /\ failures' = failures
          /\ disturbed' = disturbed /\ result' = result /\ passes' = passes
      BY DEF LockComes, portainer
    <2>2. failures' \subseteq Requests /\ disturbed' \subseteq Requests
          /\ result' \in [Requests -> {"none", "ok", "failed", "denied"}]
      BY <2>1 DEF Types, Bounds
    <2> QED BY <1>1, <1>3, <2>1, <2>2, MovedBounds DEF Types
  <1> QED BY <1>1, <1>3, <1>5 DEF Types

LEMMA LoginTypes == ASSUME Types, NEW r \in Requests, LoginAnswered(r) PROVE Types'
  <1>1. Agrees(r, None) /\ None # r
    BY Agreement DEF LoginAnswered, Types, Holding
  <1>2. UNCHANGED <<era, secret, style, carried, changes, trouble>> /\ failures' = failures
    BY DEF LoginAnswered, portainer
  <1>3. CASE answer[r].status = 200
    <2>1. SessionType' /\ pool' = pool /\ disturbed' \subseteq Requests
      <3>1. answer[r] \in Answers
        BY DEF LoginAnswered, Types, FlowType
      <3>2. jwt' \in Tokens \cup {None} /\ logged' = TRUE /\ pool' = pool
        BY <1>3, <3>1 DEF LoginAnswered, Answers
      <3> QED BY <1>3, <3>2, HarvestType DEF LoginAnswered, Types, SessionType
    <2>2. FlowType' /\ Moved(r)
      BY <1>1, <1>3, <2>1, OnwardFlow, OnwardMoves DEF LoginAnswered, Types
    <2>3. passes' = passes /\ result' = result
      BY <1>3 DEF LoginAnswered
    <2>4. Bounds'
      BY <1>2, <2>1, <2>2, <2>3, MovedBounds DEF Types, Bounds
    <2> QED BY <2>1, <2>2, <2>4 DEF Types
  <1>4. CASE answer[r].status # 200
    <2>1. SessionType' /\ pool' = pool /\ disturbed' = disturbed /\ Leave(r, "failed", None)
      BY <1>4 DEF LoginAnswered, AfterFailure, session, Types, SessionType
    <2>2. failures' \subseteq Requests /\ disturbed' \subseteq Requests
      BY <1>2, <2>1 DEF Types, Bounds
    <2> QED BY <1>1, <1>2, <2>1, <2>2, LeaveTypes
  <1> QED BY <1>3, <1>4

LEMMA FetchTypes == ASSUME Types, NEW r \in Requests, FetchAnswered(r) PROVE Types'
  <1>1. Agrees(r, None) /\ Agrees(r, r) /\ None # r
    BY Agreement DEF FetchAnswered, Types, Holding
  <1>2. SessionType' /\ pool' = pool /\ disturbed' \subseteq Requests
    BY HarvestType DEF FetchAnswered, Types, SessionType
  <1>3. FlowType' /\ Moved(r)
    <2>1. CASE Put(r, "fetch2", wire[r], r) /\ UNCHANGED headers
      <3>1. wire[r] \in Wires
        BY DEF FetchAnswered, Types, FlowType
      <3>2. wire[r].jwt \in Tokens \cup {None} /\ wire[r].csrf \in Tokens \cup {None}
        BY <3>1 DEF Wires
      <3>3. "fetch2" \in Sent /\ "fetch2" \in Holding /\ headers' \in [Requests -> Headers]
        BY <2>1 DEF Sent, Holding, Types, FlowType
      <3>4. FlowType'
        BY <1>1, <1>2, <2>1, <3>2, <3>3, PutFlow DEF Types
      <3> QED BY <2>1, <3>4 DEF Put, Moved, Awaits, Sent
    <2>2. CASE Call(r, None)
      BY <2>2, <1>1, <1>2, CallFlow DEF Types, Call, Put, Moved, Awaits, Sent
    <2> QED BY <2>1, <2>2 DEF FetchAnswered
  <1>4. Bounds'
    <2>1. UNCHANGED <<era, secret, style, carried, changes, trouble>> /\ failures' = failures
          /\ result' = result /\ passes' = passes
      BY DEF FetchAnswered, portainer
    <2> QED BY <1>2, <1>3, <2>1, MovedBounds DEF Types, Bounds
  <1> QED BY <1>2, <1>3, <1>4 DEF Types

LEMMA NextPassTypes ==
    ASSUME Types, SessionType', pool' = pool, NEW r \in Requests, pc[r] = "call", NextPass(r),
           UNCHANGED <<era, secret, style, carried, changes, trouble>>,
           failures' \subseteq Requests, disturbed' \subseteq Requests
    PROVE  Types'
  <1>1. Agrees(r, holder) /\ holder # r
    BY Agreement DEF Types, Holding
  <1>2. CASE Last(r)
    BY <1>1, <1>2, LeaveTypes DEF NextPass
  <1>3. CASE ~Last(r)
    <2>1. Pass(r, holder) /\ result' = result
      BY <1>3 DEF NextPass
    <2>2. FlowType' /\ Moved(r)
      BY <1>1, <2>1, PassFlow, PassMoves DEF Types
    <2>3. passes[r] < Passes /\ passes' = [passes EXCEPT ![r] = @ + 1]
      BY <1>3, <2>1, ConstantsAssumption DEF Last, Pass, Types, Bounds
    <2>4. Bounds'
      BY <2>1, <2>2, <2>3, MovedBounds DEF Types, Bounds
    <2> QED BY <2>2, <2>4 DEF Types
  <1> QED BY <1>2, <1>3

LEMMA CallTypes == ASSUME Types, NEW r \in Requests, CallAnswered(r) PROVE Types'
  <1>1. pc[r] = "call" /\ answer[r] # None /\ UNCHANGED <<era, secret, style, carried, changes, trouble>>
    BY DEF CallAnswered, portainer
  <1>2. Agrees(r, holder) /\ holder # r
    BY <1>1, Agreement DEF Types, Holding
  <1>3. Others(r) \subseteq Requests /\ failures \cup {r} \subseteq Requests /\ disturbed \subseteq Requests
    BY DEF Others, Active, Types, Bounds
  <1>4. CASE answer[r].status = 200 /\ Harvest(r) /\ UNCHANGED <<logged, jwt, pool, failures>>
             /\ Leave(r, "ok", holder)
    <2>1. SessionType' /\ disturbed' \subseteq Requests
      BY <1>1, <1>4, HarvestType DEF Types, SessionType
    <2> QED BY <1>1, <1>2, <1>3, <1>4, <2>1, LeaveTypes
  <1>5. CASE answer[r].status = 0 /\ UNCHANGED <<session, failures, disturbed>> /\ Leave(r, "failed", holder)
    <2>1. SessionType' /\ pool' = pool
      BY <1>5 DEF session, Types, SessionType
    <2> QED BY <1>1, <1>2, <1>3, <1>5, <2>1, LeaveTypes
  <1>6. CASE answer[r].status = 401 /\ logged' = FALSE /\ jwt' = None /\ UNCHANGED <<csrf, jar, pool, failures>>
             /\ disturbed' = Others(r) /\ NextPass(r)
    <2>1. SessionType'
      BY <1>6 DEF Types, SessionType
    <2> QED BY <1>1, <1>3, <1>6, <2>1, NextPassTypes
  <1>7. CASE answer[r].status = 403 /\ csrf' = None /\ UNCHANGED <<jwt, pool>>
             /\ (IF r \in failures THEN logged' = FALSE /\ jar' = NoCookies ELSE UNCHANGED <<logged, jar>>)
             /\ failures' = failures \cup {r} /\ disturbed' = Others(r) /\ NextPass(r)
    <2>1. NoCookies \in Cookies
      BY DEF NoCookies, Cookies
    <2>2. SessionType'
      BY <1>7, <2>1 DEF Types, SessionType
    <2> QED BY <1>1, <1>3, <1>7, <2>2, NextPassTypes
  <1> QED BY <1>4, <1>5, <1>6, <1>7 DEF CallAnswered

LEMMA OutsideTypes ==
    ASSUME Types, Change \/ ProbeFailed \/ \E r \in Requests : Serve(r) \/ AnswerLost(r) \/ Replay(r)
    PROVE  Types'
  <1> USE ConstantsAssumption
  <1>0. Active \subseteq Requests
    BY DEF Active
  <1>1. CASE Change
    <2>1. SessionType' /\ FlowType'
      BY <1>1 DEF Change, session, progress, Types, SessionType, FlowType
    <2>2. changes' \in 0 .. MaxChanges /\ era' \in Tokens /\ secret' \in Tokens
          /\ era' <= changes' /\ secret' <= changes'
      BY <1>1 DEF Change, Types, Bounds, Tokens
    <2>3. disturbed' \subseteq Requests
      BY <1>0, <1>1 DEF Change, Types, Bounds
    <2>4. Bounds'
      BY <1>1, <2>2, <2>3 DEF Change, session, progress, Types, Bounds
    <2> QED BY <2>1, <2>4 DEF Types
  <1>2. ASSUME Trouble, Reconnect PROVE SessionType' /\ trouble' \in 0 .. MaxTrouble /\ pool' <= trouble'
    <2>1. NoCookies \in Cookies
      BY DEF NoCookies, Cookies
    <2>2. trouble' \in 0 .. MaxTrouble /\ pool' <= trouble' /\ pool' \in 0 .. MaxTrouble
      BY <1>2 DEF Trouble, Reconnect, Types, SessionType, Bounds
    <2> QED BY <1>2, <2>1, <2>2 DEF Reconnect, SessionType
  <1>3. CASE ProbeFailed
    <2>1. SessionType' /\ trouble' \in 0 .. MaxTrouble /\ pool' <= trouble'
      BY <1>2, <1>3 DEF ProbeFailed
    <2>2. FlowType' /\ disturbed' \subseteq Requests
      BY <1>0, <1>3 DEF ProbeFailed, progress, Types, FlowType, Bounds
    <2>3. Bounds'
      BY <1>3, <2>1, <2>2 DEF ProbeFailed, Trouble, portainer, progress, Types, Bounds
    <2> QED BY <2>1, <2>2, <2>3 DEF Types
  <1>4. ASSUME NEW r \in Requests, NEW status \in {0, 200, 401, 403}, NEW opened \in Tokens \cup {None},
               NEW token \in Tokens \cup {None}, wire[r] # None, Reply(r, status, opened, token),
               UNCHANGED <<pc, wire, headers, holder>>
        PROVE  FlowType'
    <2> DEFINE a == [status |-> status, session |-> opened, token |-> token]
    <2>1. a \in Answers
      BY DEF Answers
    <2>2. answer' = [answer EXCEPT ![r] = a]
      BY <1>4 DEF Reply
    <2> HIDE DEF a
    <2> QED BY <1>4, <2>1, <2>2 DEF Types, FlowType
  <1>5. ASSUME NEW r \in Requests, Serve(r) PROVE Types'
    <2>1. SessionType'
      BY <1>5 DEF Serve, session, Types, SessionType
    <2>2. era \in Tokens /\ secret \in Tokens /\ wire[r] # None
      BY <1>5 DEF Serve, Open, Types, Bounds
    <2>3. \E status \in {0, 200, 401, 403}, opened \in Tokens \cup {None}, token \in Tokens \cup {None} :
             Reply(r, status, opened, token)
      BY <1>5, <2>2 DEF Serve
    <2>4. FlowType'
      BY <1>4, <1>5, <2>2, <2>3 DEF Serve
    <2>5. carried' \in [Requests -> Nat]
      BY <1>5 DEF Serve, Types, Bounds
    <2>6. Bounds'
      BY <1>5, <2>5 DEF Serve, session, portainer, Types, Bounds
    <2> QED BY <2>1, <2>4, <2>6 DEF Types
  <1>6. ASSUME NEW r \in Requests, AnswerLost(r) PROVE Types'
    <2>1. SessionType'
      BY <1>6 DEF AnswerLost, session, Types, SessionType
    <2>2. FlowType'
      BY <1>4, <1>6 DEF AnswerLost
    <2>3. trouble' \in 0 .. MaxTrouble /\ pool' <= trouble'
      BY <1>6 DEF AnswerLost, Trouble, session, Types, SessionType, Bounds
    <2>4. disturbed' \subseteq Requests
      BY <1>0, <1>6 DEF AnswerLost, Types, Bounds
    <2>5. Bounds'
      BY <1>6, <2>3, <2>4 DEF AnswerLost, Trouble, session, portainer, Types, Bounds
    <2> QED BY <2>1, <2>2, <2>5 DEF Types
  <1>7. ASSUME NEW r \in Requests, Replay(r) PROVE Types'
    <2>1. SessionType' /\ trouble' \in 0 .. MaxTrouble /\ pool' <= trouble'
      BY <1>2, <1>7 DEF Replay
    <2>2. wire[r] \in Wires
      <3>1. wire[r] # None
        BY <1>7 DEF Replay
      <3> QED BY <3>1 DEF Types, FlowType
    <2> DEFINE w == [wire[r] EXCEPT !.session = None, !.pair = None, !.pool = pool', !.again = TRUE]
    <2>3. w \in Wires
      BY <2>1, <2>2 DEF Wires, SessionType
    <2>4. wire' = [wire EXCEPT ![r] = w] /\ answer' = [answer EXCEPT ![r] = None]
      BY <1>7 DEF Replay
    <2> HIDE DEF w
    <2>5. FlowType'
      <3>1. w # None /\ UNCHANGED <<pc, headers, holder>> /\ wire[r] # None
        BY <1>7, <2>3 DEF Replay
      <3> QED BY <2>3, <2>4, <3>1 DEF Types, FlowType
    <2>6. disturbed' \subseteq Requests
      BY <1>0, <1>7 DEF Replay, Types, Bounds
    <2>7. Bounds'
      BY <1>7, <2>1, <2>6 DEF Replay, Trouble, portainer, Types, Bounds
    <2> QED BY <2>1, <2>5, <2>7 DEF Types
  <1> QED BY <1>1, <1>3, <1>5, <1>6, <1>7

LEMMA TypesStep == Types /\ [Next]_vars => Types'
  <1> SUFFICES ASSUME Types, [Next]_vars PROVE Types'
    OBVIOUS
  <1>1. CASE UNCHANGED vars
    BY <1>1 DEF vars, portainer, session, progress, Types, SessionType, FlowType, Bounds
  <1>2. CASE \E r \in Requests : Step(r)
    BY <1>2, AskTypes, LockTypes, LoginTypes, FetchTypes, CallTypes DEF Step
  <1> QED BY <1>1, <1>2, OutsideTypes DEF Next

\* Every reachable state of client, requests and Portainer is well typed, and the
\* lock is held exactly by the request that logs in or fetches a token.
THEOREM TypeCorrect == Spec => []TypeOK
  <1>1. Spec => []Types
    BY InitTypes, TypesStep, PTL DEF Spec
  <1> QED BY <1>1, TypesImply, PTL

-----------------------------------------------------------------------------
(* At most once: what Portainer has carried out, from where the request is *)
(* and what it has been answered.                                          *)

Account ==
    \A r \in Requests :
        /\ carried[r] <= 1
        /\ pc[r] \notin {"call", "over"} => carried[r] = 0
        /\ pc[r] = "call" /\ answer[r] = None => carried[r] = 0
        /\ pc[r] = "call" /\ answer[r] # None =>
               /\ answer[r].status \in {401, 403} => carried[r] = 0
               /\ answer[r].status = 200 => carried[r] = 1
        /\ pc[r] # "over" => result[r] = "none"
        /\ result[r] = "ok" => carried[r] = 1
        /\ result[r] = "denied" => carried[r] = 0

\* r goes on to another await, with no answer yet.
Advances(r) == \E what \in Awaits \ {"idle", "over"} :
                   pc' = [pc EXCEPT ![r] = what] /\ answer' = [answer EXCEPT ![r] = None]

LEMMA OnwardAdvances == ASSUME NEW r, NEW lock, Onward(r, lock) PROVE Advances(r)
  BY DEF Onward, Fetch, Wait, Call, Put, Advances, Awaits, Sent

LEMMA PassAdvances == ASSUME NEW r, NEW lock, Pass(r, lock) PROVE Advances(r)
  <1>1. CASE logged'
    BY <1>1, OnwardAdvances DEF Pass
  <1>2. CASE ~logged'
    BY <1>2 DEF Pass, Login, Wait, Put, Advances, Awaits, Sent
  <1> QED BY <1>1, <1>2

LEMMA AdvancesAccount ==
    ASSUME Types, Account, NEW r \in Requests, Advances(r), carried[r] = 0, pc[r] # "over",
           UNCHANGED <<carried, result>>
    PROVE  Account'
  <1>1. PICK what \in Awaits \ {"idle", "over"} :
            pc' = [pc EXCEPT ![r] = what] /\ answer' = [answer EXCEPT ![r] = None]
    BY DEF Advances
  <1>2. pc \in [Requests -> Awaits] /\ answer \in [Requests -> Answers \cup {None}]
    BY DEF Types, FlowType
  <1>3. pc'[r] # "over" /\ answer'[r] = None
        /\ \A q \in Requests \ {r} : pc'[q] = pc[q] /\ answer'[q] = answer[q]
    BY <1>1, <1>2
  <1> QED BY <1>3 DEF Account

LEMMA LeaveAccount ==
    ASSUME Types, Account, NEW r \in Requests, NEW how \in {"ok", "failed", "denied"}, NEW lock,
           Leave(r, how, lock), carried' = carried,
           how = "ok" => carried[r] = 1, how = "denied" => carried[r] = 0
    PROVE  Account'
  <1>1. pc'[r] = "over" /\ answer'[r] = None /\ result'[r] = how
        /\ \A q \in Requests \ {r} : pc'[q] = pc[q] /\ answer'[q] = answer[q] /\ result'[q] = result[q]
    BY DEF Leave, Wait, Types, FlowType, Bounds
  <1> QED BY <1>1 DEF Account

LEMMA StepAccount ==
    ASSUME Types, Account, NEW r \in Requests, Step(r)
    PROVE  Account'
  <1>1. CASE Ask(r)
    <2>1. Advances(r) /\ UNCHANGED <<carried, result>> /\ pc[r] = "idle"
      BY <1>1, PassAdvances DEF Ask
    <2> QED BY <2>1, AdvancesAccount DEF Account
  <1>2. CASE LockComes(r)
    <2>1. Advances(r)
      <3>1. CASE Onward(r, None)
        BY <3>1, OnwardAdvances
      <3>2. CASE Login(r) \/ Fetch(r, "fetch1") \/ Call(r, None)
        BY <3>2 DEF Login, Fetch, Call, Put, Advances, Awaits, Sent
      <3> QED BY <1>2, <3>1, <3>2 DEF LockComes
    <2>2. UNCHANGED <<carried, result>> /\ pc[r] \in {"wantLogin", "wantToken"}
      BY <1>2 DEF LockComes, Waiting
    <2> QED BY <2>1, <2>2, AdvancesAccount DEF Account
  <1>3. CASE LoginAnswered(r)
    <2>1. pc[r] = "login" /\ carried' = carried /\ carried[r] = 0
      BY <1>3 DEF LoginAnswered, Account
    <2>2. CASE Onward(r, None) /\ result' = result
      BY <2>1, <2>2, OnwardAdvances, AdvancesAccount
    <2>3. CASE Leave(r, "failed", AfterFailure)
      BY <2>1, <2>3, LeaveAccount
    <2> QED BY <1>3, <2>2, <2>3 DEF LoginAnswered
  <1>4. CASE FetchAnswered(r)
    <2>1. pc[r] \in {"fetch1", "fetch2"} /\ UNCHANGED <<carried, result>>
      BY <1>4 DEF FetchAnswered
    <2>2. Advances(r)
      BY <1>4 DEF FetchAnswered, Call, Put, Advances, Awaits, Sent
    <2> QED BY <2>1, <2>2, AdvancesAccount DEF Account
  <1>5. CASE CallAnswered(r)
    <2>1. pc[r] = "call" /\ answer[r] # None /\ carried' = carried
      BY <1>5 DEF CallAnswered
    <2>2. CASE answer[r].status = 200 /\ Leave(r, "ok", holder)
      BY <2>1, <2>2, LeaveAccount DEF Account
    <2>3. CASE answer[r].status = 0 /\ Leave(r, "failed", holder)
      BY <2>1, <2>3, LeaveAccount
    <2>4. CASE answer[r].status \in {401, 403} /\ NextPass(r)
      <3>1. carried[r] = 0
        BY <2>1, <2>4 DEF Account
      <3>2. CASE Leave(r, "denied", holder)
        BY <2>1, <3>1, <3>2, LeaveAccount
      <3>3. CASE Pass(r, holder) /\ UNCHANGED result
        BY <2>1, <3>1, <3>3, PassAdvances, AdvancesAccount
      <3> QED BY <2>4, <3>2, <3>3 DEF NextPass
    <2> QED BY <1>5, <2>2, <2>3, <2>4 DEF CallAnswered
  <1> QED BY <1>1, <1>2, <1>3, <1>4, <1>5 DEF Step

\* r gets an answer, after n times that Portainer has carried it out.
Answered(r, a, n) ==
    /\ answer' = [answer EXCEPT ![r] = a] /\ carried' = [carried EXCEPT ![r] = n]
    /\ UNCHANGED <<pc, result>>

LEMMA AnsweredAccount ==
    ASSUME Types, Account, NEW r \in Requests, pc[r] \in Sent, NEW a \in Answers, NEW n \in {0, 1},
           Answered(r, a, n), pc[r] # "call" => n = 0, a.status \in {401, 403} => n = 0,
           a.status = 200 /\ pc[r] = "call" => n = 1
    PROVE  Account'
  <1>1. answer'[r] = a /\ carried'[r] = n /\ pc' = pc /\ result' = result
        /\ \A q \in Requests \ {r} : answer'[q] = answer[q] /\ carried'[q] = carried[q]
    BY DEF Answered, Types, FlowType, Bounds
  <1>2. result[r] = "none"
    BY DEF Sent, Account
  <1>3. a # None
    BY ConstantsAssumption
  <1> QED BY <1>1, <1>2, <1>3 DEF Account, Sent

LEMMA OutsideAccount ==
    ASSUME Types, Account, Change \/ ProbeFailed \/ \E r \in Requests : Serve(r) \/ AnswerLost(r) \/ Replay(r)
    PROVE  Account'
  <1>1. CASE Change \/ ProbeFailed
    BY <1>1 DEF Change, ProbeFailed, progress, Account
  <1>3. ASSUME NEW r \in Requests, wire[r] # None
        PROVE  pc[r] \in Sent /\ carried[r] \in {0, 1} /\ carried = [carried EXCEPT ![r] = carried[r]]
    BY <1>3 DEF Types, FlowType, Bounds, Account
  <1>4. ASSUME NEW r \in Requests, Serve(r) PROVE Account'
    <2>1. pc[r] \in Sent /\ carried = [carried EXCEPT ![r] = carried[r]] /\ answer[r] = None
          /\ UNCHANGED <<pc, result>>
      BY <1>3, <1>4 DEF Serve, Open
    <2>2. carried[r] = 0
      BY <2>1 DEF Account, Sent
    <2>3. ASSUME NEW status \in {200, 401, 403}, NEW opened \in Tokens \cup {None},
                 NEW token \in Tokens \cup {None}, Reply(r, status, opened, token),
                 status = 200 /\ pc[r] = "call" => carried' = [carried EXCEPT ![r] = @ + 1],
                 ~(status = 200 /\ pc[r] = "call") => carried' = carried
          PROVE  Account'
      <3> DEFINE a == [status |-> status, session |-> opened, token |-> token]
      <3>1. answer' = [answer EXCEPT ![r] = a] /\ a.status = status
        BY <2>3 DEF Reply
      <3>2. a \in Answers
        BY DEF Answers
      <3> HIDE DEF a
      <3>3. CASE status = 200 /\ pc[r] = "call"
        <4>1. carried' = [carried EXCEPT ![r] = 1]
          BY <2>2, <2>3, <3>3
        <4>2. Answered(r, a, 1)
          BY <2>1, <3>1, <4>1 DEF Answered
        <4> QED BY <2>1, <3>1, <3>2, <3>3, <4>2, AnsweredAccount
      <3>4. CASE ~(status = 200 /\ pc[r] = "call")
        <4>1. carried' = [carried EXCEPT ![r] = 0]
          BY <2>1, <2>2, <2>3, <3>4
        <4>2. Answered(r, a, 0)
          BY <2>1, <3>1, <4>1 DEF Answered
        <4> QED BY <2>1, <3>1, <3>2, <3>4, <4>2, AnsweredAccount
      <3> QED BY <3>3, <3>4
    <2>4. era \in Tokens /\ secret \in Tokens
      BY DEF Types, Bounds
    <2> QED BY <1>4, <2>3, <2>4 DEF Serve
  <1>5. ASSUME NEW r \in Requests, AnswerLost(r) PROVE Account'
    <2> DEFINE a == [status |-> 0, session |-> None, token |-> None]
    <2>1. answer' = [answer EXCEPT ![r] = a] /\ a.status = 0
      BY <1>5 DEF AnswerLost, Reply
    <2>2. a \in Answers
      BY DEF Answers
    <2> HIDE DEF a
    <2>4. pc[r] \in Sent /\ carried[r] \in {0, 1} /\ carried' = [carried EXCEPT ![r] = carried[r]]
          /\ UNCHANGED <<pc, result>>
      BY <1>3, <1>5 DEF AnswerLost
    <2>5. pc[r] # "call" => carried[r] = 0
      BY <2>4 DEF Account, Sent
    <2>6. Answered(r, a, carried[r])
      BY <2>1, <2>4 DEF Answered
    <2> QED BY <2>1, <2>2, <2>4, <2>5, <2>6, AnsweredAccount
  <1>6. ASSUME NEW r \in Requests, Replay(r) PROVE Account'
    <2>1. answer[r] = None /\ answer' = [answer EXCEPT ![r] = None] /\ UNCHANGED <<pc, result, carried>>
      BY <1>6 DEF Replay, SentAgain
    <2>2. \A q \in Requests : answer'[q] = answer[q]
      BY <2>1 DEF Types, FlowType
    <2> QED BY <2>1, <2>2 DEF Account
  <1> QED BY <1>1, <1>4, <1>5, <1>6

\* No request is carried out twice, with any number of passes, requests, restarts
\* and lost answers: what _send sends again has not been answered, and a pass is
\* repeated only after a refusal.
THEOREM CarriedOutOnce == Spec => []AtMostOnce
  <1>1. Init => Account
    <2>1. Init => \A r \in Requests : pc[r] = "idle" /\ carried[r] = 0 /\ result[r] = "none"
      BY DEF Init
    <2>2. ASSUME NEW r \in Requests, pc[r] = "idle", carried[r] = 0, result[r] = "none"
          PROVE  /\ carried[r] <= 1 /\ pc[r] # "call" /\ result[r] # "ok" /\ result[r] # "denied"
      BY <2>2
    <2> QED BY <2>1, <2>2, Zenon DEF Account
  <1>2. Types /\ Account /\ [Next]_vars => Account'
    <2>1. ASSUME Types, Account, UNCHANGED vars PROVE Account'
      BY <2>1 DEF vars, progress, Account
    <2> QED BY <2>1, StepAccount, OutsideAccount DEF Next
  <1>3. Account => AtMostOnce
    BY DEF Account, AtMostOnce
  <1>4. Spec => []Types
    BY InitTypes, TypesStep, PTL DEF Spec
  <1>5. Spec => []Account
    BY <1>1, <1>2, <1>4, PTL DEF Spec
  <1> QED BY <1>3, <1>5, PTL

-----------------------------------------------------------------------------
(* One login: r begins to log in only without a session.                   *)

LoginsNeeded == \A r \in Requests : pc[r] # "login" /\ pc'[r] = "login" => ~logged'

LEMMA OnwardNoLogin == ASSUME NEW r, NEW lock, Onward(r, lock)
                       PROVE  \E what \in Awaits \ {"login"} : pc' = [pc EXCEPT ![r] = what]
  BY DEF Onward, Fetch, Wait, Call, Put, Awaits, Sent

LEMMA LeaveNoLogin == ASSUME NEW r, NEW how, NEW lock, Leave(r, how, lock)
                      PROVE  \E what \in Awaits \ {"login"} : pc' = [pc EXCEPT ![r] = what]
  BY DEF Leave, Wait, Awaits

LEMMA PassNoLogin == ASSUME NEW r, NEW lock, Pass(r, lock)
                     PROVE  \E what \in Awaits : pc' = [pc EXCEPT ![r] = what] /\ (what = "login" => ~logged')
  <1>1. CASE logged'
    BY <1>1, OnwardNoLogin DEF Pass
  <1>2. CASE ~logged'
    BY <1>2 DEF Pass, Login, Wait, Put, Awaits, Sent
  <1> QED BY <1>1, <1>2

LEMMA StepLogins ==
    ASSUME Types, NEW r \in Requests, Step(r)
    PROVE  LoginsNeeded
  <1>1. \E what \in Awaits : pc' = [pc EXCEPT ![r] = what] /\ (what = "login" => ~logged')
    <2>1. CASE Ask(r)
      BY <2>1, PassNoLogin DEF Ask
    <2>2. CASE LockComes(r)
      <3>1. CASE Onward(r, None)
        BY <3>1, OnwardNoLogin
      <3>2. CASE ~logged /\ Login(r)
        BY <2>2, <3>2 DEF LockComes, Login, Put, Awaits, Sent, session
      <3>3. CASE Fetch(r, "fetch1") \/ Call(r, None)
        BY <3>3 DEF Fetch, Call, Put, Awaits, Sent
      <3> QED BY <2>2, <3>1, <3>2, <3>3 DEF LockComes, LoggedMeanwhile
    <2>3. CASE LoginAnswered(r)
      BY <2>3, OnwardNoLogin, LeaveNoLogin DEF LoginAnswered
    <2>4. CASE FetchAnswered(r)
      BY <2>4 DEF FetchAnswered, Call, Put, Awaits, Sent
    <2>5. CASE CallAnswered(r)
      BY <2>5, PassNoLogin, LeaveNoLogin DEF CallAnswered, NextPass
    <2> QED BY <2>1, <2>2, <2>3, <2>4, <2>5 DEF Step
  <1>2. pc \in [Requests -> Awaits]
    BY DEF Types, FlowType
  <1> QED BY <1>1, <1>2 DEF LoginsNeeded

\* Whoever waits for the lock looks again whether there is a session before it
\* logs in, so concurrent requests log in once.
THEOREM NoSecondLogin == Spec => OneLogin
  <1>1. Types /\ [Next]_vars => [LoginsNeeded]_vars
    <2>1. ASSUME Change \/ ProbeFailed \/ \E r \in Requests : Serve(r) \/ AnswerLost(r) \/ Replay(r)
          PROVE  LoginsNeeded
      <3>1. pc' = pc
        BY <2>1 DEF Change, ProbeFailed, Serve, AnswerLost, Replay, progress
      <3> QED BY <3>1 DEF LoginsNeeded
    <2> QED BY <2>1, StepLogins DEF Next
  <1>2. Spec => []Types
    BY InitTypes, TypesStep, PTL DEF Spec
  <1> QED BY <1>1, <1>2, PTL DEF Spec, OneLogin, LoginsNeeded

-----------------------------------------------------------------------------
(* Healing: what an undisturbed request finds, pass after pass.            *)

\* Nobody logs in over a session, only a login brings one, and cookies or headers
\* carry it, but not both.
Orderly ==
    /\ \A q \in Requests : pc[q] = "login" => ~logged
    /\ \A q \in Requests : answer[q] # None /\ pc[q] # "login" => answer[q].session = None
    /\ style = "cookie" => /\ jwt = None
                           /\ \A q \in Requests : /\ headers[q].jwt = None
                                                  /\ wire[q] # None => wire[q].jwt = None
    /\ style = "body" => /\ jar.session = None
                         /\ \A q \in Requests : wire[q] # None => wire[q].session = None

\* Whoever logs in does so on the pool in use and at the Portainer of today.
FreshLogins ==
    \A q \in Requests : pc[q] = "login" =>
      /\ wire[q].pool = pool
      /\ answer[q] # None /\ answer[q].status = 200 => answer[q].session = era

\* The session is good, or there is none; likewise token and cookie.
Reliable == logged => IF style = "body" THEN jwt = era ELSE jar.session = era
Clean == csrf # None => csrf = secret /\ jar.pair = secret

\* What a request has sent is as good.
GoodWire(r) == pc[r] \in {"fetch1", "fetch2", "call"} => Authentic(wire[r])
CleanWire(r) == pc[r] = "call" /\ r \in Mutating => Genuine(wire[r])

\* An undisturbed request has been answered by the Portainer of today.
TrueAnswer(r) ==
    answer[r] # None =>
      /\ answer[r].token \in {None, secret}
      /\ pc[r] = "login" => answer[r].session = era
      /\ pc[r] \in {"fetch1", "fetch2"} /\ Authentic(wire[r]) => answer[r].token = secret
      /\ answer[r].status = 401 => ~Authentic(wire[r])
      /\ answer[r].status = 403 => r \in Mutating /\ ~Genuine(wire[r])

Own(r) ==
    /\ wire[r] # None => wire[r].pool = pool
    /\ pc[r] \in {"wantToken", "fetch1", "fetch2", "call"} => logged
    /\ TrueAnswer(r)

\* A refusal leaves the session fresh or the token; the second one leaves both.
Second(r) == FreshLogins /\ ((Reliable /\ GoodWire(r)) \/ (Clean /\ r \in failures))
Third(r) == FreshLogins /\ Reliable /\ GoodWire(r) /\ Clean /\ CleanWire(r)

Healthy(r) ==
    /\ Own(r)
    /\ passes[r] >= 2 => Second(r)
    /\ passes[r] >= 3 => Third(r)

HealInv == Orderly /\ HealsUndisturbed /\ \A r \in Active \ disturbed : Healthy(r)

\* Where r goes on, it sends what the client has, and nobody else moves.
Sends(r) ==
    /\ \A q \in Requests \ {r} : /\ pc'[q] = pc[q] /\ wire'[q] = wire[q]
                                 /\ answer'[q] = answer[q] /\ headers'[q] = headers[q]
    /\ answer'[r] = None
    /\ wire'[r] # None => wire'[r].pool = pool'
    /\ style = "cookie" => headers'[r].jwt = None /\ (wire'[r] # None => wire'[r].jwt = None)
    /\ style = "body" /\ jar'.session = None /\ wire'[r] # None => wire'[r].session = None
    /\ logged' /\ Reliable' /\ GoodWire(r) => GoodWire(r)'
    /\ Clean' /\ (pc'[r] = "call" /\ r \in Mutating => csrf' # None) => CleanWire(r)'
    /\ pc'[r] = "login" => ~logged'

\* The circumstances of a step: types, before and after, and a Portainer that stays.
Steady ==
    /\ Types /\ Types' /\ Orderly
    /\ UNCHANGED <<era, secret, style>>
    /\ style = "cookie" => jwt' = None

LEMMA CallSends ==
    ASSUME Steady, NEW r \in Requests, NEW lock, Call(r, lock)
    PROVE  Sends(r) /\ pc'[r] = "call"
  <1> DEFINE h == [jwt |-> IF jwt' # None THEN jwt' ELSE headers[r].jwt,
                   csrf |-> IF r \in Mutating /\ csrf' # None THEN csrf' ELSE headers[r].csrf]
             w == [jwt |-> h.jwt, csrf |-> h.csrf, session |-> jar'.session, pair |-> jar'.pair,
                   pool |-> pool', again |-> FALSE]
  <1>1. headers' = [headers EXCEPT ![r] = h] /\ headers'[r] = h
    BY DEF Call, Steady, Types, FlowType
  <1>2. wire' = [wire EXCEPT ![r] = w] /\ pc' = [pc EXCEPT ![r] = "call"] /\ answer' = [answer EXCEPT ![r] = None]
    BY <1>1 DEF Call, Put
  <1>3. wire'[r] = w /\ pc'[r] = "call" /\ answer'[r] = None
    BY <1>2 DEF Steady, Types, FlowType
  <1>4. \A q \in Requests \ {r} : pc'[q] = pc[q] /\ wire'[q] = wire[q] /\ answer'[q] = answer[q] /\ headers'[q] = headers[q]
    BY <1>1, <1>2 DEF Steady, Types, FlowType
  <1>5. style = "cookie" => headers'[r].jwt = None /\ wire'[r].jwt = None
    BY <1>1, <1>3 DEF Steady, Orderly
  <1>6. logged' /\ Reliable' => Authentic(wire[r])'
    <2>1. era # None /\ style \in {"body", "cookie"}
      BY ConstantsAssumption DEF Steady, Types, Bounds, Tokens
    <2>2. CASE style = "body"
      BY <1>3, <2>1, <2>2 DEF Authentic, Reliable, Steady
    <2>3. CASE style = "cookie"
      BY <1>3, <1>5, <2>1, <2>3 DEF Authentic, Reliable, Steady
    <2> QED BY <2>1, <2>2, <2>3
  <1>7. Clean' /\ (r \in Mutating => csrf' # None) => CleanWire(r)'
    BY <1>3 DEF Clean, CleanWire, Genuine, Steady
  <1> QED BY <1>3, <1>4, <1>5, <1>6, <1>7 DEF Sends, GoodWire

\* A login or a fetch.
LEMMA PutSends ==
    ASSUME Steady, NEW r \in Requests, NEW what \in {"login", "fetch1", "fetch2"}, NEW tokens, NEW lock,
           Put(r, what, tokens, lock), headers' = headers,
           style = "cookie" => tokens.jwt = None,
           what # "login" /\ style = "body" /\ logged' /\ Reliable' /\ GoodWire(r) => tokens.jwt = era,
           what = "login" => ~logged'
    PROVE  Sends(r) /\ pc'[r] = what
  <1> DEFINE w == [jwt |-> tokens.jwt, csrf |-> tokens.csrf, session |-> jar'.session, pair |-> jar'.pair,
                   pool |-> pool', again |-> FALSE]
  <1>2. wire' = [wire EXCEPT ![r] = w] /\ pc' = [pc EXCEPT ![r] = what] /\ answer' = [answer EXCEPT ![r] = None]
    BY DEF Put
  <1>3. wire'[r] = w /\ pc'[r] = what /\ answer'[r] = None
    BY <1>2 DEF Steady, Types, FlowType
  <1>4. \A q \in Requests \ {r} : pc'[q] = pc[q] /\ wire'[q] = wire[q] /\ answer'[q] = answer[q] /\ headers'[q] = headers[q]
    BY <1>2 DEF Steady, Types, FlowType
  <1>5. style = "cookie" => headers'[r].jwt = None /\ wire'[r].jwt = None
    BY <1>3 DEF Steady, Orderly
  <1>6. logged' /\ Reliable' /\ GoodWire(r) => GoodWire(r)'
    <2>1. era # None /\ style \in {"body", "cookie"}
      BY ConstantsAssumption DEF Steady, Types, Bounds, Tokens
    <2>2. CASE style = "body"
      BY <1>3, <2>1, <2>2 DEF Authentic, Reliable, Steady, GoodWire
    <2>3. CASE style = "cookie"
      BY <1>3, <1>5, <2>1, <2>3 DEF Authentic, Reliable, Steady, GoodWire
    <2> QED BY <2>1, <2>2, <2>3
  <1>7. pc'[r] # "call"
    BY <1>3
  <1> QED BY <1>3, <1>4, <1>5, <1>6, <1>7 DEF Sends, CleanWire

LEMMA WaitSends ==
    ASSUME Steady, NEW r \in Requests, NEW what \in {"wantLogin", "wantToken", "over"}, NEW lock,
           Wait(r, what, lock), headers' = headers
    PROVE  Sends(r) /\ pc'[r] = what
  <1>1. wire'[r] = None /\ pc'[r] = what /\ answer'[r] = None
    BY DEF Wait, Steady, Types, FlowType
  <1>2. \A q \in Requests \ {r} : pc'[q] = pc[q] /\ wire'[q] = wire[q] /\ answer'[q] = answer[q] /\ headers'[q] = headers[q]
    BY DEF Wait, Steady, Types, FlowType
  <1> QED BY <1>1, <1>2 DEF Sends, GoodWire, CleanWire, Steady, Orderly

LEMMA FetchSends ==
    ASSUME Steady, NEW r \in Requests, Fetch(r, "fetch1")
    PROVE  Sends(r) /\ pc'[r] = "fetch1"
  <1> DEFINE t == [jwt |-> jwt', csrf |-> None]
  <1>1. Put(r, "fetch1", t, r) /\ headers' = headers
    BY DEF Fetch
  <1>2. style = "cookie" => t.jwt = None
    BY DEF Steady
  <1>3. style = "body" /\ logged' /\ Reliable' => t.jwt = era
    BY DEF Steady, Reliable
  <1> HIDE DEF t
  <1> QED BY <1>1, <1>2, <1>3, PutSends

LEMMA LoginSends ==
    ASSUME Steady, NEW r \in Requests, Login(r), ~logged'
    PROVE  Sends(r) /\ pc'[r] = "login"
  <1>1. Put(r, "login", NoTokens, r) /\ headers' = headers /\ NoTokens.jwt = None
    BY DEF Login, NoTokens
  <1> QED BY <1>1, PutSends

\* With a session: to the token, or to the call with all there is.
LEMMA OnwardSends ==
    ASSUME Steady, NEW r \in Requests, NEW lock, Onward(r, lock)
    PROVE  /\ Sends(r) /\ pc'[r] \in {"wantToken", "fetch1", "call"}
           /\ pc'[r] = "call" /\ r \in Mutating => csrf' # None
  <1>1. CASE r \in Mutating /\ csrf' = None /\ Free(r, lock)
    BY <1>1, FetchSends DEF Onward
  <1>2. CASE r \in Mutating /\ csrf' = None /\ ~Free(r, lock)
    BY <1>2, WaitSends DEF Onward
  <1>3. CASE ~(r \in Mutating /\ csrf' = None)
    BY <1>3, CallSends DEF Onward
  <1> QED BY <1>1, <1>2, <1>3

LEMMA PassSends ==
    ASSUME Steady, NEW r \in Requests, NEW lock, Pass(r, lock)
    PROVE  /\ Sends(r)
           /\ logged' => pc'[r] \in {"wantToken", "fetch1", "call"}
           /\ ~logged' => pc'[r] \in {"wantLogin", "login"}
           /\ pc'[r] = "call" /\ r \in Mutating => csrf' # None
           /\ passes'[r] = passes[r] + 1
           /\ \A q \in Requests \ {r} : passes'[q] = passes[q]
  <1>1. passes'[r] = passes[r] + 1 /\ \A q \in Requests \ {r} : passes'[q] = passes[q]
    BY DEF Pass, Steady, Types, Bounds
  <1>2. CASE logged'
    BY <1>1, <1>2, OnwardSends DEF Pass
  <1>3. CASE ~logged' /\ Free(r, lock)
    BY <1>1, <1>3, LoginSends DEF Pass
  <1>4. CASE ~logged' /\ ~Free(r, lock)
    BY <1>1, <1>4, WaitSends DEF Pass
  <1> QED BY <1>2, <1>3, <1>4

-----------------------------------------------------------------------------
LEMMA HarvestKeeps ==
    ASSUME Types, NEW r \in Requests, answer[r] # None, Harvest(r), UNCHANGED <<pool, secret, style>>
    PROVE  /\ style = "body" => jar'.session = jar.session
           /\ answer[r].session = None => jar'.session = jar.session
           /\ answer[r].session # None /\ style = "cookie" /\ wire[r].pool = pool => jar'.session = answer[r].session
           /\ answer[r].token = None \/ (answer[r].token = secret /\ wire[r].pool = pool) => (Clean => Clean')
           /\ answer[r].token # None => csrf' = answer[r].token
           /\ disturbed \subseteq disturbed'
           /\ \A u \in Active \ {r} : u \notin disturbed' =>
                answer[r].token = None \/ (answer[r].token = secret /\ wire[r].pool = pool)
  <1>1. jar \in Cookies
    BY DEF Types, SessionType
  <1>2. /\ style = "body" => jar'.session = jar.session
        /\ answer[r].session = None => jar'.session = jar.session
        /\ answer[r].session # None /\ style = "cookie" /\ wire[r].pool = pool => jar'.session = answer[r].session
    BY <1>1 DEF Harvest, Cookies
  <1>3. ASSUME answer[r].token = None, Clean PROVE Clean'
    BY <1>1, <1>3 DEF Harvest, Clean, Cookies
  <1>4. ASSUME answer[r].token # None, answer[r].token = secret, wire[r].pool = pool PROVE Clean'
    BY <1>4 DEF Harvest, Clean
  <1>5. disturbed \subseteq disturbed'
        /\ \A u \in Active \ {r} : u \notin disturbed' =>
                answer[r].token = None \/ (answer[r].token = secret /\ wire[r].pool = pool)
    BY DEF Harvest, Others
  <1>6. answer[r].token # None => csrf' = answer[r].token
    BY DEF Harvest
  <1> QED BY <1>2, <1>3, <1>4, <1>5, <1>6

\* What every step of a request keeps.
LEMMA StepSteady ==
    ASSUME Types, Types', Orderly, NEW r \in Requests, Step(r)
    PROVE  /\ Steady /\ pool' = pool /\ failures \subseteq failures' /\ disturbed \subseteq disturbed'
           /\ style = "body" => jar'.session = None
           /\ logged' => logged \/ pc[r] = "login"
  <1>1. CASE Ask(r)
    BY <1>1 DEF Ask, session, portainer, Steady, Orderly
  <1>2. CASE LockComes(r)
    BY <1>2 DEF LockComes, session, portainer, Steady, Orderly
  <1>3. CASE LoginAnswered(r)
    <2>1. CASE answer[r].status = 200
      BY <1>3, <2>1, HarvestKeeps DEF LoginAnswered, portainer, Steady, Orderly
    <2>2. CASE answer[r].status # 200
      BY <1>3, <2>2 DEF LoginAnswered, session, portainer, Steady, Orderly
    <2> QED BY <2>1, <2>2
  <1>4. CASE FetchAnswered(r)
    BY <1>4, HarvestKeeps DEF FetchAnswered, portainer, Steady, Orderly
  <1>5. CASE CallAnswered(r)
    <2>1. CASE answer[r].status = 200 /\ Harvest(r) /\ UNCHANGED <<logged, jwt, pool, failures>>
      BY <1>5, <2>1, HarvestKeeps DEF CallAnswered, portainer, Steady, Orderly
    <2>2. CASE UNCHANGED <<session, failures, disturbed>>
      BY <1>5, <2>2 DEF CallAnswered, session, portainer, Steady, Orderly
    <2>3. CASE logged' = FALSE /\ jwt' = None /\ UNCHANGED <<csrf, jar, pool, failures>> /\ disturbed' = Others(r)
      BY <1>5, <2>3 DEF CallAnswered, Others, portainer, Steady, Orderly
    <2>4. CASE /\ UNCHANGED <<jwt, pool>>
               /\ IF r \in failures THEN logged' = FALSE /\ jar' = NoCookies ELSE UNCHANGED <<logged, jar>>
               /\ failures' = failures \cup {r} /\ disturbed' = Others(r)
      BY <1>5, <2>4 DEF CallAnswered, Others, NoCookies, portainer, Steady, Orderly
    <2> QED BY <1>5, <2>1, <2>2, <2>3, <2>4 DEF CallAnswered
  <1> QED BY <1>1, <1>2, <1>3, <1>4, <1>5 DEF Step

LEMMA LeaveSends ==
    ASSUME Steady, NEW r \in Requests, NEW how, NEW lock, Leave(r, how, lock)
    PROVE  Sends(r) /\ pc'[r] = "over" /\ passes' = passes
  BY WaitSends DEF Leave

\* The second place is asked as the first was.
LEMMA SecondFetchSends ==
    ASSUME Steady, NEW r \in Requests, pc[r] = "fetch1", Put(r, "fetch2", wire[r], r), headers' = headers
    PROVE  Sends(r) /\ pc'[r] = "fetch2"
  <1>1. wire[r] # None
    BY DEF Steady, Types, FlowType, Sent
  <1>2. style = "cookie" => wire[r].jwt = None
    BY <1>1 DEF Steady, Orderly
  <1>3. style = "body" /\ GoodWire(r) => wire[r].jwt = era
    <2>1. era # None
      BY ConstantsAssumption DEF Steady, Types, Bounds, Tokens
    <2> QED BY <1>1, <2>1 DEF Steady, Orderly, GoodWire, Authentic
  <1> QED BY <1>2, <1>3, PutSends

LEMMA StepSends ==
    ASSUME Steady, NEW r \in Requests, Step(r)
    PROVE  Sends(r) /\ \A q \in Requests \ {r} : passes'[q] = passes[q]
  <1>1. CASE Ask(r)
    BY <1>1, PassSends DEF Ask
  <1>2. CASE LockComes(r)
    <2>1. passes' = passes
      BY <1>2 DEF LockComes
    <2>2. CASE Onward(r, None)
      BY <2>1, <2>2, OnwardSends
    <2>3. CASE Login(r) /\ ~logged'
      BY <2>1, <2>3, LoginSends
    <2>4. CASE Fetch(r, "fetch1")
      BY <2>1, <2>4, FetchSends
    <2>5. CASE Call(r, None)
      BY <2>1, <2>5, CallSends
    <2> QED BY <1>2, <2>2, <2>3, <2>4, <2>5 DEF LockComes, LoggedMeanwhile, session
  <1>3. CASE LoginAnswered(r)
    BY <1>3, OnwardSends, LeaveSends DEF LoginAnswered
  <1>4. CASE FetchAnswered(r)
    BY <1>4, SecondFetchSends, CallSends DEF FetchAnswered
  <1>5. CASE CallAnswered(r)
    BY <1>5, PassSends, LeaveSends DEF CallAnswered, NextPass
  <1> QED BY <1>1, <1>2, <1>3, <1>4, <1>5 DEF Step

LEMMA OrderlyStays ==
    ASSUME Types, Types', Orderly, NEW r \in Requests, Step(r)
    PROVE  Orderly'
  <1>1. /\ Steady /\ style' = style
        /\ style = "body" => jar'.session = None
        /\ style = "cookie" => jwt' = None
        /\ logged' => logged \/ pc[r] = "login"
    BY StepSteady DEF Steady
  <1>2. Sends(r)
    BY <1>1, StepSends
  <1>3. ASSUME NEW q \in Requests, pc'[q] = "login" PROVE ~logged'
    <2>1. CASE q = r
      BY <1>2, <1>3, <2>1 DEF Sends
    <2>2. CASE q # r
      <3>1. pc[q] = "login" /\ ~logged
        BY <1>2, <1>3, <2>2 DEF Sends, Orderly
      <3>2. holder = q /\ (pc[r] = "login" => holder = r)
        BY <3>1 DEF Types, FlowType, Holding
      <3> QED BY <1>1, <2>2, <3>1, <3>2
    <2> QED BY <2>1, <2>2
  <1>4. \A q \in Requests : answer'[q] # None /\ pc'[q] # "login" => answer'[q].session = None
    BY <1>2 DEF Sends, Orderly
  <1>5. style = "cookie" => \A q \in Requests : headers'[q].jwt = None /\ (wire'[q] # None => wire'[q].jwt = None)
    BY <1>2 DEF Sends, Orderly
  <1>6. style = "body" => \A q \in Requests : wire'[q] # None => wire'[q].session = None
    BY <1>1, <1>2 DEF Sends, Orderly
  <1> QED BY <1>1, <1>3, <1>4, <1>5, <1>6 DEF Orderly

LEMMA FreshStays ==
    ASSUME Steady, NEW r \in Requests, Sends(r), pool' = pool, FreshLogins
    PROVE  FreshLogins'
  <1> SUFFICES ASSUME NEW q \in Requests, pc'[q] = "login"
               PROVE  wire'[q].pool = pool' /\ (answer'[q] # None /\ answer'[q].status = 200 => answer'[q].session = era')
    BY DEF FreshLogins
  <1>1. CASE q = r
    <2>1. wire'[r] # None
      BY <1>1 DEF Steady, Types, FlowType, Sent
    <2> QED BY <1>1, <2>1 DEF Sends
  <1>2. CASE q # r
    BY <1>2 DEF Sends, FreshLogins, Steady
  <1> QED BY <1>1, <1>2

\* A request beside r, which r has not disturbed.
LEMMA StepKeeps ==
    ASSUME Types, Types', Orderly, NEW r \in Requests, Step(r), NEW u \in Active \ {r}, u \notin disturbed'
    PROVE  /\ logged => logged'
           /\ FreshLogins /\ Reliable => Reliable'
           /\ Clean => Clean'
  <1>0. UNCHANGED <<era, secret, style, pool>>
    BY StepSteady DEF Steady
  <1>1. CASE UNCHANGED session
    BY <1>0, <1>1 DEF session, Reliable, Clean
  <1>2. CASE LoginAnswered(r) /\ answer[r].status = 200
    <2>1. answer[r] # None /\ pc[r] = "login" /\ Harvest(r) /\ logged'
          /\ jwt' = (IF style = "body" THEN answer[r].session ELSE None)
      BY <1>2 DEF LoginAnswered
    <2>2. Clean => Clean'
      BY <1>0, <2>1, HarvestKeeps
    <2>3. ASSUME FreshLogins PROVE Reliable'
      <3>1. wire[r].pool = pool /\ answer[r].session = era /\ era # None
        BY <1>2, <2>1, <2>3, ConstantsAssumption DEF FreshLogins, Types, Bounds, Tokens
      <3>2. CASE style = "body"
        BY <1>0, <2>1, <3>1, <3>2 DEF Reliable
      <3>3. CASE style # "body"
        <4>1. style = "cookie"
          BY <3>3 DEF Types, Bounds
        <4>2. jar'.session = era
          BY <1>0, <2>1, <3>1, <4>1, HarvestKeeps
        <4> QED BY <1>0, <3>3, <4>2 DEF Reliable
      <3> QED BY <3>2, <3>3
    <2> QED BY <2>1, <2>2, <2>3
  <1>3. CASE Harvest(r) /\ UNCHANGED <<logged, jwt>> /\ answer[r] # None /\ pc[r] # "login"
    <2>1. jar'.session = jar.session /\ (Clean => Clean')
      BY <1>0, <1>3, HarvestKeeps DEF Orderly
    <2> QED BY <1>0, <1>3, <2>1 DEF Reliable
  <1>4. CASE disturbed' = Others(r)
    BY <1>4 DEF Others
  <1> QED BY <1>1, <1>2, <1>3, <1>4 DEF Step, Ask, LockComes, LoginAnswered, FetchAnswered, CallAnswered, session

LEMMA OthersHealthy ==
    ASSUME Types, Types', Orderly, NEW r \in Requests, Step(r), NEW u \in Active \ {r}, u \notin disturbed',
           Healthy(u)
    PROVE  Healthy(u)'
  <1>1. /\ Steady /\ pool' = pool /\ failures \subseteq failures'
        /\ UNCHANGED <<era, secret>>
    BY StepSteady DEF Steady
  <1>2. /\ pc'[u] = pc[u] /\ wire'[u] = wire[u] /\ answer'[u] = answer[u] /\ passes'[u] = passes[u]
        /\ FreshLogins => FreshLogins'
    BY <1>1, StepSends, FreshStays DEF Sends, Active
  <1>3. /\ logged => logged'
        /\ FreshLogins /\ Reliable => Reliable'
        /\ Clean => Clean'
    BY StepKeeps
  <1>4. (GoodWire(u) => GoodWire(u)') /\ (CleanWire(u) => CleanWire(u)')
    BY <1>1, <1>2 DEF GoodWire, CleanWire, Authentic, Genuine
  <1>5. Own(u)'
    BY <1>1, <1>2, <1>3 DEF Healthy, Own, TrueAnswer, Authentic, Genuine
  <1>6. passes[u] >= 2 => Second(u)'
    BY <1>1, <1>2, <1>3, <1>4 DEF Healthy, Second
  <1>7. passes[u] >= 3 => Third(u)'
    BY <1>1, <1>2, <1>3, <1>4 DEF Healthy, Third
  <1> QED BY <1>2, <1>5, <1>6, <1>7 DEF Healthy

-----------------------------------------------------------------------------
\* r goes on within its pass.
LEMMA GoesOn ==
    ASSUME Steady, NEW r \in Requests, Sends(r), pool' = pool, passes'[r] = passes[r], failures' = failures,
           Healthy(r),
           pc'[r] \in {"wantToken", "fetch1", "fetch2", "call"} => logged',
           FreshLogins /\ Reliable /\ GoodWire(r) => Reliable',
           Clean => Clean',
           Third(r) /\ pc'[r] = "call" /\ r \in Mutating => csrf' # None
    PROVE  Healthy(r)'
  <1>1. FreshLogins => FreshLogins'
    BY FreshStays
  <1>2. Own(r)'
    BY DEF Sends, Own, TrueAnswer
  <1>3. ASSUME FreshLogins, Reliable, GoodWire(r) PROVE Reliable' /\ GoodWire(r)'
    <2>1. CASE logged'
      BY <1>3, <2>1 DEF Sends
    <2>2. CASE ~logged'
      BY <1>3, <2>2 DEF GoodWire
    <2> QED BY <2>1, <2>2
  <1>4. ASSUME passes'[r] >= 2 PROVE Second(r)'
    BY <1>1, <1>3, <1>4 DEF Healthy, Second
  <1>5. ASSUME passes'[r] >= 3 PROVE Third(r)'
    <2>1. Third(r)
      BY <1>5 DEF Healthy
    <2>2. CleanWire(r)'
      BY <2>1 DEF Third, Sends
    <2> QED BY <1>1, <1>3, <2>1, <2>2 DEF Third
  <1> QED BY <1>2, <1>4, <1>5 DEF Healthy

LEMMA AskHealthy ==
    ASSUME Types, Types', Orderly, NEW r \in Requests, Ask(r)
    PROVE  Healthy(r)'
  <1>1. Steady /\ Pass(r, holder)
    BY StepSteady DEF Ask, Step
  <1>2. /\ Sends(r) /\ passes'[r] = passes[r] + 1
        /\ pc'[r] \in {"wantToken", "fetch1", "fetch2", "call"} => logged'
    BY <1>1, PassSends
  <1>3. passes'[r] = 1
    BY <1>2 DEF Ask, Types, Bounds
  <1> QED BY <1>2, <1>3 DEF Healthy, Own, TrueAnswer, Sends

LEMMA LockHealthy ==
    ASSUME Types, Types', Orderly, NEW r \in Requests, LockComes(r), Healthy(r)
    PROVE  Healthy(r)'
  <1>1. /\ Steady /\ pool' = pool /\ passes'[r] = passes[r] /\ failures' = failures
        /\ UNCHANGED <<session, era, secret, style>>
    BY StepSteady DEF LockComes, Step, Steady
  <1>2. Sends(r)
    BY <1>1, StepSends DEF Step
  <1>3. /\ pc'[r] \in {"wantToken", "fetch1", "fetch2", "call"} => logged'
        /\ pc'[r] = "call" /\ r \in Mutating => csrf' # None
    <2>1. CASE pc[r] = "wantLogin"
      BY <1>1, <2>1, OnwardSends, LoginSends DEF LockComes, LoggedMeanwhile, session
    <2>2. CASE pc[r] = "wantToken"
      <3>1. logged'
        BY <1>1, <2>2 DEF Healthy, Own, session
      <3> QED BY <1>1, <2>2, <3>1, FetchSends, CallSends DEF LockComes, session
    <2> QED BY <2>1, <2>2 DEF LockComes, Waiting
  <1>4. (Reliable => Reliable') /\ (Clean => Clean')
    BY <1>1 DEF Reliable, Clean, session
  <1> QED BY <1>1, <1>2, <1>3, <1>4, GoesOn

LEMMA LoginHealthy ==
    ASSUME Types, Types', Orderly, NEW r \in Requests, LoginAnswered(r), Healthy(r), pc'[r] # "over"
    PROVE  Healthy(r)'
  <1>1. Steady /\ pool' = pool /\ UNCHANGED <<era, secret, style>> /\ failures' = failures
    BY StepSteady DEF LoginAnswered, Step, Steady
  <1>2. Sends(r)
    BY <1>1, StepSends DEF Step
  <1>3. /\ answer[r] # None /\ pc[r] = "login" /\ Harvest(r) /\ logged' /\ passes' = passes
        /\ jwt' = (IF style = "body" THEN answer[r].session ELSE None) /\ Onward(r, None)
    <2>1. answer[r].status = 200
      BY <1>1, LeaveSends DEF LoginAnswered
    <2> QED BY <2>1 DEF LoginAnswered
  <1>4. answer[r].session = era /\ wire[r].pool = pool /\ answer[r].token \in {None, secret} /\ era # None
    <2>1. wire[r] # None
      BY <1>3 DEF Types, FlowType
    <2> QED BY <1>3, <2>1, ConstantsAssumption DEF Healthy, Own, TrueAnswer, Types, Bounds, Tokens
  <1>5. Reliable'
    <2>1. CASE style = "body"
      BY <1>1, <1>3, <1>4, <2>1 DEF Reliable
    <2>2. CASE style # "body"
      <3>1. style = "cookie"
        BY <2>2 DEF Types, Bounds
      <3>2. jar'.session = era
        BY <1>1, <1>3, <1>4, <3>1, HarvestKeeps
      <3> QED BY <1>1, <2>2, <3>2 DEF Reliable
    <2> QED BY <2>1, <2>2
  <1>6. Clean => Clean'
    BY <1>1, <1>3, <1>4, HarvestKeeps
  <1>7. pc'[r] = "call" /\ r \in Mutating => csrf' # None
    BY <1>1, <1>3, OnwardSends
  <1> QED BY <1>1, <1>2, <1>3, <1>5, <1>6, <1>7, GoesOn

LEMMA FetchHealthy ==
    ASSUME Types, Types', Orderly, NEW r \in Requests, FetchAnswered(r), Healthy(r)
    PROVE  Healthy(r)'
  <1>1. Steady /\ pool' = pool /\ UNCHANGED <<era, secret, style>> /\ failures' = failures
    BY StepSteady DEF FetchAnswered, Step, Steady
  <1>2. Sends(r)
    BY <1>1, StepSends DEF Step
  <1>3. /\ answer[r] # None /\ pc[r] \in {"fetch1", "fetch2"} /\ Harvest(r) /\ UNCHANGED <<logged, jwt>>
        /\ passes' = passes
    BY DEF FetchAnswered
  <1>4. /\ logged /\ wire[r].pool = pool /\ answer[r].token \in {None, secret} /\ answer[r].session = None
        /\ GoodWire(r) => answer[r].token = secret
    <2>1. wire[r] # None
      BY <1>3 DEF Types, FlowType
    <2> QED BY <1>3, <2>1 DEF Healthy, Own, TrueAnswer, GoodWire, Orderly
  <1>5. jar'.session = jar.session /\ (Clean => Clean') /\ (answer[r].token # None => csrf' = answer[r].token)
    BY <1>1, <1>3, <1>4, HarvestKeeps
  <1>6. Reliable => Reliable'
    BY <1>1, <1>3, <1>5 DEF Reliable
  <1>7. Third(r) => csrf' # None
    <2>1. secret # None
      BY ConstantsAssumption DEF Types, Bounds, Tokens
    <2> QED BY <1>4, <1>5, <2>1 DEF Third
  <1> QED BY <1>1, <1>2, <1>3, <1>4, <1>5, <1>6, <1>7, GoesOn

\* What a refusal tells of an undisturbed request: that its session or its token
\* was stale, and which pass it was in.
LEMMA RefusalTells ==
    ASSUME Types, Orderly, NEW r \in Requests, pc[r] = "call", answer[r] # None, Healthy(r)
    PROVE  /\ logged /\ FreshLogins
           /\ answer[r].status \in {401, 403} => passes[r] < 3
           /\ answer[r].status = 401 /\ passes[r] = 2 => Clean
           /\ answer[r].status = 403 => r \in Mutating
  <1>1. /\ logged
        /\ answer[r].status = 401 => ~GoodWire(r)
        /\ answer[r].status = 403 => r \in Mutating /\ ~CleanWire(r)
    BY DEF Healthy, Own, TrueAnswer, GoodWire, CleanWire
  <1>2. FreshLogins
    BY <1>1 DEF Orderly, FreshLogins
  <1>3. passes[r] \in Nat
    BY ConstantsAssumption DEF Types, Bounds
  <1>4. answer[r].status \in {401, 403} => passes[r] < 3
    BY <1>1, <1>3 DEF Healthy, Third
  <1>5. answer[r].status = 401 /\ passes[r] = 2 => Clean
    BY <1>1 DEF Healthy, Second
  <1> QED BY <1>1, <1>2, <1>4, <1>5

LEMMA CallHealthy ==
    ASSUME Types, Types', Orderly, NEW r \in Requests, CallAnswered(r), Healthy(r), pc'[r] # "over"
    PROVE  Healthy(r)'
  <1>1. Steady /\ pool' = pool /\ UNCHANGED <<era, secret, style>>
    BY StepSteady DEF Step, Steady
  <1>2. /\ pc[r] = "call" /\ answer[r] # None /\ answer[r].status \in {401, 403}
        /\ Pass(r, holder)
    BY <1>1, LeaveSends DEF CallAnswered, NextPass
  <1>3. /\ Sends(r) /\ passes'[r] = passes[r] + 1
        /\ logged' => pc'[r] \in {"wantToken", "fetch1", "call"}
        /\ ~logged' => pc'[r] \in {"wantLogin", "login"}
        /\ pc'[r] = "call" /\ r \in Mutating => csrf' # None
    BY <1>1, <1>2, PassSends
  <1>4. Own(r)'
    BY <1>3 DEF Sends, Own, TrueAnswer
  <1>5. FreshLogins' /\ passes[r] < 3 /\ passes[r] \in Nat
    BY <1>1, <1>2, <1>3, RefusalTells, FreshStays, ConstantsAssumption DEF Types, Bounds
  <1>6. CASE answer[r].status = 401
    <2>1. ~logged' /\ UNCHANGED <<csrf, jar>>
      BY <1>6 DEF CallAnswered
    <2>2. Reliable' /\ GoodWire(r)' /\ CleanWire(r)'
      BY <1>3, <2>1 DEF Reliable, GoodWire, CleanWire
    <2>3. passes[r] = 2 => Clean'
      BY <1>1, <1>2, <1>6, <2>1, RefusalTells DEF Clean
    <2> QED BY <1>3, <1>4, <1>5, <2>2, <2>3 DEF Healthy, Second, Third
  <1>7. CASE answer[r].status = 403
    <2>1. /\ csrf' = None /\ jwt' = jwt /\ r \in failures'
          /\ IF r \in failures THEN logged' = FALSE ELSE UNCHANGED <<logged, jar>>
      BY <1>7 DEF CallAnswered
    <2>2. Clean' /\ CleanWire(r)'
      <3>1. r \in Mutating
        BY <1>2, <1>7, RefusalTells
      <3> QED BY <1>3, <2>1, <3>1 DEF Clean, CleanWire
    <2>3. passes[r] = 2 => Reliable' /\ GoodWire(r)'
      <3>1. CASE ~logged'
        BY <1>3, <3>1 DEF Reliable, GoodWire
      <3>2. CASE logged' /\ passes[r] = 2
        <4>1. r \notin failures /\ logged' = logged /\ jar' = jar
          BY <2>1, <3>2
        <4>2. Reliable /\ GoodWire(r)
          BY <3>2, <4>1 DEF Healthy, Second
        <4>3. Reliable'
          BY <1>1, <2>1, <4>1, <4>2 DEF Reliable
        <4> QED BY <1>3, <3>2, <4>2, <4>3 DEF Sends
      <3> QED BY <3>1, <3>2
    <2> QED BY <1>3, <1>4, <1>5, <2>1, <2>2, <2>3 DEF Healthy, Second, Third
  <1> QED BY <1>2, <1>6, <1>7

\* Only who has used up its passes is denied.
LEMMA NotDenied ==
    ASSUME Passes >= 3, Types, Types', HealInv, NEW r \in Requests, Step(r)
    PROVE  HealsUndisturbed'
  <1>1. disturbed \subseteq disturbed'
    BY StepSteady DEF HealInv
  <1>2. ASSUME NEW q \in Requests, result'[q] = "denied" PROVE result[q] = "denied" \/ q \in disturbed
    <2>1. CASE result' = result
      BY <1>2, <2>1
    <2>2. ASSUME NEW how \in {"ok", "failed"}, result' = [result EXCEPT ![r] = how] PROVE result[q] = "denied"
      BY <1>2, <2>2 DEF Types, Bounds
    <2>3. CASE CallAnswered(r) /\ answer[r].status \in {401, 403} /\ Last(r) /\ result' = [result EXCEPT ![r] = "denied"]
      <3>1. pc[r] = "call" /\ answer[r] # None /\ ~(passes[r] < 3)
        BY <2>3, ConstantsAssumption DEF CallAnswered, Last, Types, Bounds
      <3>2. ~Healthy(r)
        BY <2>3, <3>1, RefusalTells DEF HealInv
      <3>3. r \in disturbed
        BY <3>1, <3>2 DEF HealInv, Active
      <3> QED BY <1>2, <2>3, <3>3 DEF Types, Bounds
    <2>4. CASE Ask(r)
      BY <2>1, <2>4 DEF Ask
    <2>5. CASE LockComes(r)
      BY <2>1, <2>5 DEF LockComes
    <2>6. CASE FetchAnswered(r)
      BY <2>1, <2>6 DEF FetchAnswered
    <2>7. CASE LoginAnswered(r)
      <3>1. result' = result \/ result' = [result EXCEPT ![r] = "failed"]
        BY <2>7 DEF LoginAnswered, Leave
      <3> QED BY <2>1, <2>2, <3>1
    <2>8. CASE CallAnswered(r)
      <3>1. \/ result' = result
            \/ result' = [result EXCEPT ![r] = "ok"]
            \/ result' = [result EXCEPT ![r] = "failed"]
            \/ answer[r].status \in {401, 403} /\ Last(r) /\ result' = [result EXCEPT ![r] = "denied"]
        BY <2>8 DEF CallAnswered, NextPass, Leave
      <3> QED BY <2>1, <2>2, <2>3, <2>8, <3>1
    <2> QED BY <2>4, <2>5, <2>6, <2>7, <2>8 DEF Step
  <1> QED BY <1>1, <1>2 DEF HealInv, HealsUndisturbed

LEMMA StepHeals ==
    ASSUME Passes >= 3, Types, Types', HealInv, NEW r \in Requests, Step(r)
    PROVE  HealInv'
  <1>1. Orderly /\ disturbed \subseteq disturbed' /\ Steady /\ Sends(r)
    BY StepSteady, StepSends DEF HealInv
  <1>2. ASSUME NEW u \in Requests, u \in Active', u \notin disturbed' PROVE Healthy(u)'
    <2>1. CASE u # r
      <3>1. u \in Active /\ u \notin disturbed
        BY <1>1, <1>2, <2>1 DEF Active, Sends
      <3> QED BY <1>1, <1>2, <2>1, <3>1, OthersHealthy DEF HealInv
    <2>2. CASE u = r /\ Ask(r)
      BY <1>1, <2>2, AskHealthy
    <2>3. CASE u = r /\ ~Ask(r)
      <3>1. pc'[r] # "over" /\ r \notin disturbed
        BY <1>1, <1>2, <2>3 DEF Active
      <3>2. r \in Active
        BY <2>3 DEF Step, LockComes, LoginAnswered, FetchAnswered, CallAnswered, Waiting, Active
      <3> QED BY <1>1, <2>3, <3>1, <3>2, LockHealthy, LoginHealthy, FetchHealthy, CallHealthy DEF HealInv, Step
    <2> QED BY <2>1, <2>2, <2>3
  <1>3. Active' \subseteq Requests
    BY DEF Active
  <1> QED BY <1>2, <1>3, OrderlyStays, NotDenied DEF HealInv

\* Portainer changes, the network fails: whoever is under way is disturbed.
LEMMA TroubleHeals ==
    ASSUME Types, Types', HealInv,
           Change \/ ProbeFailed \/ \E r \in Requests : AnswerLost(r) \/ Replay(r)
    PROVE  HealInv'
  <1>1. /\ pc' = pc /\ result' = result /\ style' = style /\ headers' = headers
        /\ disturbed' = disturbed \cup Active
    BY DEF Change, ProbeFailed, AnswerLost, Replay, progress, portainer
  <1>2. Active' = Active
    BY <1>1 DEF Active
  <1>3. HealsUndisturbed'
    BY <1>1 DEF HealInv, HealsUndisturbed
  <1>4. Orderly'
    <2>1. CASE Change
      BY <2>1 DEF HealInv, Orderly, Change, session, progress
    <2>2. CASE ProbeFailed
      BY <2>2 DEF HealInv, Orderly, ProbeFailed, Reconnect, NoCookies, progress, portainer
    <2>3. ASSUME NEW r \in Requests, AnswerLost(r) PROVE Orderly'
      <3> DEFINE lost == [status |-> 0, session |-> None, token |-> None]
      <3>1. answer' = [answer EXCEPT ![r] = lost] /\ answer \in [Requests -> Answers \cup {None}]
        BY <2>3 DEF AnswerLost, Reply, Types, FlowType
      <3>2. lost.session = None
        OBVIOUS
      <3>3. \A q \in Requests : answer'[q] = answer[q] \/ answer'[q].session = None
        <4> HIDE DEF lost
        <4> QED BY <3>1, <3>2
      <3> QED BY <2>3, <3>3 DEF HealInv, Orderly, AnswerLost, session, portainer
    <2>4. ASSUME NEW r \in Requests, Replay(r) PROVE Orderly'
      <3> DEFINE resent == [wire[r] EXCEPT !.session = None, !.pair = None, !.pool = pool', !.again = TRUE]
      <3>1. answer' = [answer EXCEPT ![r] = None] /\ wire' = [wire EXCEPT ![r] = resent] /\ wire[r] # None
        BY <2>4 DEF Replay
      <3>2. answer \in [Requests -> Answers \cup {None}] /\ wire \in [Requests -> Wires \cup {None}]
        BY DEF Types, FlowType
      <3>3. resent.jwt = wire[r].jwt /\ resent.session = None
        BY <3>1, <3>2 DEF Wires
      <3>4. /\ \A q \in Requests : answer'[q] = answer[q] \/ answer'[q] = None
            /\ wire'[r].jwt = wire[r].jwt /\ wire'[r].session = None
            /\ \A q \in Requests \ {r} : wire'[q] = wire[q]
        <4> HIDE DEF resent
        <4> QED BY <3>1, <3>2, <3>3
      <3>5. /\ ~logged' /\ jwt' = None /\ jar'.session = None
            /\ pc' = pc /\ style' = style /\ headers' = headers
        BY <2>4 DEF Replay, Reconnect, NoCookies, portainer
      <3>6. Orderly /\ wire[r] # None
        BY <2>4 DEF HealInv, Replay
      <3> QED BY <3>4, <3>5, <3>6 DEF Orderly
    <2> QED BY <2>1, <2>2, <2>3, <2>4
  <1> QED BY <1>1, <1>2, <1>3, <1>4 DEF HealInv

\* Portainer answers as it is today.
LEMMA ServeHeals ==
    ASSUME Types, Types', HealInv, NEW r \in Requests, Serve(r)
    PROVE  HealInv'
  <1>1. /\ UNCHANGED <<era, secret, style, logged, jwt, csrf, jar, pool, pc, passes, headers, wire, failures,
                       result, disturbed>>
        /\ wire[r] # None
    BY DEF Serve, Open, portainer, session
  <1>2. \A q \in Requests \ {r} : answer'[q] = answer[q]
    BY DEF Serve, Reply, Types, FlowType
  <1>3. /\ answer'[r] # None
        /\ answer'[r].token \in {None, secret}
        /\ IF pc[r] = "login" THEN answer'[r].session = era ELSE answer'[r].session = None
        /\ pc[r] \in {"fetch1", "fetch2"} /\ Authentic(wire[r]) => answer'[r].token = secret
        /\ pc[r] # "login" /\ answer'[r].status = 401 => ~Authentic(wire[r])
        /\ answer'[r].status = 403 => r \in Mutating /\ ~Genuine(wire[r])
        /\ pc[r] = "login" => answer'[r].status = 200
    <2> DEFINE a(status, opened, token) == [status |-> status, session |-> opened, token |-> token]
    <2>1. answer \in [Requests -> Answers \cup {None}]
      BY DEF Types, FlowType
    <2>2. CASE pc[r] = "login"
      <3>1. PICK token \in {None, secret} : answer'[r] = a(200, era, token)
        BY <2>1, <2>2 DEF Serve, Reply
      <3>2. a(200, era, token) \in Answers
        BY DEF Types, Bounds, SessionType, Answers
      <3> QED BY <2>2, <3>1, <3>2, ConstantsAssumption
    <2>3. CASE pc[r] # "login"
      <3>1. \/ ~Authentic(wire[r]) /\ answer'[r] = a(401, None, None)
            \/ pc[r] = "call" /\ r \in Mutating /\ ~Genuine(wire[r]) /\ answer'[r] = a(403, None, None)
            \/ Authentic(wire[r]) /\ answer'[r] = a(200, None, secret)
        BY <2>1, <2>3 DEF Serve, Reply
      <3>2. {a(401, None, None), a(403, None, None), a(200, None, secret)} \subseteq Answers
        BY DEF Types, Bounds, SessionType, Answers
      <3> QED BY <2>3, <3>1, <3>2, ConstantsAssumption
    <2> QED BY <2>2, <2>3
  <1>4. Orderly'
    BY <1>1, <1>2, <1>3 DEF HealInv, Orderly
  <1>5. FreshLogins => FreshLogins'
    BY <1>1, <1>2, <1>3 DEF FreshLogins
  <1>6. ASSUME NEW q \in Active \ disturbed PROVE Healthy(q)'
    <2>1. q \in Requests /\ Healthy(q)
      BY DEF HealInv, Active
    <2>2. TrueAnswer(q)'
      BY <1>1, <1>2, <1>3, <2>1 DEF Healthy, Own, TrueAnswer, Authentic, Genuine
    <2>3. Own(q)'
      BY <1>1, <2>1, <2>2 DEF Healthy, Own
    <2>4. /\ Reliable' = Reliable /\ Clean' = Clean
          /\ GoodWire(q)' = GoodWire(q) /\ CleanWire(q)' = CleanWire(q)
      BY <1>1 DEF Reliable, Clean, GoodWire, CleanWire, Authentic, Genuine
    <2> QED BY <1>1, <1>5, <2>1, <2>3, <2>4 DEF Healthy, Second, Third
  <1>7. Active' \ disturbed' = Active \ disturbed /\ HealsUndisturbed'
    BY <1>1 DEF Active, HealInv, HealsUndisturbed
  <1> QED BY <1>4, <1>6, <1>7 DEF HealInv

LEMMA InitHeals == Init => HealInv
  <1> SUFFICES ASSUME Init PROVE HealInv
    OBVIOUS
  <1>1. Orderly
    BY DEF Init, Orderly, NoTokens, NoCookies
  <1>2. Active = {} /\ HealsUndisturbed
    BY DEF Init, Active, HealsUndisturbed
  <1> QED BY <1>1, <1>2 DEF HealInv

\* Three passes are enough, for any number of requests, however often Portainer
\* changes and the network fails.
THEOREM StaleIsHealed ==
    ASSUME Passes >= 3
    PROVE  Spec => []HealsUndisturbed
  <1>1. HealInv /\ Types /\ Types' /\ [Next]_vars => HealInv'
    <2> SUFFICES ASSUME HealInv, Types, Types', [Next]_vars PROVE HealInv'
      OBVIOUS
    <2>1. CASE UNCHANGED vars
      <3>1. UNCHANGED <<era, secret, style, logged, jwt, csrf, jar, pool, pc, passes, headers, wire, answer,
                        failures, result, disturbed>>
        BY <2>1 DEF vars, portainer, session, progress
      <3> QED BY <3>1 DEF HealInv, Orderly, HealsUndisturbed, Active, Healthy, Own, TrueAnswer, Second, Third,
                          FreshLogins, Reliable, Clean, GoodWire, CleanWire, Authentic, Genuine
    <2>2. CASE Next
      BY <2>2, StepHeals, ServeHeals, TroubleHeals DEF Next
    <2> QED BY <2>1, <2>2
  <1>2. Spec => []Types
    BY InitTypes, TypesStep, PTL DEF Spec
  <1>3. HealInv => HealsUndisturbed
    BY DEF HealInv
  <1> QED BY <1>1, <1>2, <1>3, InitHeals, PTL DEF Spec

-----------------------------------------------------------------------------
(* How long a request can take: what Portainer, the network and the other  *)
(* requests do to the session costs it passes, and of those there are only *)
(* so many.                                                                *)

\* The awaits still ahead of a request in its present pass, this one included.
Ahead(what) == CASE what = "wantLogin" -> 6 [] what = "login" -> 5 [] what = "wantToken" -> 4
                 [] what = "fetch1" -> 3 [] what = "fetch2" -> 2 [] what = "call" -> 1 [] OTHER -> 0

\* The steps a request can still take.
StepsLeft(r) == CASE pc[r] = "idle" -> 7 * Passes
                  [] pc[r] = "over" -> 0
                  [] OTHER -> 7 * (Passes - passes[r]) + Ahead(pc[r])

\* A step of a request uses up one of the steps it has left, and nothing that
\* another request, Portainer or the network does gives it more.
UsesUp == \A r \in Requests : /\ StepsLeft(r)' <= StepsLeft(r)
                              /\ Step(r) => StepsLeft(r)' < StepsLeft(r)

\* Each request that waits for the lock can have it, or somebody who is on the
\* wire has it and will be answered; every other one is on the wire itself.
NobodyIsStuck ==
    \A r \in Active : \/ wire[r] # None
                      \/ r \in Waiting /\ (holder = None \/ (holder \in Active /\ wire[holder] # None))

\* Further on in the same pass, or at the end.
Further(r) ==
    /\ pc[r] \notin {"idle", "over"} /\ passes' = passes
    /\ \E what \in Awaits \ {"idle"} : pc' = [pc EXCEPT ![r] = what] /\ Ahead(what) < Ahead(pc[r])

\* Into another pass.
Again(r) ==
    /\ pc[r] \in {"idle", "call"} /\ passes[r] < Passes /\ passes' = [passes EXCEPT ![r] = @ + 1]
    /\ \E what \in Awaits \ {"idle", "over"} : pc' = [pc EXCEPT ![r] = what]

LEMMA AheadOrdered ==
    /\ Ahead("wantLogin") = 6 /\ Ahead("login") = 5 /\ Ahead("wantToken") = 4
    /\ Ahead("fetch1") = 3 /\ Ahead("fetch2") = 2 /\ Ahead("call") = 1 /\ Ahead("over") = 0
  BY DEF Ahead

LEMMA GoesFurther ==
    ASSUME NEW r, NEW what \in Awaits \ {"idle"}, pc' = [pc EXCEPT ![r] = what], passes' = passes,
           pc[r] \notin {"idle", "over"}, Ahead(what) < Ahead(pc[r])
    PROVE  Further(r)
  BY DEF Further

LEMMA OnwardGoes ==
    ASSUME NEW r, NEW lock, Onward(r, lock)
    PROVE  \E what \in {"wantToken", "fetch1", "call"} : pc' = [pc EXCEPT ![r] = what]
  BY DEF Onward, Fetch, Wait, Call, Put

LEMMA LeaveFurther ==
    ASSUME NEW r, NEW how, NEW lock, Leave(r, how, lock),
           pc[r] \in {"login", "call"}
    PROVE  Further(r)
  <1>1. pc' = [pc EXCEPT ![r] = "over"] /\ passes' = passes
    BY DEF Leave, Wait
  <1>2. Ahead("over") < Ahead(pc[r])
    BY DEF Ahead
  <1> QED BY <1>1, <1>2 DEF Further, Awaits

LEMMA PassAgain ==
    ASSUME NEW r, NEW lock, Pass(r, lock), pc[r] \in {"idle", "call"}, passes[r] < Passes
    PROVE  Again(r)
  BY PassAdvances DEF Advances, Again, Pass

LEMMA StepGoes == ASSUME Types, NEW r \in Requests, Step(r) PROVE Further(r) \/ Again(r)
  <1>1. CASE Ask(r)
    <2>1. passes[r] < Passes
      BY <1>1, ConstantsAssumption DEF Ask, Types, Bounds
    <2> QED BY <1>1, <2>1, PassAgain DEF Ask
  <1>2. CASE LockComes(r)
    <2>1. CASE pc[r] = "wantLogin"
      <3>1. \E what \in {"wantToken", "fetch1", "call", "login"} : pc' = [pc EXCEPT ![r] = what]
        BY <1>2, <2>1, OnwardGoes DEF LockComes, Login, Put
      <3>2. PICK what \in {"wantToken", "fetch1", "call", "login"} : pc' = [pc EXCEPT ![r] = what]
        BY <3>1
      <3>3. pc[r] = "wantLogin" /\ passes' = passes
        BY <1>2, <2>1 DEF LockComes
      <3>4. Ahead(what) < Ahead(pc[r]) /\ what \in Awaits \ {"idle"}
        BY <3>2, <3>3, AheadOrdered DEF Awaits, Sent
      <3> QED BY <3>2, <3>3, <3>4, GoesFurther
    <2>2. CASE pc[r] = "wantToken"
      <3>1. \E what \in {"fetch1", "call"} : pc' = [pc EXCEPT ![r] = what]
        BY <1>2, <2>2 DEF LockComes, Fetch, Call, Put
      <3>2. PICK what \in {"fetch1", "call"} : pc' = [pc EXCEPT ![r] = what]
        BY <3>1
      <3>3. pc[r] = "wantToken" /\ passes' = passes
        BY <1>2, <2>2 DEF LockComes
      <3>4. Ahead(what) < Ahead(pc[r]) /\ what \in Awaits \ {"idle"}
        BY <3>2, <3>3, AheadOrdered DEF Awaits, Sent
      <3> QED BY <3>2, <3>3, <3>4, GoesFurther
    <2> QED BY <1>2, <2>1, <2>2 DEF LockComes, Waiting
  <1>3. CASE LoginAnswered(r)
    <2>1. CASE answer[r].status = 200
      <3>1. \E what \in {"wantToken", "fetch1", "call"} : pc' = [pc EXCEPT ![r] = what]
        BY <1>3, <2>1, OnwardGoes DEF LoginAnswered
      <3>2. PICK what \in {"wantToken", "fetch1", "call"} : pc' = [pc EXCEPT ![r] = what]
        BY <3>1
      <3>3. pc[r] = "login" /\ passes' = passes
        BY <1>3, <2>1 DEF LoginAnswered
      <3>4. Ahead(what) < Ahead(pc[r]) /\ what \in Awaits \ {"idle"}
        BY <3>2, <3>3, AheadOrdered DEF Awaits, Sent
      <3> QED BY <3>2, <3>3, <3>4, GoesFurther
    <2>2. CASE answer[r].status # 200
      BY <1>3, <2>2, LeaveFurther DEF LoginAnswered
    <2> QED BY <2>1, <2>2
  <1>4. CASE FetchAnswered(r)
    <2>1. CASE pc[r] = "fetch1"
      <3>1. \E what \in {"fetch2", "call"} : pc' = [pc EXCEPT ![r] = what]
        BY <1>4 DEF FetchAnswered, Call, Put
      <3>2. PICK what \in {"fetch2", "call"} : pc' = [pc EXCEPT ![r] = what]
        BY <3>1
      <3>3. pc[r] = "fetch1" /\ passes' = passes
        BY <1>4, <2>1 DEF FetchAnswered
      <3>4. Ahead(what) < Ahead(pc[r]) /\ what \in Awaits \ {"idle"}
        BY <3>2, <3>3, AheadOrdered DEF Awaits, Sent
      <3> QED BY <3>2, <3>3, <3>4, GoesFurther
    <2>2. CASE pc[r] = "fetch2"
      <3>1. pc' = [pc EXCEPT ![r] = "call"]
        BY <1>4, <2>2 DEF FetchAnswered, Call, Put
      <3>2. Ahead("call") < Ahead(pc[r]) /\ "call" \in Awaits \ {"idle"}
        BY <2>2, AheadOrdered DEF Awaits, Sent
      <3>3. passes' = passes
        BY <1>4 DEF FetchAnswered
      <3> QED BY <2>2, <3>1, <3>2, <3>3, GoesFurther
    <2> QED BY <1>4, <2>1, <2>2 DEF FetchAnswered
  <1>5. CASE CallAnswered(r)
    <2>1. pc[r] = "call" /\ (NextPass(r) \/ \E how \in {"ok", "failed"} : Leave(r, how, holder))
      BY <1>5 DEF CallAnswered
    <2>2. CASE Last(r)
      BY <2>1, <2>2, LeaveFurther DEF NextPass
    <2>3. CASE ~Last(r)
      <3>1. passes[r] < Passes
        BY <2>3, ConstantsAssumption DEF Last, Types, Bounds
      <3> QED BY <2>1, <2>3, <3>1, PassAgain, LeaveFurther DEF NextPass
    <2> QED BY <2>2, <2>3
  <1> QED BY <1>1, <1>2, <1>3, <1>4, <1>5 DEF Step

LEMMA StepsLeftCounts ==
    ASSUME Types, NEW r \in Requests
    PROVE  StepsLeft(r) \in Nat /\ passes[r] \in Nat /\ Passes \in Nat
  <1>1. passes[r] \in 0 .. Passes /\ Passes \in Nat
    BY ConstantsAssumption DEF Types, Bounds
  <1>2. Ahead(pc[r]) \in Nat
    BY DEF Ahead
  <1>3. Passes - passes[r] \in Nat
    BY <1>1
  <1> HIDE DEF Ahead
  <1> QED BY <1>1, <1>2, <1>3 DEF StepsLeft

LEMMA FurtherUses ==
    ASSUME Types, Types', NEW r \in Requests, Further(r)
    PROVE  StepsLeft(r)' < StepsLeft(r) /\ StepsLeft(r)' <= StepsLeft(r)
  <1>1. PICK what \in Awaits \ {"idle"} : pc' = [pc EXCEPT ![r] = what] /\ Ahead(what) < Ahead(pc[r])
    BY DEF Further
  <1>2. pc'[r] = what /\ passes'[r] = passes[r] /\ pc[r] \notin {"idle", "over"}
    BY <1>1 DEF Further, Types, FlowType
  <1>3. passes[r] \in 0 .. Passes /\ Passes \in Nat
    BY ConstantsAssumption DEF Types, Bounds
  <1>4. Ahead(what) \in Nat /\ Ahead(pc[r]) \in Nat
    BY DEF Ahead
  <1>5. StepsLeft(r) = 7 * (Passes - passes[r]) + Ahead(pc[r])
    BY <1>2 DEF StepsLeft
  <1>6. StepsLeft(r)' = IF what = "over" THEN 0 ELSE 7 * (Passes - passes[r]) + Ahead(what)
    BY <1>2, what # "idle" DEF StepsLeft
  <1> HIDE DEF Ahead
  <1> QED BY <1>1, <1>3, <1>4, <1>5, <1>6

LEMMA AgainUses ==
    ASSUME Types, Types', NEW r \in Requests, Again(r)
    PROVE  StepsLeft(r)' < StepsLeft(r) /\ StepsLeft(r)' <= StepsLeft(r)
  <1>1. PICK what \in Awaits \ {"idle", "over"} : pc' = [pc EXCEPT ![r] = what]
    BY DEF Again
  <1>2. pc'[r] = what /\ passes'[r] = passes[r] + 1 /\ passes[r] < Passes
    BY <1>1 DEF Again, Types, FlowType, Bounds
  <1>3. passes[r] \in 0 .. Passes /\ Passes \in Nat
    BY ConstantsAssumption DEF Types, Bounds
  <1>4. Ahead(what) \in 0 .. 6
    BY DEF Ahead
  <1>5. StepsLeft(r)' = 7 * (Passes - (passes[r] + 1)) + Ahead(what)
    BY <1>2, what \notin {"idle", "over"} DEF StepsLeft
  <1>6. StepsLeft(r) >= 7 * (Passes - passes[r])
    BY <1>3 DEF StepsLeft, Again, Ahead
  <1> HIDE DEF Ahead
  <1> QED BY <1>2, <1>3, <1>4, <1>5, <1>6, StepsLeftCounts

LEMMA UsesUpStep == Types /\ Types' /\ [Next]_vars => UsesUp
  <1> SUFFICES ASSUME Types, Types', [Next]_vars, NEW q \in Requests
               PROVE  StepsLeft(q)' <= StepsLeft(q) /\ (Step(q) => StepsLeft(q)' < StepsLeft(q))
    BY DEF UsesUp
  <1>1. Step(q) => StepsLeft(q)' < StepsLeft(q)
    BY StepGoes, FurtherUses, AgainUses
  <1>2. CASE \E r \in Requests \ {q} : Step(r)
    <2>1. PICK r \in Requests \ {q} : Further(r) \/ Again(r)
      BY <1>2, StepGoes
    <2>2. pc'[q] = pc[q] /\ passes'[q] = passes[q]
      BY <2>1 DEF Further, Again, Types, FlowType, Bounds
    <2>3. StepsLeft(q)' = StepsLeft(q)
      BY <2>2 DEF StepsLeft
    <2> QED BY <1>1, <2>3, StepsLeftCounts
  <1>3. CASE \/ Change \/ ProbeFailed \/ \E r \in Requests : Serve(r) \/ AnswerLost(r) \/ Replay(r)
             \/ UNCHANGED vars
    <2>1. pc' = pc /\ passes' = passes
      <3>1. CASE Change \/ ProbeFailed \/ UNCHANGED vars
        BY <3>1 DEF Change, ProbeFailed, vars, progress
      <3>2. ASSUME NEW r \in Requests, Serve(r) PROVE pc' = pc /\ passes' = passes
        BY <3>2 DEF Serve
      <3>3. ASSUME NEW r \in Requests, AnswerLost(r) \/ Replay(r) PROVE pc' = pc /\ passes' = passes
        BY <3>3 DEF AnswerLost, Replay
      <3> QED BY <1>3, <3>1, <3>2, <3>3
    <2>2. StepsLeft(q)' = StepsLeft(q)
      BY <2>1 DEF StepsLeft
    <2> QED BY <1>1, <2>2, StepsLeftCounts
  <1>4. CASE Step(q)
    BY <1>4, StepGoes, FurtherUses, AgainUses
  <1> QED BY <1>2, <1>3, <1>4 DEF Next

LEMMA NobodyIsStuckFollows == Types => NobodyIsStuck
  <1> SUFFICES ASSUME Types, NEW r \in Active, wire[r] = None
               PROVE  r \in Waiting /\ (holder = None \/ (holder \in Active /\ wire[holder] # None))
    BY DEF NobodyIsStuck
  <1>1. r \in Requests /\ pc[r] \in {"wantLogin", "wantToken"}
    BY DEF Active, Types, FlowType, Awaits, Sent
  <1>2. ASSUME holder # None PROVE holder \in Active /\ wire[holder] # None
    <2>1. holder \in Requests /\ pc[holder] \in Holding
      BY <1>2 DEF Types, FlowType
    <2> QED BY <2>1 DEF Types, FlowType, Active, Holding, Sent
  <1> QED BY <1>1, <1>2 DEF Waiting

\* What is safety in RequestsEnd: a request takes at most 7 * Passes steps,
\* whatever happens to the session meanwhile and however often, and as long as it
\* is under way it is on the wire, or what it waits for is free or on the wire.
THEOREM RequestsAreBounded ==
    Spec => /\ \A r \in Requests : StepsLeft(r) = 7 * Passes
            /\ [](NobodyIsStuck /\ \A r \in Requests : StepsLeft(r) \in Nat)
            /\ [][UsesUp]_vars
  <1>1. Init => \A r \in Requests : StepsLeft(r) = 7 * Passes
    BY DEF Init, StepsLeft
  <1>2. Types => NobodyIsStuck /\ \A r \in Requests : StepsLeft(r) \in Nat
    BY NobodyIsStuckFollows, StepsLeftCounts
  <1>3. Spec => []Types
    BY InitTypes, TypesStep, PTL DEF Spec
  <1>4. Types /\ Types' /\ [Next]_vars => [UsesUp]_vars
    BY UsesUpStep
  <1> QED BY <1>1, <1>2, <1>3, <1>4, PTL DEF Spec

=============================================================================
