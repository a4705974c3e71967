--------------------------- MODULE PortainerSession ---------------------------
(***************************************************************************)
(* The session that a Portainer client with a user name and a password     *)
(* keeps, app/portainer.py: _request makes up to three passes, each of     *)
(* which logs in and fetches a CSRF token if there is none and sends the   *)
(* request; an answer that shows the session or the token to be stale      *)
(* drops it for the next pass.  Requests share the session and run         *)
(* concurrently; what is between two awaits is one step.                   *)
(*                                                                         *)
(* Portainer is external.  A session is the era it was opened in, a CSRF   *)
(* token the secret it was made with; a restart outdates both.  A token    *)
(* counts only together with its cookie, and cookies live in the           *)
(* connection pool.                                                        *)
(***************************************************************************)
EXTENDS Naturals

CONSTANTS Requests, Mutating,   \* all requests, and those that are no GET
          None,                 \* no token, no answer, nobody
          Passes,               \* range(3) in _request
          MaxChanges,           \* bound: restarts and expiries of Portainer
          MaxTrouble            \* bound: connections that fail, answers that are lost

Tokens == 0 .. MaxChanges

\* What a request takes along: its headers, the cookies of its pool, and whether
\* it has been sent again.
Wires == [jwt : Tokens \cup {None}, csrf : Tokens \cup {None}, session : Tokens \cup {None},
          pair : Tokens \cup {None}, pool : 0 .. MaxTrouble, again : BOOLEAN]

\* An answer, and the session and token that come with it; 0 is none at all.
Answers == [status : {0, 200, 401, 403}, session : Tokens \cup {None}, token : Tokens \cup {None}]

ASSUME ConstantsAssumption ==
    /\ Mutating \subseteq Requests
    /\ None \notin Requests /\ None \notin Nat /\ None \notin Wires /\ None \notin Answers
    /\ Passes \in Nat \ {0} /\ MaxChanges \in Nat /\ MaxTrouble \in Nat

VARIABLES era, secret,    \* Portainer's: which sessions and which tokens it honours
          style,          \* Portainer's: a session comes in the body of the login, or as a cookie
          logged,         \* _logged_in
          jwt, csrf,      \* _jwt, _csrf
          jar,            \* the cookies of the pool: the session, the token's pair
          pool,           \* which connection pool is in use
          holder,         \* who holds _auth_lock
          pc, passes,     \* of each request: its await, and passes begun
          failures,       \* requests with csrf_failures > 0
          headers,        \* kwargs["headers"], which stay from pass to pass
          wire,           \* what was sent and is not answered yet
          answer,         \* and the answer
          result,
          carried,        \* how often Portainer has carried out a request
          disturbed,      \* history: requests during which Portainer changed, the network failed,
                          \* or another request dropped session, token or cookies or brought
                          \* a token that is outdated or of a pool no longer in use
          changes, trouble

portainer == <<era, secret, style>>
session == <<logged, jwt, csrf, jar, pool>>
progress == <<pc, passes, headers, wire, answer, holder>>
vars == <<portainer, session, progress, failures, result, carried, disturbed, changes, trouble>>

NoTokens == [jwt |-> None, csrf |-> None]
NoCookies == [session |-> None, pair |-> None]

Init ==
    /\ era = 0 /\ secret = 0 /\ style \in {"body", "cookie"}
    /\ logged = FALSE /\ jwt = None /\ csrf = None /\ jar = NoCookies /\ pool = 0
    /\ holder = None
    /\ pc = [r \in Requests |-> "idle"] /\ passes = [r \in Requests |-> 0]
    /\ failures = {} /\ headers = [r \in Requests |-> NoTokens]
    /\ wire = [r \in Requests |-> None] /\ answer = [r \in Requests |-> None]
    /\ result = [r \in Requests |-> "none"] /\ carried = [r \in Requests |-> 0]
    /\ disturbed = {} /\ changes = 0 /\ trouble = 0

Active == {r \in Requests : pc[r] \notin {"idle", "over"}}
Waiting == {r \in Requests : pc[r] \in {"wantLogin", "wantToken"}}

-----------------------------------------------------------------------------
(* A pass, from wherever it goes on, in terms of the session that the      *)
(* step leaves.  lock is who holds the lock if r does not take it.         *)

Put(r, what, tokens, lock) ==
    /\ pc' = [pc EXCEPT ![r] = what]
    /\ wire' = [wire EXCEPT ![r] = [jwt |-> tokens.jwt, csrf |-> tokens.csrf, session |-> jar'.session,
                                    pair |-> jar'.pair, pool |-> pool', again |-> FALSE]]
    /\ answer' = [answer EXCEPT ![r] = None]
    /\ holder' = lock

Wait(r, what, lock) ==
    /\ pc' = [pc EXCEPT ![r] = what]
    /\ wire' = [wire EXCEPT ![r] = None] /\ answer' = [answer EXCEPT ![r] = None]
    /\ holder' = lock

\* A lock with others waiting for it is not taken past them.
Free(r, lock) == lock = None /\ Waiting \ {r} = {}

\* A header is set anew from what there is, and stays when there is nothing.
Call(r, lock) ==
    /\ headers' = [headers EXCEPT ![r] =
         [jwt |-> IF jwt' # None THEN jwt' ELSE @.jwt,
          csrf |-> IF r \in Mutating /\ csrf' # None THEN csrf' ELSE @.csrf]]
    /\ Put(r, "call", headers'[r], lock)

\* _fetch_csrf: its requests carry the session only.
Fetch(r, first) == Put(r, first, [jwt |-> jwt', csrf |-> None], r) /\ UNCHANGED headers

\* With a session, to the token and on.
Onward(r, lock) ==
    IF r \in Mutating /\ csrf' = None
    THEN IF Free(r, lock) THEN Fetch(r, "fetch1") ELSE Wait(r, "wantToken", lock) /\ UNCHANGED headers
    ELSE Call(r, lock)

Login(r) == Put(r, "login", NoTokens, r) /\ UNCHANGED headers

Pass(r, lock) ==
    /\ passes' = [passes EXCEPT ![r] = @ + 1]
    /\ IF logged' THEN Onward(r, lock)
       ELSE IF Free(r, lock) THEN Login(r) ELSE Wait(r, "wantLogin", lock) /\ UNCHANGED headers

\* The request is over for its caller.
Leave(r, how, lock) ==
    /\ result' = [result EXCEPT ![r] = how]
    /\ Wait(r, "over", lock)
    /\ UNCHANGED <<passes, headers>>

Ask(r) ==
    /\ pc[r] = "idle"
    /\ UNCHANGED session
    /\ Pass(r, holder)
    /\ UNCHANGED <<portainer, failures, result, carried, disturbed, changes, trouble>>

\* Variant: whoever has waited for the lock logs in.
LoggedMeanwhile_Never == FALSE
LoggedMeanwhile == logged

\* The lock is free, and what was missing is looked at again.
LockComes(r) ==
    /\ r \in Waiting /\ holder = None
    /\ UNCHANGED session
    /\ IF pc[r] = "wantLogin"
       THEN IF LoggedMeanwhile THEN Onward(r, None) ELSE Login(r)
       ELSE IF csrf = None THEN Fetch(r, "fetch1") ELSE Call(r, None)
    /\ UNCHANGED <<portainer, passes, failures, result, carried, disturbed, changes, trouble>>

-----------------------------------------------------------------------------
(* Portainer and the network.                                              *)

Open(r) == wire[r] # None /\ answer[r] = None

Trouble == trouble < MaxTrouble /\ trouble' = trouble + 1 /\ UNCHANGED changes

Authentic(w) == IF w.jwt # None THEN w.jwt = era ELSE w.session = era
Genuine(w) == w.csrf = secret /\ w.pair = secret

Reply(r, status, opened, token) ==
    answer' = [answer EXCEPT ![r] = [status |-> status, session |-> opened, token |-> token]]

\* A login is answered with a session, and possibly a token; any other request
\* with a token when it is authentic.
Serve(r) ==
    /\ Open(r)
    /\ \/ pc[r] = "login" /\ UNCHANGED carried /\ \E token \in {None, secret} : Reply(r, 200, era, token)
       \/ pc[r] # "login" /\ ~Authentic(wire[r]) /\ Reply(r, 401, None, None) /\ UNCHANGED carried
       \/ pc[r] = "call" /\ r \in Mutating /\ ~Genuine(wire[r]) /\ Reply(r, 403, None, None) /\ UNCHANGED carried
       \/ /\ pc[r] # "login" /\ Authentic(wire[r]) /\ (pc[r] = "call" /\ r \in Mutating => Genuine(wire[r]))
          /\ Reply(r, 200, None, secret)
          /\ carried' = IF pc[r] = "call" THEN [carried EXCEPT ![r] = @ + 1] ELSE carried
    /\ UNCHANGED <<portainer, session, pc, passes, headers, wire, holder, failures, result, disturbed,
                   changes, trouble>>

\* Portainer is recreated (both are outdated), or a session expires.
Change ==
    /\ changes < MaxChanges /\ changes' = changes + 1 /\ UNCHANGED trouble
    /\ era' = era + 1 /\ secret' \in {secret, secret + 1}
    /\ disturbed' = disturbed \cup Active
    /\ UNCHANGED <<style, session, progress, failures, result, carried>>

\* A read times out or the connection drops, before Portainer acts or after.
\* A login it refuses is no different for the request.
AnswerLost(r) ==
    /\ wire[r] # None
    /\ Reply(r, 0, None, None)
    /\ disturbed' = disturbed \cup Active
    /\ Trouble
    /\ UNCHANGED <<portainer, session, pc, passes, headers, wire, holder, failures, result, carried>>

\* reconnect: a new pool, and no session.
Reconnect ==
    /\ logged' = FALSE /\ jwt' = None /\ csrf' = None
    /\ jar' = NoCookies /\ pool' = pool + 1

\* Variant: a request is also sent again when its answer is lost.
SentAgain_Always(r) == ~wire[r].again
\* _send: only what has never reached Portainer is sent again, once, with the
\* headers it has.
SentAgain(r) == ~wire[r].again /\ answer[r] = None

\* A request is sent once more on a new pool.
Replay(r) ==
    /\ wire[r] # None
    /\ SentAgain(r)
    /\ Reconnect
    /\ wire' = [wire EXCEPT ![r] = [@ EXCEPT !.session = None, !.pair = None, !.pool = pool', !.again = TRUE]]
    /\ answer' = [answer EXCEPT ![r] = None]
    /\ disturbed' = disturbed \cup Active
    /\ Trouble
    /\ UNCHANGED <<portainer, pc, passes, headers, holder, failures, result, carried>>

\* list_instances: a probe of the dashboard has failed.
ProbeFailed ==
    /\ Reconnect
    /\ disturbed' = disturbed \cup Active
    /\ Trouble
    /\ UNCHANGED <<portainer, progress, failures, result, carried>>

-----------------------------------------------------------------------------
(* An answer comes.                                                        *)

Others(r) == disturbed \cup (Active \ {r})

\* _harvest_csrf, and the cookies that come along: they stay with the pool the
\* request was sent on.
Harvest(r) ==
    LET a == answer[r] IN
    /\ csrf' = IF a.token # None THEN a.token ELSE csrf
    /\ jar' = IF wire[r].pool # pool THEN jar
              ELSE [session |-> IF a.session # None /\ style = "cookie" THEN a.session ELSE jar.session,
                    pair |-> IF a.token # None THEN a.token ELSE jar.pair]
    /\ disturbed' = IF a.token = None \/ (a.token = secret /\ wire[r].pool = pool) THEN disturbed ELSE Others(r)

\* Variant: a login that fails keeps the lock.
AfterFailure_Locked == holder
AfterFailure == None

LoginAnswered(r) ==
    /\ pc[r] = "login" /\ answer[r] # None
    /\ IF answer[r].status = 200
       THEN /\ logged' = TRUE
            /\ jwt' = IF style = "body" THEN answer[r].session ELSE None
            /\ Harvest(r) /\ UNCHANGED pool
            /\ Onward(r, None) /\ UNCHANGED <<passes, result>>
       ELSE UNCHANGED <<session, disturbed>> /\ Leave(r, "failed", AfterFailure)
    /\ UNCHANGED <<portainer, failures, carried, changes, trouble>>

\* Two places to fetch a token from; the second is asked when the first fails or
\* leaves the client without one, and then the request goes on.
FetchAnswered(r) ==
    /\ pc[r] \in {"fetch1", "fetch2"} /\ answer[r] # None
    /\ Harvest(r) /\ UNCHANGED <<logged, jwt, pool>>
    /\ IF pc[r] = "fetch1" /\ (answer[r].status = 0 \/ csrf' = None)
       THEN Put(r, "fetch2", wire[r], r) /\ UNCHANGED headers
       ELSE Call(r, None)
    /\ UNCHANGED <<portainer, passes, failures, result, carried, changes, trouble>>

\* Variant: one pass less.
Last_Early(r) == passes[r] >= Passes - 1
Last(r) == passes[r] >= Passes

\* What was stale has been dropped; the next pass begins in the same step.
NextPass(r) == IF Last(r) THEN Leave(r, "denied", holder) ELSE Pass(r, holder) /\ UNCHANGED result

CallAnswered(r) ==
    /\ pc[r] = "call" /\ answer[r] # None
    /\ \/ /\ answer[r].status = 200
          /\ Harvest(r) /\ UNCHANGED <<logged, jwt, pool, failures>>
          /\ Leave(r, "ok", holder)
       \/ answer[r].status = 0 /\ UNCHANGED <<session, failures, disturbed>> /\ Leave(r, "failed", holder)
       \/ /\ answer[r].status = 401
          /\ logged' = FALSE /\ jwt' = None /\ UNCHANGED <<csrf, jar, pool, failures>>
          /\ disturbed' = Others(r)
          /\ NextPass(r)
       \/ /\ answer[r].status = 403
          /\ csrf' = None /\ UNCHANGED <<jwt, pool>>
          /\ IF r \in failures THEN logged' = FALSE /\ jar' = NoCookies ELSE UNCHANGED <<logged, jar>>
          /\ failures' = failures \cup {r}
          /\ disturbed' = Others(r)
          /\ NextPass(r)
    /\ UNCHANGED <<portainer, carried, changes, trouble>>

Step(r) == Ask(r) \/ LockComes(r) \/ LoginAnswered(r) \/ FetchAnswered(r) \/ CallAnswered(r)

Next == Change \/ ProbeFailed \/ \E r \in Requests : Step(r) \/ Serve(r) \/ AnswerLost(r) \/ Replay(r)

Spec == Init /\ [][Next]_vars

\* The event loop runs every request, and a read times out after ten seconds
\* if Portainer does not answer before.
FairSpec == Spec /\ \A r \in Requests : WF_vars(Step(r)) /\ WF_vars(Serve(r))

-----------------------------------------------------------------------------
\* Every variable stays within its type; the lock is held exactly while its
\* holder logs in or fetches a token.
TypeOK ==
    /\ era \in Tokens /\ secret \in Tokens /\ style \in {"body", "cookie"}
    /\ logged \in BOOLEAN /\ jwt \in Tokens \cup {None} /\ csrf \in Tokens \cup {None}
    /\ jar \in [session : Tokens \cup {None}, pair : Tokens \cup {None}] /\ pool \in 0 .. MaxTrouble
    /\ pc \in [Requests -> {"idle", "wantLogin", "login", "wantToken", "fetch1", "fetch2", "call", "over"}]
    /\ holder \in Requests \cup {None}
    /\ \A r \in Requests : holder = r <=> pc[r] \in {"login", "fetch1", "fetch2"}
    /\ passes \in [Requests -> 0 .. Passes] /\ failures \subseteq Requests
    /\ headers \in [Requests -> [jwt : Tokens \cup {None}, csrf : Tokens \cup {None}]]
    /\ wire \in [Requests -> Wires \cup {None}] /\ answer \in [Requests -> Answers \cup {None}]
    /\ result \in [Requests -> {"none", "ok", "failed", "denied"}]
    /\ carried \in [Requests -> Nat] /\ disturbed \subseteq Requests
    /\ changes \in 0 .. MaxChanges /\ trouble \in 0 .. MaxTrouble

\* No request is carried out twice, whatever is lost, replayed or healed; one
\* that is refused for its session or token was not carried out at all.
AtMostOnce ==
    \A r \in Requests : /\ carried[r] <= 1
                        /\ result[r] = "ok" => carried[r] = 1
                        /\ result[r] = "denied" => carried[r] = 0

\* Three passes are enough: however stale session, token and cookies are, a
\* request is refused only if something changed under it.
HealsUndisturbed == \A r \in Requests : result[r] = "denied" => r \in disturbed

\* Nobody logs in over a session that another request has opened meanwhile.
OneLogin ==
    [][\A r \in Requests : pc[r] # "login" /\ pc'[r] = "login" => ~logged']_vars

\* Every request ends, also when the login of another one fails.
RequestsEnd == \A r \in Requests : pc[r] # "idle" ~> pc[r] = "over"

=============================================================================
