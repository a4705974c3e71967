------------------------------- MODULE Logins -------------------------------
(***************************************************************************)
(* LoginLimiter of app/auth.py and those who ask it: require_auth, which   *)
(* runs in a worker thread per request, and the login route (_basic_auth_ok *)
(* and login of app/main.py).  The limiter's lock makes each of its calls  *)
(* one step; between them other requests may run.                          *)
(*                                                                         *)
(* Of the list of moments kept for an address all that is ever asked is    *)
(* how many are recent, now or later.  So the list is its profile: at k    *)
(* the number of its failures that are k ticks old or younger.  A failure  *)
(* counts while it is younger than Window; an older one stays in the list  *)
(* until its address, or a sweep, is visited.                              *)
(***************************************************************************)
EXTENDS Naturals, FiniteSets

CONSTANTS Attempts,        \* that may be under way at a time: worker threads and the event loop
          Addresses,
          Nobody,
          MaxFailures, Window, SweepAbove

ASSUME LimiterAssumption ==
    /\ IsFiniteSet(Attempts) /\ Nobody \notin Addresses
    /\ MaxFailures \in Nat \ {0} /\ Window \in Nat \ {0} /\ SweepAbove \in Nat

Profiles == [0 .. Window -> Nat]

VARIABLES failures,   \* per address the profile of its failures; at Window are all it has
          admitted,   \* per request the address it comes from, while its password is judged; or Nobody
          wrong       \* history: the profile of the wrong passwords from an address since a right
                      \* one, as far as they are younger than Window

limiterVars == <<failures, admitted, wrong>>

-----------------------------------------------------------------------------
NoFailures == [k \in 0 .. Window |-> 0]

\* Those that count, and all of them.
Count(f) == f[Window - 1]
Size(f) == f[Window]

Younger(f) == [f EXCEPT ![Window] = Count(f)]
Older(f) == [k \in 0 .. Window |-> IF k = Window THEN f[k] ELSE IF k = 0 THEN 0 ELSE f[k - 1]]
OneMore(f) == [k \in 0 .. Window |-> f[k] + 1]

\* _recent, which also forgets what is not.
Recent(fs, a) == [fs EXCEPT ![a] = Younger(@)]
\* An address without failures has no entry.
Kept(fs) == {a \in Addresses : Size(fs[a]) > 0}

\* Variant: one more is let through.
IsBlocked_Over(a) == Count(failures[a]) > MaxFailures
\* blocked
IsBlocked(a) == Count(failures[a]) >= MaxFailures

\* Variant: the sweep starts afresh.
Swept_All(fs) == [a \in Addresses |-> NoFailures]
Swept(fs) == [a \in Addresses |-> Younger(fs[a])]

\* record_failure
Recorded(a) ==
    LET fs == [failures EXCEPT ![a] = OneMore(Younger(@))]
    IN  IF Cardinality(Kept(fs)) > SweepAbove THEN Swept(fs) ELSE fs

\* reset
Reset(fs, a) == [fs EXCEPT ![a] = NoFailures]

-----------------------------------------------------------------------------
LimiterInit ==
    /\ failures = [a \in Addresses |-> NoFailures] /\ wrong = failures
    /\ admitted = [r \in Attempts |-> Nobody]

\* Variant: an attempt that is refused counts as well.
Refuse_Recorded(a) == failures' = Recorded(a)
\* 429; the look has dropped what is too old.
Refuse(a) == failures' = Recent(failures, a)

\* A request with a name and a password asks whether its address is blocked.
Ask(r, a) ==
    /\ admitted[r] = Nobody
    /\ \/ IsBlocked(a) /\ Refuse(a) /\ UNCHANGED admitted
       \/ /\ ~IsBlocked(a) /\ failures' = Recent(failures, a)
          /\ admitted' = [admitted EXCEPT ![r] = a]
    /\ UNCHANGED wrong

\* The password is wrong.
Fail(r) ==
    /\ admitted[r] # Nobody /\ admitted' = [admitted EXCEPT ![r] = Nobody]
    /\ failures' = Recorded(admitted[r])
    /\ wrong' = [wrong EXCEPT ![admitted[r]] = OneMore(@)]

\* Or it is right: reset.
Succeed(r) ==
    /\ admitted[r] # Nobody /\ admitted' = [admitted EXCEPT ![r] = Nobody]
    /\ failures' = Reset(failures, admitted[r])
    /\ wrong' = Reset(wrong, admitted[r])

TimePasses ==
    /\ failures' = [a \in Addresses |-> Older(failures[a])]
    /\ wrong' = [a \in Addresses |-> Younger(Older(wrong[a]))]
    /\ UNCHANGED admitted

\* The limiter is kept in memory only.
StartAfresh ==
    /\ failures' = [a \in Addresses |-> NoFailures] /\ wrong' = failures'
    /\ admitted' = [r \in Attempts |-> Nobody]

LimiterNext ==
    \/ \E r \in Attempts : (\E a \in Addresses : Ask(r, a)) \/ Fail(r) \/ Succeed(r)
    \/ TimePasses \/ StartAfresh

LimiterSpec == LimiterInit /\ [][LimiterNext]_limiterVars

\* Time passes, and who has been admitted is judged.
LimiterFairSpec == LimiterSpec /\ WF_limiterVars(TimePasses) /\ \A r \in Attempts : WF_limiterVars(Fail(r) \/ Succeed(r))

-----------------------------------------------------------------------------
AdmittedFrom(a) == {r \in Attempts : admitted[r] = a}

LimiterTypeOK ==
    /\ failures \in [Addresses -> Profiles] /\ wrong \in [Addresses -> Profiles]
    /\ admitted \in [Attempts -> Addresses \cup {Nobody}]

\* What counts against an address is each wrong password that came from there within
\* the window, and since a right one: nothing is lost to a sweep, to another
\* address, or to a request beside it.
NothingForgotten == \A a \in Addresses : Younger(failures[a]) = wrong[a]

\* Asking and recording are two steps, so the budget may be overdrawn, but only by
\* those that run at the same time: within a window an address tries at most
\* MaxFailures - 1 wrong passwords and one for each request under way.
BudgetHolds ==
    \A a \in Addresses : Count(wrong[a]) + Cardinality(AdmittedFrom(a)) < MaxFailures + Cardinality(Attempts)

\* A blocked address is free again in the end, also if it goes on trying: what is
\* refused does not count.
FreeAgain == \A a \in Addresses : IsBlocked(a) ~> ~IsBlocked(a)
=============================================================================
