----------------------------- MODULE TargetLock -----------------------------
(***************************************************************************)
(* What the set of operations in flight is for, without the set: every     *)
(* request owns at most one key, and takes one only while no other request *)
(* owns a key that conflicts with it.  Operations implements this.         *)
(***************************************************************************)
EXTENDS Exclusion

CONSTANTS Requests,   \* HTTP requests that operate on a target
          NoKey       \* what a request that holds no lock owns

VARIABLE owns         \* owns[r]: the key request r holds, or NoKey

LockInit == owns = [r \in Requests |-> NoKey]

Acquire(r, k) ==
    /\ owns[r] = NoKey
    /\ \A s \in Requests : owns[s] # NoKey => ~Conflicts(k, owns[s])
    /\ owns' = [owns EXCEPT ![r] = k]

Release(r) ==
    /\ owns[r] # NoKey
    /\ owns' = [owns EXCEPT ![r] = NoKey]

\* The process restarts: the locks lived in its memory only.
Forget == owns' = [r \in Requests |-> NoKey]

LockNext ==
    \/ \E r \in Requests : Release(r) \/ \E k \in Keys : Acquire(r, k)
    \/ Forget

LockSpec == LockInit /\ [][LockNext]_owns

=============================================================================
