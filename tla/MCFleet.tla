------------------------------- MODULE MCFleet -------------------------------
(* A new installation, and files with and without nextId.                   *)
EXTENDS Fleet, TLC

CONSTANTS a, b

Of(i, f) == [id |-> i, form |-> f]

\* A file of today, whose instance was deleted, and an older one.
MCFiles == {[next |-> 2, records |-> <<>>], [next |-> 1, records |-> <<Of(1, a)>>]}
MCImported == <<a>>

=============================================================================
