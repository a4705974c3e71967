---------------------------- MODULE Credentials ----------------------------
(***************************************************************************)
(* What becomes of the secrets of an instance as it is added, edited,      *)
(* tested and deleted: InstanceStore.add and update of app/instances.py,   *)
(* test_instance of app/main.py, and the clients that log in with what is  *)
(* stored.  Of a secret all that matters is the place, that is scheme and  *)
(* host (destination), for which a person typed it, and whether the form   *)
(* showed it then: the page posts both secrets, and the one of the way to  *)
(* log in that is not chosen is still in it, out of sight.                 *)
(***************************************************************************)
EXTENDS Naturals

CONSTANTS Places, None,
          Forms      \* what a person may submit: which secrets are typed in it

Ways == {"api_key", "credentials"}

Secrets == [typedFor : Places, inSight : BOOLEAN]

ASSUME SecretsAssumption ==
    /\ None \notin Places \cup Secrets
    /\ Forms \subseteq [to : Places, auth : Ways, key : BOOLEAN, password : BOOLEAN, user : BOOLEAN]

Records == [to : Places, auth : Ways, key : Secrets \cup {None}, password : Secrets \cup {None}, user : BOOLEAN]

VARIABLES record,   \* the stored instance, or None
          sent      \* history: the secret that was sent last, and where to

secretVars == <<record, sent>>

-----------------------------------------------------------------------------
Secret(r) == IF r.auth = "api_key" THEN r.key ELSE r.password

\* The other one is kept, if it is there at all, without being used.
Unused(r) == IF r.auth = "api_key" THEN r.password ELSE r.key

\* check_auth_fields
Valid(r) == Secret(r) # None /\ (r.auth = "credentials" => r.user)

Typed(form) ==
    [to |-> form.to, auth |-> form.auth, user |-> form.user,
     key |-> IF form.key THEN [typedFor |-> form.to, inSight |-> form.auth = "api_key"] ELSE None,
     password |-> IF form.password THEN [typedFor |-> form.to, inSight |-> form.auth = "credentials"] ELSE None]

\* Variant: a blank secret is kept wherever the instance has moved.
Elsewhere_Never(form) == FALSE
\* The form takes the stored secret to another place.
Elsewhere(form) == form.to # record.to /\ Secret(Typed(form)) = None

\* Blank secrets are kept; who chooses another way to log in gives up the old.
Merged(form) ==
    LET typed == Typed(form)
        kept(new, old, way) ==
            IF form.auth # record.auth /\ form.auth # way THEN None
            ELSE IF new # None THEN new ELSE old
    IN  [typed EXCEPT !.key = kept(typed.key, record.key, "api_key"),
                      !.password = kept(typed.password, record.password, "credentials"),
                      !.user = @ /\ ~(form.auth = "api_key" /\ record.auth = "credentials")]

\* A test borrows the stored secret for a form in which it is blank.
Borrowed(form) ==
    LET typed == Typed(form)
    IN  IF Secret(typed) # None THEN typed
        ELSE IF form.auth = "api_key" THEN [typed EXCEPT !.key = record.key]
        ELSE [typed EXCEPT !.password = record.password]

SendWith(r) == sent' = [secret |-> Secret(r), to |-> r.to]

-----------------------------------------------------------------------------
SecretsInit == record = None /\ sent = None

Add(form) ==
    /\ record = None /\ Valid(Typed(form))
    /\ record' = Typed(form) /\ UNCHANGED sent

Edit(form) ==
    /\ record # None /\ ~Elsewhere(form) /\ Valid(Merged(form))
    /\ record' = Merged(form) /\ UNCHANGED sent

Delete == record # None /\ record' = None /\ UNCHANGED sent

\* A new form is tested, or one of an instance that has gone.
TestNew(form) == Valid(Typed(form)) /\ SendWith(Typed(form)) /\ UNCHANGED record

TestEdited(form) ==
    /\ record # None /\ ~Elsewhere(form) /\ Valid(Borrowed(form))
    /\ SendWith(Borrowed(form)) /\ UNCHANGED record

\* The client of the instance logs in, or shows its token.
Use == record # None /\ SendWith(record) /\ UNCHANGED record

SecretsNext ==
    \/ Delete \/ Use
    \/ \E form \in Forms : Add(form) \/ Edit(form) \/ TestNew(form) \/ TestEdited(form)

SecretsSpec == SecretsInit /\ [][SecretsNext]_secretVars

-----------------------------------------------------------------------------
SecretsTypeOK ==
    /\ record \in {r \in Records : Valid(r)} \cup {None}
    /\ sent \in [secret : Secrets, to : Places] \cup {None}

\* Whatever series of edits, tests and changes of the way to log in comes before,
\* and whatever the forms hold out of sight: a secret that was typed under the way
\* to log in that it is for is sent to no other place, the one in use stays with
\* the place it was typed for, and a change of the way to log in lets none of them
\* linger (InstanceStore.update, test_instance).
SecretsStayPut ==
    /\ sent # None /\ sent.secret.inSight => sent.secret.typedFor = sent.to
    /\ record # None =>
         /\ Secret(record).inSight => Secret(record).typedFor = record.to
         /\ Unused(record) # None => ~Unused(record).inSight

\* "A saved credential is never sent anywhere the person did not type it for"
\* (InstanceStore.update), said of all of them.  The code does not keep it for one
\* that was typed out of sight: it is stored, stays through a change of address
\* that only the secret in use has to be typed again for, and is sent to the new
\* place once the way to log in is changed.
NothingStrays == sent # None => sent.secret.typedFor = sent.to

=============================================================================
