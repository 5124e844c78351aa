----------------------------- MODULE KeyCustody -----------------------------
(***************************************************************************)
(* The signing keys under their key-encryption keys (core/crypto.py,        *)
(* licensing/keys.py), in the roles that are started with different parts   *)
(* of one environment file (app/main.py, worker.py): the api has both KEKs, *)
(* the edge FORGE_EDGE_KEK only, the worker FORGE_FIELD_ENCRYPTION_KEY only. *)
(*                                                                         *)
(* The operator may edit the file and recreate a role's container whenever  *)
(* he likes, so the roles may run with different editions of it.            *)
(***************************************************************************)
EXTENDS Naturals

CONSTANTS
    Kek,       \* base64 of 32 bytes
    Malformed, \* any other text
    MaxEdits,  \* bound: editions of the environment file
    None       \* absent, or empty

Role == {"api", "edge", "worker"}
Purpose == {"master", "edge_lease"}
Setting == Kek \cup {Malformed, None}

VARIABLES
    file,      \* the environment file: its master and its edge KEK
    edits,     \* how often it was edited
    env,       \* what each role was started with
    up,        \* the roles that run
    sealed,    \* the KEK under which each purpose's key is stored, None for no key
    rekeyed    \* history: the file's KEKs have changed since a key was made

fileVars == <<file, edits, rekeyed>>
vars == <<fileVars, env, up, sealed>>

NoSettings == [field |-> None, edge |-> None]

\* What the deployment gives to a role.
SettingsOf(role) ==
    [field |-> IF role = "edge" THEN None ELSE file.field,
     edge  |-> IF role = "worker" THEN None ELSE file.edge]

\* _load_kek
Valid(kek) == kek \in Kek

\* Faulty variant: there is one KEK for both purposes.
FieldKek(s, p) == s.field

\* KeyManager._kek_for
KekFor(s, p) == IF p = "edge_lease" /\ s.edge # None THEN s.edge ELSE s.field

Edit ==
    /\ edits < MaxEdits
    /\ edits' = edits + 1
    /\ \E k \in Setting, e \in Setting : file' = [field |-> k, edge |-> e]
    /\ rekeyed' = (rekeyed \/ (file' # file /\ \E p \in Purpose : sealed[p] # None))
    /\ UNCHANGED <<env, up, sealed>>

\* forge bootstrap makes the missing keys; encrypt_secret raises without a KEK.
EnsureKeys(s) ==
    /\ \A p \in Purpose : sealed[p] = None => Valid(KekFor(s, p))
    /\ sealed' = [p \in Purpose |-> IF sealed[p] = None THEN KekFor(s, p) ELSE sealed[p]]

\* Faulty variant: nothing is checked before a request signs.
BootUnchecked(role, s) == TRUE

\* create_app: the api and the edge do not start without a KEK; APP_DEBUG is off.
BootAllowed(role, s) ==
    CASE role = "api" -> Valid(s.field)
      [] role = "edge" -> Valid(IF s.edge # None THEN s.edge ELSE s.field)
      [] OTHER -> TRUE

StartApi ==
    LET s == SettingsOf("api")
    IN  /\ "api" \notin up
        /\ EnsureKeys(s)
        /\ BootAllowed("api", s)
        /\ env' = [env EXCEPT !["api"] = s]
        /\ up' = up \cup {"api"}
        /\ UNCHANGED fileVars

\* These run no bootstrap.
StartOther(role) ==
    LET s == SettingsOf(role)
    IN  /\ role \notin up /\ role # "api"
        /\ BootAllowed(role, s)
        /\ env' = [env EXCEPT ![role] = s]
        /\ up' = up \cup {role}
        /\ UNCHANGED <<fileVars, sealed>>

Stop(role) ==
    /\ role \in up
    /\ up' = up \ {role}
    /\ env' = [env EXCEPT ![role] = NoSettings]
    /\ UNCHANGED <<fileVars, sealed>>

\* decrypt_private: the wrapped DEK opens under the KEK it was wrapped with.
Decrypts(role, p) ==
    sealed[p] # None /\ Valid(KekFor(env[role], p)) /\ KekFor(env[role], p) = sealed[p]

\* The purpose for which each role signs: the api and the worker revocation lists
\* and offline licenses, the edge leases.
SigningPurpose(role) == IF role = "edge" THEN "edge_lease" ELSE "master"

---------------------------------------------------------------------------
Init ==
    /\ \E k \in Setting, e \in Setting : file = [field |-> k, edge |-> e]
    /\ edits = 0
    /\ env = [role \in Role |-> NoSettings]
    /\ up = {}
    /\ sealed = [p \in Purpose |-> None]
    /\ rekeyed = FALSE

Next ==
    \/ Edit \/ StartApi
    \/ \E role \in Role : StartOther(role) \/ Stop(role)

Spec == Init /\ [][Next]_vars

---------------------------------------------------------------------------
(* Properties. *)

\* Once the api has made the keys, every role that runs can sign what it has to,
\* in whatever order the roles were started and the KEKs filled in, although each
\* is given the KEKs it needs and no more - unless a KEK in the file was changed
\* after that or the role was started with an earlier edition of the file: the
\* check at the start sees that there is a KEK, not that it is the right one.
ServingRolesSign ==
    \A role \in up :
        \/ sealed[SigningPurpose(role)] = None
        \/ Decrypts(role, SigningPurpose(role))
        \/ rekeyed
        \/ env[role] # SettingsOf(role)

=============================================================================
