----------------------------- MODULE TwoFactor -----------------------------
(***************************************************************************)
(* One operator's second factor (services/auth_service.py,                  *)
(* api/admin/v1/auth.py): a secret is made and stored, and 2FA is turned on *)
(* when a code of it is entered.                                            *)
(*                                                                         *)
(* The setup writes whatever the account was, in one step; the verification *)
(* reads the account, checks the code and commits, and a setup may come     *)
(* between.  A code stands for the secret it was computed from.             *)
(***************************************************************************)
EXTENDS Naturals

CONSTANTS
    Secret,    \* TOTP secrets, each generated once (bounds the setups)
    Request,   \* verifications that overlap
    None       \* no value

VARIABLES
    secret,     \* users.twofa_secret_ciphertext
    enabled,    \* users.twofa_enabled
    shown,      \* the secrets given to the operator
    pc,         \* where each verification is
    read,       \* the secret it read
    code,       \* the code it was sent
    proved,     \* history: the secrets of which the operator entered a code
                \* that was taken
    replaced    \* history: a setup changed the secret after the verification
                \* of it had begun

userVars == <<secret, enabled>>
requestVars == <<pc, read, code>>
historyVars == <<proved, replaced>>
vars == <<userVars, shown, requestVars, historyVars>>

Leave(r) ==
    /\ pc' = [pc EXCEPT ![r] = "idle"]
    /\ read' = [read EXCEPT ![r] = None]
    /\ code' = [code EXCEPT ![r] = None]

\* twofa_setup: the pending secret takes the place of the one in use.
Setup(s) ==
    /\ s \notin shown
    /\ secret' = s
    /\ shown' = shown \cup {s}
    /\ replaced' = (replaced \/ enabled \/ \E r \in Request : pc[r] = "read")
    /\ UNCHANGED <<enabled, requestVars, proved>>

\* twofa_verify: the SELECT of the account
ReadUser(r, c) ==
    /\ pc[r] = "idle"
    /\ pc' = [pc EXCEPT ![r] = "read"]
    /\ read' = [read EXCEPT ![r] = secret]
    /\ code' = [code EXCEPT ![r] = c]
    /\ UNCHANGED <<userVars, shown, historyVars>>

\* Faulty variant: any code will do for a secret that is not in use yet.
TakenIfPending(r) == read[r] # None /\ (~enabled \/ code[r] = read[r])

\* confirm_2fa: AUTH_2FA_INVALID, and an error when there is no secret.
CodeTaken(r) == read[r] # None /\ code[r] = read[r]

\* db.commit() writes twofa_enabled; the secret is not written back.
CommitVerify(r) ==
    /\ pc[r] = "read"
    /\ \/ /\ CodeTaken(r)
          /\ enabled' = TRUE
          /\ proved' = proved \cup {code[r]}
       \/ /\ ~CodeTaken(r)
          /\ UNCHANGED <<enabled, proved>>
    /\ Leave(r)
    /\ UNCHANGED <<secret, shown, replaced>>

\* _verify_totp, at a login with the right password: the code is compared with
\* whatever secret is stored.
LoginTakes(c) == enabled => c = secret

---------------------------------------------------------------------------
Init ==
    /\ secret = None /\ enabled = FALSE /\ shown = {}
    /\ pc = [r \in Request |-> "idle"]
    /\ read = [r \in Request |-> None]
    /\ code = [r \in Request |-> None]
    /\ proved = {} /\ replaced = FALSE

Next ==
    \/ \E s \in Secret : Setup(s)
    \/ \E r \in Request :
          (\E c \in Secret : ReadUser(r, c)) \/ CommitVerify(r)

Spec == Init /\ [][Next]_vars

---------------------------------------------------------------------------
(* Properties. *)

\* A login asks for a secret of which the operator has shown to hold it, unless a
\* setup replaced the secret after its verification had begun, from when on the
\* login asks for one that nobody has confirmed - "stored pending verify" holds
\* before the first verification only.
LoginAsksForProvedSecret ==
    enabled => replaced \/ \E c \in proved : LoginTakes(c)

=============================================================================
