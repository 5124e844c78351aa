-------------------------- MODULE OperatorSessions --------------------------
(***************************************************************************)
(* The sessions of one operator in Redis (services/session_service.py):     *)
(* logins (services/auth_service.py, api/admin/v1/auth.py), requests that   *)
(* carry a session (api/deps.py), logouts, and the changes of the account   *)
(* that end every session (api/admin/v1/users.py, me.py).  Sessions of      *)
(* different operators share no key.                                        *)
(*                                                                         *)
(* Every Redis call that writes, or whose answer another call can make      *)
(* stale, is a step, and so is the commit of a change.                      *)
(***************************************************************************)
EXTENDS FiniteSets, Naturals

CONSTANTS
    Sid,       \* session ids, each generated once (bounds the logins)
    Request,   \* requests of the admin API that may overlap
    None       \* no value

VARIABLES
    account,   \* users.is_active and deleted_at: active, disabled or deleted
    session,   \* the sids for which forge_admin_session:<sid> exists
    index,     \* forge_admin_session:user:<id>
    issued,    \* the sids generated
    pc,        \* where each request is
    sid,       \* the session it logs in or carries
    doomed,    \* the sids destroy_all_for_user has read and not yet deleted
    due,       \* history: the sids issued when the change it serves committed
    ended,     \* history: sids that an answered change should have ended
    raced      \* history: sids that a race took out of the index's reach

storeVars == <<session, index, issued>>
historyVars == <<due, ended, raced>>
vars == <<account, storeVars, pc, sid, doomed, historyVars>>

\* What an administrator, or the operator himself, may change: "password" is his own
\* change of it, "reset_password" the administrator's.
Change ==
    {"role", "disable", "enable", "delete", "reset_password", "username", "password"}

Leave(r) ==
    /\ pc' = [pc EXCEPT ![r] = "idle"]
    /\ sid' = [sid EXCEPT ![r] = None]
    /\ doomed' = [doomed EXCEPT ![r] = {}]
    /\ due' = [due EXCEPT ![r] = {}]

MoveTo(r, place) == pc' = [pc EXCEPT ![r] = place]

---------------------------------------------------------------------------
(* Login. *)

\* AuthService.authenticate reads an active account; SessionService.create makes
\* up a sid.
Authenticate(r, s) ==
    /\ pc[r] = "idle" /\ account = "active"
    /\ s \notin issued
    /\ issued' = issued \cup {s}
    /\ sid' = [sid EXCEPT ![r] = s]
    /\ MoveTo(r, "verified")
    /\ UNCHANGED <<account, session, index, doomed, historyVars>>

\* SessionService.create: SET
StoreSession(r) ==
    /\ pc[r] = "verified"
    /\ session' = session \cup {sid[r]}
    /\ MoveTo(r, "stored")
    /\ UNCHANGED <<account, index, issued, sid, doomed, historyVars>>

\* Faulty variant: the index is SET, and holds the newest session only.
NewestOnly(s) == {s}

IndexWith(s) == index \cup {s}

\* SessionService.create: SADD; then the login is answered.
IndexSession(r) ==
    /\ pc[r] = "stored"
    /\ index' = IndexWith(sid[r])
    /\ Leave(r)
    /\ UNCHANGED <<account, session, issued, ended, raced>>

---------------------------------------------------------------------------
(* Requests and logout. *)

\* SessionService.get: GET
GetSession(r, s) ==
    /\ pc[r] = "idle"
    /\ s \in session
    /\ sid' = [sid EXCEPT ![r] = s]
    /\ MoveTo(r, "fetched")
    /\ UNCHANGED <<account, storeVars, doomed, historyVars>>

\* SessionService.get: SET writes the record back, whether or not the key is gone.
RenewSession(r) ==
    /\ pc[r] = "fetched"
    /\ session' = session \cup {sid[r]}
    /\ raced' = IF sid[r] \in session THEN raced ELSE raced \cup {sid[r]}
    /\ MoveTo(r, "acting")
    /\ UNCHANGED <<account, index, issued, sid, doomed, due, ended>>

\* A request that ends no session is answered.
Answer(r) ==
    /\ pc[r] = "acting"
    /\ Leave(r)
    /\ UNCHANGED <<account, storeVars, ended, raced>>

\* SessionService.destroy, for a logout or a session past its absolute expiry:
\* the GET and, when it finds the session, the SREM.
LeaveIndex(r) ==
    /\ pc[r] \in {"fetched", "acting"}
    /\ index' = IF sid[r] \in session THEN index \ {sid[r]} ELSE index
    /\ MoveTo(r, "leaving")
    /\ UNCHANGED <<account, session, issued, sid, doomed, historyVars>>

\* SessionService.destroy: DEL
DropSession(r) ==
    /\ pc[r] = "leaving"
    /\ session' = session \ {sid[r]}
    /\ Leave(r)
    /\ UNCHANGED <<account, index, issued, ended, raced>>

\* The idle ttl runs out.
SessionIdles(s) ==
    /\ s \in session
    /\ session' = session \ {s}
    /\ UNCHANGED <<account, index, issued, pc, sid, doomed, historyVars>>

---------------------------------------------------------------------------
(* Changes of the account. *)

\* Faulty variant: a change of role leaves the sessions alone.
KillsUnlessRole(c) == c \in {"disable", "delete", "reset_password"}

\* After which changes destroy_all_for_user is called.  Its docstring names the
\* operator's own change of his password too, but change_my_password does not call it.
KillsSessions(c) == c \in {"role", "disable", "delete", "reset_password"}

\* db.commit() of update_user, reset_password, delete_user, update_my_profile or
\* change_my_password.
CommitChange(r, c) ==
    /\ pc[r] = "idle"
    /\ account # "deleted"
    /\ account' = CASE c = "disable" -> "disabled"
                    [] c = "delete" -> "deleted"
                    [] c = "enable" -> "active"
                    [] OTHER -> account
    /\ IF KillsSessions(c)
       THEN /\ MoveTo(r, "committed")
            /\ due' = [due EXCEPT ![r] = issued]
            /\ UNCHANGED ended
       ELSE /\ ended' = IF c \in {"enable", "username", "password"} THEN ended ELSE ended \cup issued
            /\ UNCHANGED <<pc, due>>
    /\ UNCHANGED <<storeVars, sid, doomed, raced>>

\* destroy_all_for_user: SMEMBERS.  A login that has not reached its SADD is not
\* in the index.
ReadIndex(r) ==
    /\ pc[r] = "committed"
    /\ doomed' = [doomed EXCEPT ![r] = index]
    /\ raced' = raced \cup {sid[q] : q \in {p \in Request : pc[p] \in {"verified", "stored"}}}
    /\ MoveTo(r, "destroying")
    /\ UNCHANGED <<account, storeVars, sid, due, ended>>

\* destroy_all_for_user: DEL of one session.
DeleteSession(r) ==
    /\ pc[r] = "destroying"
    /\ \E s \in doomed[r] :
          /\ session' = session \ {s}
          /\ doomed' = [doomed EXCEPT ![r] = @ \ {s}]
    /\ UNCHANGED <<account, index, issued, pc, sid, historyVars>>

\* destroy_all_for_user: DEL of the index, with what was added to it meanwhile.
DeleteIndex(r) ==
    /\ pc[r] = "destroying"
    /\ doomed[r] = {}
    /\ index' = {}
    /\ raced' = raced \cup (index \cap session)
    /\ ended' = ended \cup due[r]
    /\ Leave(r)
    /\ UNCHANGED <<account, session, issued>>

\* The process dies: a login between SET and SADD and a logout between SREM and
\* DEL leave a session that no index knows.
Crash(r) ==
    /\ pc[r] # "idle"
    /\ raced' = IF pc[r] \in {"stored", "leaving"} THEN raced \cup {sid[r]} ELSE raced
    /\ Leave(r)
    /\ UNCHANGED <<account, storeVars, ended>>

---------------------------------------------------------------------------
Init ==
    /\ account = "active"
    /\ session = {} /\ index = {} /\ issued = {}
    /\ pc = [r \in Request |-> "idle"]
    /\ sid = [r \in Request |-> None]
    /\ doomed = [r \in Request |-> {}]
    /\ due = [r \in Request |-> {}]
    /\ ended = {} /\ raced = {}

Serve(r) ==
    \/ \E s \in Sid : Authenticate(r, s) \/ GetSession(r, s)
    \/ StoreSession(r) \/ IndexSession(r) \/ RenewSession(r) \/ Answer(r)
    \/ LeaveIndex(r) \/ DropSession(r)
    \/ \E c \in Change : CommitChange(r, c)
    \/ ReadIndex(r) \/ DeleteSession(r) \/ DeleteIndex(r) \/ Crash(r)

Next == (\E r \in Request : Serve(r)) \/ (\E s \in Sid : SessionIdles(s))

Spec == Init /\ [][Next]_vars

---------------------------------------------------------------------------
(* Properties. *)

\* Once a change of role, a disabling, a deletion or a password reset has been
\* answered, no session the operator had at that time is left, except by one of
\* the named races: a login past its password check, a request between GET and
\* SET, an index deleted with a newer session in it, a process that died between
\* two writes; a logout under way will end its session itself.
GlobalLogout ==
    \A s \in ended \cap session :
        s \in raced \/ \E r \in Request : pc[r] = "leaving" /\ sid[r] = s

\* A session that no index names, which no global logout can reach, came out of
\* one of those races; any other is indexed, about to be, or about to be deleted.
UnindexedSessionsRaced ==
    \A s \in session \ index :
        \/ s \in raced
        \/ \E r \in Request : sid[r] = s /\ pc[r] \in {"stored", "leaving"}

=============================================================================
