--------------------------- MODULE OperatorEmails ---------------------------
(***************************************************************************)
(* The e-mail addresses of the operators: create_user and delete_user       *)
(* (api/admin/v1/users.py), update_my_profile (api/admin/v1/me.py),         *)
(* UserRepository.get_by_email and the index uq_users_email.                *)
(*                                                                         *)
(* The lookup of an address and the flush and commit after it are two       *)
(* steps.  The lookup expects at most one row, deleted ones included.       *)
(***************************************************************************)
EXTENDS FiniteSets, Naturals

CONSTANTS
    User,          \* users.id
    Email,         \* addresses, in lower case as every handler makes them
    PartialIndex,  \* uq_users_email ignores deleted rows, as on PostgreSQL
    Request,       \* requests of the admin API that may overlap
    None           \* no value

VARIABLES
    status,   \* absent, live or deleted
    email,    \* users.email, None while absent
    pc,       \* where each request is
    target,   \* the user it creates, renames or deletes
    wanted,   \* the address it found free
    raced     \* history: addresses taken while another request had found them free

vars == <<status, email, pc, target, wanted, raced>>

Leave(r) ==
    /\ pc' = [pc EXCEPT ![r] = "idle"]
    /\ target' = [target EXCEPT ![r] = None]
    /\ wanted' = [wanted EXCEPT ![r] = None]

\* get_by_email(include_deleted=True)
RowsWith(e) == {u \in User : email[u] = e}

\* Faulty variant: the lookup does not see deleted rows.
FreeAmongLive(e, u) == \A v \in RowsWith(e) : status[v] = "live" => v = u

\* Nobody else has the address.  With two rows the lookup raises.
FoundFree(e, u) == RowsWith(e) \subseteq {u}

\* create_user
CheckNewEmail(r, u, e) ==
    /\ pc[r] = "idle"
    /\ status[u] = "absent" /\ \A q \in Request : target[q] # u
    /\ FoundFree(e, u)
    /\ pc' = [pc EXCEPT ![r] = "creating"]
    /\ target' = [target EXCEPT ![r] = u]
    /\ wanted' = [wanted EXCEPT ![r] = e]
    /\ UNCHANGED <<status, email, raced>>

\* update_my_profile
CheckOwnEmail(r, u, e) ==
    /\ pc[r] = "idle"
    /\ status[u] = "live" /\ email[u] # e
    /\ FoundFree(e, u)
    /\ pc' = [pc EXCEPT ![r] = "renaming"]
    /\ target' = [target EXCEPT ![r] = u]
    /\ wanted' = [wanted EXCEPT ![r] = e]
    /\ UNCHANGED <<status, email, raced>>

\* uq_users_email.  A partial index has no entry for a deleted row, neither for
\* one that is there nor for one that is renamed.
IndexRefuses(u, e) ==
    /\ \E v \in RowsWith(e) \ {u} : PartialIndex => status[v] = "live"
    /\ PartialIndex => status[u] # "deleted"

\* Flush and commit.
CommitEmail(r) ==
    /\ pc[r] \in {"creating", "renaming"}
    /\ \/ /\ IndexRefuses(target[r], wanted[r])
          /\ UNCHANGED <<status, email, raced>>
       \/ /\ ~IndexRefuses(target[r], wanted[r])
          /\ status' = [status EXCEPT ![target[r]] = IF pc[r] = "creating" THEN "live" ELSE @]
          /\ email' = [email EXCEPT ![target[r]] = wanted[r]]
          /\ raced' = IF \E q \in Request \ {r} : wanted[q] = wanted[r]
                      THEN raced \cup {wanted[r]} ELSE raced
    /\ Leave(r)

\* delete_user: the SELECT
SelectUser(r, u) ==
    /\ pc[r] = "idle" /\ status[u] = "live"
    /\ pc' = [pc EXCEPT ![r] = "deleting"]
    /\ target' = [target EXCEPT ![r] = u]
    /\ UNCHANGED <<status, email, wanted, raced>>

\* delete_user: the commit; the row keeps its address.
CommitDelete(r) ==
    /\ pc[r] = "deleting"
    /\ status' = [status EXCEPT ![target[r]] = "deleted"]
    /\ Leave(r)
    /\ UNCHANGED <<email, raced>>

\* The request is refused, or dies.
Abort(r) ==
    /\ pc[r] # "idle"
    /\ Leave(r)
    /\ UNCHANGED <<status, email, raced>>

---------------------------------------------------------------------------
Init ==
    /\ status = [u \in User |-> "absent"]
    /\ email = [u \in User |-> None]
    /\ pc = [r \in Request |-> "idle"]
    /\ target = [r \in Request |-> None]
    /\ wanted = [r \in Request |-> None]
    /\ raced = {}

Next ==
    \E r \in Request :
        \/ \E u \in User, e \in Email : CheckNewEmail(r, u, e) \/ CheckOwnEmail(r, u, e)
        \/ \E u \in User : SelectUser(r, u)
        \/ CommitEmail(r) \/ CommitDelete(r) \/ Abort(r)

Spec == Init /\ [][Next]_vars

---------------------------------------------------------------------------
(* Properties. *)

\* The lookup that every creation and every change of address makes finds at
\* most one row, so that an address can be used, or refused, and never makes the
\* handler fail - unless two requests had found it free at the same time.
LookupUnambiguous == \A e \in Email \ raced : Cardinality(RowsWith(e)) <= 1

=============================================================================
