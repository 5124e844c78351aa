------------------------------ MODULE Accounts ------------------------------
(***************************************************************************)
(* The accounts of the vendor's operators and the lockout protection of     *)
(* update_user, reset_password and delete_user (api/admin/v1/users.py).     *)
(*                                                                         *)
(* Every await that reads or writes the database is a step: the SELECT of   *)
(* the account, the COUNT of the super admins, the commit.  The session     *)
(* that authorises a request was read before all of them, and its role is   *)
(* checked against the role map (permissions/).                             *)
(***************************************************************************)
EXTENDS FiniteSets, Naturals

CONSTANTS
    User,      \* users.id
    Request,   \* requests of the admin API that may overlap
    None       \* no value

VARIABLES
    user,      \* users, committed: role, active, deleted (deleted_at is set)
    pc,        \* where each request is
    actor,     \* user_id of the session that sent it, as long as it matters
    target,    \* the account it changes
    seen,      \* that account as the request read it
    write,     \* that account as the request will write it
    crossed    \* history: a super admin was removed while another request stood
               \* between its SELECT and its commit

vars == <<user, pc, actor, target, seen, write, crossed>>

Permission ==
    {"platform.license.read", "platform.license.issue", "platform.license.update",
     "platform.license.revoke", "platform.license.delete",
     "platform.product.read", "platform.product.write", "platform.product.delete",
     "platform.customer.read", "platform.customer.write", "platform.customer.delete",
     "platform.user.read", "platform.user.write", "platform.user.delete",
     "platform.audit.read", "platform.audit.export", "platform.crl.generate",
     "system.key.read", "system.key.manage", "system.settings.read",
     "system.settings.write"}

\* PLATFORM_ROLES, the wildcard expanded
PermissionsOf ==
    [super_admin |-> Permission,
     admin |-> {"platform.license.read", "platform.license.issue",
                "platform.license.update", "platform.product.read",
                "platform.product.write", "platform.customer.read",
                "platform.customer.write", "platform.crl.generate"},
     auditor |-> {"platform.audit.read", "platform.audit.export",
                  "platform.license.read"}]

Role == DOMAIN PermissionsOf

RoleHas(role, permission) == permission \in PermissionsOf[role]

Account == [role: Role, active: BOOLEAN, deleted: BOOLEAN]

NobodysAccount == [role |-> "auditor", active |-> FALSE, deleted |-> TRUE]

IsSuperAdmin(a) == a.role = "super_admin" /\ a.active /\ ~a.deleted

\* _active_super_admins
ActiveSuperAdmins == {u \in User : IsSuperAdmin(user[u])}

\* The request is answered, or it dies.
Leave(r) ==
    /\ pc' = [pc EXCEPT ![r] = "idle"]
    /\ actor' = [actor EXCEPT ![r] = None]
    /\ target' = [target EXCEPT ![r] = None]
    /\ seen' = [seen EXCEPT ![r] = NobodysAccount]
    /\ write' = [write EXCEPT ![r] = NobodysAccount]

\* require_perm of update_user, or of delete_user: the request has come as far as
\* its permission.
Authorise(r) ==
    /\ pc[r] = "idle"
    /\ \E u \in User, permission \in {"platform.user.write", "platform.user.delete"} :
          /\ user[u].active /\ ~user[u].deleted
          /\ RoleHas(user[u].role, permission)
          /\ actor' = [actor EXCEPT ![r] = u]
          /\ pc' = [pc EXCEPT ![r] = permission]
    /\ UNCHANGED <<user, target, seen, write, crossed>>

\* repo.get, and what the body asks for: update_user any role and is_active,
\* delete_user deleted_at.
SelectAccount(r) ==
    /\ pc[r] \in Permission
    /\ \E u \in User, a \in Account :
          /\ ~user[u].deleted
          /\ IF pc[r] = "platform.user.delete"
             THEN a = [user[u] EXCEPT !.deleted = TRUE]
             ELSE ~a.deleted /\ a # user[u]
          /\ target' = [target EXCEPT ![r] = u]
          /\ seen' = [seen EXCEPT ![r] = user[u]]
          /\ write' = [write EXCEPT ![r] = a]
    /\ pc' = [pc EXCEPT ![r] = "selected"]
    /\ UNCHANGED <<user, actor, crossed>>

Demoting(r) == seen[r].role = "super_admin" /\ write[r].role # "super_admin"
Disabling(r) == seen[r].active /\ ~write[r].active
Deleting(r) == write[r].deleted
Removing(r) == Demoting(r) \/ Disabling(r) \/ Deleting(r)

\* USER_SELF_LOCKOUT
LocksOutSelf(r) == target[r] = actor[r] /\ Removing(r)

\* Faulty variant: the comparison is off by one.
NoSuperAdminLeft(r) ==
    seen[r].role = "super_admin" /\ Removing(r) /\ Cardinality(ActiveSuperAdmins) < 1

\* USER_LAST_SUPER_ADMIN; delete_user does not ask whether the account is active.
LastSuperAdmin(r) ==
    seen[r].role = "super_admin" /\ Removing(r) /\ Cardinality(ActiveSuperAdmins) <= 1

\* The lockout protection.
CheckLockout(r) ==
    /\ pc[r] = "selected"
    /\ \/ /\ LocksOutSelf(r) \/ LastSuperAdmin(r)
          /\ Leave(r)
       \/ /\ ~LocksOutSelf(r) /\ ~LastSuperAdmin(r)
          /\ pc' = [pc EXCEPT ![r] = "checked"]
          /\ actor' = [actor EXCEPT ![r] = None]
          /\ UNCHANGED <<target, seen, write>>
    /\ UNCHANGED <<user, crossed>>

\* The UPDATE sets the columns that differ from what the session had read.
WrittenAccount(r) ==
    LET now == user[target[r]]
    IN  [role    |-> IF write[r].role # seen[r].role THEN write[r].role ELSE now.role,
         active  |-> IF write[r].active # seen[r].active THEN write[r].active ELSE now.active,
         deleted |-> now.deleted \/ write[r].deleted]

\* db.commit()
CommitAccount(r) ==
    /\ pc[r] = "checked"
    /\ user' = [user EXCEPT ![target[r]] = WrittenAccount(r)]
    /\ crossed' = (crossed \/
          /\ IsSuperAdmin(user[target[r]]) /\ ~IsSuperAdmin(WrittenAccount(r))
          /\ \E q \in Request \ {r} : pc[q] \in {"selected", "checked"})
    /\ Leave(r)

AbortAccount(r) ==
    /\ pc[r] # "idle"
    /\ Leave(r)
    /\ UNCHANGED <<user, crossed>>

---------------------------------------------------------------------------
\* After bootstrap and create_user.
Init ==
    /\ user \in [User -> [role: Role, active: {TRUE}, deleted: {FALSE}]]
    /\ ActiveSuperAdmins # {}
    /\ pc = [r \in Request |-> "idle"]
    /\ actor = [r \in Request |-> None]
    /\ target = [r \in Request |-> None]
    /\ seen = [r \in Request |-> NobodysAccount]
    /\ write = [r \in Request |-> NobodysAccount]
    /\ crossed = FALSE

Next ==
    \E r \in Request :
        \/ Authorise(r) \/ SelectAccount(r) \/ CheckLockout(r) \/ CommitAccount(r)
        \/ AbortAccount(r)

Spec == Init /\ [][Next]_vars

---------------------------------------------------------------------------
(* Properties. *)

\* There is always an active super admin, unless a super admin was removed while
\* another change had read its account and not yet committed: it takes two
\* overlapping requests to lock everybody out, whatever they ask for.
SuperAdminRemains == crossed \/ ActiveSuperAdmins # {}

=============================================================================
