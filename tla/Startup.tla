------------------------------ MODULE Startup ------------------------------
(***************************************************************************)
(* How the api replicas come up (entrypoint.sh, app/cli/__init__.py): wait  *)
(* for the database and the cache, migrate under an advisory lock,          *)
(* bootstrap the super admin and the two signing keys (licensing/keys.py),  *)
(* serve; and the command "forge keys init", which does the keys alone.     *)
(*                                                                         *)
(* Every statement that another process can overtake is a step.  A process  *)
(* that dies loses its lock and its transaction.                            *)
(***************************************************************************)
EXTENDS FiniteSets, Naturals

CONSTANTS
    Replica,    \* api containers
    KeysInit,   \* executions of "forge keys init"
    LockWaits,  \* the dialect's advisory lock waits until it is free
    None        \* no value

Starter == Replica \cup KeysInit
Purpose == {"master", "edge_lease"}

VARIABLES
    reachable,  \* the database and the cache answer
    atHead,     \* alembic_version is the newest revision
    holder,     \* who holds the advisory lock
    admin,      \* the super admin's row is committed
    inserter,   \* who has inserted it and not committed
    keys,       \* per purpose, who created the committed active keys
    pc,         \* where each process is
    planned,    \* whether it read an old revision
    creates,    \* whether it found no super admin
    missing,    \* the purposes for which it found no key
    unguarded   \* history: two processes were about to create the same key, one
                \* of which does not create the super admin

dbVars == <<atHead, holder, admin, inserter, keys>>
procVars == <<pc, planned, creates, missing>>
vars == <<reachable, dbVars, procVars, unguarded>>

MoveTo(r, place) == pc' = [pc EXCEPT ![r] = place]

Forget(r) ==
    /\ planned' = [planned EXCEPT ![r] = FALSE]
    /\ creates' = [creates EXCEPT ![r] = FALSE]
    /\ missing' = [missing EXCEPT ![r] = {}]

\* The process ends: its connections are closed and its transaction is undone.
Exit(r) ==
    /\ MoveTo(r, "off")
    /\ Forget(r)
    /\ holder' = IF holder = r THEN None ELSE holder
    /\ inserter' = IF inserter = r THEN None ELSE inserter
    /\ UNCHANGED <<atHead, admin, keys>>

---------------------------------------------------------------------------
(* forge healthcheck --wait-deps *)

\* _healthcheck found both; while it has not, the container waits or begins anew.
Healthy(r) ==
    /\ pc[r] = "off" /\ r \in Replica
    /\ reachable
    /\ MoveTo(r, "healthy")
    /\ UNCHANGED <<reachable, dbVars, planned, creates, missing, unguarded>>

\* The commands that were under way fail; a replica that serves goes on.
DependenciesFail ==
    /\ reachable
    /\ reachable' = FALSE
    /\ pc' = [r \in Starter |-> IF pc[r] = "serving" THEN "serving" ELSE "off"]
    /\ planned' = [r \in Starter |-> FALSE]
    /\ creates' = [r \in Starter |-> FALSE]
    /\ missing' = [r \in Starter |-> {}]
    /\ holder' = None /\ inserter' = None
    /\ UNCHANGED <<atHead, admin, keys, unguarded>>

DependenciesRecover ==
    /\ ~reachable
    /\ reachable' = TRUE
    /\ UNCHANGED <<dbVars, procVars, unguarded>>

---------------------------------------------------------------------------
(* forge migrate up *)

\* pg_advisory_lock waits; elsewhere the statement may time out or not exist, and
\* the migration goes on without the lock.
MayProceed(r) == holder = None \/ ~LockWaits

TakeLock(r) ==
    /\ pc[r] = "healthy"
    /\ MayProceed(r)
    /\ holder' = IF holder = None THEN r ELSE holder
    /\ MoveTo(r, "locked")
    /\ UNCHANGED <<reachable, atHead, admin, inserter, keys, planned, creates, missing, unguarded>>

\* command.upgrade: which migrations are pending
ReadRevision(r) ==
    /\ pc[r] = "locked"
    /\ planned' = [planned EXCEPT ![r] = ~atHead]
    /\ MoveTo(r, "planned")
    /\ UNCHANGED <<reachable, dbVars, creates, missing, unguarded>>

\* command.upgrade: one transaction, which fails on what another one has created.
Upgrade(r) ==
    /\ pc[r] = "planned"
    /\ \/ /\ planned[r] /\ atHead
          /\ Exit(r)
       \/ /\ ~(planned[r] /\ atHead)
          /\ atHead' = TRUE
          /\ MoveTo(r, "migrated")
          /\ UNCHANGED <<holder, admin, inserter, keys, planned, creates, missing>>
    /\ UNCHANGED <<reachable, unguarded>>

Unlock(r) ==
    /\ pc[r] = "migrated"
    /\ holder' = IF holder = r THEN None ELSE holder
    /\ MoveTo(r, "bootstrap")
    /\ UNCHANGED <<reachable, atHead, admin, inserter, keys, planned, creates, missing, unguarded>>

---------------------------------------------------------------------------
(* forge bootstrap, forge keys init *)

\* get_by_email(include_deleted=True)
SelectAdmin(r) ==
    /\ pc[r] = "bootstrap"
    /\ creates' = [creates EXCEPT ![r] = ~admin]
    /\ MoveTo(r, "keys")
    /\ UNCHANGED <<reachable, dbVars, planned, missing, unguarded>>

StartKeysInit(r) ==
    /\ pc[r] = "off" /\ r \in KeysInit
    /\ reachable /\ atHead
    /\ MoveTo(r, "keys")
    /\ UNCHANGED <<reachable, dbVars, planned, creates, missing, unguarded>>

\* Faulty variant: users.email is not unique.
NoEmailIndex(r) == FALSE

\* uq_users_email
AdminTaken(r) == admin

\* The same, against a row that is not committed yet.
AwaitsInserter(r) == inserter # None

\* Faulty variant: the keys are made together with the super admin only.
KeysOfNewAdmin(r, p) == keys[p] = {} /\ creates[r]

\* ensure_keys: get_active found nothing.
NeedsKey(r, p) == keys[p] = {}

\* ensure_keys: the SELECT for the master key, before which the new super admin is
\* flushed.
SelectMaster(r) ==
    /\ pc[r] = "keys"
    /\ \/ /\ creates[r] /\ AdminTaken(r)
          /\ Exit(r)
       \/ /\ creates[r] => ~AwaitsInserter(r) /\ ~AdminTaken(r)
          /\ inserter' = IF creates[r] THEN r ELSE inserter
          /\ missing' = [missing EXCEPT ![r] = {p \in {"master"} : NeedsKey(r, p)}]
          /\ MoveTo(r, "master")
          /\ UNCHANGED <<atHead, holder, admin, keys, planned, creates>>
    /\ UNCHANGED <<reachable, unguarded>>

\* ensure_keys: the SELECT for the edge_lease key
SelectEdge(r) ==
    /\ pc[r] = "master"
    /\ missing' = [missing EXCEPT ![r] = @ \cup {p \in {"edge_lease"} : NeedsKey(r, p)}]
    /\ MoveTo(r, "ready")
    /\ UNCHANGED <<reachable, dbVars, planned, creates, unguarded>>

\* db.commit(); the replica then executes the server.
CommitBootstrap(r) ==
    /\ pc[r] = "ready"
    /\ admin' = (admin \/ creates[r])
    /\ inserter' = IF inserter = r THEN None ELSE inserter
    /\ keys' = [p \in Purpose |-> IF p \in missing[r] THEN keys[p] \cup {r} ELSE keys[p]]
    /\ unguarded' = (unguarded \/ \E q \in Starter \ {r} :
          missing[q] \cap missing[r] # {} /\ ~(creates[q] /\ creates[r]))
    /\ MoveTo(r, IF r \in Replica THEN "serving" ELSE "off")
    /\ Forget(r)
    /\ UNCHANGED <<reachable, atHead, holder>>

Die(r) ==
    /\ pc[r] # "off"
    /\ Exit(r)
    /\ UNCHANGED <<reachable, unguarded>>

---------------------------------------------------------------------------
\* A new database, or one whose schema is older than the signing keys, with or
\* without its super admin, migrated or not.
Init ==
    /\ reachable \in BOOLEAN
    /\ atHead \in BOOLEAN
    /\ admin \in BOOLEAN
    /\ keys = [p \in Purpose |-> {}]
    /\ holder = None /\ inserter = None
    /\ pc = [r \in Starter |-> "off"]
    /\ planned = [r \in Starter |-> FALSE]
    /\ creates = [r \in Starter |-> FALSE]
    /\ missing = [r \in Starter |-> {}]
    /\ unguarded = FALSE

Next ==
    \/ \E r \in Starter :
        \/ Healthy(r) \/ TakeLock(r) \/ ReadRevision(r) \/ Upgrade(r) \/ Unlock(r)
        \/ SelectAdmin(r) \/ StartKeysInit(r) \/ SelectMaster(r) \/ SelectEdge(r)
        \/ CommitBootstrap(r) \/ Die(r)
    \/ DependenciesFail \/ DependenciesRecover

Spec == Init /\ [][Next]_vars

---------------------------------------------------------------------------
(* Properties. *)

\* A replica that serves has the newest schema, a super admin to log in with and
\* both signing keys, whatever the database was like, whoever else was starting
\* and whoever died on the way.
ReadyToServe ==
    \A r \in Replica : pc[r] = "serving" =>
        atHead /\ admin /\ \A p \in Purpose : keys[p] # {}

\* There is one active key per purpose, so that everything is signed with the key
\* whose public half the products were given - although nothing in the schema
\* says so: replicas that start together are told apart by the e-mail of the
\* super admin they all insert.  A process that does not insert it - keys init, or a
\* replica that finds the admin there and the keys missing - is told apart by
\* nothing, and two that race for a key while one of them is such are excused.
OneKeyPerPurpose == unguarded \/ \A p \in Purpose : Cardinality(keys[p]) <= 1

=============================================================================
