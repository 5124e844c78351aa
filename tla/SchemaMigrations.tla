-------------------------- MODULE SchemaMigrations --------------------------
(***************************************************************************)
(* The six revisions of the schema (app/migrations/versions): the upgrade   *)
(* that every starting replica runs and the downgrade of the command        *)
(* "forge migrate down" (cli/__init__.py, migrations/env.py), between which *)
(* the server works on the data they move.                                  *)
(*                                                                         *)
(* A command is one transaction (PostgreSQL), whatever the number of its    *)
(* revisions: it succeeds or leaves no trace, and of two that overlap the   *)
(* second waits for the first's locks and fails.  The server of this source *)
(* names the columns of the last revision in its statements and can do      *)
(* nothing before it.                                                       *)
(***************************************************************************)
EXTENDS Naturals

CONSTANT License   \* the offline licenses

VARIABLES
    db,       \* the database; see Database
    stuck,    \* history: an upgrade failed
    revoked   \* history: the licenses revoked since their table was made

vars == <<db, stuck, revoked>>

Head == 6

Database == [revision: 0..Head,
             schema:  SUBSET STRING,       \* tables, and columns added to them
             licences: SUBSET License,     \* rows of licenses
             revocations: SUBSET License,  \* rows of revocations: of these
             orphans: SUBSET License,      \*   the license_id is NULL
             listed: SUBSET License,       \*   the license_public_id is not
             dead: BOOLEAN,                \* a binding has the status dead
             ok: BOOLEAN]                  \* no statement has failed

EmptyDatabase ==
    [revision |-> 0, schema |-> {}, licences |-> {}, revocations |-> {}, orphans |-> {},
     listed |-> {}, dead |-> FALSE, ok |-> TRUE]

---------------------------------------------------------------------------
(* What the revisions create. *)

UsersSchema == {"users"}
AuditSchema == {"audit_log"}
CoreSchema == {"customers", "products", "signing_keys", "licenses", "fingerprint_bindings",
               "leases", "revocations", "crl_bundles"}
AvatarSchema == {"users.avatar"}
AnticloneSchema ==
    {"fingerprint_bindings.install_id", "fingerprint_bindings.signals",
     "fingerprint_bindings.deployment_uid", "fingerprint_bindings.last_heartbeat_at",
     "clone_alerts"}
DenormSchema == {"revocations.license_public_id", "revocations.mode"}

Creates ==
    <<UsersSchema, AuditSchema, CoreSchema, AvatarSchema, AnticloneSchema, DenormSchema>>

\* Faulty variant: a table is forgotten.
CoreDroppedButCrl == CoreSchema \ {"crl_bundles"}

\* 000003, downgrade: the tables of its list.
CoreDropped ==
    {"crl_bundles", "revocations", "leases", "fingerprint_bindings", "licenses",
     "signing_keys", "products", "customers"}

Drops ==
    <<UsersSchema, AuditSchema, CoreDropped, AvatarSchema, AnticloneSchema, DenormSchema>>

---------------------------------------------------------------------------
(* One revision. *)

\* 000006, upgrade: the UPDATE joins the licenses that are still there.
Backfilled(d) == {l \in d.revocations : l \in d.licences /\ l \notin d.orphans}

\* upgrade() of revision r.
Up(r, d) ==
    [d EXCEPT
        !.revision = r,
        !.schema = @ \cup Creates[r],
        !.listed = IF r = 6 THEN Backfilled(d) ELSE @,
        !.ok = @ /\ Creates[r] \cap d.schema = {}]

\* Faulty variant: license_id stays nullable.
NullsKept(d) == FALSE

\* 000006, downgrade: license_id becomes NOT NULL again.
NullsRefused(d) == d.orphans # {}

\* 000005, downgrade: the CHECK of the status knows no dead binding.
DeadRefused(d) == d.dead

\* downgrade() of revision r.
Down(r, d) ==
    LET gone == r = 3
    IN  [d EXCEPT
            !.revision = r - 1,
            !.schema = @ \ Drops[r],
            !.licences = IF gone THEN {} ELSE @,
            !.revocations = IF gone THEN {} ELSE @,
            !.orphans = IF gone THEN {} ELSE @,
            !.listed = IF r = 6 THEN {} ELSE @,
            !.dead = @ /\ ~gone,
            !.ok = @ /\ Drops[r] \subseteq d.schema
                     /\ (r = 6 => ~NullsRefused(d)) /\ (r = 5 => ~DeadRefused(d))]

---------------------------------------------------------------------------
(* Commands. *)

\* command.upgrade to the head.
Upgraded ==
    LET upTo[r \in 0..Head] == IF r <= db.revision THEN db ELSE Up(r, upTo[r - 1])
    IN  upTo[Head]

\* command.downgrade by some steps.
Downgraded(steps) ==
    LET down[n \in 0..steps] ==
            IF n = 0 THEN db ELSE Down(db.revision - n + 1, down[n - 1])
    IN  down[steps]

MigrateUp ==
    /\ db.revision < Head
    /\ db' = IF Upgraded.ok THEN Upgraded ELSE db
    /\ stuck' = (stuck \/ ~Upgraded.ok)
    /\ UNCHANGED revoked

MigrateDown(steps) ==
    /\ steps <= db.revision
    /\ Downgraded(steps).ok
    /\ db' = Downgraded(steps)
    /\ revoked' = IF db'.revision < 3 THEN {} ELSE revoked
    /\ UNCHANGED stuck

---------------------------------------------------------------------------
(* The server, which needs the last revision. *)

Serving == db.revision = Head

\* issue_offline
IssueOffline(l) ==
    /\ Serving /\ l \notin db.licences \cup db.revocations
    /\ db' = [db EXCEPT !.licences = @ \cup {l}]
    /\ UNCHANGED <<stuck, revoked>>

\* IssuanceService.revoke
RevokeOffline(l) ==
    /\ Serving /\ l \in db.licences \ db.revocations
    /\ db' = [db EXCEPT !.revocations = @ \cup {l}, !.listed = @ \cup {l}]
    /\ revoked' = revoked \cup {l}
    /\ UNCHANGED stuck

\* delete_license: ON DELETE SET NULL
DeleteOffline(l) ==
    /\ Serving /\ l \in db.licences
    /\ db' = [db EXCEPT !.licences = @ \ {l}, !.orphans = @ \cup ({l} \cap db.revocations)]
    /\ UNCHANGED <<stuck, revoked>>

\* reap_dead_bindings, on the binding of an online license; and the deletion of
\* that license, which takes its bindings along.
ReapBinding ==
    /\ Serving
    /\ db' = [db EXCEPT !.dead = ~@]
    /\ UNCHANGED <<stuck, revoked>>

---------------------------------------------------------------------------
Init == db = EmptyDatabase /\ stuck = FALSE /\ revoked = {}

Next ==
    \/ MigrateUp
    \/ \E steps \in 1..Head : MigrateDown(steps)
    \/ \E l \in License : IssueOffline(l) \/ RevokeOffline(l) \/ DeleteOffline(l)
    \/ ReapBinding

Spec == Init /\ [][Next]_vars

---------------------------------------------------------------------------
(* Properties. *)

\* Wherever a downgrade has left the schema, the upgrade of the next replica that
\* starts succeeds, and unless the tables were dropped every revocation is listed
\* again: of a license that was deleted too, whose id no backfill can find, since
\* the downgrade that would forget it fails.
DowngradesAreReversible ==
    ~stuck /\ (Serving => revoked \subseteq db.listed)

=============================================================================
