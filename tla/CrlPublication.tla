--------------------------- MODULE CrlPublication ---------------------------
(***************************************************************************)
(* Offline licenses at the server: issue, revoke and hard delete            *)
(* (app/services/issuance.py, api/admin/v1/licenses.py), and the signed     *)
(* revocation list, generated by administrators and by the worker, who may  *)
(* overlap (app/services/crl.py, app/worker.py).                            *)
(*                                                                         *)
(* Granularity.  CrlService.generate reads twice, flushes (the INSERT waits *)
(* for an uncommitted bundle with its version, and fails if that one is     *)
(* committed), reads again and commits: a step each.  Issue, revoke and     *)
(* delete hold the license's row lock from their first write to their       *)
(* commit and read nothing else that changes: one step each.                *)
(***************************************************************************)
EXTENDS Naturals, Sequences, FiniteSets

CONSTANTS
    Offline,     \* the licenses issued for offline use
    Generator,   \* executions of CrlService.generate that may overlap
    MaxVersion   \* bound: bundles generated

ASSUME MaxVersionAssumption == MaxVersion \in Nat

VARIABLES
    licence,     \* licenses.status, "deleted" when the row is gone
    log,         \* revocations of mode offline, in the order of their commits
    stamp,       \* revocations.crl_version, 0 for NULL
    bundle,      \* crl_bundles in commit order: version, the ids of the signed
                 \* payload, and (history) since: the bundles committed when
                 \* the ids were selected
    gpc,         \* where each generate is
    draft,       \* the bundle it builds
    unstamped    \* the revocations without a crl_version it read last

licVars == <<licence, log>>
genVars == <<gpc, draft, unstamped>>
crlVars == <<licVars, stamp, bundle, genVars>>

\* Faulty variant: the list is joined with the licenses table.
RevokedLiveIds == {l \in {log[i] : i \in DOMAIN log} : licence[l] # "deleted"}

\* Faulty variant: only what was not yet published is listed.
RevokedUnpublishedIds == {l \in {log[i] : i \in DOMAIN log} : stamp[l] = 0}

\* The license_public_id of every offline revocation: no join with licenses.
RevokedIds == {log[i] : i \in DOMAIN log}

Versions == {bundle[i].version : i \in DOMAIN bundle}

\* CrlService._latest_bundle, 0 when there is none.
LatestVersion ==
    IF Versions = {} THEN 0
    ELSE CHOOSE v \in Versions : \A w \in Versions : w <= v

Bundle == [version: 0..MaxVersion, ids: SUBSET Offline, since: 0..MaxVersion]
NoBundle == [version |-> 0, ids |-> {}, since |-> 0]

---------------------------------------------------------------------------
(* Licenses. *)

\* issue_offline
IssueOffline(l) ==
    /\ licence[l] = "unissued"
    /\ licence' = [licence EXCEPT ![l] = "active"]
    /\ UNCHANGED <<log, stamp, bundle, genVars>>

\* IssuanceService.revoke
RevokeOffline(l) ==
    /\ licence[l] = "active"
    /\ licence' = [licence EXCEPT ![l] = "revoked"]
    /\ log' = Append(log, l)
    /\ UNCHANGED <<stamp, bundle, genVars>>

\* delete_license: the revocation, if there is one, stays (ON DELETE SET NULL).
DeleteOffline(l) ==
    /\ licence[l] \in {"active", "revoked"}
    /\ licence' = [licence EXCEPT ![l] = "deleted"]
    /\ UNCHANGED <<log, stamp, bundle, genVars>>

---------------------------------------------------------------------------
(* CrlService.generate. *)

Forget(g) ==
    /\ gpc' = [gpc EXCEPT ![g] = "idle"]
    /\ draft' = [draft EXCEPT ![g] = NoBundle]
    /\ unstamped' = [unstamped EXCEPT ![g] = {}]

\* SELECT the ids of the revoked licenses.
SelectRevoked(g) ==
    /\ gpc[g] = "idle"
    /\ Len(bundle) < MaxVersion
    /\ gpc' = [gpc EXCEPT ![g] = "selected"]
    /\ draft' = [draft EXCEPT ![g] =
          [version |-> 0, ids |-> RevokedIds, since |-> Len(bundle)]]
    /\ UNCHANGED <<licVars, stamp, bundle, unstamped>>

\* SELECT the latest version; build and sign the payload.
ReadLatest(g) ==
    /\ gpc[g] = "selected"
    /\ LatestVersion < MaxVersion
    /\ gpc' = [gpc EXCEPT ![g] = "signed"]
    /\ draft' = [draft EXCEPT ![g].version = LatestVersion + 1]
    /\ UNCHANGED <<licVars, stamp, bundle, unstamped>>

\* Faulty variant: crl_bundles.version is not unique.
VersionNotUnique(v) == FALSE

VersionTaken(v) == v \in Versions

\* Autoflush: the INSERT reaches the database before the third SELECT.
FlushBundle(g) ==
    /\ gpc[g] = "signed"
    /\ \A h \in Generator \ {g} :
          gpc[h] = "flushed" => draft[h].version # draft[g].version
    /\ \/ /\ VersionTaken(draft[g].version)
          /\ Forget(g)
       \/ /\ ~VersionTaken(draft[g].version)
          /\ gpc' = [gpc EXCEPT ![g] = "flushed"]
          /\ unstamped' = [unstamped EXCEPT ![g] =
                {l \in RevokedIds : stamp[l] = 0}]
          /\ UNCHANGED draft
    /\ UNCHANGED <<licVars, stamp, bundle>>

\* rev.crl_version = version
Stamped(g) == [l \in Offline |-> IF l \in unstamped[g] THEN draft[g].version ELSE stamp[l]]

CommitBundle(g) ==
    /\ gpc[g] = "flushed"
    /\ bundle' = Append(bundle, draft[g])
    /\ stamp' = Stamped(g)
    /\ Forget(g)
    /\ UNCHANGED licVars

\* The request or the task dies, or no master key is active: a rollback.
AbortGenerate(g) ==
    /\ gpc[g] # "idle"
    /\ Forget(g)
    /\ UNCHANGED <<licVars, stamp, bundle>>

---------------------------------------------------------------------------
CrlInit ==
    /\ licence = [l \in Offline |-> "unissued"]
    /\ log = <<>>
    /\ stamp = [l \in Offline |-> 0]
    /\ bundle = <<>>
    /\ gpc = [g \in Generator |-> "idle"]
    /\ draft = [g \in Generator |-> NoBundle]
    /\ unstamped = [g \in Generator |-> {}]

Generate(g) ==
    \/ SelectRevoked(g) \/ ReadLatest(g) \/ FlushBundle(g) \/ CommitBundle(g)
    \/ AbortGenerate(g)

CrlNext ==
    \/ \E l \in Offline : IssueOffline(l) \/ RevokeOffline(l) \/ DeleteOffline(l)
    \/ \E g \in Generator : Generate(g)

CrlSpec == CrlInit /\ [][CrlNext]_crlVars

---------------------------------------------------------------------------
(* Properties. *)

\* Every variable stays in its type.
CrlTypeOK ==
    /\ licence \in [Offline -> {"unissued", "active", "revoked", "deleted"}]
    /\ log \in Seq(Offline)
    /\ stamp \in [Offline -> 0..MaxVersion]
    /\ bundle \in Seq(Bundle)
    /\ gpc \in [Generator -> {"idle", "selected", "signed", "flushed"}]
    /\ draft \in [Generator -> Bundle]
    /\ unstamped \in [Generator -> SUBSET Offline]

\* However many generations overlap and abort, versions are committed in order
\* and without gaps: what a product imports as the newest is the newest.
VersionsInOrder == \A i \in DOMAIN bundle : bundle[i].version = i

\* A list never drops a license that an earlier list named, as long as it was
\* begun after that list was committed: not even when the license was deleted.
ListsGrow ==
    \A b, c \in {bundle[i] : i \in DOMAIN bundle} :
        c.since >= b.version => b.ids \subseteq c.ids

\* A revocation with a crl_version is in every list whose generation began after
\* the stamp was committed, also when it slipped in between the two reads of the
\* generation that stamped it.  The list of that very version may lack it: see
\* StampNamesItsList.
ListedAfterStamp ==
    \A l \in Offline : \A b \in {bundle[i] : i \in DOMAIN bundle} :
        stamp[l] # 0 /\ b.since >= stamp[l] => l \in b.ids

\* The lists are snapshots of a growing log of revocations.
Ledger == INSTANCE RevocationLedger
            WITH published <- [i \in DOMAIN bundle |-> bundle[i].ids]

LedgerSpec == Ledger!Spec

\* What comments say and the code does not keep.

\* crl.py: the version is stamped onto the revocations that are now published, and
\* models/revocation.py: crl_version is set when they are included in a list - the
\* list of that version names them.
StampNamesItsList ==
    \A l \in Offline : \A b \in {bundle[i] : i \in DOMAIN bundle} :
        b.version = stamp[l] => l \in b.ids

=============================================================================
