--------------------------- MODULE DeploymentProofs ---------------------------
(***************************************************************************)
(* Theorems about Startup, KeyCustody, DeploymentIdentity and               *)
(* SchemaMigrations, each of which MCServices instantiates over variables   *)
(* of its own.                                                              *)
(***************************************************************************)
EXTENDS MCServices, FiniteSetTheorems, TLAPS

\* The instances count as this module does.
LEMMA InstancesCount ==
    \A S : /\ Up!Cardinality(S) = Cardinality(S)
          /\ Dep!Cardinality(S) = Cardinality(S)
          /\ Dep!IsFiniteSet(S) = IsFiniteSet(S)
  BY DEF Up!Cardinality, Dep!Cardinality, Cardinality, Dep!IsFiniteSet, IsFiniteSet

---------------------------------------------------------------------------
(* Startup. *)

StartupTypeOK ==
    /\ atHead \in BOOLEAN
    /\ admin \in BOOLEAN
    /\ unguarded \in BOOLEAN
    /\ inserter \in Up!Starter \cup {None}
    /\ keys \in [Up!Purpose -> SUBSET Up!Starter]
    /\ upPc \in [Up!Starter -> {"off", "healthy", "locked", "planned", "migrated",
                                "bootstrap", "keys", "master", "ready", "serving"}]
    /\ creates \in [Up!Starter -> BOOLEAN]
    /\ missing \in [Up!Starter -> SUBSET Up!Purpose]

\* What a process has behind it, by the place where it is.
StartedSoFar(r) ==
    /\ upPc[r] \in {"migrated", "bootstrap", "keys", "master", "ready", "serving"} => atHead
    /\ r \in Replica /\ upPc[r] \in {"keys", "master", "ready"} => creates[r] \/ admin
    /\ upPc[r] \in {"master", "ready"} => "master" \in missing[r] \/ keys["master"] # {}
    /\ upPc[r] = "ready" => "edge_lease" \in missing[r] \/ keys["edge_lease"] # {}
    /\ upPc[r] = "serving" => admin /\ keys["master"] # {} /\ keys["edge_lease"] # {}

\* Of those that insert the super admin, one is past the insertion.
CreatorInserts(r) ==
    /\ creates[r] /\ upPc[r] \in {"master", "ready"} => inserter = r
    /\ missing[r] # {} => upPc[r] \in {"master", "ready"}

\* What a process found missing is missing until it commits.
KeysGuarded ==
    ~unguarded =>
        /\ \A r \in Up!Starter : \A p \in missing[r] : keys[p] = {}
        /\ \A p \in Up!Purpose : \A x, y \in keys[p] : x = y

StartupInv ==
    /\ StartupTypeOK
    /\ \A r \in Up!Starter : StartedSoFar(r) /\ CreatorInserts(r)
    /\ KeysGuarded

LEMMA StartupInvInit == Up!Init => StartupInv
  BY DEF Up!Init, StartupInv, StartupTypeOK, StartedSoFar, CreatorInserts, KeysGuarded

LEMMA StartupTypesStep ==
    ASSUME StartupInv, Up!Next PROVE StartupTypeOK'
  <1> USE DEF StartupInv, StartupTypeOK, Up!Purpose, Up!Starter,
              Up!MoveTo, Up!Forget, Up!dbVars, Up!procVars
  <1>1. ASSUME NEW r \in Up!Starter, Up!Exit(r), unguarded' = unguarded
        PROVE  StartupTypeOK'
    BY <1>1 DEF Up!Exit
  <1>2. ASSUME NEW r \in Up!Starter, Up!Healthy(r) PROVE StartupTypeOK'
    BY <1>2 DEF Up!Healthy
  <1>3. ASSUME NEW r \in Up!Starter, Up!TakeLock(r) PROVE StartupTypeOK'
    BY <1>3 DEF Up!TakeLock
  <1>4. ASSUME NEW r \in Up!Starter, Up!ReadRevision(r) PROVE StartupTypeOK'
    BY <1>4 DEF Up!ReadRevision
  <1>5. ASSUME NEW r \in Up!Starter, Up!Unlock(r) PROVE StartupTypeOK'
    BY <1>5 DEF Up!Unlock
  <1>6. ASSUME NEW r \in Up!Starter, Up!SelectAdmin(r) PROVE StartupTypeOK'
    BY <1>6 DEF Up!SelectAdmin
  <1>7. ASSUME NEW r \in Up!Starter, Up!StartKeysInit(r) PROVE StartupTypeOK'
    BY <1>7 DEF Up!StartKeysInit
  <1>8. ASSUME NEW r \in Up!Starter, Up!SelectEdge(r) PROVE StartupTypeOK'
    BY <1>8 DEF Up!SelectEdge
  <1>9. ASSUME NEW r \in Up!Starter, Up!Upgrade(r) PROVE StartupTypeOK'
    <2>1. CASE Up!Exit(r)
      BY <1>1, <1>9, <2>1 DEF Up!Upgrade
    <2>2. CASE ~Up!Exit(r)
      BY <1>9, <2>2 DEF Up!Upgrade
    <2>3. QED
      BY <2>1, <2>2
  <1>10. ASSUME NEW r \in Up!Starter, Up!SelectMaster(r) PROVE StartupTypeOK'
    <2>1. CASE Up!Exit(r)
      BY <1>1, <1>10, <2>1 DEF Up!SelectMaster
    <2>2. CASE ~Up!Exit(r)
      BY <1>10, <2>2 DEF Up!SelectMaster
    <2>3. QED
      BY <2>1, <2>2
  <1>11. ASSUME NEW r \in Up!Starter, Up!CommitBootstrap(r) PROVE StartupTypeOK'
    BY <1>11 DEF Up!CommitBootstrap
  <1>12. ASSUME NEW r \in Up!Starter, Up!Die(r) PROVE StartupTypeOK'
    BY <1>1, <1>12 DEF Up!Die
  <1>13. CASE Up!DependenciesFail
    BY <1>13 DEF Up!DependenciesFail
  <1>14. CASE Up!DependenciesRecover
    BY <1>14 DEF Up!DependenciesRecover
  <1>15. QED
    BY <1>2, <1>3, <1>4, <1>5, <1>6, <1>7, <1>8, <1>9, <1>10, <1>11, <1>12, <1>13, <1>14
       DEF Up!Next

LEMMA StartedStep ==
    ASSUME StartupInv, Up!Next, NEW s \in Up!Starter
    PROVE  StartedSoFar(s)'
  <1> USE StarterAssumption
      DEF StartupInv, StartupTypeOK, StartedSoFar, Up!Purpose, Up!Starter, Up!NeedsKey,
          Up!MoveTo, Up!Forget, Up!dbVars, Up!procVars
  <1>1. ASSUME NEW r \in Up!Starter, Up!Exit(r), unguarded' = unguarded
        PROVE  StartedSoFar(s)'
    BY <1>1 DEF Up!Exit
  <1>2. ASSUME NEW r \in Up!Starter, Up!Healthy(r) PROVE StartedSoFar(s)'
    BY <1>2 DEF Up!Healthy
  <1>3. ASSUME NEW r \in Up!Starter, Up!TakeLock(r) PROVE StartedSoFar(s)'
    BY <1>3 DEF Up!TakeLock
  <1>4. ASSUME NEW r \in Up!Starter, Up!ReadRevision(r) PROVE StartedSoFar(s)'
    BY <1>4 DEF Up!ReadRevision
  <1>5. ASSUME NEW r \in Up!Starter, Up!Unlock(r) PROVE StartedSoFar(s)'
    BY <1>5 DEF Up!Unlock
  <1>6. ASSUME NEW r \in Up!Starter, Up!SelectAdmin(r) PROVE StartedSoFar(s)'
    BY <1>6 DEF Up!SelectAdmin
  <1>7. ASSUME NEW r \in Up!Starter, Up!StartKeysInit(r) PROVE StartedSoFar(s)'
    BY <1>7 DEF Up!StartKeysInit
  <1>8. ASSUME NEW r \in Up!Starter, Up!SelectEdge(r) PROVE StartedSoFar(s)'
    BY <1>8 DEF Up!SelectEdge
  <1>9. ASSUME NEW r \in Up!Starter, Up!Upgrade(r) PROVE StartedSoFar(s)'
    <2>1. CASE Up!Exit(r)
      BY <1>1, <1>9, <2>1 DEF Up!Upgrade
    <2>2. CASE ~Up!Exit(r)
      BY <1>9, <2>2 DEF Up!Upgrade
    <2>3. QED
      BY <2>1, <2>2
  <1>10. ASSUME NEW r \in Up!Starter, Up!SelectMaster(r) PROVE StartedSoFar(s)'
    <2>1. CASE Up!Exit(r)
      BY <1>1, <1>10, <2>1 DEF Up!SelectMaster
    <2>2. CASE ~Up!Exit(r)
      BY <1>10, <2>2 DEF Up!SelectMaster
    <2>3. QED
      BY <2>1, <2>2
  <1>11. ASSUME NEW r \in Up!Starter, Up!CommitBootstrap(r) PROVE StartedSoFar(s)'
    BY <1>11 DEF Up!CommitBootstrap
  <1>12. ASSUME NEW r \in Up!Starter, Up!Die(r) PROVE StartedSoFar(s)'
    BY <1>1, <1>12 DEF Up!Die
  <1>13. CASE Up!DependenciesFail
    BY <1>13 DEF Up!DependenciesFail
  <1>14. CASE Up!DependenciesRecover
    BY <1>14 DEF Up!DependenciesRecover
  <1>15. QED
    BY <1>2, <1>3, <1>4, <1>5, <1>6, <1>7, <1>8, <1>9, <1>10, <1>11, <1>12, <1>13, <1>14
       DEF Up!Next

LEMMA CreatorStep ==
    ASSUME StartupInv, Up!Next, NEW s \in Up!Starter
    PROVE  CreatorInserts(s)'
  <1> USE StarterAssumption
      DEF StartupInv, StartupTypeOK, CreatorInserts, Up!Purpose, Up!Starter, Up!NeedsKey,
          Up!AwaitsInserter, Up!MoveTo, Up!Forget, Up!dbVars, Up!procVars
  <1>1. ASSUME NEW r \in Up!Starter, Up!Exit(r), unguarded' = unguarded
        PROVE  CreatorInserts(s)'
    BY <1>1 DEF Up!Exit
  <1>2. ASSUME NEW r \in Up!Starter, Up!Healthy(r) PROVE CreatorInserts(s)'
    BY <1>2 DEF Up!Healthy
  <1>3. ASSUME NEW r \in Up!Starter, Up!TakeLock(r) PROVE CreatorInserts(s)'
    BY <1>3 DEF Up!TakeLock
  <1>4. ASSUME NEW r \in Up!Starter, Up!ReadRevision(r) PROVE CreatorInserts(s)'
    BY <1>4 DEF Up!ReadRevision
  <1>5. ASSUME NEW r \in Up!Starter, Up!Unlock(r) PROVE CreatorInserts(s)'
    BY <1>5 DEF Up!Unlock
  <1>6. ASSUME NEW r \in Up!Starter, Up!SelectAdmin(r) PROVE CreatorInserts(s)'
    BY <1>6 DEF Up!SelectAdmin
  <1>7. ASSUME NEW r \in Up!Starter, Up!StartKeysInit(r) PROVE CreatorInserts(s)'
    BY <1>7 DEF Up!StartKeysInit
  <1>8. ASSUME NEW r \in Up!Starter, Up!SelectEdge(r) PROVE CreatorInserts(s)'
    BY <1>8 DEF Up!SelectEdge
  <1>9. ASSUME NEW r \in Up!Starter, Up!Upgrade(r) PROVE CreatorInserts(s)'
    <2>1. CASE Up!Exit(r)
      BY <1>1, <1>9, <2>1 DEF Up!Upgrade
    <2>2. CASE ~Up!Exit(r)
      BY <1>9, <2>2 DEF Up!Upgrade
    <2>3. QED
      BY <2>1, <2>2
  <1>10. ASSUME NEW r \in Up!Starter, Up!SelectMaster(r) PROVE CreatorInserts(s)'
    <2>1. CASE Up!Exit(r)
      BY <1>1, <1>10, <2>1 DEF Up!SelectMaster
    <2>2. CASE ~Up!Exit(r)
      BY <1>10, <2>2 DEF Up!SelectMaster
    <2>3. QED
      BY <2>1, <2>2
  <1>11. ASSUME NEW r \in Up!Starter, Up!CommitBootstrap(r) PROVE CreatorInserts(s)'
    BY <1>11 DEF Up!CommitBootstrap
  <1>12. ASSUME NEW r \in Up!Starter, Up!Die(r) PROVE CreatorInserts(s)'
    BY <1>1, <1>12 DEF Up!Die
  <1>13. CASE Up!DependenciesFail
    BY <1>13 DEF Up!DependenciesFail
  <1>14. CASE Up!DependenciesRecover
    BY <1>14 DEF Up!DependenciesRecover
  <1>15. QED
    BY <1>2, <1>3, <1>4, <1>5, <1>6, <1>7, <1>8, <1>9, <1>10, <1>11, <1>12, <1>13, <1>14
       DEF Up!Next

LEMMA KeysGuardedStep ==
    ASSUME StartupInv, Up!Next PROVE KeysGuarded'
  <1> USE StarterAssumption
      DEF StartupInv, StartupTypeOK, CreatorInserts, KeysGuarded, Up!Starter, Up!NeedsKey,
          Up!MoveTo, Up!Forget, Up!dbVars, Up!procVars
  <1>1. ASSUME NEW r \in Up!Starter, Up!Exit(r), unguarded' = unguarded
        PROVE  KeysGuarded'
    BY <1>1 DEF Up!Exit
  <1>2. ASSUME NEW r \in Up!Starter, Up!Healthy(r) PROVE KeysGuarded'
    BY <1>2 DEF Up!Healthy
  <1>3. ASSUME NEW r \in Up!Starter, Up!TakeLock(r) PROVE KeysGuarded'
    BY <1>3 DEF Up!TakeLock
  <1>4. ASSUME NEW r \in Up!Starter, Up!ReadRevision(r) PROVE KeysGuarded'
    BY <1>4 DEF Up!ReadRevision
  <1>5. ASSUME NEW r \in Up!Starter, Up!Unlock(r) PROVE KeysGuarded'
    BY <1>5 DEF Up!Unlock
  <1>6. ASSUME NEW r \in Up!Starter, Up!SelectAdmin(r) PROVE KeysGuarded'
    BY <1>6 DEF Up!SelectAdmin
  <1>7. ASSUME NEW r \in Up!Starter, Up!StartKeysInit(r) PROVE KeysGuarded'
    BY <1>7 DEF Up!StartKeysInit
  <1>8. ASSUME NEW r \in Up!Starter, Up!SelectEdge(r) PROVE KeysGuarded'
    BY <1>8 DEF Up!SelectEdge
  <1>9. ASSUME NEW r \in Up!Starter, Up!Upgrade(r) PROVE KeysGuarded'
    <2>1. CASE Up!Exit(r)
      BY <1>1, <1>9, <2>1 DEF Up!Upgrade
    <2>2. CASE ~Up!Exit(r)
      BY <1>9, <2>2 DEF Up!Upgrade
    <2>3. QED
      BY <2>1, <2>2
  <1>10. ASSUME NEW r \in Up!Starter, Up!SelectMaster(r) PROVE KeysGuarded'
    <2>1. CASE Up!Exit(r)
      BY <1>1, <1>10, <2>1 DEF Up!SelectMaster
    <2>2. CASE ~Up!Exit(r)
      BY <1>10, <2>2 DEF Up!SelectMaster
    <2>3. QED
      BY <2>1, <2>2
  <1>11. ASSUME NEW r \in Up!Starter, Up!CommitBootstrap(r) PROVE KeysGuarded'
    BY <1>11 DEF Up!CommitBootstrap
  <1>12. ASSUME NEW r \in Up!Starter, Up!Die(r) PROVE KeysGuarded'
    BY <1>1, <1>12 DEF Up!Die
  <1>13. CASE Up!DependenciesFail
    BY <1>13 DEF Up!DependenciesFail
  <1>14. CASE Up!DependenciesRecover
    BY <1>14 DEF Up!DependenciesRecover
  <1>15. QED
    BY <1>2, <1>3, <1>4, <1>5, <1>6, <1>7, <1>8, <1>9, <1>10, <1>11, <1>12, <1>13, <1>14
       DEF Up!Next

LEMMA StartupInvariance == Up!Spec => []StartupInv
  <1>1. StartupInv /\ Up!Next => StartupInv'
    BY StartupTypesStep, StartedStep, CreatorStep, KeysGuardedStep DEF StartupInv, Up!Starter
  <1>2. StartupInv /\ UNCHANGED Up!vars => StartupInv'
    BY DEF Up!vars, Up!dbVars, Up!procVars, StartupInv, StartupTypeOK, StartedSoFar,
           CreatorInserts, KeysGuarded, Up!Starter
  <1>3. QED
    BY <1>1, <1>2, StartupInvInit, PTL DEF Up!Spec

\* Whatever the database was like and whoever died on the way, a replica that
\* serves has the newest schema, a super admin and both signing keys.
THEOREM ReadyToServeHolds == Up!Spec => []ReadyToServe
  <1>1. StartupInv => ReadyToServe
    BY DEF StartupInv, StartedSoFar, ReadyToServe, Up!ReadyToServe, Up!Purpose, Up!Starter
  <1>2. QED
    BY <1>1, StartupInvariance, PTL

\* However many replicas start together, a purpose gets one key: unless two
\* processes were about to make it, one of which does not insert the super admin.
THEOREM OneKeyPerPurposeHolds == Up!Spec => []OneKeyPerPurpose
  <1>1. ASSUME NEW S, \A x, y \in S : x = y PROVE Cardinality(S) <= 1
    <2>1. CASE S = {}
      BY <2>1, FS_EmptySet
    <2>2. CASE S # {}
      <3>1. PICK x \in S : TRUE
        BY <2>2
      <3>2. S = {x}
        BY <1>1, <3>1
      <3>3. QED
        BY <3>2, FS_Singleton
    <2>3. QED
      BY <2>1, <2>2
  <1>2. StartupInv => OneKeyPerPurpose
    BY <1>1, InstancesCount DEF StartupInv, KeysGuarded, OneKeyPerPurpose, Up!OneKeyPerPurpose
  <1>3. QED
    BY <1>2, StartupInvariance, PTL

---------------------------------------------------------------------------
(* KeyCustody. *)

CustodyTypeOK ==
    /\ rekeyed \in BOOLEAN
    /\ env \in [Custody!Role -> [field: Custody!Setting, edge: Custody!Setting]]
    /\ kekFile \in [field: Custody!Setting, edge: Custody!Setting]
    /\ up \in SUBSET Custody!Role
    /\ sealed \in [Custody!Purpose -> Kek \cup {None}]

\* While the file keeps its KEKs, they open what the api has sealed with them.
FileOpens ==
    \A p \in Custody!Purpose :
        sealed[p] # None => rekeyed \/ sealed[p] = Custody!KekFor(kekFile, p)

\* The edge runs with a KEK of its own, since it is given no other.
EdgeHasKek == "edge" \in up => env["edge"].edge \in Kek

CustodyInv == CustodyTypeOK /\ FileOpens /\ EdgeHasKek

LEMMA CustodyInvInit == Custody!Init => CustodyInv
  <1> SUFFICES ASSUME Custody!Init PROVE CustodyInv
    OBVIOUS
  <1>1. Custody!NoSettings \in [field: Custody!Setting, edge: Custody!Setting]
    BY DEF Custody!NoSettings, Custody!Setting
  <1>2. kekFile \in [field: Custody!Setting, edge: Custody!Setting]
    BY DEF Custody!Init
  <1>3. CustodyTypeOK
    BY <1>1, <1>2 DEF Custody!Init, CustodyTypeOK
  <1>4. FileOpens /\ EdgeHasKek
    BY DEF Custody!Init, FileOpens, EdgeHasKek
  <1>5. QED
    BY <1>3, <1>4 DEF CustodyInv

\* What the check at the start of an edge comes to, given what it is started with.
LEMMA EdgeBoot ==
    Custody!BootAllowed("edge", Custody!SettingsOf("edge")) => kekFile.edge \in Kek
  <1>1. Custody!BootAllowed("edge", Custody!SettingsOf("edge")) =>
           Custody!Valid(IF Custody!SettingsOf("edge").edge # None
                         THEN Custody!SettingsOf("edge").edge
                         ELSE Custody!SettingsOf("edge").field)
    BY Zenon DEF Custody!BootAllowed
  <1>2. QED
    BY <1>1, KekAssumption DEF Custody!Valid, Custody!SettingsOf

LEMMA CustodyInvStep == ASSUME CustodyInv, Custody!Next PROVE CustodyInv'
  <1> USE DEF CustodyInv, CustodyTypeOK, FileOpens, EdgeHasKek
  <1>1. CASE Custody!Edit
    <2>1. /\ kekFile' \in [field: Custody!Setting, edge: Custody!Setting]
          /\ UNCHANGED <<env, up, sealed>>
      BY <1>1 DEF Custody!Edit
    <2>2. rekeyed' \in BOOLEAN
      BY <1>1, Zenon DEF Custody!Edit
    <2>3. \A p \in Custody!Purpose : sealed[p] # None => rekeyed' \/ kekFile' = kekFile
      BY <1>1 DEF Custody!Edit
    <2>4. rekeyed => rekeyed'
      BY <1>1 DEF Custody!Edit
    <2>5. FileOpens'
      BY <2>1, <2>3, <2>4 DEF Custody!KekFor
    <2>6. QED
      BY <2>1, <2>2, <2>5
  <1>2. CASE Custody!StartApi
    <2>1. /\ env' = [env EXCEPT !["api"] = Custody!SettingsOf("api")]
          /\ up' = up \cup {"api"}
          /\ UNCHANGED <<kekFile, rekeyed>>
      BY <1>2 DEF Custody!StartApi, Custody!fileVars
    <2>2. /\ \A p \in Custody!Purpose : sealed[p] = None => Custody!KekFor(kekFile, p) \in Kek
          /\ sealed' = [p \in Custody!Purpose |->
                          IF sealed[p] = None THEN Custody!KekFor(kekFile, p) ELSE sealed[p]]
      BY <1>2 DEF Custody!StartApi, Custody!EnsureKeys, Custody!Valid, Custody!KekFor,
                  Custody!SettingsOf
    <2>3. Custody!SettingsOf("api") \in [field: Custody!Setting, edge: Custody!Setting]
      BY DEF Custody!SettingsOf, Custody!Setting
    <2>4. sealed' \in [Custody!Purpose -> Kek \cup {None}] /\ FileOpens'
      BY <2>1, <2>2 DEF Custody!KekFor
    <2>5. QED
      BY <2>1, <2>3, <2>4 DEF Custody!Role
  <1>3. ASSUME NEW role \in Custody!Role, Custody!StartOther(role) PROVE CustodyInv'
    <2>1. /\ env' = [env EXCEPT ![role] = Custody!SettingsOf(role)]
          /\ up' = up \cup {role}
          /\ Custody!BootAllowed(role, Custody!SettingsOf(role))
          /\ UNCHANGED <<kekFile, rekeyed, sealed>>
      BY <1>3 DEF Custody!StartOther, Custody!fileVars
    <2>2. Custody!SettingsOf(role) \in [field: Custody!Setting, edge: Custody!Setting]
      BY DEF Custody!SettingsOf, Custody!Setting
    <2>3. FileOpens'
      BY <2>1 DEF Custody!KekFor
    <2>4. role = "edge" => Custody!SettingsOf(role).edge \in Kek
      BY <2>1, EdgeBoot DEF Custody!SettingsOf
    <2>5. QED
      BY <2>1, <2>2, <2>3, <2>4
  <1>4. ASSUME NEW role \in Custody!Role, Custody!Stop(role) PROVE CustodyInv'
    BY <1>4 DEF Custody!Stop, Custody!fileVars, Custody!NoSettings, Custody!Setting,
                Custody!KekFor
  <1>5. QED
    BY <1>1, <1>2, <1>3, <1>4 DEF Custody!Next

\* In whatever order the roles are started and the KEKs filled in, a role that runs
\* with the present edition of the file opens the key it signs with, unless a KEK
\* was changed after a key was made.
THEOREM ServingRolesSignHolds == Custody!Spec => []ServingRolesSign
  <1>1. ASSUME CustodyInv PROVE ServingRolesSign
    <2> SUFFICES ASSUME NEW role \in up, sealed[Custody!SigningPurpose(role)] # None,
                        ~rekeyed, env[role] = Custody!SettingsOf(role)
                 PROVE  Custody!Decrypts(role, Custody!SigningPurpose(role))
      BY DEF ServingRolesSign, Custody!ServingRolesSign
    <2> DEFINE p == Custody!SigningPurpose(role)
    <2>1. p \in Custody!Purpose /\ role \in Custody!Role
      BY <1>1 DEF Custody!SigningPurpose, Custody!Purpose, CustodyInv, CustodyTypeOK
    <2>2. sealed[p] = Custody!KekFor(kekFile, p) /\ sealed[p] \in Kek
      BY <1>1, <2>1 DEF CustodyInv, CustodyTypeOK, FileOpens
    <2>3. Custody!KekFor(env[role], p) = Custody!KekFor(kekFile, p)
      BY <1>1, <2>1, KekAssumption
         DEF Custody!KekFor, Custody!SettingsOf, Custody!SigningPurpose, Custody!Role,
             CustodyInv, EdgeHasKek
    <2>4. QED
      BY <2>2, <2>3 DEF Custody!Decrypts, Custody!Valid
  <1>2. CustodyInv /\ UNCHANGED Custody!vars => CustodyInv'
    BY DEF Custody!vars, Custody!fileVars, CustodyInv, CustodyTypeOK, FileOpens, EdgeHasKek,
           Custody!KekFor
  <1>3. QED
    BY <1>1, <1>2, CustodyInvInit, CustodyInvStep, PTL DEF Custody!Spec

---------------------------------------------------------------------------
(* DeploymentIdentity. *)

Host == [machine_id: Nat, mac: Nat, hostname: Nat, cpu: Nat \ {0}, dmi: Nat,
         container: BOOLEAN, uid: BOOLEAN, writable: BOOLEAN]

\* What never changes of a host, nor whether it has a machine-id.
SameKind(h, k) ==
    /\ h.container = k.container
    /\ h.uid = k.uid
    /\ h.machine_id = 0 <=> k.machine_id = 0

\* What a process of the host h can present.
Presented(h) == {Dep!IdentityOf(h, k, id) : k \in Nat, id \in Nat \ {0}}

DeploymentTypeOK ==
    /\ host \in Host /\ boundHost \in Host
    /\ file \in Nat /\ starts \in Nat
    /\ lost \in BOOLEAN
    /\ depPc \in [Process -> {"off", "creating", "writing", "running"}]
    /\ origin \in [Process -> Host]
    /\ identity = [p \in Process |-> identity[p]]

SameMachine ==
    /\ SameKind(host, boundHost)
    /\ \A p \in Process : SameKind(host, origin[p])

\* Everybody presents what its host was when it started, with an id of its own
\* making or the file's.
PresentsHost ==
    /\ \A p \in Process : IF depPc[p] = "off" THEN identity[p] = None
                         ELSE identity[p] \in Presented(origin[p])
    /\ binding # None => binding \in Presented(boundHost)

\* Unless an id was lost, there is one id: in the file, at the server and in every
\* process that runs.  While a process makes it, nobody else has any.
OneInstallId ==
    ~lost =>
        /\ binding # None => file # 0 /\ binding.install = file
        /\ \A p \in Process :
              /\ depPc[p] = "running" => file # 0 /\ identity[p].install = file
              /\ depPc[p] \in {"creating", "writing"} =>
                    /\ file = 0
                    /\ \A q \in Process : depPc[q] \in {"creating", "writing"} => q = p

DeploymentInv == DeploymentTypeOK /\ SameMachine /\ PresentsHost /\ OneInstallId

LEMMA DeploymentInvInit == Dep!Init => DeploymentInv
  <1> SUFFICES ASSUME Dep!Init PROVE DeploymentInv
    OBVIOUS
  <1>1. host \in Host
    BY DEF Dep!Init, Host
  <1>2. DeploymentTypeOK
    BY <1>1 DEF Dep!Init, DeploymentTypeOK
  <1>3. SameMachine
    BY DEF Dep!Init, SameMachine, SameKind
  <1>4. PresentsHost /\ OneInstallId
    BY DEF Dep!Init, PresentsHost, OneInstallId
  <1>5. QED
    BY <1>2, <1>3, <1>4 DEF DeploymentInv

\* What each change makes of a host.
LEMMA ChangedHost ==
    ASSUME NEW h \in Host
    PROVE  /\ Dep!Renamed(h) \in Host /\ SameKind(Dep!Renamed(h), h)
           /\ Dep!NewCard(h) \in Host /\ SameKind(Dep!NewCard(h), h)
           /\ Dep!Resized(h) \in Host /\ SameKind(Dep!Resized(h), h)
           /\ Dep!NewSystem(h) \in Host /\ SameKind(Dep!NewSystem(h), h)
  BY DEF Host, SameKind, Dep!Renamed, Dep!NewCard, Dep!Resized, Dep!NewSystem

LEMMA RecreatedHost ==
    ASSUME NEW h \in Host
    PROVE  /\ Dep!Recreated(h) \in Host /\ SameKind(Dep!Recreated(h), h)
           /\ Dep!Moved(h) \in Host /\ SameKind(Dep!Moved(h), h)
  <1>1. Dep!Recreated(h) \in Host /\ SameKind(Dep!Recreated(h), h)
    <2>1. /\ Dep!Renamed(h) \in Host /\ SameKind(Dep!Renamed(h), h)
          /\ Dep!NewCard(Dep!Renamed(h)) \in Host
          /\ SameKind(Dep!NewCard(Dep!Renamed(h)), Dep!Renamed(h))
      BY ChangedHost
    <2>2. QED
      BY <2>1 DEF Dep!Recreated, SameKind
  <1> DEFINE m == Dep!Resized(Dep!Recreated(h))
  <1>2. m \in Host /\ SameKind(m, h)
    BY <1>1, ChangedHost DEF SameKind
  <1>3. Dep!Moved(h) = [m EXCEPT !.dmi = IF @ = 0 THEN 0 ELSE @ + 1]
    BY DEF Dep!Moved
  <1> HIDE DEF m
  <1>4. QED
    BY <1>1, <1>2, <1>3 DEF Host, SameKind

\* However the host changes, it stays the machine it was.
LEMMA HostChangesKind ==
    ASSUME DeploymentInv, Dep!HostDrifts \/ Dep!HostRebuilt
    PROVE  /\ host' \in Host /\ SameMachine'
           /\ UNCHANGED <<depPc, identity, origin, binding, starts, boundHost>>
  <1> USE DEF DeploymentInv, DeploymentTypeOK
  <1>1. host' \in {Dep!Renamed(host), Dep!NewCard(host), Dep!Resized(host),
                   Dep!NewSystem(host), Dep!Recreated(host), Dep!Moved(host)}
    BY DEF Dep!HostDrifts, Dep!HostRebuilt
  <1>2. host' \in Host /\ SameKind(host', host)
    BY <1>1, ChangedHost, RecreatedHost
  <1>3. UNCHANGED <<depPc, identity, origin, binding, starts, boundHost>>
    BY DEF Dep!HostDrifts, Dep!HostRebuilt
  <1>4. QED
    BY <1>2, <1>3 DEF SameMachine, SameKind

LEMMA DeploymentTypesStep ==
    ASSUME DeploymentInv, Dep!Next PROVE DeploymentTypeOK' /\ SameMachine'
  <1> USE DEF DeploymentInv, DeploymentTypeOK, SameMachine
  <1>1. ASSUME NEW p \in Process, Dep!Start(p) PROVE DeploymentTypeOK' /\ SameMachine'
    <2>1. lost' \in BOOLEAN
      BY <1>1 DEF Dep!Start
    <2>2. /\ UNCHANGED <<host, file, boundHost>>
          /\ starts' = starts + 1
          /\ origin' = [origin EXCEPT ![p] = host]
          /\ depPc' \in [Process -> {"off", "creating", "writing", "running"}]
      BY <1>1 DEF Dep!Start
    <2>3. identity' = [q \in Process |-> identity'[q]]
      <3>1. PICK x : identity' = [identity EXCEPT ![p] = x]
        BY <1>1 DEF Dep!Start
      <3>2. QED
        BY <3>1
    <2>4. DeploymentTypeOK'
      <3>1. origin' \in [Process -> Host]
        BY <2>2
      <3>2. starts' \in Nat
        BY <2>2
      <3>3. QED
        BY <2>1, <2>2, <2>3, <3>1, <3>2
    <2>5. SameMachine'
      BY <2>2 DEF SameKind
    <2>6. QED
      BY <2>4, <2>5
  <1>2. ASSUME NEW p \in Process, Dep!TruncateFile(p)
        PROVE  DeploymentTypeOK' /\ SameMachine'
    BY <1>2 DEF Dep!TruncateFile
  <1>3. ASSUME NEW p \in Process, Dep!WriteFile(p)
        PROVE  DeploymentTypeOK' /\ SameMachine'
    <2>1. PICK k \in Nat, id \in Nat \ {0} : identity[p] = Dep!IdentityOf(origin[p], k, id)
      BY <1>3 DEF Dep!WriteFile, PresentsHost, Presented
    <2>2. file' = id
      BY <1>3, <2>1 DEF Dep!WriteFile, Dep!IdentityOf
    <2>3. QED
      BY <1>3, <2>2 DEF Dep!WriteFile
  <1>4. ASSUME NEW p \in Process, Dep!Stop(p) \/ Dep!ActivateFirst(p) \/ Dep!ActivateAgain(p)
        PROVE  DeploymentTypeOK' /\ SameMachine'
    <2>1. CASE Dep!Stop(p)
      BY <2>1 DEF Dep!Stop
    <2>2. CASE Dep!ActivateFirst(p) \/ Dep!ActivateAgain(p)
      <3>1. /\ boundHost' = origin[p]
            /\ UNCHANGED <<host, file, depPc, identity, origin, starts, lost>>
        BY <2>2 DEF Dep!ActivateFirst, Dep!ActivateAgain
      <3>2. QED
        BY <3>1 DEF SameKind
    <2>3. QED
      BY <1>4, <2>1, <2>2
  <1>5. CASE Dep!HostDrifts \/ Dep!HostRebuilt
    <2>1. lost' \in BOOLEAN
      BY <1>5 DEF Dep!HostDrifts, Dep!HostRebuilt
    <2>2. file' \in Nat
      BY <1>5 DEF Dep!HostDrifts, Dep!HostRebuilt
    <2>3. host' \in Host /\ SameMachine'
      BY <1>5, HostChangesKind
    <2>4. UNCHANGED <<depPc, identity, origin, starts, boundHost>>
      BY <1>5, HostChangesKind
    <2>5. QED
      BY <2>1, <2>2, <2>3, <2>4
  <1>6. QED
    BY <1>1, <1>2, <1>3, <1>4, <1>5 DEF Dep!Next

LEMMA PresentsHostStep ==
    ASSUME DeploymentInv, Dep!Next PROVE PresentsHost'
  <1> USE DEF DeploymentInv, DeploymentTypeOK, PresentsHost
  <1>1. ASSUME NEW p \in Process, Dep!Start(p) PROVE PresentsHost'
    <2>1. PICK id \in Nat \ {0} :
             identity' = [identity EXCEPT ![p] = Dep!IdentityOf(host, starts + 1, id)]
      BY <1>1 DEF Dep!Start, Dep!Usable
    <2>2. Dep!IdentityOf(host, starts + 1, id) \in Presented(host)
      BY DEF Presented
    <2>3. UNCHANGED <<boundHost, binding>> /\ origin' = [origin EXCEPT ![p] = host]
      BY <1>1 DEF Dep!Start
    <2>4. depPc'[p] # "off" /\ \A q \in Process \ {p} : depPc'[q] = depPc[q]
      BY <1>1 DEF Dep!Start
    <2>5. \A q \in Process : IF depPc'[q] = "off" THEN identity'[q] = None
                            ELSE identity'[q] \in Presented(origin'[q])
      BY <2>1, <2>2, <2>3, <2>4
    <2>6. QED
      BY <2>3, <2>5
  <1>2. ASSUME NEW p \in Process, Dep!TruncateFile(p) \/ Dep!WriteFile(p)
        PROVE  PresentsHost'
    BY <1>2 DEF Dep!TruncateFile, Dep!WriteFile
  <1>3. ASSUME NEW p \in Process, Dep!Stop(p) PROVE PresentsHost'
    BY <1>3 DEF Dep!Stop
  <1>4. ASSUME NEW p \in Process, Dep!ActivateFirst(p) \/ Dep!ActivateAgain(p)
        PROVE  PresentsHost'
    BY <1>4 DEF Dep!ActivateFirst, Dep!ActivateAgain
  <1>5. CASE Dep!HostDrifts \/ Dep!HostRebuilt
    BY <1>5, HostChangesKind
  <1>6. QED
    BY <1>1, <1>2, <1>3, <1>4, <1>5 DEF Dep!Next

\* What the identities of a host have in common.
LEMMA PresentedFields ==
    ASSUME NEW h, NEW x \in Presented(h)
    PROVE  /\ x.install \in Nat \ {0}
           /\ x.uid = Dep!DeploymentUid(h)
           /\ x.sig = Dep!Signals(h)
           /\ h.machine_id # 0 => x.fp = <<"linux", h.machine_id, 0>>
           /\ h.machine_id = 0 /\ h.mac # 0 => x.fp = <<"fallback", h.hostname, h.mac>>
  BY DEF Presented, Dep!IdentityOf, Dep!RawMachineId

LEMMA OneInstallIdStep ==
    ASSUME DeploymentInv, Dep!Next PROVE OneInstallId'
  <1> SUFFICES ASSUME ~lost' PROVE OneInstallId'
    BY DEF OneInstallId
  <1> USE DEF DeploymentInv, DeploymentTypeOK, PresentsHost, OneInstallId
  <1>1. ASSUME NEW p \in Process, Dep!Start(p) PROVE OneInstallId'
    <2>1. ~lost /\ UNCHANGED <<file, binding>>
      BY <1>1 DEF Dep!Start
    <2>2. CASE file # 0
      <3>1. /\ identity' = [identity EXCEPT ![p] = Dep!IdentityOf(host, starts + 1, file)]
            /\ depPc' = [depPc EXCEPT ![p] = "running"]
        BY <1>1, <2>2 DEF Dep!Start, Dep!Usable
      <3>2. identity'[p].install = file
        BY <3>1 DEF Dep!IdentityOf
      <3>3. QED
        BY <2>1, <2>2, <3>1, <3>2
    <2>3. CASE file = 0
      <3>1. /\ host.writable
            /\ \A q \in Process : depPc[q] \notin {"creating", "writing"}
            /\ depPc' = [depPc EXCEPT ![p] = "creating"]
        BY <1>1, <2>1, <2>3 DEF Dep!Start, Dep!Usable
      <3>2. \A q \in Process : depPc[q] = "off"
        BY <2>1, <2>3, <3>1
      <3>3. QED
        BY <2>1, <2>3, <3>1, <3>2
    <2>4. QED
      BY <2>2, <2>3
  <1>2. ASSUME NEW p \in Process, Dep!TruncateFile(p) PROVE OneInstallId'
    BY <1>2 DEF Dep!TruncateFile
  <1>3. ASSUME NEW p \in Process, Dep!WriteFile(p) PROVE OneInstallId'
    <2>1. /\ depPc[p] = "writing" /\ ~lost
          /\ file' = identity[p].install
          /\ depPc' = [depPc EXCEPT ![p] = "running"]
          /\ UNCHANGED <<identity, binding>>
      BY <1>3 DEF Dep!WriteFile
    <2>2. file = 0 /\ binding = None
      BY <2>1
    <2>3. \A q \in Process \ {p} : depPc[q] = "off"
      BY <2>1, <2>2
    <2>4. file' # 0
      BY <2>1, PresentedFields
    <2>5. QED
      BY <2>1, <2>2, <2>3, <2>4
  <1>4. ASSUME NEW p \in Process, Dep!Stop(p) PROVE OneInstallId'
    BY <1>4 DEF Dep!Stop
  <1>5. ASSUME NEW p \in Process, Dep!ActivateFirst(p) \/ Dep!ActivateAgain(p)
        PROVE  OneInstallId'
    BY <1>5 DEF Dep!ActivateFirst, Dep!ActivateAgain
  <1>6. CASE Dep!HostDrifts \/ Dep!HostRebuilt
    <2>1. ~lost /\ file' = file /\ UNCHANGED <<depPc, identity, binding>>
      BY <1>6 DEF Dep!HostDrifts, Dep!HostRebuilt
    <2>2. QED
      BY <2>1
  <1>7. QED
    BY <1>1, <1>2, <1>3, <1>4, <1>5, <1>6 DEF Dep!Next

LEMMA DeploymentInvariance == Dep!Spec => []DeploymentInv
  <1>1. DeploymentInv /\ Dep!Next => DeploymentInv'
    BY DeploymentTypesStep, PresentsHostStep, OneInstallIdStep DEF DeploymentInv
  <1>2. DeploymentInv /\ UNCHANGED Dep!vars => DeploymentInv'
    BY DEF Dep!vars, DeploymentInv, DeploymentTypeOK, SameMachine, SameKind, PresentsHost,
           OneInstallId
  <1>3. QED
    BY <1>1, <1>2, DeploymentInvInit, PTL DEF Dep!Spec

\* The server refuses the deployment it knows because of the install_id only if
\* that was lost.
THEOREM RefusedOnlyIfIdLostHolds == Dep!Spec => []RefusedOnlyIfIdLost
  <1>1. DeploymentInv => RefusedOnlyIfIdLost
    BY DEF DeploymentInv, OneInstallId, RefusedOnlyIfIdLost, Dep!RefusedOnlyIfIdLost,
           Dep!InstallClash
  <1>2. QED
    BY <1>1, DeploymentInvariance, PTL

LEMMA PairFinite == \A a, b : IsFiniteSet({a, b})
  <1> TAKE a, b
  <1>1. IsFiniteSet({a} \cup {b})
    BY FS_Singleton, FS_Union
  <1>2. {a} \cup {b} = {a, b}
    OBVIOUS
  <1>3. QED
    BY <1>1, <1>2, Zenon

LEMMA SignalsFinite == \A h : IsFiniteSet(Dep!Signals(h))
  <1> TAKE h
  <1>1. IsFiniteSet({<<"cpu_sig", h.cpu>>})
    BY FS_Singleton
  <1>2. IsFiniteSet({<<"machine_id", h.machine_id>>, <<"mac", h.mac>>})
    BY PairFinite
  <1>3. IsFiniteSet({"dmi_product_uuid", "board_serial", "disk_serial"} \X {h.dmi})
    <2>1. IsFiniteSet({"dmi_product_uuid", "board_serial"} \cup {"disk_serial"})
      BY PairFinite, FS_Singleton, FS_Union
    <2>2. {"dmi_product_uuid", "board_serial", "disk_serial"} =
             {"dmi_product_uuid", "board_serial"} \cup {"disk_serial"}
      OBVIOUS
    <2>3. IsFiniteSet({"dmi_product_uuid", "board_serial", "disk_serial"})
      BY <2>1, <2>2, Zenon
    <2>4. QED
      BY <2>3, FS_Singleton, FS_Product
  <1>4. IsFiniteSet(Dep!FirmwareSignals(h))
    BY <1>3, FS_EmptySet DEF Dep!FirmwareSignals
  <1>5. IsFiniteSet({s \in {<<"machine_id", h.machine_id>>, <<"mac", h.mac>>} : s[2] # 0})
    BY <1>2, FS_Subset
  <1>6. QED
    BY <1>1, <1>4, <1>5, FS_Union DEF Dep!Signals

\* Two signals that agree are enough.
LEMMA TwoSignalsMatch ==
    ASSUME NEW h, NEW S, NEW x \in Dep!Signals(h) \cap S, NEW y \in Dep!Signals(h) \cap S,
           x # y
    PROVE  Cardinality(Dep!Signals(h) \cap S) >= 2
  <1>1. IsFiniteSet(Dep!Signals(h) \cap S)
    BY SignalsFinite, FS_Intersection
  <1>2. IsFiniteSet({x}) /\ Cardinality({x}) = 1
    BY FS_Singleton
  <1>3. Cardinality({x} \cup {y}) = 2
    BY <1>2, FS_AddElement
  <1>4. {x} \cup {y} \subseteq Dep!Signals(h) \cap S
    OBVIOUS
  <1>5. /\ Cardinality({x} \cup {y}) <= Cardinality(Dep!Signals(h) \cap S)
        /\ Cardinality(Dep!Signals(h) \cap S) \in Nat
    BY <1>1, <1>4, FS_Subset, FS_CardinalityType
  <1>6. QED
    BY <1>3, <1>5

\* A deployment that activated keeps its seat while it keeps its uid, its
\* machine-id, its board for root, its card and its processors, or, without a
\* machine-id, its name and its card.
THEOREM HostRecognisedHolds == Dep!Spec => []HostRecognised
  <1>1. ASSUME DeploymentInv, NEW p \in Process, depPc[p] = "running", binding # None,
               \/ origin[p].container /\ origin[p].uid
               \/ "machine_id" \in Dep!Kept(origin[p])
               \/ "dmi" \in Dep!Kept(origin[p])
               \/ {"mac", "cpu"} \subseteq Dep!Kept(origin[p])
               \/ origin[p].machine_id = 0 /\ {"hostname", "mac"} \subseteq Dep!Kept(origin[p])
        PROVE  Dep!Recognised(identity[p])
    <2> DEFINE q == identity[p]
               h == origin[p]
               rows == [b \in {1} |-> binding]
    <2>1. /\ q \in Presented(h) /\ binding \in Presented(boundHost)
          /\ h.container = boundHost.container /\ h.uid = boundHost.uid
          /\ h.machine_id = 0 <=> boundHost.machine_id = 0
      BY <1>1 DEF DeploymentInv, PresentsHost, SameMachine, SameKind
    <2>2. q.uid = binding.uid
      BY <2>1, PresentedFields DEF Dep!DeploymentUid
    <2>3. q.sig = Dep!Signals(h) /\ binding.sig = Dep!Signals(boundHost)
      BY <2>1, PresentedFields
    <2> HIDE DEF q
    <2>4. SUFFICES \/ q.uid # None
                   \/ binding.fp = q.fp
                   \/ Cardinality(binding.sig \cap q.sig) >= 2
      BY <2>2, InstancesCount
         DEF Dep!Recognised, Dep!Matches, Dep!SameUid, Dep!SameHardware, Dep!DriftedHardware,
             Dep!FuzzyMin, q
    <2> HIDE DEF h
    <2>5. CASE h.container /\ h.uid
      BY <2>1, <2>5, PresentedFields, UidAssumption DEF Dep!DeploymentUid
    <2>6. CASE "machine_id" \in Dep!Kept(h)
      BY <2>1, <2>6, PresentedFields DEF Dep!Kept
    <2>7. CASE {"mac", "cpu"} \subseteq Dep!Kept(h)
      <3>1. h.mac = boundHost.mac /\ h.mac # 0 /\ h.cpu = boundHost.cpu
        BY <2>7 DEF Dep!Kept
      <3>2. {<<"cpu_sig", h.cpu>>, <<"mac", h.mac>>} \subseteq
               Dep!Signals(boundHost) \cap Dep!Signals(h)
        BY <3>1 DEF Dep!Signals
      <3>3. QED
        BY <2>3, <3>2, TwoSignalsMatch
    <2>8. CASE "dmi" \in Dep!Kept(h)
      <3>1. h.dmi = boundHost.dmi /\ h.dmi # 0
        BY <2>8 DEF Dep!Kept
      <3>2. {<<"disk_serial", h.dmi>>, <<"board_serial", h.dmi>>} \subseteq
               Dep!Signals(boundHost) \cap Dep!Signals(h)
        BY <3>1 DEF Dep!Signals, Dep!FirmwareSignals
      <3>3. QED
        BY <2>3, <3>2, TwoSignalsMatch
    <2>9. CASE h.machine_id = 0 /\ {"hostname", "mac"} \subseteq Dep!Kept(h)
      <3>1. h.mac = boundHost.mac /\ h.mac # 0 /\ h.hostname = boundHost.hostname
        BY <2>9 DEF Dep!Kept
      <3>2. /\ q.fp = <<"fallback", h.hostname, h.mac>>
            /\ binding.fp = <<"fallback", boundHost.hostname, boundHost.mac>>
        BY <2>1, <2>9, <3>1, PresentedFields
      <3>3. QED
        BY <3>1, <3>2
    <2>10. QED
      BY <1>1, <2>5, <2>6, <2>7, <2>8, <2>9 DEF h
  <1>2. DeploymentInv => HostRecognised
    BY <1>1 DEF HostRecognised, Dep!HostRecognised
  <1>3. QED
    BY <1>2, DeploymentInvariance, PTL

---------------------------------------------------------------------------
(* SchemaMigrations. *)

Schema(r) == UNION {Mig!Creates[i] : i \in 1..r}

MigratedDatabase ==
    [revision: 0..6, schema: SUBSET Schema(6), licences: SUBSET License,
     revocations: SUBSET License, orphans: SUBSET License, listed: SUBSET License,
     dead: BOOLEAN, ok: BOOLEAN]

\* A database as the revision r leaves it and the server of the last one uses it:
\* what was deleted under a revocation is an orphan, and only the last revision
\* has orphans.
SoundAt(r, d) ==
    /\ d \in MigratedDatabase
    /\ d.revision = r /\ d.ok
    /\ d.schema = Schema(r)
    /\ d.revocations \ d.licences \subseteq d.orphans
    /\ r < 6 => d.orphans = {}

MigrationInv ==
    /\ db.revision \in 0..6 /\ SoundAt(db.revision, db)
    /\ ~stuck
    /\ revoked \subseteq db.revocations
    /\ db.revision = 6 => revoked \subseteq db.listed

LEMMA MigrationInvInit == Mig!Init => MigrationInv
  BY DEF Mig!Init, Mig!EmptyDatabase, MigrationInv, SoundAt, Schema, MigratedDatabase

\* No revision creates what another one has created, and it drops what it creates.
LEMMA RevisionsApart ==
    /\ \A i, j \in 1..6 : i # j => Mig!Creates[i] \cap Mig!Creates[j] = {}
    /\ \A i \in 1..6 : Mig!Drops[i] = Mig!Creates[i]
  <1> USE DEF Mig!UsersSchema, Mig!AuditSchema, Mig!CoreSchema, Mig!AvatarSchema,
              Mig!AnticloneSchema, Mig!DenormSchema
  <1>1. \A i \in 1..6 : Mig!Drops[i] = Mig!Creates[i]
    <2>1. Mig!CoreDropped = Mig!CoreSchema
      BY DEF Mig!CoreDropped
    <2>2. Mig!Drops = Mig!Creates
      BY <2>1 DEF Mig!Creates, Mig!Drops
    <2>3. QED
      BY <2>2
  <1>2. ASSUME NEW i \in 1..6, NEW j \in 1..6, i < j
        PROVE  Mig!Creates[i] \cap Mig!Creates[j] = {}
    BY <1>2 DEF Mig!Creates
  <1>3. QED
    BY <1>1, <1>2

LEMMA SchemaGrows ==
    ASSUME NEW r \in 1..6
    PROVE  /\ Schema(r) = Schema(r - 1) \cup Mig!Creates[r]
           /\ Schema(r - 1) \cap Mig!Creates[r] = {}
  <1>1. 1..r = (1..r - 1) \cup {r}
    OBVIOUS
  <1>2. \A i \in 1..r - 1 : i \in 1..6 /\ i # r
    OBVIOUS
  <1>3. QED
    BY <1>1, <1>2, RevisionsApart DEF Schema

\* A revision turns databases into databases.
LEMMA UpDatabase ==
    ASSUME NEW r \in 1..6, NEW d \in MigratedDatabase
    PROVE  Mig!Up(r, d) \in MigratedDatabase
  <1> DEFINE schema == d.schema \cup Mig!Creates[r]
             listed == IF r = 6 THEN Mig!Backfilled(d) ELSE d.listed
             ok == d.ok /\ Mig!Creates[r] \cap d.schema = {}
  <1>1. schema \in SUBSET Schema(6) /\ listed \in SUBSET License
    BY DEF MigratedDatabase, Mig!Backfilled, Schema
  <1>2. ok \in BOOLEAN
    OBVIOUS
  <1>3. r \in 0..6
    OBVIOUS
  <1>4. Mig!Up(r, d) = [d EXCEPT !.revision = r, !.schema = schema, !.listed = listed, !.ok = ok]
    BY DEF Mig!Up
  <1> HIDE DEF schema, listed, ok
  <1>5. QED
    BY <1>1, <1>2, <1>3, <1>4 DEF MigratedDatabase

LEMMA DownDatabase ==
    ASSUME NEW r \in 1..6, NEW d \in MigratedDatabase
    PROVE  Mig!Down(r, d) \in MigratedDatabase
  <1> DEFINE schema == d.schema \ Mig!Drops[r]
             licences == IF r = 3 THEN {} ELSE d.licences
             revocations == IF r = 3 THEN {} ELSE d.revocations
             orphans == IF r = 3 THEN {} ELSE d.orphans
             listed == IF r = 6 THEN {} ELSE d.listed
             dead == d.dead /\ ~(r = 3)
             ok == /\ d.ok /\ Mig!Drops[r] \subseteq d.schema
                   /\ r = 6 => ~Mig!NullsRefused(d)
                   /\ r = 5 => ~Mig!DeadRefused(d)
  <1>1. /\ schema \in SUBSET Schema(6) /\ licences \in SUBSET License
        /\ revocations \in SUBSET License /\ orphans \in SUBSET License
        /\ listed \in SUBSET License
    BY DEF MigratedDatabase
  <1>2. dead \in BOOLEAN /\ ok \in BOOLEAN
    OBVIOUS
  <1>3. r - 1 \in 0..6
    OBVIOUS
  <1>4. Mig!Down(r, d) =
           [d EXCEPT !.revision = r - 1, !.schema = schema, !.licences = licences,
                     !.revocations = revocations, !.orphans = orphans, !.listed = listed,
                     !.dead = dead, !.ok = ok]
    BY DEF Mig!Down
  <1> HIDE DEF schema, licences, revocations, orphans, listed, dead, ok
  <1>5. QED
    BY <1>1, <1>2, <1>3, <1>4 DEF MigratedDatabase

LEMMA UpSound ==
    ASSUME NEW r \in 1..6, NEW d, SoundAt(r - 1, d)
    PROVE  /\ SoundAt(r, Mig!Up(r, d))
           /\ Mig!Up(r, d).revocations = d.revocations
           /\ r = 6 => Mig!Up(r, d).listed = d.revocations
  <1>1. Mig!Creates[r] \cap d.schema = {} /\ d.schema \cup Mig!Creates[r] = Schema(r)
    BY SchemaGrows DEF SoundAt
  <1>2. d.orphans = {}
    BY DEF SoundAt
  <1>3. Mig!Backfilled(d) = d.revocations
    BY <1>2 DEF SoundAt, Mig!Backfilled
  <1>4. d \in MigratedDatabase /\ Mig!Up(r, d) \in MigratedDatabase
    BY UpDatabase DEF SoundAt
  <1>5. /\ Mig!Up(r, d).revision = r /\ Mig!Up(r, d).ok
        /\ Mig!Up(r, d).schema = Schema(r)
        /\ Mig!Up(r, d).orphans = d.orphans
        /\ Mig!Up(r, d).licences = d.licences
        /\ Mig!Up(r, d).revocations = d.revocations
        /\ r = 6 => Mig!Up(r, d).listed = d.revocations
    BY <1>1, <1>3, <1>4 DEF SoundAt, Mig!Up, MigratedDatabase
  <1>6. QED
    BY <1>2, <1>4, <1>5 DEF SoundAt

\* A downgrade that fails in one revision has failed.
LEMMA StillOk ==
    ASSUME NEW r \in 1..6, NEW d \in MigratedDatabase, Mig!Down(r, d).ok
    PROVE  d.ok
  BY DEF Mig!Down, MigratedDatabase

LEMMA DownSound ==
    ASSUME NEW r \in 1..6, NEW d, SoundAt(r, d), Mig!Down(r, d).ok
    PROVE  /\ SoundAt(r - 1, Mig!Down(r, d))
           /\ r > 3 => Mig!Down(r, d).revocations = d.revocations
  <1>1. d.schema \ Mig!Drops[r] = Schema(r - 1)
    BY SchemaGrows, RevisionsApart DEF SoundAt
  <1>2. d \in MigratedDatabase /\ Mig!Down(r, d) \in MigratedDatabase
    BY DownDatabase DEF SoundAt
  <1>3. r = 6 => ~Mig!NullsRefused(d)
    BY <1>2 DEF Mig!Down, MigratedDatabase
  <1>4. d.orphans = {}
    BY <1>3 DEF SoundAt, Mig!NullsRefused
  <1>5. /\ Mig!Down(r, d).revision = r - 1
        /\ Mig!Down(r, d).schema = Schema(r - 1)
        /\ Mig!Down(r, d).orphans = {}
        /\ Mig!Down(r, d).licences = IF r = 3 THEN {} ELSE d.licences
        /\ Mig!Down(r, d).revocations = IF r = 3 THEN {} ELSE d.revocations
    BY <1>1, <1>2, <1>4 DEF Mig!Down, MigratedDatabase
  <1>6. QED
    BY <1>2, <1>4, <1>5 DEF SoundAt

\* An upgrade finds nothing in its way, wherever it begins, and lists what is
\* revoked.  The recursion of six steps is a function: the one that is written out.
LEMMA UpgradeSound ==
    ASSUME MigrationInv, db.revision < 6
    PROVE  /\ SoundAt(6, Mig!Upgraded)
           /\ Mig!Upgraded.revocations = db.revocations
           /\ Mig!Upgraded.listed = db.revocations
  <1> DEFINE F(g) == [r \in 0..6 |-> IF r <= db.revision THEN db ELSE Mig!Up(r, g[r - 1])]
             u0 == db
             u1 == IF 1 <= db.revision THEN db ELSE Mig!Up(1, u0)
             u2 == IF 2 <= db.revision THEN db ELSE Mig!Up(2, u1)
             u3 == IF 3 <= db.revision THEN db ELSE Mig!Up(3, u2)
             u4 == IF 4 <= db.revision THEN db ELSE Mig!Up(4, u3)
             u5 == IF 5 <= db.revision THEN db ELSE Mig!Up(5, u4)
             u6 == IF 6 <= db.revision THEN db ELSE Mig!Up(6, u5)
             written == [n \in 0..6 |-> IF n = 0 THEN u0
                      ELSE IF n = 1 THEN u1
                      ELSE IF n = 2 THEN u2
                      ELSE IF n = 3 THEN u3
                      ELSE IF n = 4 THEN u4
                      ELSE IF n = 5 THEN u5
                      ELSE u6]
             upTo == CHOOSE g : g = F(g)
  <1>1. db.revision \in 0..5 /\ SoundAt(db.revision, db)
    BY DEF MigrationInv
  <1>2. written = F(written)
    <2> HIDE DEF u0, u1, u2, u3, u4, u5, u6
    <2>1. u0 = db
      BY DEF u0
    <2>2. u1 = IF 1 <= db.revision THEN db ELSE Mig!Up(1, u0)
      BY DEF u1
    <2>3. u2 = IF 2 <= db.revision THEN db ELSE Mig!Up(2, u1)
      BY DEF u2
    <2>4. u3 = IF 3 <= db.revision THEN db ELSE Mig!Up(3, u2)
      BY DEF u3
    <2>5. u4 = IF 4 <= db.revision THEN db ELSE Mig!Up(4, u3)
      BY DEF u4
    <2>6. u5 = IF 5 <= db.revision THEN db ELSE Mig!Up(5, u4)
      BY DEF u5
    <2>7. u6 = IF 6 <= db.revision THEN db ELSE Mig!Up(6, u5)
      BY DEF u6
    <2>8. ASSUME NEW r \in 0..6
          PROVE  written[r] = IF r <= db.revision THEN db ELSE Mig!Up(r, written[r - 1])
      BY <1>1, <2>1, <2>2, <2>3, <2>4, <2>5, <2>6, <2>7
    <2> HIDE DEF written
    <2>9. written = [r \in 0..6 |-> written[r]]
      BY DEF written
    <2>10. QED
      BY <2>8, <2>9
  <1> HIDE DEF written
  <1>3. upTo = F(upTo)
    BY <1>2
  <1>4. Mig!Upgraded = upTo[6]
    BY DEF Mig!Upgraded, Mig!Head
  <1> HIDE DEF upTo
  <1> DEFINE Reached(r) ==
               IF r <= db.revision THEN upTo[r] = db
               ELSE /\ SoundAt(r, upTo[r])
                    /\ upTo[r].revocations = db.revocations
                    /\ r = 6 => upTo[r].listed = db.revocations
  <1>5. Reached(0)
    BY <1>1, <1>3
  <1>6. ASSUME NEW r \in 1..6, Reached(r - 1) PROVE Reached(r)
    <2>1. CASE r <= db.revision
      BY <1>3, <2>1
    <2>2. CASE ~(r <= db.revision)
      <3>1. upTo[r] = Mig!Up(r, upTo[r - 1])
        BY <1>3, <2>2
      <3>2. SoundAt(r - 1, upTo[r - 1]) /\ upTo[r - 1].revocations = db.revocations
        BY <1>1, <1>6, <2>2
      <3>3. QED
        BY <2>2, <3>1, <3>2, UpSound
    <2>3. QED
      BY <2>1, <2>2
  <1> HIDE DEF Reached
  <1>7. Reached(1)
    BY <1>5, <1>6
  <1>8. Reached(2)
    BY <1>6, <1>7
  <1>9. Reached(3)
    BY <1>6, <1>8
  <1>10. Reached(4)
    BY <1>6, <1>9
  <1>11. Reached(5)
    BY <1>6, <1>10
  <1>12. Reached(6)
    BY <1>6, <1>11
  <1>13. QED
    BY <1>1, <1>4, <1>12 DEF Reached

\* A downgrade that succeeds leaves a database that some revision would leave, and
\* keeps the revocations unless it drops their table.
LEMMA DowngradeSound ==
    ASSUME MigrationInv, NEW steps \in 1..6, steps <= db.revision, Mig!Downgraded(steps).ok
    PROVE  /\ SoundAt(db.revision - steps, Mig!Downgraded(steps))
           /\ db.revision - steps >= 3 => Mig!Downgraded(steps).revocations = db.revocations
  <1> DEFINE F(g) == [n \in 0..steps |-> IF n = 0 THEN db
                                        ELSE Mig!Down(db.revision - n + 1, g[n - 1])]
             d0 == db
             d1 == Mig!Down(db.revision - 1 + 1, d0)
             d2 == Mig!Down(db.revision - 2 + 1, d1)
             d3 == Mig!Down(db.revision - 3 + 1, d2)
             d4 == Mig!Down(db.revision - 4 + 1, d3)
             d5 == Mig!Down(db.revision - 5 + 1, d4)
             d6 == Mig!Down(db.revision - 6 + 1, d5)
             written == [n \in 0..steps |-> IF n = 0 THEN d0
                      ELSE IF n = 1 THEN d1
                      ELSE IF n = 2 THEN d2
                      ELSE IF n = 3 THEN d3
                      ELSE IF n = 4 THEN d4
                      ELSE IF n = 5 THEN d5
                      ELSE d6]
             down == CHOOSE g : g = F(g)
  <1>1. db.revision \in 0..6 /\ SoundAt(db.revision, db)
    BY DEF MigrationInv
  <1>2. written = F(written)
    <2> HIDE DEF d0, d1, d2, d3, d4, d5, d6
    <2>1. d0 = db
      BY DEF d0
    <2>2. d1 = Mig!Down(db.revision - 1 + 1, d0)
      BY DEF d1
    <2>3. d2 = Mig!Down(db.revision - 2 + 1, d1)
      BY DEF d2
    <2>4. d3 = Mig!Down(db.revision - 3 + 1, d2)
      BY DEF d3
    <2>5. d4 = Mig!Down(db.revision - 4 + 1, d3)
      BY DEF d4
    <2>6. d5 = Mig!Down(db.revision - 5 + 1, d4)
      BY DEF d5
    <2>7. d6 = Mig!Down(db.revision - 6 + 1, d5)
      BY DEF d6
    <2>8. ASSUME NEW n \in 0..steps
          PROVE  written[n] = IF n = 0 THEN db ELSE Mig!Down(db.revision - n + 1, written[n - 1])
      BY <2>1, <2>2, <2>3, <2>4, <2>5, <2>6, <2>7
    <2> HIDE DEF written
    <2>9. written = [n \in 0..steps |-> written[n]]
      BY DEF written
    <2>10. QED
      BY <2>8, <2>9
  <1> HIDE DEF written
  <1>3. down = F(down)
    BY <1>2
  <1>4. Mig!Downgraded(steps) = down[steps]
    BY DEF Mig!Downgraded
  <1> HIDE DEF down
  <1> DEFINE Reached(n) ==
               n <= steps =>
                  /\ down[n] \in MigratedDatabase
                  /\ down[n].ok =>
                        /\ SoundAt(db.revision - n, down[n])
                        /\ db.revision - n >= 3 => down[n].revocations = db.revocations
  <1>5. Reached(0)
    BY <1>1, <1>3 DEF SoundAt
  <1>6. ASSUME NEW n \in 1..6, Reached(n - 1) PROVE Reached(n)
    <2> DEFINE r == db.revision - n + 1
    <2> SUFFICES ASSUME n <= steps PROVE Reached(n)
      OBVIOUS
    <2>1. down[n] = Mig!Down(r, down[n - 1]) /\ r \in 1..6
      <3>1. n \in 0..steps /\ n # 0 /\ r \in 1..6
        BY <1>1
      <3>2. \A m \in 0..steps : down[m] = IF m = 0 THEN db
                                         ELSE Mig!Down(db.revision - m + 1, down[m - 1])
        BY <1>3
      <3>3. QED
        BY <3>1, <3>2
    <2>2. down[n - 1] \in MigratedDatabase
      BY <1>6
    <2>3. down[n] \in MigratedDatabase
      BY <2>1, <2>2, DownDatabase
    <2>4. ASSUME down[n].ok
          PROVE  /\ SoundAt(db.revision - n, down[n])
                 /\ db.revision - n >= 3 => down[n].revocations = db.revocations
      <3>1. down[n - 1].ok
        BY <2>1, <2>2, <2>4, StillOk
      <3>2. SoundAt(r, down[n - 1]) /\ (r >= 3 => down[n - 1].revocations = db.revocations)
        BY <1>1, <1>6, <3>1
      <3>3. /\ SoundAt(r - 1, down[n])
            /\ r > 3 => down[n].revocations = down[n - 1].revocations
        BY <2>1, <2>4, <3>2, DownSound
      <3>4. QED
        BY <1>1, <3>2, <3>3
    <2>5. QED
      BY <2>3, <2>4
  <1> HIDE DEF Reached
  <1>7. Reached(1)
    BY <1>5, <1>6
  <1>8. Reached(2)
    BY <1>6, <1>7
  <1>9. Reached(3)
    BY <1>6, <1>8
  <1>10. Reached(4)
    BY <1>6, <1>9
  <1>11. Reached(5)
    BY <1>6, <1>10
  <1>12. Reached(6)
    BY <1>6, <1>11
  <1>13. Reached(steps)
    BY <1>7, <1>8, <1>9, <1>10, <1>11, <1>12
  <1>14. QED
    BY <1>4, <1>13 DEF Reached

LEMMA MigrationInvStep == ASSUME MigrationInv, Mig!Next PROVE MigrationInv'
  <1>1. CASE Mig!MigrateUp
    <2>1. SoundAt(6, Mig!Upgraded) /\ Mig!Upgraded.revocations = db.revocations
          /\ Mig!Upgraded.listed = db.revocations
      BY <1>1, UpgradeSound DEF Mig!MigrateUp, Mig!Head, MigrationInv
    <2>2. Mig!Upgraded.ok
      BY <2>1 DEF SoundAt
    <2>3. db' = Mig!Upgraded /\ revoked' = revoked /\ stuck' = (stuck \/ ~Mig!Upgraded.ok)
      BY <1>1, <2>2 DEF Mig!MigrateUp
    <2>4. ~stuck'
      BY <2>2, <2>3, Zenon DEF MigrationInv
    <2>5. db'.revision = 6
      BY <2>1, <2>3 DEF SoundAt
    <2>6. QED
      BY <2>1, <2>3, <2>4, <2>5 DEF MigrationInv, SoundAt
  <1>2. ASSUME NEW steps \in 1..6, Mig!MigrateDown(steps) PROVE MigrationInv'
    <2>1. /\ db' = Mig!Downgraded(steps) /\ steps <= db.revision
          /\ SoundAt(db.revision - steps, db')
          /\ db.revision - steps >= 3 => db'.revocations = db.revocations
      BY <1>2, DowngradeSound DEF Mig!MigrateDown
    <2>2. db'.revision = db.revision - steps /\ db'.revision \in 0..5
      BY <2>1 DEF SoundAt, MigrationInv
    <2>3. revoked' = (IF db'.revision < 3 THEN {} ELSE revoked) /\ stuck' = stuck
      BY <1>2 DEF Mig!MigrateDown
    <2>4. QED
      BY <2>1, <2>2, <2>3 DEF MigrationInv
  <1>3. ASSUME NEW l \in License, Mig!IssueOffline(l) PROVE MigrationInv'
    BY <1>3 DEF Mig!IssueOffline, Mig!Serving, Mig!Head, MigrationInv, SoundAt, MigratedDatabase
  <1>4. ASSUME NEW l \in License, Mig!RevokeOffline(l) PROVE MigrationInv'
    BY <1>4 DEF Mig!RevokeOffline, Mig!Serving, Mig!Head, MigrationInv, SoundAt, MigratedDatabase
  <1>5. ASSUME NEW l \in License, Mig!DeleteOffline(l) PROVE MigrationInv'
    <2> DEFINE licences == db.licences \ {l}
               orphans == db.orphans \cup ({l} \cap db.revocations)
    <2>1. /\ db.revision = 6 /\ db \in MigratedDatabase /\ UNCHANGED <<stuck, revoked>>
          /\ db' = [db EXCEPT !.licences = licences, !.orphans = orphans]
      BY <1>5 DEF Mig!DeleteOffline, Mig!Serving, Mig!Head, MigrationInv, SoundAt
    <2>2. licences \in SUBSET License /\ orphans \in SUBSET License
      BY <2>1 DEF MigratedDatabase
    <2>3. db.revocations \ licences \subseteq orphans
      BY <2>1 DEF MigrationInv, SoundAt
    <2> HIDE DEF licences, orphans
    <2>4. /\ db' \in MigratedDatabase /\ db'.revision = 6 /\ db'.ok = db.ok
          /\ db'.schema = db.schema /\ db'.licences = licences /\ db'.orphans = orphans
          /\ db'.revocations = db.revocations /\ db'.listed = db.listed
      BY <2>1, <2>2 DEF MigratedDatabase
    <2>5. QED
      BY <2>1, <2>3, <2>4 DEF MigrationInv, SoundAt
  <1>6. CASE Mig!ReapBinding
    <2> DEFINE dead == ~db.dead
    <2>1. /\ db.revision = 6 /\ db \in MigratedDatabase /\ UNCHANGED <<stuck, revoked>>
          /\ db' = [db EXCEPT !.dead = dead]
      BY <1>6 DEF Mig!ReapBinding, Mig!Serving, Mig!Head, MigrationInv, SoundAt
    <2>2. dead \in BOOLEAN
      OBVIOUS
    <2> HIDE DEF dead
    <2>3. /\ db' \in MigratedDatabase /\ db'.revision = 6 /\ db'.ok = db.ok
          /\ db'.schema = db.schema /\ db'.licences = db.licences
          /\ db'.orphans = db.orphans /\ db'.revocations = db.revocations
          /\ db'.listed = db.listed
      BY <2>1, <2>2 DEF MigratedDatabase
    <2>4. QED
      BY <2>1, <2>3 DEF MigrationInv, SoundAt
  <1>7. QED
    BY <1>1, <1>2, <1>3, <1>4, <1>5, <1>6 DEF Mig!Next, Mig!Head

\* Wherever a downgrade has left the schema, the next upgrade succeeds, and every
\* revocation is listed again.
THEOREM DowngradesAreReversibleHolds == Mig!Spec => []DowngradesAreReversible
  <1>1. MigrationInv => DowngradesAreReversible
    BY DEF MigrationInv, DowngradesAreReversible, Mig!DowngradesAreReversible, Mig!Serving,
           Mig!Head
  <1>2. MigrationInv /\ UNCHANGED Mig!vars => MigrationInv'
    BY DEF Mig!vars, MigrationInv, SoundAt, Schema
  <1>3. QED
    BY <1>1, <1>2, MigrationInvInit, MigrationInvStep, PTL DEF Mig!Spec

---------------------------------------------------------------------------
(* The parts in MCServices. *)

\* What a part does in the run, it does under its own specification: each theorem
\* above holds of MCServices.
THEOREM ServicesRunDeployment ==
    Spec => Up!Spec /\ Custody!Spec /\ Dep!Spec /\ Mig!Spec
  <1>1. Init => Up!Init /\ Custody!Init /\ Dep!Init /\ Mig!Init
    BY DEF Init
  <1>2. [Next]_vars => [Up!Next]_Up!vars
    BY DEF Next, vars, Up!vars, Up!dbVars, Up!procVars, upState
  <1>3. [Next]_vars => [Custody!Next]_Custody!vars
    BY DEF Next, vars, Custody!vars, Custody!fileVars, kekState
  <1>4. [Next]_vars => [Dep!Next]_Dep!vars
    BY DEF Next, vars, Dep!vars, depState
  <1>5. [Next]_vars => [Mig!Next]_Mig!vars
    BY DEF Next, vars, Mig!vars, migState
  <1>6. QED
    BY <1>1, <1>2, <1>3, <1>4, <1>5, PTL
       DEF Spec, Up!Spec, Custody!Spec, Dep!Spec, Mig!Spec

=============================================================================
