----------------------------- MODULE MCServices -----------------------------
(***************************************************************************)
(* One TLC run for the components that share no state with each other.      *)
(* The initial state picks the part that moves; the others stay as they     *)
(* start.  The state space is the sum of theirs, not the product.           *)
(***************************************************************************)
EXTENDS CrlPublication

CONSTANTS
    None,
    User, Request,
    Person, Email, PartialIndex,
    Sid,
    Attempt, Threshold, MaxCrashes, MaxFails,
    Product, Customer,
    Replica, KeysInit, LockWaits,
    Process, MaxStarts, MaxChanges,
    License,
    PoolSize,
    Message, MaxFailures,
    Secret,
    Kek, Malformed, MaxEdits

ASSUME EmailAssumption == None \notin Email
ASSUME AttemptAssumption == IsFiniteSet(Attempt)
ASSUME MessageAssumption == IsFiniteSet(Message)
ASSUME ThresholdAssumption == Threshold \in Nat \ {0}
ASSUME CatalogAssumption ==
    None \notin Product \cup Customer \cup BOOLEAN /\ Product \cap Customer = {}
ASSUME OperationAssumption ==
    None \notin Request \cup {"open", "statement", "end", "close"}
ASSUME SecretAssumption == None \notin Secret
ASSUME StarterAssumption == None \notin Replica \cup KeysInit /\ Replica \cap KeysInit = {}
ASSUME UidAssumption == None # "uid"
ASSUME KekAssumption == None \notin Kek

VARIABLES
    part,
    user, accPc, actor, accTarget, accSeen, write, crossed,
    status, email, mailPc, mailTarget, wanted, mailRaced,
    account, session, index, issued, sesPc, sid, doomed, due, ended, sesRaced,
    fails, timed, locked, logPc, count, guesses, crashes,
    row, catPc, catTarget, product, catSeen, active, offered,
    reachable, atHead, holder, admin, inserter, keys, upPc, planned, creates,
    missing, unguarded,
    host, file, depPc, identity, origin, binding, starts, changes, boundHost, lost,
    db, stuck, revoked,
    bridgePc, queued, running, connected, shutting, unclosed,
    emailType, fallbackType, service, failures, sendPc,
    secret, enabled, shown, verifyPc, read, code, proved, replaced,
    kekFile, edits, env, up, sealed, rekeyed

accState == <<user, accPc, actor, accTarget, accSeen, write, crossed>>
mailState == <<status, email, mailPc, mailTarget, wanted, mailRaced>>
sesState == <<account, session, index, issued, sesPc, sid, doomed, due, ended, sesRaced>>
logState == <<fails, timed, locked, logPc, count, guesses, crashes>>
catState == <<row, catPc, catTarget, product, catSeen, active, offered>>
upState == <<reachable, atHead, holder, admin, inserter, keys, upPc, planned, creates,
             missing, unguarded>>
depState == <<host, file, depPc, identity, origin, binding, starts, changes, boundHost,
              lost>>
migState == <<db, stuck, revoked>>
bridgeState == <<bridgePc, queued, running, connected, shutting, unclosed>>
sendState == <<emailType, fallbackType, service, failures, sendPc>>
factorState == <<secret, enabled, shown, verifyPc, read, code, proved, replaced>>
kekState == <<kekFile, edits, env, up, sealed, rekeyed>>

Acc == INSTANCE Accounts WITH pc <- accPc, target <- accTarget, seen <- accSeen
Mail == INSTANCE OperatorEmails
            WITH User <- Person, pc <- mailPc, target <- mailTarget, raced <- mailRaced
Ses == INSTANCE OperatorSessions WITH pc <- sesPc, raced <- sesRaced
Log == INSTANCE LoginGuard WITH pc <- logPc
Cat == INSTANCE Catalog WITH pc <- catPc, target <- catTarget, seen <- catSeen
Up == INSTANCE Startup WITH pc <- upPc
Dep == INSTANCE DeploymentIdentity WITH pc <- depPc
Mig == INSTANCE SchemaMigrations
Bridge == INSTANCE SyncBridge WITH pc <- bridgePc
Send == INSTANCE EmailFailover WITH pc <- sendPc
Factor == INSTANCE TwoFactor WITH pc <- verifyPc
Custody == INSTANCE KeyCustody WITH file <- kekFile

Parts == {"crl", "accounts", "emails", "sessions", "logins", "catalog", "startup",
          "identity", "schema", "bridge", "failover", "second factor", "custody"}

\* Of the parts with several initial states, one that does not move has one.
Init ==
    /\ part \in Parts
    /\ CrlInit /\ Mail!Init /\ Ses!Init /\ Log!Init /\ Cat!Init /\ Mig!Init
    /\ Bridge!Init /\ Factor!Init
    /\ Acc!Init /\ (part # "accounts" => Acc!ActiveSuperAdmins = User)
    /\ Up!Init /\ (part # "startup" => reachable /\ atHead /\ admin)
    /\ Send!Init /\ (part # "failover" => emailType = "smtp" /\ fallbackType = None)
    /\ Custody!Init /\ (part # "custody" => kekFile = Custody!NoSettings)
    /\ Dep!Init
    /\ part # "identity" =>
          host = [machine_id |-> 1, mac |-> 1, hostname |-> 1, cpu |-> 1, dmi |-> 1,
                  container |-> TRUE, uid |-> TRUE, writable |-> TRUE]

Next ==
    \/ /\ part = "crl" /\ CrlNext
       /\ UNCHANGED <<part, accState, mailState, sesState, logState, catState, upState,
                       depState, migState, bridgeState, sendState, factorState, kekState>>
    \/ /\ part = "accounts" /\ Acc!Next
       /\ UNCHANGED <<part, crlVars, mailState, sesState, logState, catState, upState,
                       depState, migState, bridgeState, sendState, factorState, kekState>>
    \/ /\ part = "emails" /\ Mail!Next
       /\ UNCHANGED <<part, crlVars, accState, sesState, logState, catState, upState,
                       depState, migState, bridgeState, sendState, factorState, kekState>>
    \/ /\ part = "sessions" /\ Ses!Next
       /\ UNCHANGED <<part, crlVars, accState, mailState, logState, catState, upState,
                       depState, migState, bridgeState, sendState, factorState, kekState>>
    \/ /\ part = "logins" /\ Log!Next
       /\ UNCHANGED <<part, crlVars, accState, mailState, sesState, catState, upState,
                       depState, migState, bridgeState, sendState, factorState, kekState>>
    \/ /\ part = "catalog" /\ Cat!Next
       /\ UNCHANGED <<part, crlVars, accState, mailState, sesState, logState, upState,
                       depState, migState, bridgeState, sendState, factorState, kekState>>
    \/ /\ part = "startup" /\ Up!Next
       /\ UNCHANGED <<part, crlVars, accState, mailState, sesState, logState, catState,
                       depState, migState, bridgeState, sendState, factorState, kekState>>
    \/ /\ part = "identity" /\ Dep!Next
       /\ UNCHANGED <<part, crlVars, accState, mailState, sesState, logState, catState,
                       upState, migState, bridgeState, sendState, factorState, kekState>>
    \/ /\ part = "schema" /\ Mig!Next
       /\ UNCHANGED <<part, crlVars, accState, mailState, sesState, logState, catState,
                       upState, depState, bridgeState, sendState, factorState, kekState>>
    \/ /\ part = "bridge" /\ Bridge!Next
       /\ UNCHANGED <<part, crlVars, accState, mailState, sesState, logState, catState,
                       upState, depState, migState, sendState, factorState, kekState>>
    \/ /\ part = "failover" /\ Send!Next
       /\ UNCHANGED <<part, crlVars, accState, mailState, sesState, logState, catState,
                       upState, depState, migState, bridgeState, factorState, kekState>>
    \/ /\ part = "second factor" /\ Factor!Next
       /\ UNCHANGED <<part, crlVars, accState, mailState, sesState, logState, catState,
                       upState, depState, migState, bridgeState, sendState, kekState>>
    \/ /\ part = "custody" /\ Custody!Next
       /\ UNCHANGED <<part, crlVars, accState, mailState, sesState, logState, catState,
                       upState, depState, migState, bridgeState, sendState, factorState>>

vars == <<part, crlVars, accState, mailState, sesState, logState, catState, upState,
          depState, migState, bridgeState, sendState, factorState, kekState>>

Spec == Init /\ [][Next]_vars

---------------------------------------------------------------------------
(* The properties of the parts. *)

SuperAdminRemains == Acc!SuperAdminRemains
LookupUnambiguous == Mail!LookupUnambiguous
GlobalLogout == Ses!GlobalLogout
UnindexedSessionsRaced == Ses!UnindexedSessionsRaced
GuessesBounded == Log!GuessesBounded
IssuedWhileOffered == Cat!IssuedWhileOffered
WithdrawnStaysWithdrawn == Cat!WithdrawnStaysWithdrawn
ReadyToServe == Up!ReadyToServe
OneKeyPerPurpose == Up!OneKeyPerPurpose
HostRecognised == Dep!HostRecognised
RefusedOnlyIfIdLost == Dep!RefusedOnlyIfIdLost
DowngradesAreReversible == Mig!DowngradesAreReversible
SessionEndsWithRequest == Bridge!SessionEndsWithRequest
FailuresBounded == Send!FailuresBounded
LoginAsksForProvedSecret == Factor!LoginAsksForProvedSecret
ServingRolesSign == Custody!ServingRolesSign

=============================================================================
