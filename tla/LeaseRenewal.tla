---------------------------- MODULE LeaseRenewal ----------------------------
(***************************************************************************)
(* The life of a lease: one activated deployment running the verifier SDK   *)
(* (forge_verifier/online.py), forge-edge's activate and validate, the      *)
(* lease keys in Redis, the reaper and the administrator.                   *)
(*                                                                         *)
(* A lease and the validation_token handed out with it are one thing here,  *)
(* a Token: the SDK replaces both together.  Time is a counter; the period  *)
(* between two values is whatever the constants below are counted in.  The  *)
(* seat check of activate is SeatControl's subject; here the license has    *)
(* the one seat of this deployment, and an identity that activate does not  *)
(* recognise is refused like a request that fails (DeploymentIdentity says  *)
(* which identities it recognises).                                         *)
(***************************************************************************)
EXTENDS Integers, FiniteSets

CONSTANTS
    None,        \* no value
    Token,       \* the tokens that can be minted (bounds the renewals)
    Request,     \* HTTP requests that can be under way at a time
    Identity,    \* what the deployment presents: [fp, install], install may be None
    ByUid,       \* its binding has a deployment_uid
    Ttl,         \* LEASE_TTL_SECONDS
    Grace,       \* LEASE_GRACE_SECONDS
    Window,      \* HEARTBEAT_WINDOW_SECONDS
    Serve,       \* no request lives longer than this
    EndOfTerm,   \* licenses.active_until, None when perpetual
    MaxTime,     \* bound of the clock
    LastChange,  \* bound of the times at which the administrator acts
    RedisMayLose \* Redis can lose its keys

ASSUME TokenAssumption == None \notin Token \cup Request \cup Nat
ASSUME IdentityAssumption == \A d \in Identity : d.fp # None
ASSUME ByUidAssumption == ByUid \in BOOLEAN
ASSUME DurationsAssumption ==
    Ttl \in Nat \ {0} /\ Grace \in Nat /\ Window \in Nat /\ Serve \in Nat
ASSUME ClockAssumption == MaxTime \in Nat /\ LastChange \in Nat
ASSUME EndOfTermAssumption == EndOfTerm \in Nat \cup {None}
ASSUME RedisAssumption == RedisMayLose \in BOOLEAN

\* online.py: the codes that lock the product without grace.
DefinitiveLockCodes ==
    {"LICENSE_REVOKED", "LICENSE_EXPIRED", "LICENSE_BINDING_MISMATCH",
     "LICENSE_LEASE_EXPIRED", "RESOURCE_NOT_FOUND"}

\* SYSTEM_INTERNAL_ERROR, RATE_LIMIT_EXCEEDED, LICENSE_SEAT_LOCK_BUSY...
OtherError == "OTHER"

VARIABLES
    now,
    license,    \* "valid", "revoked" or "deleted"
    endedAt,    \* when it stopped to be valid, None before
    bound,      \* the fingerprint of the active binding, None without one
    install,    \* its install_id, None when it has none
    heartbeat,  \* its committed last_heartbeat_at
    dead,       \* the fingerprints of the bindings that were reaped
    leaseRows,  \* tokens with a committed leases row
    cached,     \* tokens with a forge:lease:<hash> key in Redis
    mintedAt,   \* issued_at of each lease, None if it was never minted
    orphans,    \* the leases whose binding was reaped or deleted
    lost,       \* history: Redis lost keys
    stage,      \* where each request is
    kind,       \* "activate" or "validate"
    token,      \* the token it presents (validate)
    ident,      \* the identity it presents
    since,      \* when it arrived
    barred,     \* history: on arrival, license or binding could not be served
    answer,     \* its answer
    granted,    \* the token granted with it
    held,       \* SDK: _last_lease and _validation_token
    waiting,    \* SDK: the request it waits for
    verdict,    \* SDK: how the last call ended
    client,     \* SDK: the identity computed when the product started
    crossed     \* history: an activation of another identity was under way then

adminVars == <<license, endedAt>>
bindVars == <<bound, install, heartbeat, dead, orphans>>
leaseVars == <<leaseRows, cached, mintedAt, lost>>
reqVars == <<stage, kind, token, ident, since, barred, answer, granted>>
sdkVars == <<held, waiting, verdict, client, crossed>>
vars == <<now, adminVars, bindVars, leaseVars, reqVars, sdkVars>>

Stage == {"free", "sent", "looked", "windowed", "cleared", "answered"}

GraceUntil(t) == mintedAt[t] + Ttl + Grace

Minted == {t \in Token : mintedAt[t] # None}

TermOver == EndOfTerm # None /\ now >= EndOfTerm

---------------------------------------------------------------------------
(* EdgeService, on behalf of request r.                                     *)

Respond(r, code, t) ==
    /\ stage' = [stage EXCEPT ![r] = "answered"]
    /\ answer' = [answer EXCEPT ![r] = code]
    /\ granted' = [granted EXCEPT ![r] = t]
    /\ UNCHANGED <<kind, token, ident, since, barred>>

Advance(r, s) ==
    /\ stage' = [stage EXCEPT ![r] = s]
    /\ UNCHANGED <<kind, token, ident, since, barred, answer, granted>>

serverUnchanged == <<now, adminVars, bindVars, leaseVars, sdkVars>>

\* Redis has the lease key or leases has the row.
Known(t) == t \in cached \cup leaseRows

\* not binding or binding.status != "active"
BindingServes(t) == bound # None /\ t \notin orphans

\* Both sides have an install_id, and they differ.
InstallsClash(d) == install # None /\ d.install # None /\ install # d.install

\* The fingerprint, unless the binding goes by its deployment_uid; the install_id.
IdentityAgrees(d) == (ByUid \/ bound = d.fp) /\ ~InstallsClash(d)

\* validate: the lease key in Redis or, failing that, the leases row; then the
\* binding it belongs to; then the identity the request presents.
LookUpLease(r) ==
    /\ stage[r] = "sent" /\ kind[r] = "validate"
    /\ \/ /\ ~Known(token[r])
          /\ Respond(r, "LICENSE_LEASE_EXPIRED", None)
       \/ /\ Known(token[r])
          /\ ~BindingServes(token[r]) \/ ~IdentityAgrees(ident[r])
          /\ Respond(r, "LICENSE_BINDING_MISMATCH", None)
       \/ /\ Known(token[r])
          /\ BindingServes(token[r]) /\ IdentityAgrees(ident[r])
          /\ Advance(r, "looked")
    /\ UNCHANGED serverUnchanged

\* Faulty variant: the end of the term is not looked at.
RevokedOnly == IF license = "revoked" THEN "LICENSE_REVOKED" ELSE "ok"

\* _assert_valid_window, on the license as it is read now.
WindowError ==
    IF license = "revoked" THEN "LICENSE_REVOKED"
    ELSE IF TermOver THEN "LICENSE_EXPIRED" ELSE "ok"

\* A validate that has flushed its heartbeat holds the row lock of its binding
\* until it answers.
Flushed(r) == kind[r] = "validate" /\ stage[r] \in {"windowed", "cleared"}

\* The row of the active binding is locked.
BindingLocked == \E r \in Request : Flushed(r) /\ token[r] \notin orphans

\* Load the license and check its window.  The query first flushes the heartbeat
\* of a validate, which waits for the row lock, fails if the binding was deleted
\* meanwhile, and is never committed.
LoadLicense(r) ==
    /\ \/ stage[r] = "sent" /\ kind[r] = "activate"
       \/ stage[r] = "looked" /\ (BindingLocked => token[r] \in orphans)
    /\ \/ /\ license = "deleted"
          /\ Respond(r, IF kind[r] = "activate" THEN "RESOURCE_NOT_FOUND" ELSE OtherError,
                     None)
       \/ /\ license # "deleted" /\ WindowError # "ok"
          /\ Respond(r, WindowError, None)
       \/ /\ license # "deleted" /\ WindowError = "ok"
          /\ Advance(r, "windowed")
    /\ UNCHANGED serverUnchanged

\* The revocations row of the license: revoking and deleting are all that ends it.
RevocationFound == license = "revoked"

\* _check_revoked
CheckRevoked(r) ==
    /\ stage[r] = "windowed"
    /\ \/ /\ RevocationFound
          /\ Respond(r, "LICENSE_REVOKED", None)
       \/ /\ ~RevocationFound
          /\ Advance(r, "cleared")
    /\ UNCHANGED serverUnchanged

\* The lease keys after token t was minted.  Of the token it replaces the key is
\* kept until it expires.
CachedAfterMint(t) == cached \cup {t}

\* Faulty variant: an activation leaves its binding the fingerprint it had.
FirstFingerprint(d) == IF bound # None THEN bound ELSE d.fp

\* The fingerprint of the binding after an activation: the one presented.
NewFingerprint(d) == d.fp

\* The rest of activate: match, mint and commit.  A reaped binding still holds its
\* fingerprint in uq_binding_license_fp, so neither the INSERT of a new binding nor
\* the UPDATE of one that moved succeeds with it.
ActivateCommit(r) ==
    /\ stage[r] = "cleared" /\ kind[r] = "activate"
    /\ ~BindingLocked
    /\ \/ /\ InstallsClash(ident[r])
          /\ Respond(r, "LICENSE_BINDING_MISMATCH", None)
          /\ UNCHANGED <<bindVars, leaseVars>>
       \/ /\ license = "deleted" \/ ident[r].fp \in dead
          /\ Respond(r, OtherError, None)
          /\ UNCHANGED <<bindVars, leaseVars>>
       \/ /\ license # "deleted" /\ ident[r].fp \notin dead
          /\ ~InstallsClash(ident[r])
          /\ \E t \in Token \ Minted :
                /\ Respond(r, "ok", t)
                /\ mintedAt' = [mintedAt EXCEPT ![t] = now]
                /\ leaseRows' = leaseRows \cup {t}
                /\ cached' = CachedAfterMint(t)
          /\ bound' = NewFingerprint(ident[r])
          /\ install' = IF install # None THEN install ELSE ident[r].install
          /\ heartbeat' = now
          /\ UNCHANGED <<dead, orphans, lost>>
    /\ UNCHANGED <<now, adminVars, sdkVars>>

\* The rest of validate: mint a lease in the place of the presented one, for the
\* same binding.  The session is closed without a commit: heartbeat and leases row
\* are rolled back.
ValidateMint(r) ==
    /\ stage[r] = "cleared" /\ kind[r] = "validate"
    /\ \E t \in Token \ Minted :
          /\ Respond(r, "ok", t)
          /\ mintedAt' = [mintedAt EXCEPT ![t] = now]
          /\ cached' = CachedAfterMint(t)
          /\ orphans' = IF token[r] \in orphans THEN orphans \cup {t} ELSE orphans
    /\ UNCHANGED <<now, adminVars, bound, install, heartbeat, dead, leaseRows, lost,
                   sdkVars>>

\* A rate limit, an unreachable Redis or database, a crash that a proxy answers.
ServerFails(r) ==
    /\ stage[r] \in {"sent", "looked", "windowed", "cleared"}
    /\ Respond(r, OtherError, None)
    /\ UNCHANGED serverUnchanged

ServerStep(r) ==
    \/ LookUpLease(r) \/ LoadLicense(r) \/ CheckRevoked(r)
    \/ ActivateCommit(r) \/ ValidateMint(r)

---------------------------------------------------------------------------
(* OnlineClient.                                                            *)

\* What a request with token t is barred for from its arrival.
Unservable(t) == license # "valid" \/ TermOver \/ t \in orphans

Send(r, k, t) ==
    /\ waiting = None
    /\ stage[r] = "free"
    /\ stage' = [stage EXCEPT ![r] = "sent"]
    /\ kind' = [kind EXCEPT ![r] = k]
    /\ token' = [token EXCEPT ![r] = t]
    /\ ident' = [ident EXCEPT ![r] = client]
    /\ since' = [since EXCEPT ![r] = now]
    /\ barred' = [barred EXCEPT ![r] = Unservable(t)]
    /\ waiting' = r
    /\ UNCHANGED <<now, adminVars, bindVars, leaseVars, answer, granted,
                   held, verdict, client, crossed>>

Activate(r) == Send(r, "activate", None)

\* revalidate answers not_activated by itself when it holds no token.
Revalidate(r) == held # None /\ Send(r, "validate", held)

\* ACTIVE with the reason online or grace; LOCKED with a definitive code or with
\* another reason; REVOKED; an exception.
Verdict == {"active", "grace", "rejected", "locked", "revoked", "raised"}

Unlocking == {"active", "grace"}

Conclude(v) ==
    /\ verdict' = v
    /\ waiting' = None
    /\ UNCHANGED <<client, crossed>>

\* Faulty variant: the cached lease is trusted for ever.
GraceAlways == "grace"

\* _grace_or_lock
GraceOrLock ==
    IF held # None /\ now < GraceUntil(held) THEN "grace" ELSE "locked"

Release(r) ==
    /\ stage' = [stage EXCEPT ![r] = "free"]
    /\ kind' = [kind EXCEPT ![r] = "validate"]
    /\ token' = [token EXCEPT ![r] = None]
    /\ ident' = [ident EXCEPT ![r] = None]
    /\ since' = [since EXCEPT ![r] = 0]
    /\ barred' = [barred EXCEPT ![r] = FALSE]
    /\ answer' = [answer EXCEPT ![r] = OtherError]
    /\ granted' = [granted EXCEPT ![r] = None]

\* The answer arrives: _accept, a rejection, or an error that says nothing.
Receive(r) ==
    /\ waiting = r /\ stage[r] = "answered"
    /\ \/ /\ answer[r] = "ok"
          /\ held' = granted[r]
          /\ Conclude("active")
       \/ /\ answer[r] = "LICENSE_REVOKED"
          /\ Conclude("revoked")
          /\ UNCHANGED held
       \/ /\ answer[r] \in DefinitiveLockCodes \ {"LICENSE_REVOKED"}
          /\ Conclude("rejected")
          /\ UNCHANGED held
       \/ /\ answer[r] = OtherError
          /\ Conclude(IF kind[r] = "activate" THEN "locked" ELSE GraceOrLock)
          /\ UNCHANGED held
    /\ Release(r)
    /\ UNCHANGED <<now, adminVars, bindVars, leaseVars>>

\* URLError: no connection, so the edge never sees the request.
NetworkFails(r) ==
    /\ waiting = r /\ stage[r] = "sent"
    /\ Conclude(IF kind[r] = "activate" THEN "locked" ELSE GraceOrLock)
    /\ Release(r)
    /\ UNCHANGED <<now, adminVars, bindVars, leaseVars, held>>

\* The timeout runs out before the answer, the connection breaks, or an error
\* page is not JSON: what urllib and json raise is no URLError, and leaves the
\* client without a verdict.  What the edge has received it goes on serving.
CallRaises(r) ==
    /\ waiting = r
    /\ Conclude("raised")
    /\ UNCHANGED <<now, adminVars, bindVars, leaseVars, reqVars, held>>

\* An answer nobody waits for, or a request that was lost on its way.
Discard(r) ==
    /\ waiting # r
    /\ stage[r] \in {"sent", "answered"}
    /\ Release(r)
    /\ UNCHANGED serverUnchanged

\* An activation of another identity than d can still commit.
OtherActivating(d) ==
    \E r \in Request : /\ kind[r] = "activate"
                       /\ stage[r] \notin {"free", "answered"}
                       /\ ident[r] # d

\* The product restarts: lease and token were in memory only.  Its identity is
\* computed anew, once: the host may have changed since the last start.
ProductRestarts ==
    /\ held' = None /\ waiting' = None
    /\ verdict' = "locked"
    /\ client' \in Identity
    /\ crossed' = OtherActivating(client')
    /\ UNCHANGED <<now, adminVars, bindVars, leaseVars, reqVars>>

---------------------------------------------------------------------------
(* Everybody else.                                                          *)

\* reap_dead_bindings
Reap ==
    /\ bound # None /\ heartbeat + Window < now
    /\ ~BindingLocked
    /\ bound' = None /\ install' = None
    /\ dead' = dead \cup {bound}
    /\ orphans' = Minted
    /\ UNCHANGED <<now, adminVars, heartbeat, leaseVars, reqVars, sdkVars>>

\* IssuanceService.revoke
Revoke ==
    /\ license = "valid" /\ now <= LastChange
    /\ license' = "revoked"
    /\ endedAt' = now
    /\ UNCHANGED <<now, bindVars, leaseVars, reqVars, sdkVars>>

\* delete_license: bindings and leases go with the license, Redis is left alone.
DeleteLicense ==
    /\ license # "deleted" /\ now <= LastChange
    /\ \A r \in Request : ~Flushed(r)
    /\ license' = "deleted"
    /\ endedAt' = IF endedAt = None THEN now ELSE endedAt
    /\ bound' = None /\ install' = None
    /\ dead' = {}
    /\ orphans' = Minted
    /\ leaseRows' = {}
    /\ UNCHANGED <<now, heartbeat, cached, mintedAt, lost, reqVars, sdkVars>>

\* Redis restarts without its data, fails over or evicts.
RedisLoses ==
    /\ RedisMayLose /\ cached # {}
    /\ cached' = {}
    /\ lost' = TRUE
    /\ UNCHANGED <<now, adminVars, bindVars, leaseRows, mintedAt, reqVars, sdkVars>>

\* Time passes and the keys of Redis expire; no request is older than Serve.
Tick ==
    /\ now < MaxTime
    /\ \A r \in Request : stage[r] # "free" => now < since[r] + Serve
    /\ now' = now + 1
    /\ cached' = {t \in cached : now' < GraceUntil(t)}
    /\ UNCHANGED <<adminVars, bindVars, leaseRows, mintedAt, lost, reqVars, sdkVars>>

Init ==
    /\ now = 0
    /\ license = "valid" /\ endedAt = None
    /\ bound = None /\ install = None /\ heartbeat = 0
    /\ dead = {} /\ orphans = {}
    /\ leaseRows = {} /\ cached = {} /\ lost = FALSE
    /\ mintedAt = [t \in Token |-> None]
    /\ stage = [r \in Request |-> "free"]
    /\ kind = [r \in Request |-> "validate"]
    /\ token = [r \in Request |-> None]
    /\ ident = [r \in Request |-> None]
    /\ since = [r \in Request |-> 0]
    /\ barred = [r \in Request |-> FALSE]
    /\ answer = [r \in Request |-> OtherError]
    /\ granted = [r \in Request |-> None]
    /\ held = None /\ waiting = None
    /\ verdict = "locked"
    /\ client \in Identity
    /\ crossed = FALSE

Next ==
    \/ \E r \in Request :
          \/ ServerStep(r) \/ ServerFails(r)
          \/ Activate(r) \/ Revalidate(r)
          \/ Receive(r) \/ NetworkFails(r) \/ CallRaises(r) \/ Discard(r)
    \/ ProductRestarts
    \/ Reap \/ Revoke \/ DeleteLicense \/ RedisLoses
    \/ Tick

Spec == Init /\ [][Next]_vars

\* The product's timer goes on revalidating and each call ends; the edge serves
\* what it received, or fails.  Nobody is obliged to activate, restart, revoke or
\* reap.
CallsEnd ==
    /\ WF_vars(\E r \in Request : Revalidate(r))
    /\ WF_vars(\E r \in Request : Receive(r) \/ NetworkFails(r) \/ CallRaises(r))
    /\ \A r \in Request : WF_vars(ServerStep(r) \/ ServerFails(r))
    /\ \A r \in Request : WF_vars(Discard(r))

\* Time passes whatever they do: a Tick that waits for requests under way (none
\* outlives Serve) is possible again when they end, hence SF.
Fairness == CallsEnd /\ SF_vars(Tick)

FairSpec == Spec /\ Fairness

---------------------------------------------------------------------------
(* Properties. *)

Unlocked == verdict \in Unlocking

\* No call unlocks the product later than a bounded time after its license ended,
\* whatever the network does, whichever answers are lost and however its renewal
\* raced the revocation, the deletion or the end of the term.
UnlockedEnds ==
    [][waiting # None /\ waiting' = None /\ verdict' \in Unlocking =>
          /\ endedAt # None => now < endedAt + Serve + Ttl + Grace
          /\ EndOfTerm # None => now < EndOfTerm + Serve + Ttl + Grace]_vars

\* A request that arrives when the license has ended, or when the binding of the
\* lease it renews was reaped or deleted, gets no lease.
BarredGetsNoLease ==
    \A r \in Request : barred[r] => answer[r] # "ok"

\* Neither the rotation of tokens, nor a lost answer, nor an identity that changed
\* strands a product: as long as its license is valid, its lease in its grace and
\* its binding's heartbeat in the window of the reaper, validate accepts the token
\* the product holds, from the identity it has - Redis or leases knows the token,
\* the binding serves and the identities agree.  If Redis lost keys this is said of
\* the tokens with a leases row only, which are those of activate; and the product
\* must not have restarted under an activation of its former identity, which may
\* take the binding back.
HeldTokenRenewable ==
    /\ held # None /\ now < GraceUntil(held)
    /\ license = "valid" /\ ~TermOver
    /\ now <= heartbeat + Window
    /\ lost => held \in leaseRows
    /\ ~crossed
    => Known(held) /\ BindingServes(held) /\ IdentityAgrees(client)

\* A deployment whose license ended is eventually locked for good, even if the
\* edge is never reachable again.
LockedForGood == (license # "valid" \/ TermOver) ~> []~Unlocked

\* What comments and docs say and the code does not keep.

\* online.py: the authority definitively rejected this ticket, so lock and never
\* ride the grace window - a rejection is not followed by the verdict grace.
RejectionStands ==
    [][verdict' = "grace" => verdict \notin {"rejected", "revoked"}]_vars

\* Project-design 07: a renewal is a heartbeat - a deployment that was granted a
\* lease within the alive window is not reaped.
RenewalIsHeartbeat ==
    [][Reap => \A t \in Minted \ orphans : mintedAt[t] + Window < now]_vars

\* online.py: no authoritative answer (network down, 5xx) rides the signed grace
\* window - a renewal that ends without one, while the lease is within its grace,
\* ends with the verdict grace.
OutageRidesGrace ==
    [][\A r \in Request :
          /\ waiting = r /\ waiting' = None /\ kind[r] = "validate"
          /\ answer[r] = OtherError
          /\ held # None /\ held' = held /\ now < GraceUntil(held)
          => verdict' = "grace"]_vars

=============================================================================
