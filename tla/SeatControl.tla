---------------------------- MODULE SeatControl ----------------------------
(***************************************************************************)
(* Seat accounting of one online license: concurrent activate requests of   *)
(* forge-edge, the worker's binding reaper and expiry sweep, and the        *)
(* administrator's revoke and hard delete.                                  *)
(*                                                                         *)
(* Granularity.  Every await of EdgeService.activate that touches shared    *)
(* state is a step of its own: the two SELECTs before the lock, the Redis   *)
(* SET NX, the SELECT of the bindings, the flush (which takes PostgreSQL's  *)
(* row locks and checks the unique index), the release of the Redis lock    *)
(* and the commit.  Isolation is READ COMMITTED: what was flushed and not   *)
(* committed is invisible to other sessions, but holds its row locks.       *)
(***************************************************************************)
EXTENDS Identity

CONSTANTS
    Activation,   \* request slots of the edge: each serves one activate at a time
    Reaper,       \* executions of forge.reap_dead_bindings that may overlap
    Slot,         \* primary keys of fingerprint_bindings (bounds the table)
    SeatLimit,    \* licenses.seat_limit
    Perpetual,    \* licenses.active_until IS NULL
    Requests,     \* the identities that hosts present to activate
    LegacyRows    \* bindings that predate the identity columns

ASSUME NoneAssumption ==
    None \notin Activation \cup Slot \cup Fingerprint \cup Uid \cup Install
ASSUME SlotAssumption == IsFiniteSet(Slot)
ASSUME SeatLimitAssumption == SeatLimit \in Nat \ {0}
ASSUME PerpetualAssumption == Perpetual \in BOOLEAN
ASSUME RequestsAssumption == Requests \subseteq IdentityRecord

\* licenses.status; "deleted" stands for a licenses row that is gone.  The other
\* two values of the CHECK constraint, expiring and locked, are never written.
LicenseStatus == {"issued", "active", "expired", "revoked", "deleted"}

\* One row of fingerprint_bindings; hb abstracts last_heartbeat_at to what the
\* reaper asks of it: NULL, inside the alive window, or older than the window.
Row ==
    [fp: Fingerprint \cup {None}, uid: Uid \cup {None}, install: Install \cup {None},
     sig: SUBSET Signal, status: {"absent", "active", "dead"},
     hb: {"null", "fresh", "stale"}]

AbsentRow ==
    [fp |-> None, uid |-> None, install |-> None, sig |-> {},
     status |-> "absent", hb |-> "null"]

ASSUME LegacyAssumption ==
    \A r \in LegacyRows : r \in Row /\ r.status = "active" /\ r.hb = "null"

VARIABLES
    status,      \* licenses.status
    seatUsed,    \* licenses.seat_used
    pastTerm,    \* now >= active_until
    revocation,  \* the revocations row: "none", "linked" to the license, or
                 \* "unlinked" (its license_id was SET NULL by the hard delete)
    row,         \* fingerprint_bindings, committed
    alerted,     \* a clone_alerts row was committed
    holder,      \* who set forge:lock:seat:<id> in Redis, None when it is free
    pc,          \* where each activate request is
    req,         \* the identity it carries
    snapStatus,  \* lic.status of the session's License object
    snapUsed,    \* lic.seat_used of the session's License object
    plan,        \* what _match_binding decided: "reuse", "insert" or None
    target,      \* the row it writes
    seen,        \* that row as the session read it
    late,        \* history: the request began after a revocation had committed
    doomed       \* the ids a reaper selected and has not yet updated

licVars == <<status, seatUsed, pastTerm, revocation>>
actVars == <<pc, req, snapStatus, snapUsed, plan, target, seen, late>>
vars == <<licVars, row, alerted, holder, actVars, doomed>>

InLock == {"locked", "decided", "flushed"}
InFlight == {"looked", "checked", "released"} \cup InLock
Pc == InFlight \cup {"idle"}

Exists == status # "deleted"

Present == {s \in Slot : row[s].status # "absent"}
\* EdgeService._active_bindings
ActiveBindings == {s \in Slot : row[s].status = "active"}

---------------------------------------------------------------------------
(* PostgreSQL's row locks, as held by flushed and uncommitted activations. *)

Uncommitted(a) == pc[a] \in {"flushed", "released"}

\* UPDATE licenses SET seat_used is flushed with the INSERT of a binding.
LicenseRowLocked == \E a \in Activation : Uncommitted(a) /\ plan[a] = "insert"

RowLocked(s) ==
    \E a \in Activation : Uncommitted(a) /\ plan[a] = "reuse" /\ target[a] = s

\* The fingerprint a session's flush writes; None when the column is unchanged.
WrittenFp(a) ==
    IF plan[a] = "reuse" /\ seen[a].fp = req[a].fp THEN None ELSE req[a].fp

\* Faulty variant: seat_used is not written with the binding, so no lock is taken
\* on the row of the license.
NoLicenseRowLock(a) ==
    \E b \in Activation \ {a} :
        /\ Uncommitted(b)
        /\ \/ plan[a] = "reuse" /\ plan[b] = "reuse" /\ target[a] = target[b]
           \/ WrittenFp(a) # None /\ WrittenFp(a) = WrittenFp(b)

\* The flush waits for the row locks, and for an uncommitted entry with the same
\* key in uq_binding_license_fp, of another session.
FlushBlocked(a) ==
    \E b \in Activation \ {a} :
        /\ Uncommitted(b)
        /\ \/ plan[a] = "insert" /\ plan[b] = "insert"
           \/ plan[a] = "reuse" /\ plan[b] = "reuse" /\ target[a] = target[b]
           \/ WrittenFp(a) # None /\ WrittenFp(a) = WrittenFp(b)

\* Faulty variant: the unique index does not exist.
NoUniqueIndex(a) == FALSE

\* uq_binding_license_fp ranges over every binding that is not soft-deleted,
\* dead ones included.
FingerprintTaken(a) ==
    /\ WrittenFp(a) # None
    /\ \E s \in Present :
          row[s].fp = WrittenFp(a) /\ (plan[a] = "reuse" => s # target[a])

\* IntegrityError, a foreign key to a deleted license, or an UPDATE of no row.
FlushFails(a) ==
    \/ FingerprintTaken(a)
    \/ plan[a] = "insert" /\ ~Exists
    \/ plan[a] = "reuse" /\ row[target[a]].status = "absent"

FreeSlots ==
    {s \in Slot : row[s].status = "absent"
                  /\ \A b \in Activation : Uncommitted(b) => target[b] # s}

---------------------------------------------------------------------------
(* EdgeService.activate.                                                    *)

NoRequest == [fp |-> None, uid |-> None, install |-> None, sig |-> {}]

\* The request was answered, with a lease or an error, or died: its session was
\* committed or rolled back, nothing it held in memory or in row locks survives,
\* and the slot can take the next request.
Finish(a) ==
    /\ pc' = [pc EXCEPT ![a] = "idle"]
    /\ req' = [req EXCEPT ![a] = NoRequest]
    /\ snapStatus' = [snapStatus EXCEPT ![a] = "issued"]
    /\ snapUsed' = [snapUsed EXCEPT ![a] = 0]
    /\ plan' = [plan EXCEPT ![a] = None]
    /\ target' = [target EXCEPT ![a] = None]
    /\ seen' = [seen EXCEPT ![a] = AbsentRow]
    /\ late' = [late EXCEPT ![a] = FALSE]

\* The license row as the session finds it: RESOURCE_NOT_FOUND, or
\* _assert_valid_window raises LICENSE_REVOKED or LICENSE_EXPIRED.
WindowRefuses == ~Exists \/ status = "revoked" \/ pastTerm

\* A request arrives: get_by_online_code, then _assert_valid_window.  A request
\* that is refused here reads and answers, and changes nothing.
LookUp(a) ==
    /\ pc[a] = "idle"
    /\ ~WindowRefuses
    /\ \E q \in Requests : req' = [req EXCEPT ![a] = q]
    /\ snapStatus' = [snapStatus EXCEPT ![a] = status]
    /\ snapUsed' = [snapUsed EXCEPT ![a] = seatUsed]
    /\ late' = [late EXCEPT ![a] = revocation # "none"]
    /\ pc' = [pc EXCEPT ![a] = "looked"]
    /\ UNCHANGED <<licVars, row, alerted, holder, plan, target, seen, doomed>>

\* Faulty variant: activate trusts licenses.status alone.
RevocationIgnored == FALSE

\* The row _check_revoked selects: one still linked to the license.
RevocationFound == revocation = "linked"

\* _check_revoked
CheckRevoked(a) ==
    /\ pc[a] = "looked"
    /\ \/ /\ RevocationFound
          /\ Finish(a)
       \/ /\ ~RevocationFound
          /\ pc' = [pc EXCEPT ![a] = "checked"]
          /\ UNCHANGED <<req, snapStatus, snapUsed, plan, target, seen, late>>
    /\ UNCHANGED <<licVars, row, alerted, holder, doomed>>

\* Faulty variant: SET without NX.
AcquireSeatLockBlindly(a) ==
    /\ pc[a] = "checked"
    /\ holder' = a
    /\ pc' = [pc EXCEPT ![a] = "locked"]
    /\ UNCHANGED <<licVars, row, alerted, req, snapStatus, snapUsed, plan,
                   target, seen, late, doomed>>

\* SET forge:lock:seat:<id> 1 NX EX 10
AcquireSeatLock(a) ==
    /\ pc[a] = "checked"
    /\ holder = None
    /\ holder' = a
    /\ pc' = [pc EXCEPT ![a] = "locked"]
    /\ UNCHANGED <<licVars, row, alerted, req, snapStatus, snapUsed, plan,
                   target, seen, late, doomed>>

\* Faulty variant: the attempts are not counted.
SeatLockAwaited(a) == FALSE /\ UNCHANGED vars

\* The fiftieth attempt found the lock taken: LICENSE_SEAT_LOCK_BUSY.
SeatLockBusy(a) ==
    /\ pc[a] = "checked"
    /\ holder # None
    /\ Finish(a)
    /\ UNCHANGED <<licVars, row, alerted, holder, doomed>>

\* Faulty variant: one seat too many.
SeatsFullOffByOne == Cardinality(ActiveBindings) > SeatLimit

\* active_count >= lic.seat_limit
SeatsFull == Cardinality(ActiveBindings) >= SeatLimit

\* Under the lock: read the active bindings and match.  A match with the right
\* install_id is reused; an install_id clash and a full license are refused,
\* committing the audit row (and, for a full license, a clone alert) before the
\* finally clause frees the lock.
MatchBinding(a) ==
    LET found == Matches(row, ActiveBindings, req[a])
    IN
    /\ pc[a] = "locked"
    /\ \/ \E s \in found :
             \/ /\ InstallClash(row[s], req[a])
                /\ Finish(a)
                /\ holder' = None
                /\ UNCHANGED alerted
             \/ /\ ~InstallClash(row[s], req[a])
                /\ pc' = [pc EXCEPT ![a] = "decided"]
                /\ plan' = [plan EXCEPT ![a] = "reuse"]
                /\ target' = [target EXCEPT ![a] = s]
                /\ seen' = [seen EXCEPT ![a] = row[s]]
                /\ UNCHANGED <<alerted, holder, req, snapStatus, snapUsed, late>>
       \/ /\ found = {}
          /\ SeatsFull
          /\ Finish(a)
          /\ alerted' = TRUE
          /\ holder' = None
       \/ /\ found = {}
          /\ ~SeatsFull
          /\ pc' = [pc EXCEPT ![a] = "decided"]
          /\ plan' = [plan EXCEPT ![a] = "insert"]
          /\ UNCHANGED <<alerted, holder, req, snapStatus, snapUsed, target, seen, late>>
    /\ UNCHANGED <<licVars, row, doomed>>

\* await self.db.flush(): the writes reach PostgreSQL and take their locks, or
\* fail, in which case the finally clause frees the lock and the request is a 500.
FlushBinding(a) ==
    /\ pc[a] = "decided"
    /\ ~FlushBlocked(a)
    /\ \/ /\ FlushFails(a)
          /\ Finish(a)
          /\ holder' = None
       \/ /\ ~FlushFails(a)
          /\ pc' = [pc EXCEPT ![a] = "flushed"]
          /\ IF plan[a] = "insert"
             THEN \E s \in FreeSlots : target' = [target EXCEPT ![a] = s]
             ELSE UNCHANGED target
          /\ UNCHANGED <<holder, req, snapStatus, snapUsed, plan, seen, late>>
    /\ UNCHANGED <<licVars, row, alerted, doomed>>

\* finally: DELETE forge:lock:seat:<id>, whoever set it; the transaction is open.
ReleaseSeatLock(a) ==
    /\ pc[a] = "flushed"
    /\ holder' = None
    /\ pc' = [pc EXCEPT ![a] = "released"]
    /\ UNCHANGED <<licVars, row, alerted, req, snapStatus, snapUsed, plan,
                   target, seen, late, doomed>>

\* The row a new binding is.
InsertedRow(q) ==
    [fp |-> q.fp, uid |-> q.uid, install |-> q.install, sig |-> q.sig,
     status |-> "active", hb |-> "fresh"]

\* Faulty variant: the UPDATE sets every column, as the session had read it.
ReusedRowOverwritten(cur, old, q) ==
    [old EXCEPT !.fp = q.fp, !.hb = "fresh",
                !.install = IF @ = None THEN q.install ELSE @,
                !.sig = IF q.sig # {} THEN q.sig ELSE @]

\* The UPDATE of a reused binding sets the columns whose value in the session
\* differs from the value it had read (old) and leaves the others as they are.
ReusedRow(cur, old, q) ==
    [fp      |-> IF q.fp # old.fp THEN q.fp ELSE cur.fp,
     uid     |-> cur.uid,
     install |-> IF old.install = None /\ q.install # None
                 THEN q.install ELSE cur.install,
     sig     |-> IF q.sig # {} /\ q.sig # old.sig THEN q.sig ELSE cur.sig,
     status  |-> cur.status,
     hb      |-> "fresh"]

\* Faulty variant: a renewed binding is counted again.
SeatUsedOfEveryActivation(a) ==
    (IF plan[a] = "insert" THEN snapUsed[a] ELSE seatUsed) + 1

\* licenses.seat_used after the commit: lic.seat_used += 1 writes what the
\* session computed from the row it had read before the lock.
SeatUsedAfter(a) == IF plan[a] = "insert" THEN snapUsed[a] + 1 ELSE seatUsed

\* _mint_lease and the final commit: the writes become visible.  The status is
\* written if the session's own copy said issued.
MintLeaseAndCommit(a) ==
    /\ pc[a] = "released"
    /\ seatUsed' = SeatUsedAfter(a)
    /\ \/ /\ plan[a] = "insert"
          /\ row' = [row EXCEPT ![target[a]] = InsertedRow(req[a])]
          /\ status' = IF snapStatus[a] = "issued" THEN "active" ELSE status
       \/ /\ plan[a] = "reuse"
          /\ row' = [row EXCEPT ![target[a]] = ReusedRow(@, seen[a], req[a])]
          /\ UNCHANGED status
    /\ Finish(a)
    /\ UNCHANGED <<pastTerm, revocation, alerted, holder, doomed>>

\* The edge process dies or loses its database: the transaction is rolled back
\* and nobody deletes the Redis key.
CrashActivate(a) ==
    /\ pc[a] \in InFlight
    /\ Finish(a)
    /\ UNCHANGED <<licVars, row, alerted, holder, doomed>>

Activate(a) ==
    \/ LookUp(a) \/ CheckRevoked(a) \/ AcquireSeatLock(a) \/ SeatLockBusy(a)
    \/ MatchBinding(a) \/ FlushBinding(a) \/ ReleaseSeatLock(a)
    \/ MintLeaseAndCommit(a)

\* Faulty variant: SET without EX.
SeatLockStays == FALSE /\ UNCHANGED vars

\* The 10 s of the key run out.  While its setter is between SET and DEL this
\* takes a section of the code longer than 10 s; SeatLockLapses allows only the
\* key of a dead setter to go, SeatLockExpires any.
SeatLockLapses ==
    /\ holder # None
    /\ pc[holder] \notin InLock
    /\ holder' = None
    /\ UNCHANGED <<licVars, row, alerted, actVars, doomed>>

SeatLockExpires ==
    /\ holder # None
    /\ holder' = None
    /\ UNCHANGED <<licVars, row, alerted, actVars, doomed>>

---------------------------------------------------------------------------
(* The worker (app/worker.py) and the administrator (issuance.py, licenses.py).
   Each of these transactions is one UPDATE batch and a commit, so it is one
   step, taken when no activation holds a row lock it needs. *)

\* reap_dead_bindings, the SELECT: ids of active bindings past the window.
ReapSelect(w) ==
    LET stale == {s \in ActiveBindings : row[s].hb = "stale"}
    IN
    /\ doomed[w] = {}
    /\ stale # {}
    /\ doomed' = [doomed EXCEPT ![w] = stale]
    /\ UNCHANGED <<licVars, row, alerted, holder, actVars>>

\* Faulty variant: the UPDATE of licenses without its condition.
SeatUsedReapedBlindly(n) == seatUsed - n

\* licenses.seat_used after n bindings of the license were reaped.
SeatUsedReaped(n) == IF seatUsed >= n THEN seatUsed - n ELSE seatUsed

\* reap_dead_bindings, the UPDATEs by id and the commit: the status is not
\* checked again, and seat_used drops by as many as were selected if it can.
ReapCommit(w) ==
    /\ doomed[w] # {}
    /\ ~LicenseRowLocked
    /\ \A s \in doomed[w] : ~RowLocked(s)
    /\ row' = [s \in Slot |-> IF s \in doomed[w] /\ row[s].status # "absent"
                              THEN [row[s] EXCEPT !.status = "dead"] ELSE row[s]]
    /\ seatUsed' = SeatUsedReaped(Cardinality(doomed[w]))
    /\ doomed' = [doomed EXCEPT ![w] = {}]
    /\ UNCHANGED <<status, pastTerm, revocation, alerted, holder, actVars>>

\* The worker dies in between; task_acks_late redelivers, and the task reselects.
ReapCrash(w) ==
    /\ doomed[w] # {}
    /\ doomed' = [doomed EXCEPT ![w] = {}]
    /\ UNCHANGED <<licVars, row, alerted, holder, actVars>>

\* sweep_expired_licenses
SweepExpired ==
    /\ pastTerm /\ status \notin {"expired", "revoked", "deleted"}
    /\ ~LicenseRowLocked
    /\ status' = "expired"
    /\ UNCHANGED <<seatUsed, pastTerm, revocation, row, alerted, holder,
                   actVars, doomed>>

\* IssuanceService.revoke
Revoke ==
    /\ Exists /\ status # "revoked"
    /\ ~LicenseRowLocked
    /\ status' = "revoked"
    /\ revocation' = "linked"
    /\ UNCHANGED <<seatUsed, pastTerm, row, alerted, holder, actVars, doomed>>

\* delete_license: the cascade takes the bindings, the revocation is unlinked.
DeleteLicense ==
    /\ Exists
    /\ \A a \in Activation : ~Uncommitted(a)
    /\ status' = "deleted"
    /\ seatUsed' = 0
    /\ row' = [s \in Slot |-> AbsentRow]
    /\ revocation' = IF revocation = "linked" THEN "unlinked" ELSE revocation
    /\ alerted' = FALSE
    /\ UNCHANGED <<pastTerm, holder, actVars, doomed>>

\* Ten minutes without a heartbeat; active_until is reached.
HeartbeatLapses(s) ==
    /\ s \in ActiveBindings /\ row[s].hb = "fresh"
    /\ row' = [row EXCEPT ![s].hb = "stale"]
    /\ UNCHANGED <<licVars, alerted, holder, actVars, doomed>>

TermEnds ==
    /\ Exists /\ ~Perpetual /\ ~pastTerm
    /\ pastTerm' = TRUE
    /\ UNCHANGED <<status, seatUsed, revocation, row, alerted, holder,
                   actVars, doomed>>

---------------------------------------------------------------------------
\* issue_online, possibly followed by activations of an older release whose
\* bindings carry neither install_id nor signals nor a heartbeat.
Init ==
    /\ pastTerm = FALSE /\ revocation = "none"
    /\ row \in [Slot -> LegacyRows \cup {AbsentRow}]
    /\ \A s, t \in Present : s # t => row[s].fp # row[t].fp
    /\ Cardinality(ActiveBindings) <= SeatLimit
    /\ seatUsed = Cardinality(ActiveBindings)
    /\ status = IF ActiveBindings = {} THEN "issued" ELSE "active"
    /\ alerted = FALSE /\ holder = None
    /\ pc = [a \in Activation |-> "idle"]
    /\ req = [a \in Activation |-> NoRequest]
    /\ snapStatus = [a \in Activation |-> "issued"]
    /\ snapUsed = [a \in Activation |-> 0]
    /\ plan = [a \in Activation |-> None]
    /\ target = [a \in Activation |-> None]
    /\ seen = [a \in Activation |-> AbsentRow]
    /\ late = [a \in Activation |-> FALSE]
    /\ doomed = [w \in Reaper |-> {}]

Environment ==
    \/ \E a \in Activation : CrashActivate(a)
    \/ \E w \in Reaper : ReapSelect(w) \/ ReapCommit(w) \/ ReapCrash(w)
    \/ SweepExpired \/ Revoke \/ DeleteLicense
    \/ \E s \in Slot : HeartbeatLapses(s)
    \/ TermEnds

Next == (\E a \in Activation : Activate(a)) \/ SeatLockLapses \/ Environment

Spec == Init /\ [][Next]_vars

\* Every request that reached the server is served to its answer, and Redis
\* expires keys; nobody is obliged to send a request, revoke, reap or crash.
Served(a) ==
    \/ CheckRevoked(a) \/ AcquireSeatLock(a) \/ SeatLockBusy(a)
    \/ MatchBinding(a) \/ FlushBinding(a) \/ ReleaseSeatLock(a)
    \/ MintLeaseAndCommit(a)

Fairness == (\A a \in Activation : WF_vars(Served(a))) /\ WF_vars(SeatLockLapses)

FairSpec == Spec /\ Fairness

\* The same system when a critical section can outlive the key's 10 s.
SlowNext == (\E a \in Activation : Activate(a)) \/ SeatLockExpires \/ Environment

SlowSpec == Init /\ [][SlowNext]_vars

---------------------------------------------------------------------------
(* Properties. *)

\* Every variable stays in its type.
TypeOK ==
    /\ pastTerm \in BOOLEAN /\ alerted \in BOOLEAN
    /\ status \in LicenseStatus
    /\ seatUsed \in Nat
    /\ revocation \in {"none", "linked", "unlinked"}
    /\ row \in [Slot -> Row]
    /\ holder \in Activation \cup {None}
    /\ pc \in [Activation -> Pc]
    /\ req \in [Activation -> Requests \cup {NoRequest}]
    /\ snapStatus \in [Activation -> LicenseStatus]
    /\ snapUsed \in [Activation -> Nat]
    /\ plan \in [Activation -> {"reuse", "insert", None}]
    /\ target \in [Activation -> Slot \cup {None}]
    /\ seen \in [Activation -> Row]
    /\ late \in [Activation -> BOOLEAN]
    /\ doomed \in [Reaper -> SUBSET Slot]

\* The Redis lock serialises the read-match-flush section of activate: as long
\* as that section ends before the key does, at most one request is in it.
SeatMutex ==
    \A a, b \in Activation : pc[a] \in InLock /\ pc[b] \in InLock => a = b

\* What the seat check really guarantees.  The lock is freed before the commit,
\* so the next request may count without its predecessor's row; the license's
\* row lock lets no third one flush meanwhile.  So committed active bindings
\* exceed seat_limit by one at most, however many requests compete.
SeatOvershootBounded == Cardinality(ActiveBindings) <= SeatLimit + 1

\* A flushed and uncommitted session has a new binding to make visible.
Pending(a) == Uncommitted(a) /\ plan[a] = "insert"

\* An active binding is a seat taken, a pending one a seat booked.
Pool ==
    INSTANCE SeatPool WITH
        Seat <- Slot, Limit <- SeatLimit, taken <- ActiveBindings,
        booked <- {target[a] : a \in {b \in Activation : Pending(b)}}

\* activate and the worker, whatever they read before it was stale, keep the pool
\* of seats: one seat at a time is booked, never while more are taken than were
\* sold, and a binding that was reaped while a request that matched it was under
\* way does not come back to life without a new booking.
PoolSpec == Pool!Spec

\* A request that reaches the edge after a revocation was committed is never
\* given a lease (its session never gets as far as writing): not even when an
\* activation in flight at that time overwrote licenses.status back to active,
\* and not when the license was deleted since.
RevokedRefused == \A a \in Activation : late[a] => ~Uncommitted(a)

\* seat_used may drift from the bindings it denormalises, but never above the
\* number of bindings the license ever had.
SeatUsedWithinRows == seatUsed <= Cardinality(Present)

\* One bare-metal host never occupies two seats of a license, whatever the
\* order in which a request, its retries and their commits arrive: the lock and
\* the match may both miss an uncommitted twin, the unique index does not.
HostHoldsOneSeat ==
    \A s, t \in ActiveBindings :
        row[s].uid = None /\ row[t].uid = None /\ row[s].fp = row[t].fp => s = t

\* An injected identity and a hardware identity never share a seat: the binding
\* a lease is committed for carries exactly the deployment_uid presented, so
\* validate's rule "a uid binding is not pinned to hardware" is never applied
\* to a host that proved only its hardware, nor the reverse.
ClusterIdentityHolds ==
    [][\A a \in Activation :
          MintLeaseAndCommit(a) => row'[target[a]].uid = req[a].uid]_vars

\* No request is left hanging: the Redis lock and PostgreSQL's row locks are
\* never waited for in a cycle.
EveryRequestAnswered ==
    \A a \in Activation : pc[a] \in InFlight ~> pc[a] \notin InFlight

\* A seat lock orphaned by a crash does not block the license for ever.
SeatLockComesFree == (holder # None) ~> (holder = None)

\* What docs and comments say and the code does not keep.

\* Project-design 02-database.md: the lock and the account in the database
\* keep concurrent activations from exceeding the seats.
SeatLimitHolds == Cardinality(ActiveBindings) <= SeatLimit

\* edge.py: activation media copied to an installation with another install_id
\* is refused - when a lease is committed, its binding carries the presented
\* install_id, or one of the two has none.
InstallLockHolds ==
    [][\A a \in Activation :
          MintLeaseAndCommit(a) => ~InstallClash(row'[target[a]], req[a])]_vars

=============================================================================
