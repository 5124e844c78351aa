------------------------- MODULE SeatControlProofs -------------------------
(***************************************************************************)
(* Theorems about SeatControl, for every number of concurrent requests, of   *)
(* reapers and of seats, and every set of identities.                       *)
(***************************************************************************)
EXTENDS SeatControl, FiniteSetTheorems, TLAPS

---------------------------------------------------------------------------
(* Types.                                                                    *)

\* The values the handlers build are rows, requests and counts.
LEMMA RowValues ==
    /\ AbsentRow \in Row
    /\ NoRequest \in [fp: Fingerprint \cup {None}, uid: Uid \cup {None},
                      install: Install \cup {None}, sig: SUBSET Signal]
    /\ \A q \in Requests \cup {NoRequest} : InsertedRow(q) \in Row
    /\ \A q \in Requests \cup {NoRequest} : \A cur, old \in Row :
          ReusedRow(cur, old, q) \in Row
    /\ \A r \in Row : /\ [r EXCEPT !.status = "dead"] \in Row
                     /\ [r EXCEPT !.hb = "stale"] \in Row
  <1>1. AbsentRow \in Row
    BY DEF AbsentRow, Row
  <1>2. NoRequest \in [fp: Fingerprint \cup {None}, uid: Uid \cup {None},
                       install: Install \cup {None}, sig: SUBSET Signal]
    BY DEF NoRequest
  <1>3. ASSUME NEW q \in Requests \cup {NoRequest}
        PROVE  q \in [fp: Fingerprint \cup {None}, uid: Uid \cup {None},
                      install: Install \cup {None}, sig: SUBSET Signal]
    BY <1>2, RequestsAssumption DEF IdentityRecord
  <1>4. \A q \in Requests \cup {NoRequest} : InsertedRow(q) \in Row
    BY <1>3 DEF InsertedRow, Row
  <1>5. ASSUME NEW q \in Requests \cup {NoRequest}, NEW cur \in Row, NEW old \in Row
        PROVE  ReusedRow(cur, old, q) \in Row
    BY <1>3 DEF ReusedRow, Row
  <1>6. \A r \in Row : /\ [r EXCEPT !.status = "dead"] \in Row
                       /\ [r EXCEPT !.hb = "stale"] \in Row
    BY DEF Row
  <1>7. QED
    BY <1>1, <1>2, <1>4, <1>5, <1>6

\* How many rows a set holds is a natural number that a subset cannot exceed.
LEMMA SlotCounts ==
    /\ \A S \in SUBSET Slot : Cardinality(S) \in Nat
    /\ \A S, T \in SUBSET Slot : S \subseteq T => Cardinality(S) <= Cardinality(T)
    /\ \A S \in SUBSET Slot, s \in Slot :
          Cardinality(S \cup {s}) <= Cardinality(S) + 1
  <1>1. \A S \in SUBSET Slot : IsFiniteSet(S)
    BY SlotAssumption, FS_Subset
  <1>2. \A S \in SUBSET Slot : Cardinality(S) \in Nat
    BY <1>1, FS_CardinalityType
  <1>3. \A S, T \in SUBSET Slot : S \subseteq T => Cardinality(S) <= Cardinality(T)
    BY <1>1, FS_Subset
  <1>4. ASSUME NEW S \in SUBSET Slot, NEW s \in Slot
        PROVE  Cardinality(S \cup {s}) <= Cardinality(S) + 1
    BY <1>1, <1>2, FS_AddElement
  <1>5. QED
    BY <1>2, <1>3, <1>4

\* Ending a request keeps the types of what it resets.
LEMMA FinishTypes ==
    ASSUME TypeOK, NEW a \in Activation, Finish(a)
    PROVE  /\ pc' \in [Activation -> Pc]
           /\ req' \in [Activation -> Requests \cup {NoRequest}]
           /\ snapStatus' \in [Activation -> LicenseStatus]
           /\ snapUsed' \in [Activation -> Nat]
           /\ plan' \in [Activation -> {"reuse", "insert", None}]
           /\ target' \in [Activation -> Slot \cup {None}]
           /\ seen' \in [Activation -> Row]
           /\ late' \in [Activation -> BOOLEAN]
  BY RowValues DEF TypeOK, Finish, Pc, LicenseStatus

LEMMA TypeInit == Init => TypeOK
  <1> SUFFICES ASSUME Init PROVE TypeOK
    OBVIOUS
  <1>1. row \in [Slot -> Row]
    BY RowValues, LegacyAssumption DEF Init
  <1>2. seatUsed \in Nat
    BY SlotCounts DEF Init, ActiveBindings
  <1>3. status \in LicenseStatus
    BY DEF Init, LicenseStatus
  <1>4. QED
    BY <1>1, <1>2, <1>3, RowValues DEF Init, TypeOK, Pc, LicenseStatus

\* A request that runs into one of the exits of activate: the seat lock, the
\* alert and the license are all that its handler may still change.
LEMMA FinishKeepsTypes ==
    ASSUME TypeOK, NEW a \in Activation, Finish(a),
           UNCHANGED <<licVars, row, doomed>>,
           alerted' \in BOOLEAN, holder' \in Activation \cup {None}
    PROVE  TypeOK'
  BY FinishTypes DEF TypeOK, licVars

LEMMA ActivateTypes ==
    ASSUME TypeOK, NEW a \in Activation, Activate(a)
    PROVE  TypeOK'
  <1>1. CASE LookUp(a)
    BY <1>1 DEF LookUp, TypeOK, licVars, Pc, InFlight
  <1>2. CASE CheckRevoked(a)
    <2>1. CASE Finish(a)
      BY <1>2, <2>1, FinishKeepsTypes DEF CheckRevoked, TypeOK
    <2>2. CASE ~Finish(a)
      BY <1>2, <2>2 DEF CheckRevoked, TypeOK, licVars, Pc, InFlight
    <2>3. QED
      BY <2>1, <2>2
  <1>3. CASE AcquireSeatLock(a)
    BY <1>3 DEF AcquireSeatLock, TypeOK, licVars, Pc, InFlight, InLock
  <1>4. CASE SeatLockBusy(a)
    BY <1>4, FinishKeepsTypes DEF SeatLockBusy, TypeOK
  <1>5. CASE MatchBinding(a)
    <2> DEFINE found == Matches(row, ActiveBindings, req[a])
    <2>1. found \subseteq Slot
      BY DEF Matches, ActiveBindings
    <2> HIDE DEF found
    <2>2. CASE Finish(a)
      BY <1>5, <2>2, FinishKeepsTypes DEF MatchBinding, TypeOK
    <2>3. CASE ~Finish(a) /\ plan' = [plan EXCEPT ![a] = "insert"]
      BY <1>5, <2>3 DEF MatchBinding, TypeOK, licVars, Pc, InFlight, InLock
    <2>4. CASE ~Finish(a) /\ \E s \in found :
                 /\ plan' = [plan EXCEPT ![a] = "reuse"]
                 /\ target' = [target EXCEPT ![a] = s]
                 /\ seen' = [seen EXCEPT ![a] = row[s]]
      BY <1>5, <2>1, <2>4 DEF MatchBinding, TypeOK, licVars, Pc, InFlight, InLock
    <2>5. QED
      BY <1>5, <2>2, <2>3, <2>4 DEF MatchBinding, found
  <1>6. CASE FlushBinding(a)
    <2>1. CASE Finish(a)
      BY <1>6, <2>1, FinishKeepsTypes DEF FlushBinding, TypeOK
    <2>2. CASE ~Finish(a)
      <3>1. FreeSlots \subseteq Slot
        BY DEF FreeSlots
      <3>2. target' \in [Activation -> Slot \cup {None}]
        BY <1>6, <2>2, <3>1 DEF FlushBinding, TypeOK
      <3>3. QED
        BY <1>6, <2>2, <3>2 DEF FlushBinding, TypeOK, licVars, Pc, InFlight, InLock
    <2>3. QED
      BY <2>1, <2>2
  <1>7. CASE ReleaseSeatLock(a)
    BY <1>7 DEF ReleaseSeatLock, TypeOK, licVars, Pc, InFlight
  <1>8. CASE MintLeaseAndCommit(a)
    <2>1. row' \in [Slot -> Row]
      BY <1>8, RowValues DEF MintLeaseAndCommit, TypeOK
    <2>2. seatUsed' \in Nat
      BY <1>8 DEF MintLeaseAndCommit, SeatUsedAfter, TypeOK
    <2>3. status' \in LicenseStatus
      BY <1>8 DEF MintLeaseAndCommit, TypeOK, LicenseStatus
    <2>4. QED
      BY <1>8, <2>1, <2>2, <2>3, FinishTypes DEF MintLeaseAndCommit, TypeOK
  <1>9. QED
    BY <1>1, <1>2, <1>3, <1>4, <1>5, <1>6, <1>7, <1>8 DEF Activate

LEMMA EnvironmentTypes ==
    ASSUME TypeOK, Environment
    PROVE  TypeOK'
  <1>1. ASSUME NEW a \in Activation, CrashActivate(a) PROVE TypeOK'
    BY <1>1, FinishKeepsTypes DEF CrashActivate, TypeOK
  <1>2. ASSUME NEW w \in Reaper, ReapSelect(w) PROVE TypeOK'
    BY <1>2 DEF ReapSelect, TypeOK, licVars, actVars, ActiveBindings
  <1>3. ASSUME NEW w \in Reaper, ReapCommit(w) PROVE TypeOK'
    <2>1. row' \in [Slot -> Row]
      BY <1>3, RowValues DEF ReapCommit, TypeOK
    <2>2. seatUsed' \in Nat
      BY <1>3, SlotCounts DEF ReapCommit, SeatUsedReaped, TypeOK
    <2>3. QED
      BY <1>3, <2>1, <2>2 DEF ReapCommit, TypeOK, actVars
  <1>4. ASSUME NEW w \in Reaper, ReapCrash(w) PROVE TypeOK'
    BY <1>4 DEF ReapCrash, TypeOK, licVars, actVars
  <1>5. CASE SweepExpired
    BY <1>5 DEF SweepExpired, TypeOK, actVars, LicenseStatus
  <1>6. CASE Revoke
    BY <1>6 DEF Revoke, TypeOK, actVars, LicenseStatus
  <1>7. CASE DeleteLicense
    BY <1>7, RowValues DEF DeleteLicense, TypeOK, actVars, LicenseStatus
  <1>8. ASSUME NEW s \in Slot, HeartbeatLapses(s) PROVE TypeOK'
    <2>1. row' \in [Slot -> Row]
      BY <1>8, RowValues DEF HeartbeatLapses, TypeOK
    <2>2. QED
      BY <1>8, <2>1 DEF HeartbeatLapses, TypeOK, licVars, actVars
  <1>9. CASE TermEnds
    BY <1>9 DEF TermEnds, TypeOK, actVars
  <1>10. QED
    BY <1>1, <1>2, <1>3, <1>4, <1>5, <1>6, <1>7, <1>8, <1>9 DEF Environment

\* A system whose seat lock only outlives dead setters is one whose seat lock
\* may expire at any time.
LEMMA NextIsSlow == ASSUME Next PROVE SlowNext
  BY DEF Next, SlowNext, SeatLockLapses, SeatLockExpires

LEMMA TypeNext == TypeOK /\ [SlowNext]_vars => TypeOK'
  <1> SUFFICES ASSUME TypeOK, [SlowNext]_vars PROVE TypeOK'
    OBVIOUS
  <1>1. CASE SeatLockExpires
    BY <1>1 DEF SeatLockExpires, TypeOK, licVars, actVars
  <1>2. CASE UNCHANGED vars
    BY <1>2 DEF vars, TypeOK, licVars, actVars
  <1>3. QED
    BY <1>1, <1>2, ActivateTypes, EnvironmentTypes DEF SlowNext

\* Every state of the system has its types, even when critical sections outlive
\* the seat lock: in particular licenses.seat_used never goes below zero
\* (ck_licenses_seats), however the reapers interleave with activations.
THEOREM SlowTypeCorrect == SlowSpec => []TypeOK
  BY TypeInit, TypeNext, PTL DEF SlowSpec

THEOREM TypeCorrect == Spec => []TypeOK
  <1>1. [Next]_vars => [SlowNext]_vars
    BY NextIsSlow
  <1>2. QED
    BY <1>1, TypeInit, TypeNext, PTL DEF Spec

---------------------------------------------------------------------------
(* The seat lock.                                                            *)

\* A request inside the locked section of activate is the one that set the key.
LockInv == \A a \in Activation : pc[a] \in InLock => holder = a

LEMMA LockInit == Init => LockInv
  BY DEF Init, LockInv, InLock

LEMMA LockNext == TypeOK /\ LockInv /\ [Next]_vars => LockInv'
  <1> SUFFICES ASSUME TypeOK, LockInv, [Next]_vars PROVE LockInv'
    OBVIOUS
  <1> USE DEF LockInv, InLock
  <1>1. ASSUME NEW a \in Activation, Activate(a) PROVE LockInv'
    <2>1. CASE LookUp(a)
      BY <2>1 DEF LookUp, TypeOK
    <2>2. CASE CheckRevoked(a)
      BY <2>2 DEF CheckRevoked, Finish, TypeOK
    <2>3. CASE AcquireSeatLock(a)
      BY <2>3, NoneAssumption DEF AcquireSeatLock, TypeOK
    <2>4. CASE SeatLockBusy(a)
      BY <2>4 DEF SeatLockBusy, Finish, TypeOK
    <2>5. CASE MatchBinding(a)
      <3>1. \/ Finish(a)
            \/ holder' = holder /\ pc' = [pc EXCEPT ![a] = "decided"]
        BY <2>5 DEF MatchBinding
      <3>2. pc[a] = "locked"
        BY <2>5 DEF MatchBinding
      <3>3. QED
        BY <3>1, <3>2 DEF Finish, TypeOK
    <2>6. CASE FlushBinding(a)
      BY <2>6 DEF FlushBinding, Finish, TypeOK
    <2>7. CASE ReleaseSeatLock(a)
      BY <2>7 DEF ReleaseSeatLock, TypeOK
    <2>8. CASE MintLeaseAndCommit(a)
      BY <2>8 DEF MintLeaseAndCommit, Finish, TypeOK
    <2>9. QED
      BY <1>1, <2>1, <2>2, <2>3, <2>4, <2>5, <2>6, <2>7, <2>8 DEF Activate
  <1>2. CASE SeatLockLapses
    BY <1>2 DEF SeatLockLapses, actVars
  <1>3. CASE Environment
    <2>1. ASSUME NEW a \in Activation, CrashActivate(a) PROVE LockInv'
      BY <2>1 DEF CrashActivate, Finish, TypeOK
    <2>2. CASE UNCHANGED <<pc, holder>>
      BY <2>2
    <2>3. QED
      BY <1>3, <2>1, <2>2 DEF Environment, ReapSelect, ReapCommit, ReapCrash,
         SweepExpired, Revoke, DeleteLicense, HeartbeatLapses, TermEnds, actVars
  <1>4. CASE UNCHANGED vars
    BY <1>4 DEF vars, actVars
  <1>5. QED
    BY <1>1, <1>2, <1>3, <1>4 DEF Next

\* When the locked section of activate ends before its key expires, no two
\* requests are ever inside it, although the finally clause deletes the key
\* without asking who set it.
THEOREM SeatMutexHolds == Spec => []SeatMutex
  <1>1. LockInv => SeatMutex
    BY DEF LockInv, SeatMutex
  <1>2. QED
    BY <1>1, TypeCorrect, LockInit, LockNext, PTL DEF Spec

---------------------------------------------------------------------------
(* Revocation.                                                               *)

\* A request carries a fingerprint; past the match it knows what it is going to
\* write.
PlanInv ==
    \A a \in Activation :
        /\ pc[a] # "idle" => req[a].fp # None
        /\ pc[a] = "decided" => \/ plan[a] = "insert"
                                \/ plan[a] = "reuse" /\ target[a] \in Slot
        /\ Uncommitted(a) => plan[a] \in {"insert", "reuse"} /\ target[a] \in Slot

\* A deleted license has no bindings and no session that has written to it.
DeletedInv ==
    /\ ~Exists => ActiveBindings = {} /\ Present = {}
    /\ \A a \in Activation : Uncommitted(a) => Exists

\* A request that came after a revocation gets past _check_revoked only when the
\* license, which the revocation is then no longer linked to, was deleted.
LateInv ==
    /\ revocation = "unlinked" => ~Exists
    /\ \A a \in Activation : late[a] =>
          /\ revocation # "none" /\ pc[a] # "idle"
          /\ pc[a] # "looked" => revocation = "unlinked"

RevInv == PlanInv /\ DeletedInv /\ LateInv

LEMMA RevInit == Init => RevInv
  <1> SUFFICES ASSUME Init PROVE RevInv
    OBVIOUS
  <1>1. Exists
    BY DEF Init, Exists
  <1>2. QED
    BY <1>1 DEF Init, RevInv, PlanInv, DeletedInv, LateInv, Uncommitted

\* The request ends and its handler touches nothing of the license.
LEMMA FinishKeepsRev ==
    ASSUME TypeOK, RevInv, NEW a \in Activation, Finish(a), UNCHANGED <<licVars, row>>
    PROVE  RevInv'
  BY DEF Finish, TypeOK, RevInv, PlanInv, DeletedInv, LateInv, Uncommitted, Exists,
         ActiveBindings, Present, licVars

LEMMA ActivateKeepsRev ==
    ASSUME TypeOK, RevInv, NEW a \in Activation, Activate(a)
    PROVE  RevInv'
  <1> USE DEF RevInv, PlanInv, LateInv, DeletedInv, Uncommitted, Exists,
              ActiveBindings, Present, licVars
  <1>1. CASE LookUp(a)
    <2>1. PICK q \in Requests : req' = [req EXCEPT ![a] = q]
      BY <1>1 DEF LookUp
    <2>2. q.fp # None
      BY RequestsAssumption, NoneAssumption DEF IdentityRecord
    <2>3. QED
      BY <1>1, <2>1, <2>2 DEF LookUp, TypeOK, WindowRefuses
  <1>2. CASE CheckRevoked(a)
    <2>1. CASE Finish(a)
      BY <1>2, <2>1, FinishKeepsRev DEF CheckRevoked
    <2>2. CASE ~Finish(a)
      BY <1>2, <2>2 DEF CheckRevoked, RevocationFound, TypeOK
    <2>3. QED
      BY <2>1, <2>2
  <1>3. CASE AcquireSeatLock(a)
    BY <1>3 DEF AcquireSeatLock, TypeOK
  <1>4. CASE SeatLockBusy(a)
    BY <1>4, FinishKeepsRev DEF SeatLockBusy
  <1>5. CASE MatchBinding(a)
    <2>1. CASE Finish(a)
      BY <1>5, <2>1, FinishKeepsRev DEF MatchBinding
    <2>2. CASE ~Finish(a) /\ plan' = [plan EXCEPT ![a] = "insert"]
      BY <1>5, <2>2 DEF MatchBinding, TypeOK
    <2>3. CASE ~Finish(a) /\ \E s \in Slot :
                 /\ plan' = [plan EXCEPT ![a] = "reuse"]
                 /\ target' = [target EXCEPT ![a] = s]
      <3>1. PICK s \in Slot : /\ plan' = [plan EXCEPT ![a] = "reuse"]
                              /\ target' = [target EXCEPT ![a] = s]
        BY <2>3
      <3>2. /\ pc[a] = "locked" /\ pc' = [pc EXCEPT ![a] = "decided"]
            /\ late' = late /\ req' = req
            /\ UNCHANGED <<licVars, row>>
        BY <1>5, <2>3 DEF MatchBinding
      <3>3. PlanInv'
        BY <3>1, <3>2 DEF TypeOK
      <3>4. DeletedInv'
        BY <3>2 DEF TypeOK
      <3>5. LateInv'
        BY <3>2 DEF TypeOK
      <3>6. QED
        BY <3>3, <3>4, <3>5
    <2>4. Matches(row, ActiveBindings, req[a]) \subseteq Slot
      BY DEF Matches
    <2>5. QED
      BY <1>5, <2>1, <2>2, <2>3, <2>4 DEF MatchBinding
  <1>6. CASE FlushBinding(a)
    <2>1. CASE Finish(a)
      BY <1>6, <2>1, FinishKeepsRev DEF FlushBinding
    <2>2. CASE ~Finish(a)
      <3>1. status # "deleted"
        BY <1>6, <2>2 DEF FlushBinding, FlushFails
      <3>2. plan[a] = "insert" => \E s \in Slot : target' = [target EXCEPT ![a] = s]
        BY <1>6, <2>2 DEF FlushBinding, FreeSlots
      <3>3. plan[a] # "insert" => target' = target
        BY <1>6, <2>2 DEF FlushBinding
      <3>4. QED
        BY <1>6, <2>2, <3>1, <3>2, <3>3 DEF FlushBinding, TypeOK
    <2>3. QED
      BY <2>1, <2>2
  <1>7. CASE ReleaseSeatLock(a)
    BY <1>7 DEF ReleaseSeatLock, TypeOK
  <1>8. CASE MintLeaseAndCommit(a)
    <2>1. status # "deleted" /\ status' # "deleted"
      BY <1>8 DEF MintLeaseAndCommit
    <2>2. QED
      BY <1>8, <2>1 DEF MintLeaseAndCommit, Finish, TypeOK
  <1>9. QED
    BY <1>1, <1>2, <1>3, <1>4, <1>5, <1>6, <1>7, <1>8 DEF Activate

LEMMA EnvironmentKeepsRev ==
    ASSUME TypeOK, RevInv, Environment
    PROVE  RevInv'
  <1> USE DEF RevInv, PlanInv, LateInv, DeletedInv, Uncommitted, Exists,
              ActiveBindings, Present, licVars, actVars
  <1>1. ASSUME NEW a \in Activation, CrashActivate(a) PROVE RevInv'
    BY <1>1, FinishKeepsRev DEF CrashActivate
  <1>2. ASSUME NEW w \in Reaper, ReapSelect(w) \/ ReapCrash(w) PROVE RevInv'
    BY <1>2 DEF ReapSelect, ReapCrash
  <1>3. ASSUME NEW w \in Reaper, ReapCommit(w) PROVE RevInv'
    <2>1. \A s \in Slot : row[s].status = "absent" => row'[s] = row[s]
      BY <1>3 DEF ReapCommit
    <2>2. ~Exists => ActiveBindings' = {} /\ Present' = {}
      BY <2>1
    <2>3. QED
      BY <1>3, <2>2 DEF ReapCommit
  <1>4. CASE SweepExpired
    BY <1>4 DEF SweepExpired
  <1>5. CASE Revoke
    BY <1>5 DEF Revoke
  <1>6. CASE DeleteLicense
    <2>1. ActiveBindings' = {} /\ Present' = {}
      BY <1>6 DEF DeleteLicense, AbsentRow
    <2>2. QED
      BY <1>6, <2>1 DEF DeleteLicense
  <1>7. ASSUME NEW s \in Slot, HeartbeatLapses(s) PROVE RevInv'
    <2>1. Exists
      BY <1>7 DEF HeartbeatLapses
    <2>2. QED
      BY <1>7, <2>1 DEF HeartbeatLapses
  <1>8. CASE TermEnds
    BY <1>8 DEF TermEnds
  <1>9. QED
    BY <1>1, <1>2, <1>3, <1>4, <1>5, <1>6, <1>7, <1>8 DEF Environment

LEMMA RevNext == TypeOK /\ RevInv /\ [SlowNext]_vars => RevInv'
  <1> SUFFICES ASSUME TypeOK, RevInv, [SlowNext]_vars PROVE RevInv'
    OBVIOUS
  <1>1. CASE SeatLockExpires \/ UNCHANGED vars
    BY <1>1 DEF SeatLockExpires, vars, licVars, actVars, RevInv, PlanInv, LateInv,
       DeletedInv, Uncommitted, Exists, ActiveBindings, Present
  <1>2. QED
    BY <1>1, ActivateKeepsRev, EnvironmentKeepsRev DEF SlowNext

\* Whatever activations, reapers and administrators do, and however long a
\* critical section lasts, a request that arrived after a revocation committed
\* is never given a lease.
THEOREM RevokedRefusedHolds == SlowSpec => []RevokedRefused
  <1>1. RevInv => RevokedRefused
    BY DEF RevInv, DeletedInv, LateInv, Uncommitted, RevokedRefused
  <1>2. QED
    BY <1>1, TypeInit, TypeNext, RevInit, RevNext, PTL DEF SlowSpec

---------------------------------------------------------------------------
(* The seat count.                                                           *)

\* Requests that counted a free seat and have not flushed.
Admitted(a) == pc[a] = "decided" /\ plan[a] = "insert"

Occupied == Cardinality(ActiveBindings)

\* The license's row lock admits one pending binding; a request that counted
\* while one was pending did so below the limit, so the two together exceed it
\* by one at most, and nobody else is admitted before the first is visible.
CountInv ==
    /\ \A a, b \in Activation : Pending(a) /\ Pending(b) => a = b
    /\ Occupied <= SeatLimit + 1
    /\ \A a \in Activation : Pending(a) \/ Admitted(a) => Occupied <= SeatLimit
    /\ \A a, b \in Activation : Admitted(a) /\ Pending(b) => Occupied < SeatLimit

LEMMA OccupiedCounts ==
    /\ Occupied \in Nat
    /\ Occupied' \in Nat
    /\ ActiveBindings' \subseteq ActiveBindings => Occupied' <= Occupied
    /\ \A s \in Slot : ActiveBindings' \subseteq ActiveBindings \cup {s}
          => Occupied' <= Occupied + 1
  <1>1. /\ ActiveBindings \in SUBSET Slot
        /\ ActiveBindings' \in SUBSET Slot
        /\ \A s \in Slot : ActiveBindings \cup {s} \in SUBSET Slot
    BY DEF ActiveBindings
  <1>2. /\ Occupied \in Nat
        /\ Occupied' \in Nat
        /\ ActiveBindings' \subseteq ActiveBindings => Occupied' <= Occupied
    BY <1>1, SlotCounts DEF Occupied
  <1>3. ASSUME NEW s \in Slot, ActiveBindings' \subseteq ActiveBindings \cup {s}
        PROVE  Occupied' <= Occupied + 1
    <2>1. /\ Occupied' <= Cardinality(ActiveBindings \cup {s})
          /\ Cardinality(ActiveBindings \cup {s}) <= Occupied + 1
          /\ Cardinality(ActiveBindings \cup {s}) \in Nat
      BY <1>1, <1>3, SlotCounts DEF Occupied
    <2>2. QED
      BY <1>2, <2>1
  <1>4. QED
    BY <1>2, <1>3

LEMMA CountInit == Init => CountInv
  BY SlotCounts, SeatLimitAssumption
     DEF Init, CountInv, Pending, Admitted, Uncommitted, Occupied, ActiveBindings

\* A step that admits nobody, flushes nothing and adds no active binding.
LEMMA QuietStep ==
    ASSUME CountInv, ActiveBindings' \subseteq ActiveBindings,
           \A a \in Activation : Pending(a)' => Pending(a),
           \A a \in Activation : Admitted(a)' => Admitted(a)
    PROVE  CountInv'
  BY OccupiedCounts, SeatLimitAssumption DEF CountInv

LEMMA FinishIsQuiet ==
    ASSUME TypeOK, CountInv, NEW a \in Activation, Finish(a), UNCHANGED row
    PROVE  CountInv'
  <1>1. ActiveBindings' \subseteq ActiveBindings
    BY DEF ActiveBindings
  <1>2. \A b \in Activation : /\ Pending(b)' => Pending(b)
                              /\ Admitted(b)' => Admitted(b)
    BY DEF Finish, TypeOK, Pending, Admitted, Uncommitted
  <1>3. QED
    BY <1>1, <1>2, QuietStep

\* Counting a free seat: the others in the locked section are none.
LEMMA MatchKeepsCount ==
    ASSUME TypeOK, CountInv, NEW a \in Activation, MatchBinding(a)
    PROVE  CountInv'
  <1>1. CASE Finish(a)
    BY <1>1, FinishIsQuiet DEF MatchBinding
  <1>2. CASE ~Finish(a) /\ SeatsFull
    <2>1. plan' = [plan EXCEPT ![a] = "reuse"] /\ pc' = [pc EXCEPT ![a] = "decided"]
      BY <1>2 DEF MatchBinding
    <2>2. QED
      BY <2>1, <1>2, QuietStep
         DEF MatchBinding, TypeOK, Pending, Admitted, Uncommitted, ActiveBindings
  <1>3. CASE ~Finish(a) /\ ~SeatsFull
    <2>1. Occupied < SeatLimit /\ Occupied' = Occupied
      BY <1>3, OccupiedCounts, SeatLimitAssumption
         DEF MatchBinding, SeatsFull, Occupied, ActiveBindings
    <2>2. \A b \in Activation : Pending(b)' => Pending(b)
      BY <1>3 DEF MatchBinding, TypeOK, Pending, Uncommitted
    <2>3. QED
      BY <2>1, <2>2, OccupiedCounts, SeatLimitAssumption DEF CountInv
  <1>4. QED
    BY <1>1, <1>2, <1>3

\* Flushing a new binding: nobody else has one pending, and nobody else is
\* admitted, being in the locked section.
LEMMA FlushKeepsCount ==
    ASSUME TypeOK, LockInv, CountInv, NEW a \in Activation, FlushBinding(a)
    PROVE  CountInv'
  <1>1. CASE Finish(a)
    BY <1>1, FinishIsQuiet DEF FlushBinding
  <1>2. CASE ~Finish(a)
    <2>1. /\ pc[a] = "decided" /\ pc' = [pc EXCEPT ![a] = "flushed"]
          /\ plan' = plan /\ row' = row
      BY <1>2 DEF FlushBinding
    <2>2. Occupied' = Occupied
      BY <2>1 DEF Occupied, ActiveBindings
    <2>3. \A b \in Activation : /\ Admitted(b)' => Admitted(b) /\ b # a
                                /\ Pending(b)' => Pending(b) \/ (b = a /\ Admitted(a))
      BY <2>1 DEF TypeOK, Pending, Admitted, Uncommitted
    <2>4. \A b \in Activation : Admitted(b) => b = a
      BY <2>1 DEF LockInv, InLock, Admitted
    <2>5. \A b \in Activation : Pending(b) /\ Admitted(a) => b = a
      BY <1>2 DEF FlushBinding, FlushBlocked, Pending, Admitted
    <2>6. \A b \in Activation : ~Admitted(b)'
      BY <2>3, <2>4
    <2>7. \A b \in Activation : Pending(b)' => Pending(b) \/ Admitted(b)
      BY <2>3
    <2>8. \A b, c \in Activation : Pending(b)' /\ Pending(c)' => b = c
      BY <2>3, <2>5 DEF CountInv
    <2>9. QED
      BY <2>2, <2>6, <2>7, <2>8 DEF CountInv
  <1>3. QED
    BY <1>1, <1>2

\* Committing: the one pending binding becomes visible.
LEMMA CommitKeepsCount ==
    ASSUME TypeOK, PlanInv, CountInv, NEW a \in Activation, MintLeaseAndCommit(a)
    PROVE  CountInv'
  <1>1. /\ target[a] \in Slot
        /\ \A b \in Activation : /\ Pending(b)' => Pending(b) /\ b # a
                                 /\ Admitted(b)' => Admitted(b)
    BY DEF MintLeaseAndCommit, Finish, PlanInv, TypeOK, Pending, Admitted, Uncommitted
  <1>2. CASE /\ plan[a] = "insert"
             /\ row' = [row EXCEPT ![target[a]] = InsertedRow(req[a])]
    <2>1. Pending(a)
      BY <1>2 DEF MintLeaseAndCommit, Pending, Uncommitted
    <2>2. ActiveBindings' \subseteq ActiveBindings \cup {target[a]}
      BY <1>2 DEF ActiveBindings, TypeOK
    <2>3. Occupied' <= Occupied + 1
      BY <1>1, <2>2, OccupiedCounts
    <2>4. \A b \in Activation : ~Pending(b)'
      BY <1>1, <2>1 DEF CountInv
    <2>5. Occupied' <= SeatLimit + 1
      BY <2>1, <2>3, OccupiedCounts, SeatLimitAssumption DEF CountInv
    <2>6. \A b \in Activation : Admitted(b)' => Occupied' <= SeatLimit
      BY <1>1, <2>1, <2>3, OccupiedCounts, SeatLimitAssumption DEF CountInv
    <2>7. QED
      BY <2>4, <2>5, <2>6 DEF CountInv
  <1>3. CASE row' = [row EXCEPT ![target[a]] = ReusedRow(@, seen[a], req[a])]
    <2>1. ActiveBindings' \subseteq ActiveBindings
      BY <1>3 DEF ActiveBindings, ReusedRow, TypeOK
    <2>2. QED
      BY <1>1, <2>1, QuietStep
  <1>4. QED
    BY <1>2, <1>3 DEF MintLeaseAndCommit

LEMMA ActivateKeepsCount ==
    ASSUME TypeOK, LockInv, PlanInv, CountInv, NEW a \in Activation, Activate(a)
    PROVE  CountInv'
  <1> USE DEF Pending, Admitted, Uncommitted, ActiveBindings
  <1>1. CASE LookUp(a)
    BY <1>1, QuietStep DEF LookUp, TypeOK
  <1>2. CASE CheckRevoked(a)
    <2>1. CASE Finish(a)
      BY <1>2, <2>1, FinishIsQuiet DEF CheckRevoked
    <2>2. CASE ~Finish(a)
      BY <1>2, <2>2, QuietStep DEF CheckRevoked, TypeOK
    <2>3. QED
      BY <2>1, <2>2
  <1>3. CASE AcquireSeatLock(a)
    BY <1>3, QuietStep DEF AcquireSeatLock, TypeOK
  <1>4. CASE SeatLockBusy(a)
    BY <1>4, FinishIsQuiet DEF SeatLockBusy
  <1>5. CASE ReleaseSeatLock(a)
    BY <1>5, QuietStep DEF ReleaseSeatLock, TypeOK
  <1>6. QED
    BY <1>1, <1>2, <1>3, <1>4, <1>5, MatchKeepsCount, FlushKeepsCount,
       CommitKeepsCount DEF Activate

LEMMA CountNext ==
    TypeOK /\ LockInv /\ PlanInv /\ CountInv /\ [Next]_vars => CountInv'
  <1> SUFFICES ASSUME TypeOK, LockInv, PlanInv, CountInv, [Next]_vars
               PROVE  CountInv'
    OBVIOUS
  <1> USE DEF Pending, Admitted, Uncommitted, ActiveBindings
  <1>1. ASSUME NEW a \in Activation, CrashActivate(a) PROVE CountInv'
    BY <1>1, FinishIsQuiet DEF CrashActivate
  <1>2. CASE /\ UNCHANGED <<pc, plan>>
             /\ \A s \in Slot : row'[s].status = "active" => row[s].status = "active"
    BY <1>2, QuietStep
  <1>3. ASSUME NEW w \in Reaper, ReapCommit(w) PROVE CountInv'
    BY <1>2, <1>3 DEF ReapCommit, actVars, TypeOK, Row
  <1>4. CASE DeleteLicense
    BY <1>2, <1>4 DEF DeleteLicense, actVars, AbsentRow
  <1>5. ASSUME NEW t \in Slot, HeartbeatLapses(t) PROVE CountInv'
    BY <1>2, <1>5 DEF HeartbeatLapses, actVars, TypeOK
  <1>6. ASSUME NEW w \in Reaper, ReapSelect(w) \/ ReapCrash(w) PROVE CountInv'
    BY <1>2, <1>6 DEF ReapSelect, ReapCrash, actVars
  <1>7. CASE \/ SweepExpired \/ Revoke \/ TermEnds
             \/ SeatLockLapses \/ UNCHANGED vars
    BY <1>2, <1>7 DEF SweepExpired, Revoke, TermEnds, SeatLockLapses, vars, actVars
  <1>8. QED
    BY <1>1, <1>3, <1>4, <1>5, <1>6, <1>7, ActivateKeepsCount DEF Next, Environment

\* However many requests, reapers and administrators compete, and although the
\* seat lock is freed before the commit, the committed active bindings exceed
\* seat_limit by one at most as long as no critical section outlives the lock.
THEOREM SeatOvershootBoundedHolds == Spec => []SeatOvershootBounded
  <1>1. CountInv => SeatOvershootBounded
    BY DEF CountInv, Occupied, SeatOvershootBounded
  <1>2. RevInv => PlanInv
    BY DEF RevInv
  <1>3. [Next]_vars => [SlowNext]_vars
    BY NextIsSlow
  <1>4. QED
    BY <1>1, <1>2, <1>3, TypeInit, TypeNext, LockInit, LockNext, RevInit, RevNext,
       CountInit, CountNext, PTL DEF Spec

---------------------------------------------------------------------------
(* The pool of seats.                                                        *)

Booked == {target[a] : a \in {b \in Activation : Pending(b)}}

PoolVars == <<ActiveBindings, Booked>>

LEMMA PoolInit == Init => Pool!Init
  <1> SUFFICES ASSUME Init PROVE Pool!Init
    OBVIOUS
  <1>1. ActiveBindings \subseteq Slot
    BY DEF ActiveBindings
  <1>2. Booked = {}
    BY DEF Init, Booked, Pending, Uncommitted
  <1>3. Cardinality(ActiveBindings) <= SeatLimit
    BY DEF Init
  <1>4. QED
    BY <1>1, <1>2, <1>3 DEF Pool!Init, Booked, Pool!Cardinality, Cardinality

\* A step that books nothing and takes nothing can give seats back.
LEMMA PoolGivesBack ==
    ASSUME ActiveBindings' \subseteq ActiveBindings, Booked' = Booked
    PROVE  Pool!Next
  <1>1. /\ ActiveBindings \ ActiveBindings' \in SUBSET ActiveBindings
        /\ ActiveBindings' = ActiveBindings \ (ActiveBindings \ ActiveBindings')
    OBVIOUS
  <1>2. Pool!GiveBack(ActiveBindings \ ActiveBindings')
    BY <1>1 DEF Pool!GiveBack, Booked
  <1>3. QED
    BY <1>1, <1>2 DEF Pool!Next

\* Sessions other than a keep what they flushed.
LEMMA OthersBooked ==
    ASSUME NEW a \in Activation,
           \A b \in Activation \ {a} :
              (Pending(b)' <=> Pending(b)) /\ target'[b] = target[b]
    PROVE  /\ (Pending(a)' <=> Pending(a)) /\ target'[a] = target[a] => Booked' = Booked
           /\ ~Pending(a) /\ ~Pending(a)' => Booked' = Booked
           /\ (\A b \in Activation : Pending(b) => b = a) =>
                 /\ ~Pending(a)' => Booked' = {}
                 /\ Pending(a)' => Booked' = {target'[a]}
                 /\ Pending(a) => Booked = {target[a]}
                 /\ ~Pending(a) => Booked = {}
  BY DEF Booked

LEMMA FinishUnbooks ==
    ASSUME TypeOK, CountInv, NEW a \in Activation, Finish(a)
    PROVE  /\ ~Pending(a) => Booked' = Booked
           /\ Pending(a) => Booked = {target[a]} /\ Booked' = {}
  <1>1. /\ \A b \in Activation \ {a} :
              (Pending(b)' <=> Pending(b)) /\ target'[b] = target[b]
        /\ ~Pending(a)'
    BY DEF Finish, TypeOK, Pending, Uncommitted
  <1>2. Pending(a) => \A b \in Activation : Pending(b) => b = a
    BY DEF CountInv
  <1>3. QED
    BY <1>1, <1>2, OthersBooked

LEMMA FinishInPool ==
    ASSUME TypeOK, CountInv, NEW a \in Activation, Finish(a), UNCHANGED row
    PROVE  Pool!Next
  <1>1. ActiveBindings' = ActiveBindings
    BY DEF ActiveBindings
  <1>2. CASE Pending(a)
    <2>1. Pool!Cancel
      BY <1>1, <1>2, FinishUnbooks DEF Pool!Cancel, Booked
    <2>2. QED
      BY <2>1 DEF Pool!Next
  <1>3. CASE ~Pending(a)
    BY <1>1, <1>3, FinishUnbooks, PoolGivesBack
  <1>4. QED
    BY <1>2, <1>3

\* Flushing a new binding books a seat: the license's row lock shows that none is
\* booked, the count under the seat lock that no more are taken than were sold.
LEMMA FlushInPool ==
    ASSUME TypeOK, CountInv, NEW a \in Activation, FlushBinding(a)
    PROVE  Pool!Next
  <1>1. CASE Finish(a)
    BY <1>1, FinishInPool DEF FlushBinding
  <1>2. CASE ~Finish(a)
    <2>1. /\ pc[a] = "decided" /\ pc' = [pc EXCEPT ![a] = "flushed"]
          /\ plan' = plan /\ row' = row
          /\ plan[a] = "insert" =>
                \E s \in FreeSlots : target' = [target EXCEPT ![a] = s]
          /\ plan[a] # "insert" => target' = target
      BY <1>2 DEF FlushBinding
    <2>2. /\ \A b \in Activation \ {a} :
                (Pending(b)' <=> Pending(b)) /\ target'[b] = target[b]
          /\ ~Pending(a)
          /\ Pending(a)' <=> plan[a] = "insert"
          /\ ActiveBindings' = ActiveBindings
      BY <2>1 DEF TypeOK, Pending, Uncommitted, ActiveBindings
    <2>3. CASE plan[a] = "insert"
      <3>1. \A b \in Activation : Pending(b) => b = a
        BY <1>2, <2>3 DEF FlushBinding, FlushBlocked, Pending
      <3>2. PICK s \in FreeSlots : target' = [target EXCEPT ![a] = s]
        BY <2>1, <2>3
      <3>3. Booked = {} /\ Booked' = {s}
        BY <2>2, <2>3, <3>1, <3>2, OthersBooked DEF TypeOK
      <3>4. s \in Slot /\ s \notin ActiveBindings
        BY DEF FreeSlots, ActiveBindings
      <3>5. Cardinality(ActiveBindings) <= SeatLimit
        BY <2>1, <2>3 DEF CountInv, Admitted, Occupied
      <3>6. Pool!Book(s)
        BY <2>2, <3>3, <3>4, <3>5 DEF Pool!Book, Booked, Pool!Cardinality, Cardinality
      <3>7. QED
        BY <3>4, <3>6 DEF Pool!Next
    <2>4. CASE plan[a] # "insert"
      BY <2>2, <2>4, OthersBooked, PoolGivesBack
    <2>5. QED
      BY <2>3, <2>4
  <1>3. QED
    BY <1>1, <1>2

\* Committing takes the booked seat; committing a binding that was matched takes
\* none, also when it was reaped in between.
LEMMA CommitInPool ==
    ASSUME TypeOK, PlanInv, CountInv, NEW a \in Activation, MintLeaseAndCommit(a)
    PROVE  Pool!Next
  <1>1. target[a] \in Slot /\ Finish(a)
    BY DEF MintLeaseAndCommit, PlanInv, TypeOK, Uncommitted
  <1>2. CASE /\ plan[a] = "insert"
             /\ row' = [row EXCEPT ![target[a]] = InsertedRow(req[a])]
    <2>1. Pending(a)
      BY <1>2 DEF MintLeaseAndCommit, Pending, Uncommitted
    <2>2. ActiveBindings' = ActiveBindings \cup {target[a]}
      BY <1>1, <1>2 DEF ActiveBindings, InsertedRow, TypeOK
    <2>3. Pool!Confirm
      BY <1>1, <2>1, <2>2, FinishUnbooks DEF Pool!Confirm, Booked
    <2>4. QED
      BY <2>3 DEF Pool!Next
  <1>3. CASE /\ plan[a] = "reuse"
             /\ row' = [row EXCEPT ![target[a]] = ReusedRow(@, seen[a], req[a])]
    <2>1. ActiveBindings' = ActiveBindings
      BY <1>3 DEF ActiveBindings, ReusedRow, TypeOK
    <2>2. ~Pending(a)
      BY <1>3 DEF Pending
    <2>3. QED
      BY <1>1, <2>1, <2>2, FinishUnbooks, PoolGivesBack
  <1>4. QED
    BY <1>2, <1>3 DEF MintLeaseAndCommit

LEMMA ActivateInPool ==
    ASSUME TypeOK, PlanInv, CountInv, NEW a \in Activation, Activate(a)
    PROVE  Pool!Next
  <1>1. CASE /\ row' = row /\ target' = target
             /\ \A b \in Activation : Pending(b)' <=> Pending(b)
    BY <1>1, OthersBooked, PoolGivesBack DEF ActiveBindings
  <1> USE DEF Pending, Uncommitted
  <1>2. CASE LookUp(a)
    BY <1>1, <1>2 DEF LookUp, TypeOK
  <1>3. CASE CheckRevoked(a)
    <2>1. CASE Finish(a)
      BY <1>3, <2>1, FinishInPool DEF CheckRevoked
    <2>2. CASE ~Finish(a)
      BY <1>1, <1>3, <2>2 DEF CheckRevoked, TypeOK
    <2>3. QED
      BY <2>1, <2>2
  <1>4. CASE AcquireSeatLock(a)
    BY <1>1, <1>4 DEF AcquireSeatLock, TypeOK
  <1>5. CASE SeatLockBusy(a)
    BY <1>5, FinishInPool DEF SeatLockBusy
  <1>6. CASE MatchBinding(a)
    <2>1. CASE Finish(a)
      BY <1>6, <2>1, FinishInPool DEF MatchBinding
    <2>2. CASE ~Finish(a)
      <3>1. /\ row' = row
            /\ \A b \in Activation \ {a} :
                  (Pending(b)' <=> Pending(b)) /\ target'[b] = target[b]
            /\ ~Pending(a) /\ ~Pending(a)'
        BY <1>6, <2>2 DEF MatchBinding, TypeOK
      <3>2. QED
        BY <3>1, OthersBooked, PoolGivesBack DEF ActiveBindings
    <2>3. QED
      BY <2>1, <2>2
  <1>7. CASE ReleaseSeatLock(a)
    BY <1>1, <1>7 DEF ReleaseSeatLock, TypeOK
  <1>8. QED
    BY <1>2, <1>3, <1>4, <1>5, <1>6, <1>7, FlushInPool, CommitInPool DEF Activate

LEMMA PoolQuietStep ==
    ASSUME pc' = pc, plan' = plan, target' = target,
           \A s \in Slot : row'[s].status = "active" => row[s].status = "active"
    PROVE  Pool!Next
  <1>1. Booked' = Booked /\ ActiveBindings' \subseteq ActiveBindings
    BY DEF Booked, Pending, Uncommitted, ActiveBindings
  <1>2. QED
    BY <1>1, PoolGivesBack

LEMMA PoolNext ==
    TypeOK /\ PlanInv /\ CountInv /\ [Next]_vars => [Pool!Next]_PoolVars
  <1> SUFFICES ASSUME TypeOK, PlanInv, CountInv, [Next]_vars
               PROVE  [Pool!Next]_PoolVars
    OBVIOUS
  <1>1. ASSUME NEW a \in Activation, CrashActivate(a) PROVE Pool!Next
    BY <1>1, FinishInPool DEF CrashActivate
  <1>2. ASSUME NEW w \in Reaper, ReapCommit(w) PROVE Pool!Next
    BY PoolQuietStep, <1>2 DEF ReapCommit, actVars, TypeOK, Row
  <1>3. CASE DeleteLicense
    BY PoolQuietStep, <1>3 DEF DeleteLicense, actVars, AbsentRow
  <1>4. ASSUME NEW t \in Slot, HeartbeatLapses(t) PROVE Pool!Next
    BY PoolQuietStep, <1>4 DEF HeartbeatLapses, actVars, TypeOK
  <1>5. ASSUME NEW w \in Reaper, ReapSelect(w) \/ ReapCrash(w) PROVE Pool!Next
    BY PoolQuietStep, <1>5 DEF ReapSelect, ReapCrash, actVars
  <1>6. CASE \/ SweepExpired \/ Revoke \/ TermEnds
             \/ SeatLockLapses \/ UNCHANGED vars
    BY PoolQuietStep, <1>6 DEF SweepExpired, Revoke, TermEnds, SeatLockLapses, vars, actVars
  <1>7. QED
    BY <1>1, <1>2, <1>3, <1>4, <1>5, <1>6, ActivateInPool DEF Next, Environment

\* The interleaved reads, flushes and commits of activate, with the reaper's two
\* statements and every crash between them, are steps of the abstract pool: the
\* seats of a license are booked one at a time, within what was sold, and a reaped
\* binding takes no seat again.
THEOREM SeatsArePooled == Spec => PoolSpec
  <1>1. RevInv => PlanInv
    BY DEF RevInv
  <1>2. [Next]_vars => [SlowNext]_vars
    BY NextIsSlow
  <1>3. [Pool!Next]_PoolVars <=> [Pool!Next]_<<ActiveBindings, {target[a] : a \in {b \in Activation : Pending(b)}}>>
    BY DEF PoolVars, Booked
  <1>4. QED
    BY <1>1, <1>2, <1>3, PoolInit, PoolNext, TypeInit, TypeNext, LockInit, LockNext,
       RevInit, RevNext, CountInit, CountNext, PTL DEF Spec, PoolSpec, Pool!Spec

---------------------------------------------------------------------------
(* The unique index.                                                         *)

\* Fingerprints in the table and those that flushed sessions are about to make
\* visible there are pairwise different, and each session still finds its row
\* as free, or as present, as when it flushed.
FpInv ==
    /\ \A s, t \in Present : row[s].fp = row[t].fp => s = t
    /\ \A a \in Activation : Uncommitted(a) =>
          /\ plan[a] = "insert" => target[a] \notin Present
          /\ plan[a] = "reuse" => target[a] \in Present
          /\ \A s \in Present :
                WrittenFp(a) # None /\ row[s].fp = WrittenFp(a)
                => plan[a] = "reuse" /\ s = target[a]
    /\ \A a, b \in Activation : Uncommitted(a) /\ Uncommitted(b) =>
          /\ plan[a] = "insert" /\ plan[b] = "insert" => a = b
          /\ WrittenFp(a) # None /\ WrittenFp(a) = WrittenFp(b) => a = b

LEMMA FpInit == Init => FpInv
  BY DEF Init, FpInv, Uncommitted

\* A step that writes no fingerprint, adds no row, and removes rows only when no
\* session has flushed.
LEMMA FpQuietStep ==
    ASSUME FpInv,
           \A s \in Slot : row'[s].status # "absent" =>
              row[s].status # "absent" /\ row'[s].fp = row[s].fp,
           \A a \in Activation : Uncommitted(a)' =>
              /\ Uncommitted(a)
              /\ UNCHANGED <<plan[a], target[a], seen[a], req[a]>>
              /\ \A s \in Slot : row[s].status # "absent" => row'[s].status # "absent"
    PROVE  FpInv'
  <1>1. Present' \subseteq Present /\ \A s \in Present' : row'[s].fp = row[s].fp
    BY DEF Present
  <1>2. \A a \in Activation : Uncommitted(a)' =>
           /\ Uncommitted(a) /\ WrittenFp(a)' = WrittenFp(a)
           /\ plan'[a] = plan[a] /\ target'[a] = target[a]
           /\ Present' = Present
    BY DEF WrittenFp, Present
  <1>3. \A s, t \in Present' : row'[s].fp = row'[t].fp => s = t
    BY <1>1 DEF FpInv
  <1>4. \A a \in Activation : Uncommitted(a)' =>
          /\ plan'[a] = "insert" => target'[a] \notin Present'
          /\ plan'[a] = "reuse" => target'[a] \in Present'
          /\ \A s \in Present' :
                WrittenFp(a)' # None /\ row'[s].fp = WrittenFp(a)'
                => plan'[a] = "reuse" /\ s = target'[a]
    BY <1>1, <1>2 DEF FpInv
  <1>5. \A a, b \in Activation : Uncommitted(a)' /\ Uncommitted(b)' =>
          /\ plan'[a] = "insert" /\ plan'[b] = "insert" => a = b
          /\ WrittenFp(a)' # None /\ WrittenFp(a)' = WrittenFp(b)' => a = b
    BY <1>2 DEF FpInv
  <1>6. QED
    BY <1>3, <1>4, <1>5 DEF FpInv

\* A step of one request before its flush, or out of the handler.
LEMMA FpUnflushedStep ==
    ASSUME TypeOK, FpInv, NEW a \in Activation, row' = row, ~Uncommitted(a)',
           \A b \in Activation \ {a} :
              UNCHANGED <<pc[b], plan[b], target[b], seen[b], req[b]>>
    PROVE  FpInv'
  BY FpQuietStep DEF Uncommitted

LEMMA FinishKeepsFp ==
    ASSUME TypeOK, FpInv, NEW a \in Activation, Finish(a), row' = row
    PROVE  FpInv'
  BY FpUnflushedStep DEF Finish, TypeOK, Uncommitted

LEMMA FlushKeepsFp ==
    ASSUME TypeOK, PlanInv, FpInv, NEW a \in Activation, FlushBinding(a)
    PROVE  FpInv'
  <1>1. CASE Finish(a)
    BY <1>1, FinishKeepsFp DEF FlushBinding
  <1>2. CASE ~Finish(a)
    <2>1. /\ ~FlushFails(a) /\ ~FlushBlocked(a)
          /\ row' = row /\ plan' = plan /\ seen' = seen /\ req' = req
          /\ Uncommitted(a)'
          /\ \A b \in Activation \ {a} : Uncommitted(b)' <=> Uncommitted(b)
          /\ \A b \in Activation \ {a} : target'[b] = target[b]
      BY <1>2 DEF FlushBinding, TypeOK, Uncommitted
    <2>2. Present' = Present /\ \A b \in Activation : WrittenFp(b)' = WrittenFp(b)
      BY <2>1 DEF Present, WrittenFp
    <2>3. /\ plan[a] = "insert" => target'[a] \in FreeSlots
          /\ plan[a] # "insert" => target'[a] = target[a]
      BY <1>2 DEF FlushBinding, TypeOK
    <2>4. /\ plan[a] = "insert" => target'[a] \notin Present
          /\ plan[a] = "reuse" => target'[a] \in Present
      BY <1>2, <2>1, <2>3
         DEF FlushFails, FreeSlots, Present, PlanInv, FlushBinding
    <2>5. plan[a] = "insert" \/ plan[a] = "reuse"
      BY <1>2 DEF PlanInv, FlushBinding
    <2>6. \A s \in Present : WrittenFp(a) # None /\ row[s].fp = WrittenFp(a)
                             => plan[a] = "reuse" /\ s = target'[a]
      BY <2>1, <2>3, <2>5 DEF FlushFails, FingerprintTaken
    <2>7. \A b \in Activation \ {a} : Uncommitted(b) =>
             /\ ~(plan[a] = "insert" /\ plan[b] = "insert")
             /\ ~(WrittenFp(a) # None /\ WrittenFp(a) = WrittenFp(b))
      BY <2>1 DEF FlushBlocked
    <2>8. \A b \in Activation : Uncommitted(b)' =>
          /\ plan[b] = "insert" => target'[b] \notin Present
          /\ plan[b] = "reuse" => target'[b] \in Present
          /\ \A s \in Present : WrittenFp(b) # None /\ row[s].fp = WrittenFp(b)
                                => plan[b] = "reuse" /\ s = target'[b]
      BY <2>1, <2>4, <2>6 DEF FpInv
    <2>9. \A b, c \in Activation : Uncommitted(b)' /\ Uncommitted(c)' =>
          /\ plan[b] = "insert" /\ plan[c] = "insert" => b = c
          /\ WrittenFp(b) # None /\ WrittenFp(b) = WrittenFp(c) => b = c
      BY <2>1, <2>7 DEF FpInv
    <2>10. QED
      BY <2>1, <2>2, <2>8, <2>9 DEF FpInv
  <1>3. QED
    BY <1>1, <1>2

LEMMA CommitKeepsFp ==
    ASSUME TypeOK, PlanInv, FpInv, NEW a \in Activation, MintLeaseAndCommit(a)
    PROVE  FpInv'
  <1> DEFINE t == target[a]
  <1>1. /\ t \in Slot /\ Uncommitted(a) /\ ~Uncommitted(a)'
        /\ \A b \in Activation \ {a} : /\ Uncommitted(b)' <=> Uncommitted(b)
                                       /\ plan'[b] = plan[b]
                                       /\ target'[b] = target[b]
                                       /\ WrittenFp(b)' = WrittenFp(b)
    BY DEF MintLeaseAndCommit, Finish, PlanInv, TypeOK, Uncommitted, WrittenFp
  <1>2. /\ Present' = Present \cup {t}
        /\ \A s \in Present' \ {t} : row'[s].fp = row[s].fp
        /\ \/ WrittenFp(a) # None /\ row'[t].fp = WrittenFp(a)
           \/ plan[a] = "reuse" /\ t \in Present /\ row'[t].fp = row[t].fp
    <2>1. req[a].fp # None
      BY DEF MintLeaseAndCommit, PlanInv
    <2>2. CASE /\ plan[a] = "insert"
               /\ row' = [row EXCEPT ![t] = InsertedRow(req[a])]
      BY <1>1, <2>1, <2>2 DEF TypeOK, Present, InsertedRow, WrittenFp
    <2>3. CASE /\ plan[a] = "reuse"
               /\ row' = [row EXCEPT ![t] = ReusedRow(@, seen[a], req[a])]
      <3>1. t \in Present
        BY <1>1, <2>3 DEF FpInv
      <3>2. /\ row'[t].status = row[t].status
            /\ row'[t].fp = IF req[a].fp # seen[a].fp THEN req[a].fp ELSE row[t].fp
            /\ \A s \in Slot \ {t} : row'[s] = row[s]
        BY <1>1, <2>3 DEF TypeOK, ReusedRow
      <3>3. Present' = Present
        BY <1>1, <3>2 DEF Present
      <3>4. \A s \in Present \ {t} : row'[s].fp = row[s].fp
        BY <3>2 DEF Present
      <3>5. \/ WrittenFp(a) # None /\ row'[t].fp = WrittenFp(a)
            \/ row'[t].fp = row[t].fp
        BY <2>1, <2>3, <3>2 DEF WrittenFp
      <3>6. QED
        BY <2>3, <3>1, <3>3, <3>4, <3>5
    <2>4. QED
      BY <2>2, <2>3 DEF MintLeaseAndCommit
  <1>3. \A s \in Present \ {t} : WrittenFp(a) # None => row[s].fp # WrittenFp(a)
    BY <1>1 DEF FpInv
  <1>4. \A s \in Present' \ {t} : row'[s].fp # row'[t].fp
    BY <1>2, <1>3 DEF FpInv
  <1>5. \A b \in Activation \ {a} : Uncommitted(b) => target[b] # t \/ plan[b] # "insert"
    BY <1>1 DEF FpInv, PlanInv
  <1>6. QED
    BY <1>1, <1>2, <1>3, <1>4, <1>5 DEF FpInv

LEMMA ActivateKeepsFp ==
    ASSUME TypeOK, PlanInv, FpInv, NEW a \in Activation, Activate(a)
    PROVE  FpInv'
  <1>1. CASE LookUp(a)
    <2>1. PICK q \in Requests : req' = [req EXCEPT ![a] = q]
      BY <1>1 DEF LookUp
    <2>2. QED
      BY <1>1, <2>1, FpUnflushedStep DEF LookUp, TypeOK, Uncommitted
  <1>2. CASE CheckRevoked(a)
    <2>1. CASE Finish(a)
      BY <1>2, <2>1, FinishKeepsFp DEF CheckRevoked
    <2>2. CASE ~Finish(a)
      BY <1>2, <2>2, FpUnflushedStep DEF CheckRevoked, TypeOK, Uncommitted
    <2>3. QED
      BY <2>1, <2>2
  <1>3. CASE AcquireSeatLock(a)
    BY <1>3, FpUnflushedStep DEF AcquireSeatLock, TypeOK, Uncommitted
  <1>4. CASE SeatLockBusy(a)
    BY <1>4, FinishKeepsFp DEF SeatLockBusy
  <1>5. CASE MatchBinding(a)
    <2>1. CASE Finish(a)
      BY <1>5, <2>1, FinishKeepsFp DEF MatchBinding
    <2>2. CASE ~Finish(a)
      <3>1. /\ row' = row /\ ~Uncommitted(a)'
            /\ \A b \in Activation \ {a} : UNCHANGED <<pc[b], plan[b], req[b]>>
        BY <1>5, <2>2 DEF MatchBinding, TypeOK, Uncommitted
      <3>2. \A b \in Activation \ {a} : UNCHANGED <<target[b], seen[b]>>
        BY <1>5, <2>2 DEF MatchBinding, TypeOK
      <3>3. QED
        BY <3>1, <3>2, FpUnflushedStep
    <2>3. QED
      BY <2>1, <2>2
  <1>6. CASE ReleaseSeatLock(a)
    BY <1>6, FpQuietStep DEF ReleaseSeatLock, TypeOK, Uncommitted
  <1>7. QED
    BY <1>1, <1>2, <1>3, <1>4, <1>5, <1>6, FlushKeepsFp, CommitKeepsFp DEF Activate

LEMMA FpNext == TypeOK /\ PlanInv /\ FpInv /\ [SlowNext]_vars => FpInv'
  <1> SUFFICES ASSUME TypeOK, PlanInv, FpInv, [SlowNext]_vars PROVE FpInv'
    OBVIOUS
  <1> USE DEF Uncommitted
  <1>1. ASSUME NEW a \in Activation, CrashActivate(a) PROVE FpInv'
    BY <1>1, FinishKeepsFp DEF CrashActivate
  <1>2. CASE /\ UNCHANGED actVars
             /\ \A s \in Slot : /\ row'[s].fp = row[s].fp
                                /\ row'[s].status = "absent" <=> row[s].status = "absent"
    BY <1>2, FpQuietStep DEF actVars
  <1>3. ASSUME NEW w \in Reaper, ReapCommit(w) PROVE FpInv'
    BY <1>2, <1>3 DEF ReapCommit, TypeOK, Row
  <1>4. CASE DeleteLicense
    BY <1>4, FpQuietStep DEF DeleteLicense, actVars, AbsentRow
  <1>5. ASSUME NEW t \in Slot, HeartbeatLapses(t) PROVE FpInv'
    BY <1>2, <1>5 DEF HeartbeatLapses, TypeOK, Row
  <1>6. ASSUME NEW w \in Reaper, ReapSelect(w) \/ ReapCrash(w) PROVE FpInv'
    BY <1>2, <1>6 DEF ReapSelect, ReapCrash
  <1>7. CASE \/ SweepExpired \/ Revoke \/ TermEnds
             \/ SeatLockExpires \/ UNCHANGED vars
    BY <1>2, <1>7 DEF SweepExpired, Revoke, TermEnds, SeatLockExpires, vars
  <1>8. QED
    BY <1>1, <1>3, <1>4, <1>5, <1>6, <1>7, ActivateKeepsFp DEF SlowNext, Environment

\* However long critical sections last and whatever is in flight, no two
\* bindings of the license carry the same fingerprint, so a bare-metal host
\* occupies one seat at most: where the seat lock and the match read too early,
\* uq_binding_license_fp decides.
THEOREM HostHoldsOneSeatHolds == SlowSpec => []HostHoldsOneSeat
  <1>1. FpInv => HostHoldsOneSeat
    BY DEF FpInv, HostHoldsOneSeat, ActiveBindings, Present
  <1>2. RevInv => PlanInv
    BY DEF RevInv
  <1>3. QED
    BY <1>1, <1>2, TypeInit, TypeNext, RevInit, RevNext, FpInit, FpNext, PTL
       DEF SlowSpec

---------------------------------------------------------------------------
(* The seat_used column.                                                     *)

Rows == Cardinality(Present)

\* What the license says, and what a session read of it, stays within the table,
\* which only the deletion of the license shrinks.
WithinInv ==
    /\ seatUsed <= Rows
    /\ \A a \in Activation : Exists /\ pc[a] # "idle" => snapUsed[a] <= Rows

LEMMA RowsCounts ==
    /\ Rows \in Nat
    /\ Rows' \in Nat
    /\ Present \subseteq Present' => Rows <= Rows'
    /\ \A s \in Slot : s \notin Present /\ Present' = Present \cup {s}
          => Rows' = Rows + 1
  <1>1. /\ Present \in SUBSET Slot
        /\ Present' \in SUBSET Slot
    BY DEF Present
  <1>2. IsFiniteSet(Present)
    BY <1>1, SlotAssumption, FS_Subset
  <1>3. QED
    BY <1>1, <1>2, SlotCounts, FS_AddElement DEF Rows

\* A step after which no session remembers a greater seat_used, nor the license
\* holds one, and which removes no row of a license that stays.
LEMMA WithinStep ==
    ASSUME TypeOK, WithinInv, Present \subseteq Present', Exists' => Exists,
           seatUsed' \in Nat, seatUsed' <= Rows',
           \A a \in Activation : pc'[a] # "idle" =>
              \/ pc[a] # "idle" /\ snapUsed'[a] = snapUsed[a]
              \/ snapUsed'[a] = seatUsed
    PROVE  WithinInv'
  <1>1. /\ Rows <= Rows' /\ Rows \in Nat /\ Rows' \in Nat
        /\ seatUsed \in Nat
        /\ \A a \in Activation : snapUsed[a] \in Nat
    BY RowsCounts DEF TypeOK
  <1>2. ASSUME NEW a \in Activation, Exists', pc'[a] # "idle"
        PROVE  snapUsed'[a] <= Rows'
    BY <1>1, <1>2 DEF WithinInv
  <1>3. QED
    BY <1>2 DEF WithinInv

LEMMA WithinInit == Init => WithinInv
  <1> SUFFICES ASSUME Init PROVE WithinInv
    OBVIOUS
  <1>1. ActiveBindings \in SUBSET Slot /\ Present \in SUBSET Slot
    BY DEF ActiveBindings, Present
  <1>2. ActiveBindings \subseteq Present
    BY DEF ActiveBindings, Present
  <1>3. QED
    BY <1>1, <1>2, SlotCounts DEF Init, WithinInv, Rows

LEMMA ActivateKeepsWithin ==
    ASSUME TypeOK, RevInv, FpInv, WithinInv, NEW a \in Activation, Activate(a)
    PROVE  WithinInv'
  <1>1. CASE MintLeaseAndCommit(a)
    <2> DEFINE t == target[a]
    <2>1. /\ t \in Slot /\ Exists /\ Exists' /\ Uncommitted(a)
          /\ \A b \in Activation : pc'[b] # "idle" =>
                pc[b] # "idle" /\ snapUsed'[b] = snapUsed[b]
      BY <1>1 DEF MintLeaseAndCommit, Finish, RevInv, PlanInv, DeletedInv, Exists,
                  Uncommitted, TypeOK
    <2>2. seatUsed \in Nat /\ snapUsed[a] \in Nat
      BY DEF TypeOK
    <2>3. CASE plan[a] = "insert"
      <3>1. t \notin Present
        BY <2>1, <2>3 DEF FpInv
      <3>2. row' = [row EXCEPT ![t] = InsertedRow(req[a])]
        BY <1>1, <2>3 DEF MintLeaseAndCommit
      <3>3. Present' = Present \cup {t}
        BY <2>1, <3>2 DEF Present, InsertedRow, TypeOK
      <3>4. Rows' = Rows + 1
        BY <2>1, <3>1, <3>3, RowsCounts
      <3>5. seatUsed' = snapUsed[a] + 1 /\ snapUsed[a] <= Rows
        BY <1>1, <2>1, <2>3 DEF MintLeaseAndCommit, SeatUsedAfter, WithinInv
      <3>6. QED
        BY <2>1, <2>2, <3>3, <3>4, <3>5, RowsCounts, WithinStep
    <2>4. CASE plan[a] # "insert"
      <3>1. /\ row' = [row EXCEPT ![t] = ReusedRow(@, seen[a], req[a])]
            /\ seatUsed' = seatUsed
        BY <1>1, <2>4 DEF MintLeaseAndCommit, SeatUsedAfter
      <3>2. Present' = Present
        BY <2>1, <3>1 DEF Present, ReusedRow, TypeOK
      <3>3. seatUsed' <= Rows'
        BY <3>1, <3>2 DEF WithinInv, Rows
      <3>4. QED
        BY <2>1, <2>2, <3>1, <3>2, <3>3, WithinStep
    <2>5. QED
      BY <2>3, <2>4
  <1>2. CASE ~MintLeaseAndCommit(a)
    <2>1. UNCHANGED <<licVars, row>>
      BY <1>2 DEF Activate, LookUp, CheckRevoked, AcquireSeatLock, SeatLockBusy,
                  MatchBinding, FlushBinding, ReleaseSeatLock
    <2>2. \A b \in Activation : pc'[b] # "idle" =>
              \/ pc[b] # "idle" /\ snapUsed'[b] = snapUsed[b]
              \/ snapUsed'[b] = seatUsed
      <3>1. CASE LookUp(a)
        BY <3>1 DEF LookUp, TypeOK
      <3>2. CASE Finish(a)
        BY <3>2 DEF Finish, TypeOK
      <3>3. CASE ~LookUp(a) /\ ~Finish(a)
        <4>1. snapUsed' = snapUsed /\ pc[a] # "idle"
          BY <1>2, <3>3 DEF Activate, CheckRevoked, AcquireSeatLock, SeatLockBusy,
                            MatchBinding, FlushBinding, ReleaseSeatLock
        <4>2. \A b \in Activation \ {a} : pc'[b] = pc[b]
          BY <1>2, <3>3 DEF Activate, CheckRevoked, AcquireSeatLock, SeatLockBusy,
                            MatchBinding, FlushBinding, ReleaseSeatLock, TypeOK
        <4>3. QED
          BY <4>1, <4>2
      <3>4. QED
        BY <3>1, <3>2, <3>3
    <2>3. Present' = Present /\ (Exists' <=> Exists) /\ seatUsed' = seatUsed
      BY <2>1 DEF Present, Exists, licVars
    <2>4. seatUsed' \in Nat /\ seatUsed' <= Rows'
      BY <2>3 DEF TypeOK, WithinInv, Rows
    <2>5. QED
      BY <2>2, <2>3, <2>4, WithinStep
  <1>3. QED
    BY <1>1, <1>2

LEMMA WithinNext ==
    TypeOK /\ RevInv /\ FpInv /\ WithinInv /\ [SlowNext]_vars => WithinInv'
  <1> SUFFICES ASSUME TypeOK, RevInv, FpInv, WithinInv, [SlowNext]_vars
               PROVE  WithinInv'
    OBVIOUS
  <1>1. ASSUME NEW a \in Activation, CrashActivate(a) PROVE WithinInv'
    BY <1>1 DEF CrashActivate, Finish, TypeOK, WithinInv, Rows, Present, Exists, licVars
  <1>2. ASSUME NEW w \in Reaper, ReapCommit(w) PROVE WithinInv'
    <2>1. Present' = Present
      BY <1>2 DEF ReapCommit, Present, TypeOK, Row
    <2>2. Cardinality(doomed[w]) \in Nat
      BY <1>2, SlotCounts DEF TypeOK
    <2>3. seatUsed' \in Nat /\ seatUsed' <= seatUsed
      BY <1>2, <2>2 DEF ReapCommit, SeatUsedReaped, TypeOK
    <2>4. seatUsed' <= Rows'
      BY <2>1, <2>3, RowsCounts DEF TypeOK, WithinInv, Rows
    <2>5. UNCHANGED <<pc, snapUsed, status>>
      BY <1>2 DEF ReapCommit, actVars
    <2>6. QED
      BY <2>1, <2>3, <2>4, <2>5, WithinStep DEF Exists
  <1>3. CASE DeleteLicense
    <2>1. ~Exists' /\ seatUsed' = 0
      BY <1>3 DEF DeleteLicense, Exists
    <2>2. QED
      BY <2>1, RowsCounts DEF WithinInv
  <1>4. ASSUME NEW s \in Slot, HeartbeatLapses(s) PROVE WithinInv'
    <2>1. Present' = Present
      BY <1>4 DEF HeartbeatLapses, Present, TypeOK
    <2>2. UNCHANGED <<pc, snapUsed, status, seatUsed>>
      BY <1>4 DEF HeartbeatLapses, actVars, licVars
    <2>3. QED
      BY <2>1, <2>2 DEF WithinInv, Rows, Exists
  <1>5. CASE /\ UNCHANGED <<row, pc, snapUsed, seatUsed>>
             /\ Exists' => Exists
    BY <1>5 DEF WithinInv, Rows, Present
  <1>6. ASSUME NEW w \in Reaper, ReapSelect(w) \/ ReapCrash(w) PROVE WithinInv'
    BY <1>5, <1>6 DEF ReapSelect, ReapCrash, actVars, licVars, Exists
  <1>7. CASE \/ SweepExpired \/ Revoke \/ TermEnds
             \/ SeatLockExpires \/ UNCHANGED vars
    BY <1>5, <1>7 DEF SweepExpired, Revoke, TermEnds, SeatLockExpires, vars,
                      actVars, licVars, Exists
  <1>8. QED
    BY <1>1, <1>2, <1>3, <1>4, <1>6, <1>7, ActivateKeepsWithin DEF SlowNext, Environment

\* However the increments that sessions computed from an old read interleave
\* with those of others and with the reapers' decrements, licenses.seat_used
\* never exceeds the bindings the license has had.
THEOREM SeatUsedWithinRowsHolds == SlowSpec => []SeatUsedWithinRows
  <1>1. WithinInv => SeatUsedWithinRows
    BY DEF WithinInv, Rows, SeatUsedWithinRows
  <1>2. RevInv => PlanInv
    BY DEF RevInv
  <1>3. QED
    BY <1>1, <1>2, TypeInit, TypeNext, RevInit, RevNext, FpInit, FpNext,
       WithinInit, WithinNext, PTL DEF SlowSpec

---------------------------------------------------------------------------
(* Injected identities.                                                      *)

Reusing(a) == pc[a] \in {"decided", "flushed", "released"} /\ plan[a] = "reuse"

\* The binding that a request is going to reuse has the uid it presents, and
\* keeps it until the license is deleted.
UidInv ==
    \A a \in Activation : Exists /\ Reusing(a) =>
        target[a] \in Present /\ row[target[a]].uid = req[a].uid

LEMMA UidInit == Init => UidInv
  BY DEF Init, UidInv, Reusing

\* A step that lets no request but a decide, and takes no row from a license that
\* stays, nor the uid from a row.
LEMMA UidQuietStep ==
    ASSUME UidInv, NEW a,
           Exists' => /\ Exists
                      /\ \A s \in Present : s \in Present' /\ row'[s].uid = row[s].uid,
           \A b \in Activation : b # a /\ Reusing(b)' =>
              Reusing(b) /\ target'[b] = target[b] /\ req'[b] = req[b],
           a \in Activation /\ Exists' /\ Reusing(a)' =>
              target'[a] \in Present' /\ row'[target'[a]].uid = req'[a].uid
    PROVE  UidInv'
  BY DEF UidInv

\* What is matched has the uid presented, be it none.
LEMMA MatchesSameUid ==
    ASSUME NEW S, NEW q, NEW s \in Matches(row, S, q)
    PROVE  s \in S /\ row[s].uid = q.uid
  BY DEF Matches, SameUid, SameHardware, DriftedHardware

LEMMA ActivateKeepsUid ==
    ASSUME TypeOK, RevInv, FpInv, UidInv, NEW a \in Activation, Activate(a)
    PROVE  UidInv'
  <1>1. CASE MintLeaseAndCommit(a)
    <2> DEFINE t == target[a]
    <2>1. /\ t \in Slot /\ Exists /\ Uncommitted(a) /\ ~Reusing(a)'
          /\ \A b \in Activation : b # a /\ Reusing(b)' =>
                Reusing(b) /\ target'[b] = target[b] /\ req'[b] = req[b]
      BY <1>1 DEF MintLeaseAndCommit, Finish, RevInv, PlanInv, DeletedInv, Uncommitted,
                  Reusing, TypeOK
    <2>2. \A s \in Present : s \in Present' /\ row'[s].uid = row[s].uid
      <3>1. CASE plan[a] = "insert"
        <4>1. t \notin Present
          BY <2>1, <3>1 DEF FpInv
        <4>2. row' = [row EXCEPT ![t] = InsertedRow(req[a])]
          BY <1>1, <3>1 DEF MintLeaseAndCommit
        <4>3. QED
          BY <2>1, <4>1, <4>2 DEF Present, TypeOK
      <3>2. CASE plan[a] # "insert"
        <4>1. row' = [row EXCEPT ![t] = ReusedRow(@, seen[a], req[a])]
          BY <1>1, <3>2 DEF MintLeaseAndCommit
        <4>2. QED
          BY <2>1, <4>1 DEF Present, ReusedRow, TypeOK
      <3>3. QED
        BY <3>1, <3>2
    <2>3. QED
      BY <2>1, <2>2, UidQuietStep
  <1>2. CASE MatchBinding(a) /\ ~Finish(a)
    <2>1. /\ UNCHANGED <<licVars, row, req>>
          /\ \A b \in Activation \ {a} : pc'[b] = pc[b] /\ plan'[b] = plan[b]
      BY <1>2 DEF MatchBinding, TypeOK
    <2>2. \A b \in Activation \ {a} : target'[b] = target[b]
      BY <1>2 DEF MatchBinding, TypeOK
    <2>3. Reusing(a)' => /\ target'[a] \in ActiveBindings
                         /\ row[target'[a]].uid = req[a].uid
      <3>1. plan'[a] = "reuse" => target'[a] \in Matches(row, ActiveBindings, req[a])
        BY <1>2 DEF MatchBinding, TypeOK
      <3>2. QED
        BY <3>1, MatchesSameUid DEF Reusing
    <2>4. Present' = Present /\ ActiveBindings \subseteq Present /\ (Exists' <=> Exists)
      BY <2>1 DEF Present, ActiveBindings, Exists, licVars
    <2>5. \A b \in Activation : b # a /\ Reusing(b)' =>
             Reusing(b) /\ target'[b] = target[b] /\ req'[b] = req[b]
      BY <2>1, <2>2 DEF Reusing
    <2>6. Reusing(a)' => target'[a] \in Present' /\ row'[target'[a]].uid = req'[a].uid
      BY <2>1, <2>3, <2>4
    <2>7. \A s \in Present : s \in Present' /\ row'[s].uid = row[s].uid
      BY <2>1, <2>4
    <2>8. QED
      BY <2>4, <2>5, <2>6, <2>7, UidQuietStep
  <1>3. CASE ~MintLeaseAndCommit(a) /\ ~(MatchBinding(a) /\ ~Finish(a))
    <2>1. UNCHANGED <<licVars, row>>
      BY <1>3 DEF Activate, LookUp, CheckRevoked, AcquireSeatLock, SeatLockBusy,
                  MatchBinding, FlushBinding, ReleaseSeatLock
    <2>2. Present' = Present /\ (Exists' <=> Exists)
      BY <2>1 DEF Present, Exists, licVars
    <2>3. \A b \in Activation : Reusing(b)' =>
             Reusing(b) /\ target'[b] = target[b] /\ req'[b] = req[b]
      <3>1. CASE Finish(a)
        BY <3>1 DEF Finish, Reusing, TypeOK
      <3>2. CASE LookUp(a)
        BY <3>2 DEF LookUp, Reusing, TypeOK
      <3>3. CASE FlushBinding(a) /\ ~Finish(a)
        BY <3>3 DEF FlushBinding, Reusing, TypeOK
      <3>4. CASE ~Finish(a) /\ ~LookUp(a) /\ ~FlushBinding(a)
        BY <1>3, <3>4 DEF Activate, CheckRevoked, AcquireSeatLock, SeatLockBusy,
                          ReleaseSeatLock, Reusing, TypeOK
      <3>5. QED
        BY <3>1, <3>2, <3>3, <3>4
    <2>4. QED
      BY <2>1, <2>2, <2>3 DEF UidInv
  <1>4. QED
    BY <1>1, <1>2, <1>3

LEMMA UidNext ==
    TypeOK /\ RevInv /\ FpInv /\ UidInv /\ [SlowNext]_vars => UidInv'
  <1> SUFFICES ASSUME TypeOK, RevInv, FpInv, UidInv, [SlowNext]_vars
               PROVE  UidInv'
    OBVIOUS
  <1>1. ASSUME NEW a \in Activation, CrashActivate(a) PROVE UidInv'
    BY <1>1 DEF CrashActivate, Finish, TypeOK, UidInv, Reusing, Present, Exists, licVars
  <1>2. CASE /\ UNCHANGED <<pc, req, plan, target>>
             /\ Exists' => Exists
             /\ \A s \in Present : s \in Present' /\ row'[s].uid = row[s].uid
    BY <1>2 DEF UidInv, Reusing
  <1>3. ASSUME NEW w \in Reaper, ReapCommit(w) PROVE UidInv'
    <2>1. \A s \in Present : s \in Present' /\ row'[s].uid = row[s].uid
      BY <1>3 DEF ReapCommit, Present, TypeOK, Row
    <2>2. QED
      BY <1>2, <1>3, <2>1 DEF ReapCommit, actVars, Exists
  <1>4. CASE DeleteLicense
    BY <1>4 DEF DeleteLicense, UidInv, Exists
  <1>5. ASSUME NEW s \in Slot, HeartbeatLapses(s) PROVE UidInv'
    <2>1. \A t \in Present : t \in Present' /\ row'[t].uid = row[t].uid
      BY <1>5 DEF HeartbeatLapses, Present, TypeOK, Row
    <2>2. QED
      BY <1>2, <1>5, <2>1 DEF HeartbeatLapses, actVars, licVars, Exists
  <1>6. CASE UNCHANGED <<row, pc, req, plan, target>> /\ (Exists' => Exists)
    BY <1>2, <1>6 DEF Present
  <1>7. ASSUME NEW w \in Reaper, ReapSelect(w) \/ ReapCrash(w) PROVE UidInv'
    BY <1>6, <1>7 DEF ReapSelect, ReapCrash, actVars, licVars, Exists
  <1>8. CASE \/ SweepExpired \/ Revoke \/ TermEnds
             \/ SeatLockExpires \/ UNCHANGED vars
    BY <1>6, <1>8 DEF SweepExpired, Revoke, TermEnds, SeatLockExpires, vars,
                      actVars, licVars, Exists
  <1>9. QED
    BY <1>1, <1>3, <1>4, <1>5, <1>7, <1>8, ActivateKeepsUid DEF SlowNext, Environment

\* A binding is never taken over by an identity of the other kind, nor by another
\* injected one, however long a request is under way between the match and the
\* commit: the uid of a row is written once, and a deleted license gets no rows.
THEOREM ClusterIdentityIsKept == SlowSpec => ClusterIdentityHolds
  <1>1. ASSUME TypeOK, RevInv, UidInv, NEW a \in Activation, MintLeaseAndCommit(a)
        PROVE  row'[target[a]].uid = req[a].uid
    <2>1. target[a] \in Slot /\ Exists
      BY <1>1 DEF MintLeaseAndCommit, RevInv, PlanInv, DeletedInv, Uncommitted
    <2>2. CASE plan[a] = "insert"
      BY <1>1, <2>1, <2>2 DEF MintLeaseAndCommit, InsertedRow, TypeOK
    <2>3. CASE plan[a] # "insert"
      <3>1. Reusing(a)
        BY <1>1, <2>3 DEF MintLeaseAndCommit, Reusing
      <3>2. row[target[a]].uid = req[a].uid
        BY <2>1, <3>1, <1>1 DEF UidInv
      <3>3. row' = [row EXCEPT ![target[a]] = ReusedRow(@, seen[a], req[a])]
        BY <1>1, <2>3 DEF MintLeaseAndCommit
      <3>4. QED
        BY <1>1, <2>1, <3>2, <3>3 DEF ReusedRow, TypeOK
    <2>4. QED
      BY <2>2, <2>3
  <1>2. TypeOK /\ RevInv /\ UidInv =>
           [\A a \in Activation : MintLeaseAndCommit(a) => row'[target[a]].uid = req[a].uid]_vars
    BY <1>1
  <1>3. RevInv => PlanInv
    BY DEF RevInv
  <1>4. QED
    BY <1>2, <1>3, TypeInit, TypeNext, RevInit, RevNext, FpInit, FpNext, UidInit, UidNext, PTL
       DEF SlowSpec, ClusterIdentityHolds

=============================================================================
