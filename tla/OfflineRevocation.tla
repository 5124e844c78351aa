-------------------------- MODULE OfflineRevocation --------------------------
(***************************************************************************)
(* CrlPublication composed with a product that holds one of the offline     *)
(* licenses and checks it with verify_offline (verifier-sdk, verifier.py),  *)
(* giving it a revocation list and a state file.                            *)
(*                                                                         *)
(* The host's clock may be set at will and any list ever published may be   *)
(* handed to a check, or none.  The file is read, computed on and replaced  *)
(* without a lock, so the load and the save of a check are two steps, and   *)
(* the product's processes interleave.  A check refused before it reaches   *)
(* the save changes nothing and is no step, and so is a check without a     *)
(* state file: all that ForgeVerifier.verify_offline offers, which passes   *)
(* neither a state file nor the version of a list.                          *)
(***************************************************************************)
EXTENDS CrlPublication, Integers

CONSTANTS
    NoValue,    \* a value that is absent
    Held,       \* the license the product holds
    Verifier,   \* the product's processes that share the state file
    MaxMonth,   \* bound: the times, in months, of a check or a generation
    Term,       \* its term_preset
    ActiveFrom, \* when it was issued
    Skew,       \* clock_skew_minutes
    MaxAge      \* max_crl_age_days, NoValue when the product does not give it

ASSUME HeldAssumption == Held \in Offline
ASSUME TimesAssumption == MaxMonth \in Nat /\ ActiveFrom \in Nat /\ Skew \in Nat
ASSUME TermAssumption == Term \in {"1m", "3m", "6m", "1y", "3y", "5y", "perpetual"}

Time == 0..MaxMonth

VARIABLES
    generatedAt, \* generated_at of every version, fixed from the start
    state,       \* the state file: time_watermark, crl_version; NoState when it
                 \* is absent or unreadable
    pending,     \* the check each process has under way, NoValue between checks
    refusedBy    \* history: the newest list by which a check refused that the
                 \* file has recorded and no other save has undone since

productVars == <<generatedAt, state, pending, refusedBy>>
offlineVars == <<crlVars, productVars>>

\* _TERMS
Months(term) ==
    CASE term = "1m" -> 1  [] term = "3m" -> 3  [] term = "6m" -> 6
      [] term = "1y" -> 12 [] term = "3y" -> 36 [] term = "5y" -> 60

\* compute_active_until: without a term, an offline license has 99 years, the
\* OFFLINE_PERPETUAL_YEARS.
ActiveUntil(term, from, mode) ==
    IF term # "perpetual" THEN from + Months(term)
    ELSE IF mode = "online" THEN NoValue
    ELSE from + 99 * 12

\* The fields of the payload that the check depends on, on the bound host.
Payload == [license_id |-> Held, active_until |-> ActiveUntil(Term, ActiveFrom, "offline")]

Until == Payload.active_until

NoState == [watermark |-> 0, crl |-> 0]

\* revoked_from_crl: the ids of the list with version v, 0 for no list.
RevokedFromCrl(v) == IF v = 0 THEN {} ELSE bundle[v].ids

GeneratedAt(v) == IF v = 0 THEN 0 ELSE generatedAt[v]

ClockRolledBack(now) == now < state.watermark - Skew

\* Faulty variant: an older list is as good as a newer one.
AnyListWillDo(v) == FALSE

CrlRolledBack(v) == v # 0 /\ v < state.crl

CrlTooOld(now, v) == MaxAge # NoValue /\ v # 0 /\ now - GeneratedAt(v) > MaxAge

\* Faulty variant: only the host's own clock advances the watermark.
WatermarkOfClock(now, v) == IF now > state.watermark THEN now ELSE state.watermark

\* The highest of the watermark, now and the list's generated_at.
Watermark(now, v) ==
    CHOOSE t \in {state.watermark, now, GeneratedAt(v)} :
        \A u \in {state.watermark, now, GeneratedAt(v)} : u <= t

\* The verdict on the host the license is bound to.
VerdictOf(now, v) ==
    IF Payload.license_id \in RevokedFromCrl(v) THEN "revoked"
    ELSE IF Until # NoValue /\ now >= Until THEN "locked"
    ELSE "unlocked"

\* verify_offline down to _save_state: the checks that lock at once are passed,
\* and what to save and to answer is decided on the file as it was read.
LoadState(p) ==
    /\ pending[p] = NoValue
    /\ licence[Held] # "unissued"
    /\ \E now \in Time, v \in 0..Len(bundle) :
          /\ ~ClockRolledBack(now)
          /\ ~CrlRolledBack(v)
          /\ ~CrlTooOld(now, v)
          /\ pending' = [pending EXCEPT ![p] =
                [watermark |-> Watermark(now, v),
                 crl       |-> IF v > state.crl THEN v ELSE state.crl,
                 list      |-> v,
                 verdict   |-> VerdictOf(now, v),
                 overtaken |-> FALSE]]
    /\ UNCHANGED <<crlVars, generatedAt, state, refusedBy>>

Decided(p) == [watermark |-> pending[p].watermark, crl |-> pending[p].crl]

\* Others that loaded before this save will not have seen it.
Overtake(p) ==
    [q \in Verifier |->
        IF q = p THEN NoValue
        ELSE IF pending[q] = NoValue THEN NoValue
        ELSE [pending[q] EXCEPT !.overtaken = TRUE]]

\* _save_state and the answer.  A save that overtook another one's load puts an
\* older file in place of what was recorded meanwhile.
SaveState(p) ==
    /\ pending[p] # NoValue
    /\ state' = Decided(p)
    /\ refusedBy' =
          IF pending[p].verdict = "revoked" /\ pending[p].list > refusedBy
          THEN pending[p].list
          ELSE IF pending[p].overtaken THEN 0 ELSE refusedBy
    /\ pending' = Overtake(p)
    /\ UNCHANGED <<crlVars, generatedAt>>

\* The directory is not writable: the answer is given all the same.
SaveFails(p) ==
    /\ pending[p] # NoValue
    /\ pending' = [pending EXCEPT ![p] = NoValue]
    /\ UNCHANGED <<crlVars, generatedAt, state, refusedBy>>

\* Another process opened the same temporary file for writing, and what is moved
\* into place is its empty beginning.
SaveTorn(p) ==
    /\ pending[p] # NoValue
    /\ \E q \in Verifier \ {p} : pending[q] # NoValue
    /\ state' = NoState
    /\ refusedBy' = 0
    /\ pending' = Overtake(p)
    /\ UNCHANGED <<crlVars, generatedAt>>

---------------------------------------------------------------------------
OfflineInit ==
    /\ CrlInit
    /\ generatedAt \in [1..MaxVersion -> Time]
    /\ \A v, w \in 1..MaxVersion : v < w => generatedAt[v] <= generatedAt[w]
    /\ state = NoState
    /\ pending = [p \in Verifier |-> NoValue]
    /\ refusedBy = 0

OfflineNext ==
    \/ CrlNext /\ UNCHANGED productVars
    \/ \E p \in Verifier : LoadState(p) \/ SaveState(p) \/ SaveFails(p) \/ SaveTorn(p)

OfflineSpec == OfflineInit /\ [][OfflineNext]_offlineVars

---------------------------------------------------------------------------
(* Properties. *)

\* A recorded refusal is undone by a check without a list or by a newer list, whose
\* generation had begun before the one that refused was committed; not by an old
\* list, a restart or the deletion of the license, and not by an old list later on,
\* since no check takes back the version on record, unless a race lost the record.
RefusalLasts ==
    [][\A p \in Verifier :
          /\ SaveState(p) /\ ~pending[p].overtaken
          /\ refusedBy # 0 /\ pending[p].verdict = "unlocked"
          => /\ state'.crl >= refusedBy
             /\ \/ pending[p].list = 0
                \/ /\ pending[p].list > refusedBy
                   /\ bundle[pending[p].list].since < refusedBy]_offlineVars

\* Once the file records a clock or a list dated past the end of the term,
\* winding the clock back does not unlock the product again.
ExpiryLasts ==
    [][\A p \in Verifier :
          /\ SaveState(p) /\ ~pending[p].overtaken /\ Until # NoValue
          /\ \/ state.watermark >= Until + Skew
             \/ GeneratedAt(state.crl) >= Until + Skew
          => pending[p].verdict # "unlocked"]_offlineVars

\* What comments and docs say and the code does not keep.

\* prd/v1.0-mvp.md: once the product imported the list the license is locked, and
\* models/revocation.py: clients keep rejecting it, no bypass - a product that has
\* recorded a refusal is not unlocked by the lists it knew then, nor by giving none.
RefusalStands ==
    [][\A p \in Verifier :
          /\ SaveState(p) /\ ~pending[p].overtaken
          /\ refusedBy # 0 /\ pending[p].list <= refusedBy
          => pending[p].verdict # "unlocked"]_offlineVars

=============================================================================
