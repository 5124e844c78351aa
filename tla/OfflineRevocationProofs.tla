---------------------- MODULE OfflineRevocationProofs ----------------------
(***************************************************************************)
(* Theorems about OfflineRevocation: the server of CrlPublication, whose    *)
(* invariant is taken from CrlPublicationProofs, and any number of          *)
(* processes of a product that share one state file.                        *)
(***************************************************************************)
EXTENDS OfflineRevocation, CrlPublicationProofs

---------------------------------------------------------------------------
(* The inductive invariant. *)

Check == [watermark: Time, crl: 0..MaxVersion, list: 0..MaxVersion,
          verdict: {"unlocked", "locked", "revoked"}, overtaken: BOOLEAN]

\* Every variable of the product stays in its type.
ProductTypeOK ==
    /\ generatedAt \in [1..MaxVersion -> Time]
    /\ state \in [watermark: Time, crl: 0..MaxVersion]
    /\ pending \in [Verifier -> Check \cup {NoValue}]
    /\ refusedBy \in 0..MaxVersion

\* The file is dated no earlier than the list it names; it names a list that
\* exists and none older than the one that refused the license.
FileRemembers ==
    /\ GeneratedAt(state.crl) <= state.watermark
    /\ state.crl <= Len(bundle)
    /\ refusedBy <= state.crl
    /\ refusedBy # 0 => Held \in bundle[refusedBy].ids

\* A check was computed from one list and from the file as it still is, unless
\* somebody has replaced it.
CheckFollowsFile(c) ==
    /\ GeneratedAt(c.crl) <= c.watermark
    /\ c.crl <= Len(bundle)
    /\ c.list # 0 => c.list = c.crl
    /\ c.verdict = "revoked" => c.list # 0 /\ Held \in bundle[c.list].ids
    /\ c.list # 0 /\ Held \in bundle[c.list].ids => c.verdict = "revoked"
    /\ ~c.overtaken =>
          /\ state.crl <= c.crl
          /\ Until # NoValue /\ state.watermark >= Until + Skew => c.verdict # "unlocked"

OfflineInv ==
    /\ CrlInv
    /\ ProductTypeOK
    /\ FileRemembers
    /\ \A p \in Verifier : pending[p] # NoValue => CheckFollowsFile(pending[p])

---------------------------------------------------------------------------
(* Helpers. *)

\* Every offline license ends at a time.
LEMMA UntilIsATime == Until \in Nat
  <1>1. ASSUME Term # "perpetual" PROVE Months(Term) \in Nat
    BY <1>1, TermAssumption DEF Months
  <1>2. QED
    BY <1>1, TimesAssumption DEF Until, Payload, ActiveUntil

LEMMA GeneratedIsATime ==
    ASSUME ProductTypeOK, NEW v \in 0..MaxVersion
    PROVE  GeneratedAt(v) \in Time
  <1>1. QED
    BY TimesAssumption, MaxVersionAssumption DEF ProductTypeOK, GeneratedAt, Time

\* The new watermark is one of the three times and the greatest.
LEMMA WatermarkIsGreatest ==
    ASSUME ProductTypeOK, NEW now \in Time, NEW v \in 0..MaxVersion
    PROVE  /\ Watermark(now, v) \in Time
           /\ state.watermark <= Watermark(now, v)
           /\ GeneratedAt(v) <= Watermark(now, v)
  <1> DEFINE S == {state.watermark, now, GeneratedAt(v)}
  <1>1. state.watermark \in Time /\ GeneratedAt(v) \in Time
    BY GeneratedIsATime DEF ProductTypeOK
  <1>2. state.watermark \in Int /\ GeneratedAt(v) \in Int /\ now \in Int
    BY <1>1, TimesAssumption DEF Time
  <1>3. \E t \in S : \A u \in S : u <= t
    <2>1. CASE now <= state.watermark /\ GeneratedAt(v) <= state.watermark
      BY <1>2, <2>1
    <2>2. CASE state.watermark <= now /\ GeneratedAt(v) <= now
      BY <1>2, <2>2
    <2>3. CASE now <= GeneratedAt(v) /\ state.watermark <= GeneratedAt(v)
      BY <1>2, <2>3
    <2>4. QED
      BY <1>2, <2>1, <2>2, <2>3
  <1>4. Watermark(now, v) \in S /\ \A u \in S : u <= Watermark(now, v)
    BY <1>3 DEF Watermark
  <1>5. QED
    BY <1>1, <1>4

\* Lists are only added.
LEMMA ListsStay ==
    ASSUME CrlInv, [CrlNext]_crlVars
    PROVE  /\ Len(bundle) \in Nat /\ Len(bundle') \in Nat
           /\ Len(bundle) <= Len(bundle')
           /\ \A i \in 1..Len(bundle) : bundle'[i] = bundle[i]
  <1>1. Len(bundle) \in Nat
    BY VersionsAreCounted DEF CrlInv
  <1>2. CASE \E g \in Generator : CommitBundle(g)
    BY <1>1, <1>2, Appended DEF CrlInv, CrlTypeOK, CommitBundle
  <1>3. CASE bundle' = bundle
    BY <1>1, <1>3
  <1>4. (\E g \in Generator : CommitBundle(g)) \/ bundle' = bundle
    BY DEF CrlNext, Generate, IssueOffline, RevokeOffline, DeleteOffline,
           SelectRevoked, ReadLatest, FlushBundle, AbortGenerate, crlVars, genVars
  <1>5. QED
    BY <1>2, <1>3, <1>4

\* Every step is, for the server, a step of CrlPublication or a stutter.
LEMMA ServerSteps == [OfflineNext]_offlineVars => [CrlNext]_crlVars
  <1>1. QED
    BY DEF OfflineNext, offlineVars, LoadState, SaveState, SaveFails, SaveTorn

---------------------------------------------------------------------------
(* The steps. *)

\* Steps of the server: the file and the checks go on naming the same lists.
LEMMA ServerKeeps ==
    ASSUME OfflineInv, [CrlNext]_crlVars, UNCHANGED productVars
    PROVE  OfflineInv'
  <1>1. CrlInv'
    BY CrlInvStep DEF OfflineInv
  <1>2. UNCHANGED <<generatedAt, state, pending, refusedBy>>
    BY DEF productVars
  <1>3. /\ Len(bundle) \in Nat /\ Len(bundle') \in Nat
        /\ Len(bundle) <= Len(bundle')
        /\ \A i \in 1..Len(bundle) : bundle'[i] = bundle[i]
    BY ListsStay DEF OfflineInv
  <1>4. ProductTypeOK'
    BY <1>2 DEF OfflineInv, ProductTypeOK
  <1>5. \A v : GeneratedAt(v)' = GeneratedAt(v)
    BY <1>2 DEF GeneratedAt
  <1>6. /\ state.crl \in Nat /\ refusedBy \in Nat
        /\ state.crl <= Len(bundle) /\ refusedBy <= state.crl
    BY DEF OfflineInv, ProductTypeOK, FileRemembers
  <1>7. FileRemembers'
    <2>1. refusedBy # 0 => refusedBy \in 1..Len(bundle)
      BY <1>3, <1>6
    <2>2. state.crl <= Len(bundle')
      BY <1>3, <1>6
    <2>3. QED
      BY <1>2, <1>3, <1>5, <1>6, <2>1, <2>2 DEF OfflineInv, FileRemembers
  <1>8. ASSUME NEW p \in Verifier, pending[p] # NoValue
        PROVE  CheckFollowsFile(pending[p])'
    <2>1. pending[p] \in Check /\ CheckFollowsFile(pending[p])
      BY <1>8 DEF OfflineInv, ProductTypeOK
    <2>2. pending[p].crl \in Nat /\ pending[p].list \in Nat
      BY <2>1 DEF Check
    <2>3. pending[p].crl <= Len(bundle')
      BY <1>3, <2>1, <2>2 DEF CheckFollowsFile
    <2>4. pending[p].list # 0 => bundle'[pending[p].list] = bundle[pending[p].list]
      <3>1. pending[p].list # 0 => pending[p].list \in 1..Len(bundle)
        BY <1>3, <2>1, <2>2 DEF CheckFollowsFile
      <3>2. QED
        BY <1>3, <3>1
    <2>5. QED
      BY <1>2, <1>5, <2>1, <2>3, <2>4 DEF CheckFollowsFile, Until, Payload
  <1>9. QED
    BY <1>1, <1>2, <1>4, <1>7, <1>8 DEF OfflineInv

\* A check begins: what it decides follows the file it read.
LEMMA LoadKeeps ==
    ASSUME OfflineInv, NEW p \in Verifier, LoadState(p)
    PROVE  OfflineInv'
  <1>1. PICK now \in Time, v \in 0..Len(bundle) :
           /\ ~ClockRolledBack(now)
           /\ ~CrlRolledBack(v)
           /\ pending' = [pending EXCEPT ![p] =
                 [watermark |-> Watermark(now, v),
                  crl       |-> IF v > state.crl THEN v ELSE state.crl,
                  list      |-> v,
                  verdict   |-> VerdictOf(now, v),
                  overtaken |-> FALSE]]
    BY DEF LoadState
  <1> DEFINE c == [watermark |-> Watermark(now, v),
                   crl       |-> IF v > state.crl THEN v ELSE state.crl,
                   list      |-> v,
                   verdict   |-> VerdictOf(now, v),
                   overtaken |-> FALSE]
  <1>2. UNCHANGED <<crlVars, generatedAt, state, refusedBy>>
    BY DEF LoadState
  <1>3. CrlInv' /\ bundle' = bundle
    <2>1. [CrlNext]_crlVars
      BY <1>2
    <2>2. QED
      BY <1>2, <2>1, CrlInvStep DEF OfflineInv, crlVars
  <1>4. Len(bundle) \in Nat /\ Len(bundle) <= MaxVersion
    <2>1. Len(bundle) \in Nat /\ DOMAIN bundle = 1..Len(bundle)
      BY VersionsAreCounted DEF OfflineInv, CrlInv
    <2>2. CASE Len(bundle) = 0
      BY <2>2, MaxVersionAssumption
    <2>3. CASE Len(bundle) # 0
      <3>1. Len(bundle) \in DOMAIN bundle
        BY <2>1, <2>3
      <3>2. bundle[Len(bundle)].version = Len(bundle)
        BY <3>1 DEF OfflineInv, CrlInv, VersionsInOrder
      <3>3. bundle[Len(bundle)] \in Bundle
        BY <2>1, <3>1, ElementOfSeq DEF OfflineInv, CrlInv, CrlTypeOK
      <3>4. QED
        BY <2>1, <3>2, <3>3, MaxVersionAssumption DEF Bundle
    <2>4. QED
      BY <2>1, <2>2, <2>3
  <1>5. v \in 0..MaxVersion /\ state.crl \in 0..MaxVersion
    BY <1>4, MaxVersionAssumption DEF OfflineInv, ProductTypeOK
  <1>6. /\ Watermark(now, v) \in Time
        /\ state.watermark <= Watermark(now, v)
        /\ GeneratedAt(v) <= Watermark(now, v)
    BY <1>5, WatermarkIsGreatest DEF OfflineInv
  <1>7. VerdictOf(now, v) \in {"unlocked", "locked", "revoked"}
    BY DEF VerdictOf
  <1>8. c \in Check
    BY <1>5, <1>6, <1>7 DEF Check
  <1>9. ProductTypeOK'
    BY <1>1, <1>2, <1>8 DEF OfflineInv, ProductTypeOK
  <1>10. FileRemembers'
    BY <1>2, <1>3 DEF OfflineInv, FileRemembers, GeneratedAt
  <1>11. CheckFollowsFile(c)
    <2>1. /\ state.watermark \in Int /\ now \in Int
          /\ GeneratedAt(state.crl) \in Int /\ Watermark(now, v) \in Int
      BY <1>5, <1>6, GeneratedIsATime, TimesAssumption
         DEF OfflineInv, ProductTypeOK, Time
    <2>2. GeneratedAt(c.crl) <= c.watermark
      BY <1>6, <2>1 DEF OfflineInv, FileRemembers
    <2>3. c.crl <= Len(bundle) /\ state.crl <= c.crl
      BY <1>4, <1>5 DEF OfflineInv, FileRemembers
    <2>4. c.list # 0 => c.list = c.crl
      BY <1>1, <1>5 DEF CrlRolledBack
    <2>5. c.verdict = "revoked" <=> c.list # 0 /\ Held \in bundle[c.list].ids
      BY DEF VerdictOf, RevokedFromCrl, Payload
    <2>6. Until # NoValue /\ state.watermark >= Until + Skew => c.verdict # "unlocked"
      <3>1. state.watermark >= Until + Skew => now >= Until
        BY <1>1, <2>1, UntilIsATime, TimesAssumption DEF ClockRolledBack
      <3>2. QED
        BY <3>1 DEF VerdictOf
    <2>7. QED
      BY <2>2, <2>3, <2>4, <2>5, <2>6 DEF CheckFollowsFile
  <1>12. ASSUME NEW q \in Verifier, pending'[q] # NoValue
         PROVE  CheckFollowsFile(pending'[q])
    <2>1. pending'[q] = IF q = p THEN c ELSE pending[q]
      BY <1>1 DEF OfflineInv, ProductTypeOK
    <2>2. QED
      BY <1>11, <1>12, <2>1 DEF OfflineInv
  <1>13. \A q \in Verifier : pending'[q] # NoValue => CheckFollowsFile(pending[q])'
    BY <1>2, <1>3, <1>12 DEF CheckFollowsFile, GeneratedAt, Until, Payload
  <1>14. QED
    BY <1>3, <1>9, <1>10, <1>13 DEF OfflineInv

\* The checks that a save, whole or torn, leaves under way are overtaken.
LEMMA OvertakeKeeps ==
    ASSUME OfflineInv, NEW p \in Verifier, pending' = Overtake(p),
           UNCHANGED <<crlVars, generatedAt>>
    PROVE  /\ CrlInv'
           /\ pending' \in [Verifier -> Check \cup {NoValue}]
           /\ \A q \in Verifier : pending'[q] # NoValue => CheckFollowsFile(pending[q])'
  <1>1. CrlInv' /\ bundle' = bundle
    <2>1. [CrlNext]_crlVars
      OBVIOUS
    <2>2. QED
      BY <2>1, CrlInvStep DEF OfflineInv, crlVars
  <1>2. ASSUME NEW q \in Verifier
        PROVE  /\ pending'[q] \in Check \cup {NoValue}
               /\ pending'[q] # NoValue => CheckFollowsFile(pending[q])'
    <2>1. CASE q = p \/ pending[q] = NoValue
      <3>1. pending'[q] = NoValue
        BY <2>1 DEF Overtake
      <3>2. QED
        BY <3>1
    <2>2. CASE q # p /\ pending[q] # NoValue
      <3>1. pending'[q] = [pending[q] EXCEPT !.overtaken = TRUE]
        BY <2>2 DEF Overtake
      <3>2. pending[q] \in Check /\ CheckFollowsFile(pending[q])
        BY <2>2 DEF OfflineInv, ProductTypeOK
      <3>3. /\ pending'[q] \in Check
            /\ pending'[q].watermark = pending[q].watermark
            /\ pending'[q].crl = pending[q].crl
            /\ pending'[q].list = pending[q].list
            /\ pending'[q].verdict = pending[q].verdict
            /\ pending'[q].overtaken = TRUE
        BY <3>1, <3>2 DEF Check
      <3>4. CheckFollowsFile(pending[q])'
        BY <1>1, <3>2, <3>3 DEF CheckFollowsFile, GeneratedAt
      <3>5. QED
        BY <3>3, <3>4
    <2>3. QED
      BY <2>1, <2>2
  <1>3. pending' = [q \in Verifier |-> pending'[q]]
    BY DEF Overtake
  <1>4. QED
    BY <1>1, <1>2, <1>3

LEMMA SaveKeeps ==
    ASSUME OfflineInv, NEW p \in Verifier, SaveState(p)
    PROVE  OfflineInv'
  <1>1. /\ pending[p] # NoValue
        /\ state' = [watermark |-> pending[p].watermark, crl |-> pending[p].crl]
        /\ pending' = Overtake(p)
        /\ UNCHANGED <<crlVars, generatedAt>>
    BY DEF SaveState, Decided
  <1>2. pending[p] \in Check /\ CheckFollowsFile(pending[p])
    BY <1>1 DEF OfflineInv, ProductTypeOK
  <1>3. state' \in [watermark: Time, crl: 0..MaxVersion]
    BY <1>1, <1>2 DEF Check
  <1>4. /\ refusedBy \in Nat /\ state.crl \in Nat
        /\ pending[p].list \in Nat /\ pending[p].crl \in Nat
    BY <1>2 DEF Check, OfflineInv, ProductTypeOK
  <1>5. /\ refusedBy' \in 0..MaxVersion
        /\ refusedBy' <= pending[p].crl
        /\ refusedBy' # 0 => Held \in bundle[refusedBy'].ids
    <2>1. CASE pending[p].verdict = "revoked" /\ pending[p].list > refusedBy
      <3>1. refusedBy' = pending[p].list /\ pending[p].list = pending[p].crl
        BY <1>2, <2>1 DEF SaveState, CheckFollowsFile
      <3>2. QED
        BY <1>2, <1>4, <2>1, <3>1 DEF CheckFollowsFile, Check
    <2>2. CASE refusedBy' = 0
      BY <1>4, <2>2, MaxVersionAssumption
    <2>3. CASE ~pending[p].overtaken /\ refusedBy' = refusedBy
      <3>1. refusedBy <= state.crl /\ state.crl <= pending[p].crl
        BY <1>2, <2>3 DEF OfflineInv, FileRemembers, CheckFollowsFile
      <3>2. QED
        BY <1>4, <2>3, <3>1 DEF OfflineInv, FileRemembers, ProductTypeOK
    <2>4. QED
      BY <2>1, <2>2, <2>3 DEF SaveState
  <1>6. /\ state'.crl = pending[p].crl /\ state'.watermark = pending[p].watermark
        /\ bundle' = bundle /\ generatedAt' = generatedAt
    BY <1>1 DEF crlVars
  <1>7. FileRemembers'
    <2>1. GeneratedAt(state.crl)' = GeneratedAt(pending[p].crl)
      BY <1>6 DEF GeneratedAt
    <2>2. QED
      BY <1>2, <1>5, <1>6, <2>1 DEF FileRemembers, CheckFollowsFile
  <1>8. ProductTypeOK'
    BY <1>1, <1>3, <1>5, OvertakeKeeps DEF OfflineInv, ProductTypeOK
  <1>9. QED
    BY <1>1, <1>7, <1>8, OvertakeKeeps DEF OfflineInv

LEMMA TornKeeps ==
    ASSUME OfflineInv, NEW p \in Verifier, SaveTorn(p)
    PROVE  OfflineInv'
  <1>1. /\ state' = NoState /\ refusedBy' = 0
        /\ pending' = Overtake(p)
        /\ UNCHANGED <<crlVars, generatedAt>>
    BY DEF SaveTorn
  <1>2. Len(bundle) \in Nat /\ bundle' = bundle
    BY <1>1, VersionsAreCounted DEF OfflineInv, CrlInv, crlVars
  <1>3. FileRemembers'
    BY <1>1, <1>2 DEF FileRemembers, NoState, GeneratedAt
  <1>4. ProductTypeOK'
    BY <1>1, OvertakeKeeps, TimesAssumption, MaxVersionAssumption
       DEF OfflineInv, ProductTypeOK, NoState, Time
  <1>5. QED
    BY <1>1, <1>3, <1>4, OvertakeKeeps DEF OfflineInv

LEMMA FailKeeps ==
    ASSUME OfflineInv, NEW p \in Verifier, SaveFails(p)
    PROVE  OfflineInv'
  <1>1. /\ pending' = [pending EXCEPT ![p] = NoValue]
        /\ UNCHANGED <<crlVars, generatedAt, state, refusedBy>>
    BY DEF SaveFails
  <1>2. CrlInv' /\ bundle' = bundle
    <2>1. [CrlNext]_crlVars
      BY <1>1
    <2>2. QED
      BY <1>1, <2>1, CrlInvStep DEF OfflineInv, crlVars
  <1>3. ProductTypeOK'
    BY <1>1 DEF OfflineInv, ProductTypeOK
  <1>4. FileRemembers'
    BY <1>1, <1>2 DEF OfflineInv, FileRemembers, GeneratedAt
  <1>5. ASSUME NEW q \in Verifier, pending'[q] # NoValue
        PROVE  CheckFollowsFile(pending[q])'
    <2>1. pending'[q] = pending[q]
      BY <1>1, <1>5 DEF OfflineInv, ProductTypeOK
    <2>2. QED
      BY <1>1, <1>2, <1>5, <2>1 DEF OfflineInv, CheckFollowsFile, GeneratedAt, Until, Payload
  <1>6. QED
    BY <1>2, <1>3, <1>4, <1>5 DEF OfflineInv

---------------------------------------------------------------------------
(* The theorems. *)

LEMMA OfflineInvInit == OfflineInit => OfflineInv
  <1> SUFFICES ASSUME OfflineInit PROVE OfflineInv
    OBVIOUS
  <1>1. CrlInv /\ Len(bundle) = 0
    BY CrlInvInit DEF OfflineInit, CrlInit
  <1>2. ProductTypeOK
    BY TimesAssumption, MaxVersionAssumption DEF OfflineInit, ProductTypeOK, NoState, Time
  <1>3. FileRemembers
    BY <1>1 DEF OfflineInit, FileRemembers, NoState, GeneratedAt
  <1>4. QED
    BY <1>1, <1>2, <1>3 DEF OfflineInit, OfflineInv

LEMMA OfflineInvStep == OfflineInv /\ [OfflineNext]_offlineVars => OfflineInv'
  <1> SUFFICES ASSUME OfflineInv, [OfflineNext]_offlineVars PROVE OfflineInv'
    OBVIOUS
  <1>1. CASE [CrlNext]_crlVars /\ UNCHANGED productVars
    BY <1>1, ServerKeeps
  <1>2. ASSUME NEW p \in Verifier,
               LoadState(p) \/ SaveState(p) \/ SaveFails(p) \/ SaveTorn(p)
        PROVE  OfflineInv'
    BY <1>2, LoadKeeps, SaveKeeps, FailKeeps, TornKeeps
  <1>3. QED
    BY <1>1, <1>2 DEF OfflineNext, offlineVars

LEMMA OfflineInvariance == OfflineSpec => []OfflineInv
  <1>1. QED
    BY OfflineInvInit, OfflineInvStep, PTL DEF OfflineSpec

\* The product does not disturb the server.
THEOREM ServerIsCrlPublication == OfflineSpec => CrlSpec
  <1>1. OfflineInit => CrlInit
    BY DEF OfflineInit
  <1>2. QED
    BY <1>1, ServerSteps, PTL DEF OfflineSpec, CrlSpec

\* What a list has to be to unlock a product that recorded a refusal.
LEMMA UnlockingList ==
    ASSUME OfflineInv, NEW p \in Verifier,
           SaveState(p), ~pending[p].overtaken,
           refusedBy # 0, pending[p].list # 0, pending[p].verdict = "unlocked"
    PROVE  /\ pending[p].list > refusedBy
           /\ bundle[pending[p].list].since < refusedBy
  <1>1. pending[p] \in Check /\ CheckFollowsFile(pending[p])
    BY DEF SaveState, OfflineInv, ProductTypeOK
  <1>2. /\ refusedBy \in Nat /\ state.crl \in Nat
        /\ pending[p].list \in Nat /\ pending[p].crl \in Nat
    BY <1>1 DEF Check, OfflineInv, ProductTypeOK
  <1>3. refusedBy <= pending[p].list
    BY <1>1, <1>2 DEF OfflineInv, FileRemembers, CheckFollowsFile
  <1>4. Held \in bundle[refusedBy].ids /\ Held \notin bundle[pending[p].list].ids
    BY <1>1 DEF OfflineInv, FileRemembers, CheckFollowsFile
  <1>5. refusedBy # pending[p].list
    BY <1>4
  <1>6. Len(bundle) \in Nat /\ DOMAIN bundle = 1..Len(bundle)
    BY VersionsAreCounted DEF OfflineInv, CrlInv
  <1>7. refusedBy \in 1..Len(bundle) /\ pending[p].list \in 1..Len(bundle)
    BY <1>1, <1>2, <1>3, <1>6 DEF CheckFollowsFile
  <1>8. bundle[pending[p].list] \in Bundle
    BY <1>7, ElementOfSeq DEF OfflineInv, CrlInv, CrlTypeOK
  <1>9. ~(refusedBy <= bundle[pending[p].list].since)
    BY <1>4, <1>7 DEF OfflineInv, CrlInv, Covers
  <1>10. bundle[pending[p].list].since \in Nat
    BY <1>8 DEF Bundle
  <1>11. QED
    BY <1>2, <1>3, <1>5, <1>9, <1>10

\* A refusal that the state file has recorded is undone by a check without a list
\* or by a newer one, whose generation had begun before the refusing one was
\* committed, and neither makes an older list acceptable again.
THEOREM RefusalLastsHolds == OfflineSpec => RefusalLasts
  <1>1. ASSUME OfflineInv, NEW p \in Verifier,
               SaveState(p), ~pending[p].overtaken,
               refusedBy # 0, pending[p].verdict = "unlocked"
        PROVE  /\ state'.crl >= refusedBy
               /\ \/ pending[p].list = 0
                  \/ /\ pending[p].list > refusedBy
                     /\ bundle[pending[p].list].since < refusedBy
    <2>1. pending[p] \in Check /\ CheckFollowsFile(pending[p])
      BY <1>1 DEF SaveState, OfflineInv, ProductTypeOK
    <2>2. /\ refusedBy \in Nat /\ state.crl \in Nat /\ pending[p].crl \in Nat
          /\ refusedBy <= state.crl /\ state.crl <= pending[p].crl
      BY <1>1, <2>1 DEF Check, OfflineInv, ProductTypeOK, FileRemembers, CheckFollowsFile
    <2>3. state'.crl = pending[p].crl
      BY <1>1 DEF SaveState, Decided
    <2>4. state'.crl >= refusedBy
      BY <2>2, <2>3
    <2>5. QED
      BY <1>1, <2>4, UnlockingList
  <1>2. OfflineInv =>
          [\A p \in Verifier :
             /\ SaveState(p) /\ ~pending[p].overtaken
             /\ refusedBy # 0 /\ pending[p].verdict = "unlocked"
             => /\ state'.crl >= refusedBy
                /\ \/ pending[p].list = 0
                   \/ /\ pending[p].list > refusedBy
                      /\ bundle[pending[p].list].since < refusedBy]_offlineVars
    BY <1>1
  <1>3. QED
    BY <1>2, OfflineInvariance, PTL DEF RefusalLasts

\* A recorded end of the term outlasts any setting of the clock.
THEOREM ExpiryLastsHolds == OfflineSpec => ExpiryLasts
  <1>1. ASSUME OfflineInv, NEW p \in Verifier,
               SaveState(p), ~pending[p].overtaken, Until # NoValue,
               \/ state.watermark >= Until + Skew
               \/ GeneratedAt(state.crl) >= Until + Skew
        PROVE  pending[p].verdict # "unlocked"
    <2>1. /\ state.crl \in 0..MaxVersion /\ state.watermark \in Int
          /\ GeneratedAt(state.crl) \in Int
      BY <1>1, GeneratedIsATime, TimesAssumption DEF OfflineInv, ProductTypeOK, Time
    <2>2. state.watermark >= Until + Skew
      BY <1>1, <2>1, UntilIsATime, TimesAssumption DEF OfflineInv, FileRemembers
    <2>3. CheckFollowsFile(pending[p])
      BY <1>1 DEF SaveState, OfflineInv
    <2>4. QED
      BY <1>1, <2>2, <2>3 DEF CheckFollowsFile
  <1>2. OfflineInv =>
          [\A p \in Verifier :
             /\ SaveState(p) /\ ~pending[p].overtaken /\ Until # NoValue
             /\ \/ state.watermark >= Until + Skew
                \/ GeneratedAt(state.crl) >= Until + Skew
             => pending[p].verdict # "unlocked"]_offlineVars
    BY <1>1
  <1>3. QED
    BY <1>2, OfflineInvariance, PTL DEF ExpiryLasts

=============================================================================
