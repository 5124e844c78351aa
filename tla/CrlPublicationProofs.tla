------------------------ MODULE CrlPublicationProofs ------------------------
(***************************************************************************)
(* Theorems about CrlPublication, for every set of licenses, every number   *)
(* of overlapping generations and every bound on the bundles.               *)
(***************************************************************************)
EXTENDS CrlPublication, SequenceTheorems, TLAPS

---------------------------------------------------------------------------
(* The inductive invariant. *)

\* Only one bundle can be in flight, and it is the next one.  A draft that was
\* signed may be overtaken, but it never skips a version.
OneInFlight ==
    /\ \A g \in Generator : gpc[g] \in {"signed", "flushed"} =>
          draft[g].version \in 1..(Len(bundle) + 1)
    /\ \A g \in Generator : gpc[g] = "flushed" =>
          draft[g].version = Len(bundle) + 1
    /\ \A g, h \in Generator :
          gpc[g] = "flushed" /\ gpc[h] = "flushed" => g = h

\* Revocations are permanent; a list, a draft and a stamp name revoked
\* licenses; what a draft selected is what the log held at that moment.
NamesRevoked ==
    /\ \A i \in 1..Len(log) : licence[log[i]] \in {"revoked", "deleted"}
    /\ \A i \in 1..Len(bundle) : bundle[i].ids \subseteq RevokedIds
    /\ \A g \in Generator : unstamped[g] \subseteq RevokedIds
    /\ \A l \in Offline : stamp[l] # 0 => l \in RevokedIds
    /\ \A g \in Generator : gpc[g] # "idle" =>
          \E n \in 0..Len(log) : draft[g].ids = Ledger!Snapshot(n)

\* A list was begun before it was committed, and a draft covers every list and
\* every stamp that was there when it was begun.
Covers ==
    /\ \A i \in 1..Len(bundle) : bundle[i].since < i
    /\ \A i, j \in 1..Len(bundle) :
          i <= bundle[j].since => bundle[i].ids \subseteq bundle[j].ids
    /\ \A g \in Generator : gpc[g] # "idle" =>
          /\ draft[g].since <= Len(bundle)
          /\ \A i \in 1..Len(bundle) :
                i <= draft[g].since => bundle[i].ids \subseteq draft[g].ids
          /\ \A l \in Offline :
                stamp[l] # 0 /\ stamp[l] <= draft[g].since => l \in draft[g].ids
    /\ \A l \in Offline : stamp[l] <= Len(bundle)
    /\ \A l \in Offline, j \in 1..Len(bundle) :
          stamp[l] # 0 /\ stamp[l] <= bundle[j].since => l \in bundle[j].ids

CrlInv ==
    /\ CrlTypeOK
    /\ VersionsInOrder
    /\ OneInFlight
    /\ NamesRevoked
    /\ Covers

---------------------------------------------------------------------------
(* What the reads of the database return.                                    *)

\* Appending to a sequence.
LEMMA Appended ==
    ASSUME NEW S, NEW s \in Seq(S), NEW e \in S
    PROVE  /\ Append(s, e) \in Seq(S)
           /\ Len(Append(s, e)) = Len(s) + 1
           /\ DOMAIN Append(s, e) = 1..(Len(s) + 1)
           /\ \A i \in 1..Len(s) : Append(s, e)[i] = s[i]
           /\ Append(s, e)[Len(s) + 1] = e
  <1>1. QED
    BY AppendProperties, LenProperties

\* A draft is built from snapshots; an idle generation holds an empty one.
LEMMA EmptyDraft == NoBundle \in Bundle
  <1>1. QED
    BY MaxVersionAssumption DEF NoBundle, Bundle

\* The versions committed are 1, 2, ..., so the latest is their number and the
\* unique constraint refuses exactly those.
LEMMA VersionsAreCounted ==
    ASSUME CrlTypeOK, VersionsInOrder
    PROVE  /\ Len(bundle) \in Nat
           /\ DOMAIN bundle = 1..Len(bundle)
           /\ Versions = 1..Len(bundle)
           /\ LatestVersion = Len(bundle)
  <1>1. Len(bundle) \in Nat /\ DOMAIN bundle = 1..Len(bundle)
    BY LenProperties DEF CrlTypeOK
  <1>2. Versions = 1..Len(bundle)
    BY <1>1 DEF Versions, VersionsInOrder
  <1>3. CASE Len(bundle) = 0
    <2>1. Versions = {}
      BY <1>2, <1>3
    <2>2. QED
      BY <1>1, <1>2, <1>3, <2>1 DEF LatestVersion
  <1>4. CASE Len(bundle) # 0
    <2>1. Versions # {} /\ Len(bundle) \in Versions
      BY <1>1, <1>2, <1>4
    <2>2. \A v \in Versions :
             (\A w \in Versions : w <= v) <=> v = Len(bundle)
      <3>1. ASSUME NEW v \in 1..Len(bundle), \A w \in 1..Len(bundle) : w <= v
            PROVE  v = Len(bundle)
        <4>1. Len(bundle) <= v
          BY <1>1, <1>2, <2>1, <3>1
        <4>2. Len(bundle) \in Nat
          BY <1>1
        <4>3. QED
          BY <3>1, <4>1, <4>2
      <3>2. \A w \in 1..Len(bundle) : w <= Len(bundle)
        BY <1>1
      <3>3. QED
        BY <1>2, <3>1, <3>2
    <2>3. LatestVersion = CHOOSE v \in Versions : \A w \in Versions : w <= v
      BY <2>1 DEF LatestVersion
    <2>4. LatestVersion \in Versions /\ \A w \in Versions : w <= LatestVersion
      BY <2>1, <2>2, <2>3
    <2>5. QED
      BY <1>1, <1>2, <2>2, <2>4
  <1>5. QED
    BY <1>3, <1>4

\* A revocation adds one license to the revoked ones and takes none away.
LEMMA RevocationAdds ==
    ASSUME log \in Seq(Offline), NEW l \in Offline, log' = Append(log, l)
    PROVE  RevokedIds' = RevokedIds \cup {l}
  <1>1. DOMAIN log = 1..Len(log) /\ Len(log) \in Nat
    BY LenProperties
  <1>2. DOMAIN log' = 1..(Len(log) + 1) /\ log'[Len(log) + 1] = l
        /\ \A i \in 1..Len(log) : log'[i] = log[i]
    BY Appended
  <1>3. QED
    BY <1>1, <1>2 DEF RevokedIds

\* What the log held earlier it still holds when it has grown.
LEMMA SnapshotStays ==
    ASSUME log \in Seq(Offline), NEW l \in Offline, log' = Append(log, l)
    PROVE  /\ Len(log') = Len(log) + 1
           /\ \A n \in 0..Len(log) : Ledger!Snapshot(n)' = Ledger!Snapshot(n)
  <1>1. Len(log) \in Nat
    BY LenProperties
  <1>2. Len(log') = Len(log) + 1 /\ \A i \in 1..Len(log) : log'[i] = log[i]
    BY Appended
  <1>3. ASSUME NEW n \in 0..Len(log)
        PROVE  Ledger!Snapshot(n)' = Ledger!Snapshot(n)
    <2>1. \A i \in 1..n : log'[i] = log[i]
      BY <1>1, <1>2
    <2>2. QED
      BY <2>1 DEF Ledger!Snapshot
  <1>4. QED
    BY <1>2, <1>3

\* All that the log holds are the revoked licenses.
LEMMA SnapshotIsRevoked ==
    ASSUME log \in Seq(Offline)
    PROVE  /\ Len(log) \in Nat
           /\ Ledger!Snapshot(Len(log)) = RevokedIds
           /\ \A n \in 0..Len(log) : Ledger!Snapshot(n) \subseteq RevokedIds
           /\ RevokedIds \subseteq Offline
  <1>1. DOMAIN log = 1..Len(log) /\ Len(log) \in Nat
        /\ \A i \in 1..Len(log) : log[i] \in Offline
    BY LenProperties, ElementOfSeq
  <1>2. QED
    BY <1>1 DEF Ledger!Snapshot, RevokedIds

---------------------------------------------------------------------------
(* Types.                                                                    *)

\* A step keeps every variable in its type; the counters need the order of
\* the versions.
LEMMA TypeStep ==
    ASSUME CrlTypeOK, VersionsInOrder, [CrlNext]_crlVars
    PROVE  CrlTypeOK'
  <1> USE MaxVersionAssumption
  <1>1. /\ Len(bundle) \in Nat
        /\ LatestVersion = Len(bundle)
        /\ RevokedIds \subseteq Offline
    BY VersionsAreCounted, SnapshotIsRevoked DEF CrlTypeOK
  <1>2. ASSUME NEW l \in Offline,
               IssueOffline(l) \/ RevokeOffline(l) \/ DeleteOffline(l)
        PROVE  CrlTypeOK'
    <2>1. licence' \in [Offline -> {"unissued", "active", "revoked", "deleted"}]
      BY <1>2 DEF CrlTypeOK, IssueOffline, RevokeOffline, DeleteOffline
    <2>2. log' \in Seq(Offline)
      <3>1. Append(log, l) \in Seq(Offline)
        BY Appended DEF CrlTypeOK
      <3>2. log' = log \/ log' = Append(log, l)
        BY <1>2 DEF IssueOffline, RevokeOffline, DeleteOffline
      <3>3. QED
        BY <3>1, <3>2 DEF CrlTypeOK
    <2>3. QED
      BY <1>2, <2>1, <2>2
         DEF CrlTypeOK, IssueOffline, RevokeOffline, DeleteOffline, genVars
  <1>3. ASSUME NEW g \in Generator, Forget(g)
        PROVE  /\ gpc' \in [Generator -> {"idle", "selected", "signed", "flushed"}]
               /\ draft' \in [Generator -> Bundle]
               /\ unstamped' \in [Generator -> SUBSET Offline]
    BY <1>3, EmptyDraft DEF CrlTypeOK, Forget
  <1>4. ASSUME NEW g \in Generator, SelectRevoked(g)
        PROVE  CrlTypeOK'
    <2>1. [version |-> 0, ids |-> RevokedIds, since |-> Len(bundle)] \in Bundle
      BY <1>1, <1>4 DEF SelectRevoked, Bundle
    <2>2. QED
      BY <1>4, <2>1 DEF CrlTypeOK, SelectRevoked, licVars
  <1>5. ASSUME NEW g \in Generator, ReadLatest(g)
        PROVE  CrlTypeOK'
    <2>1. LatestVersion + 1 \in 0..MaxVersion
      BY <1>1, <1>5 DEF ReadLatest
    <2>2. [draft[g] EXCEPT !.version = LatestVersion + 1] \in Bundle
      BY <2>1 DEF CrlTypeOK, Bundle
    <2>3. QED
      BY <1>5, <2>2 DEF CrlTypeOK, ReadLatest, licVars
  <1>6. ASSUME NEW g \in Generator, FlushBundle(g)
        PROVE  CrlTypeOK'
    <2>1. CASE Forget(g)
      BY <1>3, <1>6, <2>1 DEF CrlTypeOK, FlushBundle, licVars
    <2>2. CASE ~Forget(g)
      BY <1>1, <1>6, <2>2 DEF CrlTypeOK, FlushBundle, licVars
    <2>3. QED
      BY <2>1, <2>2
  <1>7. ASSUME NEW g \in Generator, CommitBundle(g)
        PROVE  CrlTypeOK'
    <2>1. bundle' \in Seq(Bundle)
      BY <1>7, Appended DEF CrlTypeOK, CommitBundle
    <2>2. stamp' \in [Offline -> 0..MaxVersion]
      BY <1>7 DEF CrlTypeOK, CommitBundle, Stamped, Bundle
    <2>3. QED
      BY <1>3, <1>7, <2>1, <2>2 DEF CrlTypeOK, CommitBundle, licVars
  <1>8. ASSUME NEW g \in Generator, AbortGenerate(g)
        PROVE  CrlTypeOK'
    BY <1>3, <1>8 DEF CrlTypeOK, AbortGenerate, licVars
  <1>9. CASE UNCHANGED crlVars
    BY <1>9 DEF CrlTypeOK, crlVars, licVars, genVars
  <1>10. QED
    BY <1>2, <1>4, <1>5, <1>6, <1>7, <1>8, <1>9 DEF CrlNext, Generate

---------------------------------------------------------------------------
(* Steps of the licenses: the lists, drafts and stamps stay as they are.     *)

LEMMA LicenseStep ==
    ASSUME CrlInv, NEW l \in Offline,
           IssueOffline(l) \/ RevokeOffline(l) \/ DeleteOffline(l)
    PROVE  VersionsInOrder' /\ OneInFlight' /\ NamesRevoked' /\ Covers'
  <1>1. UNCHANGED <<stamp, bundle, gpc, draft, unstamped>>
    BY DEF IssueOffline, RevokeOffline, DeleteOffline, genVars
  <1>2. VersionsInOrder' /\ OneInFlight' /\ Covers'
    BY <1>1 DEF CrlInv, VersionsInOrder, OneInFlight, Covers
  <1>3. log \in Seq(Offline) /\ licence \in
           [Offline -> {"unissued", "active", "revoked", "deleted"}]
    BY DEF CrlInv, CrlTypeOK
  <1>4. Len(log) \in Nat /\ \A i \in 1..Len(log) : log[i] \in Offline
    BY <1>3, LenProperties, ElementOfSeq
  <1>5. ASSUME NEW k \in Offline, licence[k] \in {"revoked", "deleted"}
        PROVE  licence'[k] \in {"revoked", "deleted"}
    BY <1>3, <1>5 DEF IssueOffline, RevokeOffline, DeleteOffline
  <1>6. CASE RevokeOffline(l)
    <2>1. log' = Append(log, l) /\ licence'[l] = "revoked"
      BY <1>3, <1>6 DEF RevokeOffline
    <2>2. RevokedIds \subseteq RevokedIds'
      BY <1>3, <2>1, RevocationAdds
    <2>3. /\ Len(log') = Len(log) + 1
          /\ \A n \in 0..Len(log) : Ledger!Snapshot(n)' = Ledger!Snapshot(n)
      BY <1>3, <2>1, SnapshotStays
    <2>4. \A i \in 1..Len(log) : log'[i] = log[i]
      BY <1>3, <2>1, Appended
    <2>5. log'[Len(log) + 1] = l
      BY <1>3, <2>1, Appended
    <2>6. \A i \in 1..Len(log') : licence'[log'[i]] \in {"revoked", "deleted"}
      BY <1>4, <1>5, <2>1, <2>3, <2>4, <2>5 DEF CrlInv, NamesRevoked
    <2>7. ASSUME NEW g \in Generator, gpc'[g] # "idle"
          PROVE  \E n \in 0..Len(log') : draft'[g].ids = Ledger!Snapshot(n)'
      <3>1. PICK n \in 0..Len(log) : draft[g].ids = Ledger!Snapshot(n)
        BY <1>1, <2>7 DEF CrlInv, NamesRevoked
      <3>2. n \in 0..Len(log') /\ draft'[g].ids = Ledger!Snapshot(n)'
        BY <1>1, <1>4, <2>3, <3>1
      <3>3. QED
        BY <3>2
    <2>8. /\ \A i \in 1..Len(bundle') : bundle'[i].ids \subseteq RevokedIds'
          /\ \A g \in Generator : unstamped'[g] \subseteq RevokedIds'
          /\ \A k \in Offline : stamp'[k] # 0 => k \in RevokedIds'
      BY <1>1, <2>2 DEF CrlInv, NamesRevoked
    <2>9. QED
      BY <1>2, <2>6, <2>7, <2>8 DEF NamesRevoked
  <1>7. CASE ~RevokeOffline(l)
    <2>1. log' = log
      BY <1>7 DEF IssueOffline, DeleteOffline
    <2>2. \A i \in 1..Len(log') : licence'[log'[i]] \in {"revoked", "deleted"}
      BY <1>4, <1>5, <2>1 DEF CrlInv, NamesRevoked
    <2>3. RevokedIds' = RevokedIds /\ \A n : Ledger!Snapshot(n)' = Ledger!Snapshot(n)
      BY <2>1 DEF RevokedIds, Ledger!Snapshot
    <2>4. QED
      BY <1>1, <1>2, <2>1, <2>2, <2>3 DEF CrlInv, NamesRevoked
  <1>8. QED
    BY <1>6, <1>7

---------------------------------------------------------------------------
(* Steps of a generation. *)

\* A generation that ends only drops what it held.
LEMMA ForgetStep ==
    ASSUME CrlInv, NEW g \in Generator, Forget(g), UNCHANGED <<licVars, stamp, bundle>>
    PROVE  VersionsInOrder' /\ OneInFlight' /\ NamesRevoked' /\ Covers'
  <1>1. /\ gpc'[g] = "idle" /\ unstamped'[g] = {}
        /\ \A h \in Generator \ {g} :
              /\ gpc'[h] = gpc[h]
              /\ draft'[h] = draft[h]
              /\ unstamped'[h] = unstamped[h]
    BY DEF CrlInv, CrlTypeOK, Forget
  <1>2. VersionsInOrder'
    BY DEF CrlInv, VersionsInOrder
  <1>3. OneInFlight'
    BY <1>1 DEF CrlInv, OneInFlight
  <1>4. RevokedIds' = RevokedIds /\ \A n : Ledger!Snapshot(n)' = Ledger!Snapshot(n)
    BY DEF RevokedIds, Ledger!Snapshot, licVars
  <1>5. NamesRevoked'
    BY <1>1, <1>4 DEF CrlInv, NamesRevoked, licVars
  <1>6. Covers'
    BY <1>1 DEF CrlInv, Covers
  <1>7. QED
    BY <1>2, <1>3, <1>5, <1>6

LEMMA SelectStep ==
    ASSUME CrlInv, NEW g \in Generator, SelectRevoked(g)
    PROVE  VersionsInOrder' /\ OneInFlight' /\ NamesRevoked' /\ Covers'
  <1>1. /\ gpc'[g] = "selected"
        /\ draft'[g].ids = RevokedIds /\ draft'[g].since = Len(bundle)
        /\ \A h \in Generator \ {g} : gpc'[h] = gpc[h] /\ draft'[h] = draft[h]
        /\ UNCHANGED <<licence, log, stamp, bundle, unstamped>>
    BY DEF CrlInv, CrlTypeOK, SelectRevoked, licVars
  <1>2. VersionsInOrder'
    BY <1>1 DEF CrlInv, VersionsInOrder
  <1>3. OneInFlight'
    BY <1>1 DEF CrlInv, OneInFlight
  <1>4. RevokedIds' = RevokedIds /\ \A n : Ledger!Snapshot(n)' = Ledger!Snapshot(n)
    BY <1>1 DEF RevokedIds, Ledger!Snapshot
  <1>5. Len(log) \in Nat /\ Ledger!Snapshot(Len(log)) = RevokedIds
    BY SnapshotIsRevoked DEF CrlInv, CrlTypeOK
  <1>6. ASSUME NEW h \in Generator, gpc'[h] # "idle"
        PROVE  \E n \in 0..Len(log') : draft'[h].ids = Ledger!Snapshot(n)'
    <2>1. CASE h = g
      BY <1>1, <1>4, <1>5, <2>1
    <2>2. CASE h # g
      BY <1>1, <1>4, <1>6, <2>2 DEF CrlInv, NamesRevoked
    <2>3. QED
      BY <2>1, <2>2
  <1>7. NamesRevoked'
    BY <1>1, <1>4, <1>6 DEF CrlInv, NamesRevoked
  <1>8. Len(bundle) \in Nat
    BY VersionsAreCounted DEF CrlInv
  <1>9. ASSUME NEW h \in Generator, gpc'[h] # "idle"
        PROVE  /\ draft'[h].since <= Len(bundle)
               /\ \A i \in 1..Len(bundle) :
                     i <= draft'[h].since => bundle[i].ids \subseteq draft'[h].ids
               /\ \A l \in Offline :
                     stamp[l] # 0 /\ stamp[l] <= draft'[h].since => l \in draft'[h].ids
    <2>1. CASE h = g
      BY <1>1, <1>8, <2>1 DEF CrlInv, NamesRevoked
    <2>2. CASE h # g
      BY <1>1, <1>9, <2>2 DEF CrlInv, Covers
    <2>3. QED
      BY <2>1, <2>2
  <1>10. Covers'
    BY <1>1, <1>9 DEF CrlInv, Covers
  <1>11. QED
    BY <1>2, <1>3, <1>7, <1>10

LEMMA ReadLatestStep ==
    ASSUME CrlInv, NEW g \in Generator, ReadLatest(g)
    PROVE  VersionsInOrder' /\ OneInFlight' /\ NamesRevoked' /\ Covers'
  <1>1. /\ gpc[g] = "selected" /\ gpc'[g] = "signed"
        /\ draft'[g].version = LatestVersion + 1
        /\ draft'[g].ids = draft[g].ids /\ draft'[g].since = draft[g].since
        /\ \A h \in Generator \ {g} : gpc'[h] = gpc[h] /\ draft'[h] = draft[h]
        /\ UNCHANGED <<licence, log, stamp, bundle, unstamped>>
    BY DEF CrlInv, CrlTypeOK, Bundle, ReadLatest, licVars
  <1>2. Len(bundle) \in Nat /\ LatestVersion = Len(bundle)
    BY VersionsAreCounted DEF CrlInv
  <1>3. VersionsInOrder'
    BY <1>1 DEF CrlInv, VersionsInOrder
  <1>4. OneInFlight'
    BY <1>1, <1>2 DEF CrlInv, OneInFlight
  <1>5. \A h \in Generator : /\ draft'[h].ids = draft[h].ids
                             /\ draft'[h].since = draft[h].since
                             /\ gpc'[h] # "idle" => gpc[h] # "idle"
    BY <1>1
  <1>6. RevokedIds' = RevokedIds /\ \A n : Ledger!Snapshot(n)' = Ledger!Snapshot(n)
    BY <1>1 DEF RevokedIds, Ledger!Snapshot
  <1>7. NamesRevoked'
    BY <1>1, <1>5, <1>6 DEF CrlInv, NamesRevoked
  <1>8. Covers'
    BY <1>1, <1>5 DEF CrlInv, Covers
  <1>9. QED
    BY <1>3, <1>4, <1>7, <1>8

\* A draft whose version is free is the next one, and nobody else has flushed:
\* the INSERT would have waited for him.
LEMMA FlushStep ==
    ASSUME CrlInv, NEW g \in Generator, FlushBundle(g)
    PROVE  VersionsInOrder' /\ OneInFlight' /\ NamesRevoked' /\ Covers'
  <1>1. UNCHANGED <<licVars, stamp, bundle>>
    BY DEF FlushBundle
  <1>2. CASE Forget(g)
    BY <1>1, <1>2, ForgetStep
  <1>3. CASE ~Forget(g)
    <2>1. /\ gpc[g] = "signed" /\ gpc'[g] = "flushed"
          /\ draft[g].version \notin Versions
          /\ \A h \in Generator \ {g} :
                gpc[h] = "flushed" => draft[h].version # draft[g].version
          /\ unstamped'[g] \subseteq RevokedIds
          /\ \A h \in Generator \ {g} :
                gpc'[h] = gpc[h] /\ unstamped'[h] = unstamped[h]
          /\ UNCHANGED <<licence, log, stamp, bundle, draft>>
      BY <1>1, <1>3 DEF CrlInv, CrlTypeOK, FlushBundle, VersionTaken, licVars
    <2>2. Len(bundle) \in Nat /\ Versions = 1..Len(bundle)
      BY VersionsAreCounted DEF CrlInv
    <2>3. draft[g].version = Len(bundle) + 1
      <3>1. draft[g].version \in 1..(Len(bundle) + 1)
        BY <2>1 DEF CrlInv, OneInFlight
      <3>2. QED
        BY <2>1, <2>2, <3>1
    <2>4. \A h \in Generator \ {g} : gpc[h] # "flushed"
      BY <2>1, <2>3 DEF CrlInv, OneInFlight
    <2>5. VersionsInOrder'
      BY <2>1 DEF CrlInv, VersionsInOrder
    <2>6. OneInFlight'
      BY <2>1, <2>2, <2>3, <2>4 DEF CrlInv, OneInFlight
    <2>7. RevokedIds' = RevokedIds /\ \A n : Ledger!Snapshot(n)' = Ledger!Snapshot(n)
      BY <2>1 DEF RevokedIds, Ledger!Snapshot
    <2>8. \A h \in Generator : gpc'[h] # "idle" => gpc[h] # "idle"
      BY <2>1
    <2>9. NamesRevoked'
      BY <2>1, <2>7, <2>8 DEF CrlInv, NamesRevoked
    <2>10. Covers'
      BY <2>1, <2>8 DEF CrlInv, Covers
    <2>11. QED
      BY <2>5, <2>6, <2>9, <2>10
  <1>4. QED
    BY <1>2, <1>3

\* The bundle committed is the next; the stamps that go with it are the next
\* version, which no list and no draft of before was begun after.
LEMMA CommitStep ==
    ASSUME CrlInv, NEW g \in Generator, CommitBundle(g)
    PROVE  VersionsInOrder' /\ OneInFlight' /\ NamesRevoked' /\ Covers'
  <1> DEFINE n == Len(bundle)
  <1>1. /\ n \in Nat
        /\ draft[g].version = n + 1
        /\ \A h \in Generator \ {g} : gpc[h] # "flushed"
    BY VersionsAreCounted DEF CrlInv, OneInFlight, CommitBundle
  <1>2. /\ gpc[g] = "flushed" /\ gpc'[g] = "idle" /\ unstamped'[g] = {}
        /\ \A h \in Generator \ {g} :
              /\ gpc'[h] = gpc[h]
              /\ draft'[h] = draft[h]
              /\ unstamped'[h] = unstamped[h]
        /\ UNCHANGED <<licence, log>>
    BY DEF CrlInv, CrlTypeOK, CommitBundle, Forget, licVars
  <1>3. /\ Len(bundle') = n + 1
        /\ DOMAIN bundle' = 1..(n + 1)
        /\ \A i \in 1..n : bundle'[i] = bundle[i]
        /\ bundle'[n + 1] = draft[g]
    BY Appended DEF CrlInv, CrlTypeOK, CommitBundle
  <1>4. \A l \in Offline :
           \/ stamp'[l] = stamp[l]
           \/ l \in unstamped[g] /\ stamp'[l] = n + 1
    BY <1>1 DEF CommitBundle, Stamped
  <1>5. \A i \in 1..(n + 1) : i \in 1..n \/ i = n + 1
    BY <1>1
  <1>6. VersionsInOrder'
    BY <1>1, <1>3, <1>5, VersionsAreCounted DEF CrlInv, VersionsInOrder
  <1>7. OneInFlight'
    BY <1>1, <1>2, <1>3 DEF CrlInv, OneInFlight
  <1>8. RevokedIds' = RevokedIds /\ \A k : Ledger!Snapshot(k)' = Ledger!Snapshot(k)
    BY <1>2 DEF RevokedIds, Ledger!Snapshot
  <1>9. draft[g].ids \subseteq RevokedIds
    BY <1>2, SnapshotIsRevoked DEF CrlInv, CrlTypeOK, NamesRevoked
  <1>10. NamesRevoked'
    <2>1. \A i \in 1..Len(bundle') : bundle'[i].ids \subseteq RevokedIds'
      BY <1>3, <1>5, <1>8, <1>9 DEF CrlInv, NamesRevoked
    <2>2. \A l \in Offline : stamp'[l] # 0 => l \in RevokedIds'
      BY <1>4, <1>8 DEF CrlInv, NamesRevoked
    <2>3. QED
      BY <1>2, <1>8, <2>1, <2>2 DEF CrlInv, NamesRevoked
  <1>11. /\ draft[g].since \in Nat /\ draft[g].since <= n
         /\ \A i \in 1..n : i <= draft[g].since => bundle[i].ids \subseteq draft[g].ids
         /\ \A l \in Offline :
               stamp[l] # 0 /\ stamp[l] <= draft[g].since => l \in draft[g].ids
    BY <1>2 DEF CrlInv, CrlTypeOK, Bundle, Covers
  <1>12. \A i \in 1..n : bundle[i].since \in Nat /\ bundle[i].since < i
    <2>1. \A i \in 1..n : bundle[i] \in Bundle
      BY ElementOfSeq DEF CrlInv, CrlTypeOK
    <2>2. QED
      BY <2>1 DEF CrlInv, Bundle, Covers
  <1>13. \A i \in 1..(n + 1) : bundle'[i].since < i
    BY <1>1, <1>3, <1>5, <1>11, <1>12
  <1>14. \A i, j \in 1..(n + 1) :
            i <= bundle'[j].since => bundle'[i].ids \subseteq bundle'[j].ids
    <2>1. ASSUME NEW i \in 1..(n + 1), NEW j \in 1..n, i <= bundle'[j].since
          PROVE  bundle'[i].ids \subseteq bundle'[j].ids
      <3>1. i \in 1..n
        BY <1>1, <1>3, <1>12, <2>1
      <3>2. QED
        BY <1>3, <2>1, <3>1 DEF CrlInv, Covers
    <2>2. ASSUME NEW i \in 1..(n + 1), i <= bundle'[n + 1].since
          PROVE  bundle'[i].ids \subseteq bundle'[n + 1].ids
      <3>1. i \in 1..n
        BY <1>1, <1>3, <1>11, <2>2
      <3>2. QED
        BY <1>3, <1>11, <2>2, <3>1
    <2>3. QED
      BY <1>5, <2>1, <2>2
  <1>15. ASSUME NEW h \in Generator, gpc'[h] # "idle"
         PROVE  /\ draft'[h].since <= n + 1
                /\ \A i \in 1..(n + 1) :
                      i <= draft'[h].since => bundle'[i].ids \subseteq draft'[h].ids
                /\ \A l \in Offline :
                      stamp'[l] # 0 /\ stamp'[l] <= draft'[h].since
                      => l \in draft'[h].ids
    <2>1. gpc[h] # "idle" /\ draft'[h] = draft[h]
      BY <1>2, <1>15
    <2>2. draft[h].since \in Nat /\ draft[h].since <= n
      BY <2>1 DEF CrlInv, CrlTypeOK, Bundle, Covers
    <2>3. ASSUME NEW i \in 1..(n + 1), i <= draft[h].since
          PROVE  bundle'[i].ids \subseteq draft[h].ids
      <3>1. i \in 1..n
        BY <1>1, <2>2, <2>3
      <3>2. QED
        BY <1>3, <2>1, <2>3, <3>1 DEF CrlInv, Covers
    <2>4. ASSUME NEW l \in Offline, stamp'[l] # 0, stamp'[l] <= draft[h].since
          PROVE  l \in draft[h].ids
      <3>1. stamp'[l] = stamp[l]
        BY <1>1, <1>4, <2>2, <2>4
      <3>2. QED
        BY <2>1, <2>4, <3>1 DEF CrlInv, Covers
    <2>5. draft[h].since <= n + 1
      BY <1>1, <2>2
    <2>6. QED
      BY <2>1, <2>3, <2>4, <2>5
  <1>16. \A l \in Offline : stamp[l] \in Nat /\ stamp[l] <= n
    BY DEF CrlInv, CrlTypeOK, Covers
  <1>17. \A l \in Offline : stamp'[l] <= n + 1
    BY <1>1, <1>4, <1>16
  <1>18. ASSUME NEW l \in Offline, NEW j \in 1..(n + 1),
                stamp'[l] # 0, stamp'[l] <= bundle'[j].since
         PROVE  l \in bundle'[j].ids
    <2>1. bundle'[j].since \in Nat /\ bundle'[j].since <= n
      BY <1>1, <1>3, <1>5, <1>11, <1>12
    <2>2. stamp'[l] = stamp[l]
      BY <1>1, <1>4, <1>18, <2>1
    <2>3. CASE j \in 1..n
      BY <1>3, <1>18, <2>2, <2>3 DEF CrlInv, Covers
    <2>4. CASE j = n + 1
      BY <1>3, <1>11, <1>18, <2>2, <2>4
    <2>5. QED
      BY <1>5, <2>3, <2>4
  <1>19. Covers'
    BY <1>3, <1>13, <1>14, <1>15, <1>17, <1>18 DEF Covers
  <1>20. QED
    BY <1>6, <1>7, <1>10, <1>19

---------------------------------------------------------------------------
(* The theorems. *)

\* The invariant holds at the start and every step keeps it.
LEMMA CrlInvInit == CrlInit => CrlInv
  <1> SUFFICES ASSUME CrlInit PROVE CrlInv
    OBVIOUS
  <1>1. Len(bundle) = 0 /\ Len(log) = 0 /\ DOMAIN bundle = {}
    BY DEF CrlInit
  <1>2. CrlTypeOK
    BY EmptyDraft, EmptySeq, MaxVersionAssumption DEF CrlInit, CrlTypeOK
  <1>3. VersionsInOrder /\ OneInFlight /\ NamesRevoked /\ Covers
    BY <1>1 DEF CrlInit, VersionsInOrder, OneInFlight, NamesRevoked, Covers
  <1>4. QED
    BY <1>2, <1>3 DEF CrlInv

LEMMA CrlInvStep == CrlInv /\ [CrlNext]_crlVars => CrlInv'
  <1> SUFFICES ASSUME CrlInv, [CrlNext]_crlVars PROVE CrlInv'
    OBVIOUS
  <1>1. CrlTypeOK'
    BY TypeStep DEF CrlInv
  <1>2. CASE \E l \in Offline : IssueOffline(l) \/ RevokeOffline(l) \/ DeleteOffline(l)
    BY <1>1, <1>2, LicenseStep DEF CrlInv
  <1>3. ASSUME NEW g \in Generator, Generate(g)
        PROVE  CrlInv'
    <2>1. CASE SelectRevoked(g)
      BY <1>1, <2>1, SelectStep DEF CrlInv
    <2>2. CASE ReadLatest(g)
      BY <1>1, <2>2, ReadLatestStep DEF CrlInv
    <2>3. CASE FlushBundle(g)
      BY <1>1, <2>3, FlushStep DEF CrlInv
    <2>4. CASE CommitBundle(g)
      BY <1>1, <2>4, CommitStep DEF CrlInv
    <2>5. CASE AbortGenerate(g)
      BY <1>1, <2>5, ForgetStep DEF CrlInv, AbortGenerate
    <2>6. QED
      BY <1>3, <2>1, <2>2, <2>3, <2>4, <2>5 DEF Generate
  <1>4. CASE UNCHANGED crlVars
    <2>1. RevokedIds' = RevokedIds /\ \A k : Ledger!Snapshot(k)' = Ledger!Snapshot(k)
      BY <1>4 DEF RevokedIds, Ledger!Snapshot, crlVars, licVars
    <2>2. VersionsInOrder' /\ OneInFlight' /\ Covers'
      BY <1>4 DEF CrlInv, VersionsInOrder, OneInFlight, Covers, crlVars, genVars
    <2>3. NamesRevoked'
      BY <1>4, <2>1 DEF CrlInv, NamesRevoked, crlVars, licVars, genVars
    <2>4. QED
      BY <1>1, <2>2, <2>3 DEF CrlInv
  <1>5. QED
    BY <1>2, <1>3, <1>4 DEF CrlNext

LEMMA CrlInvariance == CrlSpec => []CrlInv
  <1>1. QED
    BY CrlInvInit, CrlInvStep, PTL DEF CrlSpec

\* Every variable stays in its type (crl.py, issuance.py, licenses.py).
THEOREM CrlTypes == CrlSpec => []CrlTypeOK
  <1>1. CrlInv => CrlTypeOK
    BY DEF CrlInv
  <1>2. QED
    BY <1>1, CrlInvariance, PTL

\* CrlService.generate commits the versions 1, 2, 3, ... in this order, however
\* many generations overlap, abort, or die between two of its statements.
THEOREM CrlVersionsInOrder == CrlSpec => []VersionsInOrder
  <1>1. CrlInv => VersionsInOrder
    BY DEF CrlInv
  <1>2. QED
    BY <1>1, CrlInvariance, PTL

\* A list begun after another was committed names everybody the other names,
\* whatever was revoked, deleted or generated in between.
THEOREM CrlListsGrow == CrlSpec => []ListsGrow
  <1>1. ASSUME CrlInv
        PROVE  ListsGrow
    <2>1. DOMAIN bundle = 1..Len(bundle)
      BY <1>1, VersionsAreCounted DEF CrlInv
    <2>2. ASSUME NEW i \in DOMAIN bundle, NEW j \in DOMAIN bundle,
                 bundle[j].since >= bundle[i].version
          PROVE  bundle[i].ids \subseteq bundle[j].ids
      <3>1. bundle[i].version = i
        BY <1>1, <2>2 DEF CrlInv, VersionsInOrder
      <3>2. bundle[j] \in Bundle
        BY <1>1, <2>1, ElementOfSeq DEF CrlInv, CrlTypeOK
      <3>3. i <= bundle[j].since
        BY <2>1, <2>2, <3>1, <3>2 DEF Bundle
      <3>4. QED
        BY <1>1, <2>1, <3>3 DEF CrlInv, Covers
    <2>3. QED
      BY <2>2 DEF ListsGrow
  <1>2. QED
    BY <1>1, CrlInvariance, PTL

\* Although generate stamps revocations that it read after the ones it lists, a
\* stamped revocation is missing from no list begun once its stamp was committed.
\* (From the stamped version's own list it can be missing: StampNamesItsList.)
THEOREM CrlListedAfterStamp == CrlSpec => []ListedAfterStamp
  <1>1. ASSUME CrlInv
        PROVE  ListedAfterStamp
    <2>1. DOMAIN bundle = 1..Len(bundle) /\ Len(bundle) \in Nat
      BY <1>1, VersionsAreCounted DEF CrlInv
    <2>2. ASSUME NEW l \in Offline, NEW j \in DOMAIN bundle,
                 stamp[l] # 0, bundle[j].since >= stamp[l]
          PROVE  l \in bundle[j].ids
      <3>1. bundle[j] \in Bundle
        BY <1>1, <2>1, ElementOfSeq DEF CrlInv, CrlTypeOK
      <3>2. stamp[l] \in Nat
        BY <1>1 DEF CrlInv, CrlTypeOK
      <3>3. stamp[l] <= bundle[j].since
        BY <2>2, <3>1, <3>2 DEF Bundle
      <3>4. QED
        BY <1>1, <2>1, <2>2, <3>3 DEF CrlInv, Covers
    <2>3. QED
      BY <2>2 DEF ListedAfterStamp
  <1>2. QED
    BY <1>1, CrlInvariance, PTL

---------------------------------------------------------------------------
(* Refinement: what the ledger promises, CrlPublication does. *)

\* The lists published, as the ledger sees them.
Lists == [i \in DOMAIN bundle |-> bundle[i].ids]

\* Committing a bundle publishes its list.
LEMMA CommitPublishes ==
    ASSUME bundle \in Seq(Bundle), NEW b \in Bundle, bundle' = Append(bundle, b)
    PROVE  Lists' = Append(Lists, b.ids)
  <1>1. Len(bundle) \in Nat /\ DOMAIN bundle = 1..Len(bundle)
        /\ \A i \in 1..Len(bundle) : bundle[i] \in Bundle
    BY LenProperties, ElementOfSeq
  <1>2. /\ DOMAIN bundle' = 1..(Len(bundle) + 1)
        /\ \A i \in 1..Len(bundle) : bundle'[i] = bundle[i]
        /\ bundle'[Len(bundle) + 1] = b
    BY Appended
  <1>3. Lists \in Seq(SUBSET Offline) /\ Len(Lists) = Len(bundle)
    BY <1>1 DEF Lists, Bundle
  <1>4. b.ids \in SUBSET Offline
    BY DEF Bundle
  <1>5. /\ Append(Lists, b.ids) \in Seq(SUBSET Offline)
        /\ Len(Append(Lists, b.ids)) = Len(bundle) + 1
        /\ \A i \in 1..Len(bundle) : Append(Lists, b.ids)[i] = bundle[i].ids
        /\ Append(Lists, b.ids)[Len(bundle) + 1] = b.ids
    BY <1>1, <1>3, <1>4, Appended DEF Lists
  <1>6. Lists' \in Seq(SUBSET Offline) /\ Len(Lists') = Len(bundle) + 1
    BY <1>1, <1>2 DEF Lists, Bundle
  <1>7. \A i \in 1..(Len(bundle) + 1) : Lists'[i] = Append(Lists, b.ids)[i]
    BY <1>1, <1>2, <1>5 DEF Lists
  <1>8. QED
    BY <1>5, <1>6, <1>7, SeqEqual

\* A generation that does not commit publishes nothing.
LEMMA NothingPublished ==
    ASSUME UNCHANGED <<licVars, bundle>>
    PROVE  UNCHANGED <<log, Lists>>
  <1>1. QED
    BY DEF Lists, licVars

LEMMA LedgerInit == CrlInit => Ledger!Init
  <1> SUFFICES ASSUME CrlInit PROVE Ledger!Init
    OBVIOUS
  <1>1. DOMAIN bundle = {}
    BY DEF CrlInit
  <1>2. Lists \in Seq(SUBSET Offline) /\ Len(Lists) = 0
    BY <1>1 DEF Lists
  <1>3. Lists = <<>>
    BY <1>2, EmptySeq
  <1>4. QED
    BY <1>3 DEF CrlInit, Ledger!Init, Lists

LEMMA LedgerStep ==
    CrlInv /\ [CrlNext]_crlVars => [Ledger!Next]_<<log, Lists>>
  <1> SUFFICES ASSUME CrlInv, [CrlNext]_crlVars
               PROVE  [Ledger!Next]_<<log, Lists>>
    OBVIOUS
  <1>1. log \in Seq(Offline) /\ bundle \in Seq(Bundle)
        /\ draft \in [Generator -> Bundle]
    BY DEF CrlInv, CrlTypeOK
  <1>2. Len(log) \in Nat
    BY <1>1, SnapshotIsRevoked
  <1>3. ASSUME NEW l \in Offline, IssueOffline(l) \/ DeleteOffline(l)
        PROVE  UNCHANGED <<log, Lists>>
    BY <1>3 DEF IssueOffline, DeleteOffline, Lists
  <1>4. ASSUME NEW l \in Offline, RevokeOffline(l)
        PROVE  Ledger!Revoke(l)
    <2>1. l \notin Ledger!Snapshot(Len(log))
      BY <1>2, <1>4 DEF RevokeOffline, Ledger!Snapshot, CrlInv, NamesRevoked
    <2>2. Lists' = Lists
      BY <1>4 DEF RevokeOffline, Lists
    <2>3. QED
      BY <1>4, <2>1, <2>2 DEF RevokeOffline, Ledger!Revoke, Lists
  <1>5. ASSUME NEW g \in Generator, CommitBundle(g)
        PROVE  \E n \in 0..Len(log) : Ledger!Publish(n)
    <2>1. PICK n \in 0..Len(log) : draft[g].ids = Ledger!Snapshot(n)
      BY <1>5 DEF CrlInv, NamesRevoked, CommitBundle
    <2>2. Lists' = Append(Lists, draft[g].ids)
      BY <1>1, <1>5, CommitPublishes DEF CommitBundle
    <2>3. log' = log
      BY <1>5 DEF CommitBundle, licVars
    <2>4. Ledger!Publish(n)
      BY <2>1, <2>2, <2>3 DEF Ledger!Publish, Lists
    <2>5. QED
      BY <2>4
  <1>6. ASSUME NEW g \in Generator,
               SelectRevoked(g) \/ ReadLatest(g) \/ FlushBundle(g) \/ AbortGenerate(g)
        PROVE  UNCHANGED <<log, Lists>>
    <2>1. UNCHANGED <<licVars, bundle>>
      BY <1>6 DEF SelectRevoked, ReadLatest, FlushBundle, AbortGenerate
    <2>2. QED
      BY <2>1, NothingPublished
  <1>7. CASE UNCHANGED crlVars
    BY <1>7, NothingPublished DEF crlVars
  <1>8. QED
    BY <1>3, <1>4, <1>5, <1>6, <1>7 DEF CrlNext, Generate, Ledger!Next

\* CrlPublication implements RevocationLedger: every list that is published is
\* what the log of revocations held at one moment, and the log only grows.
THEOREM CrlImplementsLedger == CrlSpec => LedgerSpec
  <1>1. CrlInv /\ [CrlNext]_crlVars
           => [Ledger!Next]_<<log, [i \in DOMAIN bundle |-> bundle[i].ids]>>
    BY LedgerStep DEF Lists
  <1>2. QED
    BY <1>1, LedgerInit, CrlInvariance, PTL DEF CrlSpec, LedgerSpec, Ledger!Spec

=============================================================================
