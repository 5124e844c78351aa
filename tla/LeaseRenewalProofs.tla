------------------------- MODULE LeaseRenewalProofs -------------------------
(***************************************************************************)
(* Theorems about LeaseRenewal, for every TTL, grace, window and life of a  *)
(* request, every number of tokens and of requests under way, and every     *)
(* bound of the clock and of the administrator.                             *)
(***************************************************************************)
EXTENDS LeaseRenewal, TLAPS

---------------------------------------------------------------------------
(* The inductive invariant. *)

Code == DefinitiveLockCodes \cup {OtherError, "ok"}

\* Every variable stays in its type; the fingerprints and install_ids of bindings
\* are only compared, and need none.
LeaseTypeOK ==
    /\ now \in Nat
    /\ license \in {"valid", "revoked", "deleted"}
    /\ endedAt \in Nat \cup {None}
    /\ heartbeat \in Nat
    /\ orphans \subseteq Token
    /\ leaseRows \subseteq Token /\ cached \subseteq Token
    /\ mintedAt \in [Token -> Nat \cup {None}]
    /\ lost \in BOOLEAN
    /\ stage \in [Request -> Stage]
    /\ kind \in [Request -> {"activate", "validate"}]
    /\ token \in [Request -> Token \cup {None}]
    /\ ident \in [Request -> Identity \cup {None}]
    /\ since \in [Request -> Nat]
    /\ barred \in [Request -> BOOLEAN]
    /\ answer \in [Request -> Code]
    /\ granted \in [Request -> Token \cup {None}]
    /\ held \in Token \cup {None}
    /\ waiting \in Request \cup {None}
    /\ verdict \in Verdict
    /\ client \in Identity
    /\ crossed \in BOOLEAN

\* What is granted, held or presented was minted, and so were the orphans; only an
\* answer grants; a license ends at a time.
TokensMinted ==
    /\ held # None => held \in Minted
    /\ \A r \in Request : answer[r] = "ok" =>
          stage[r] = "answered" /\ granted[r] \in Minted
    /\ \A r \in Request : stage[r] # "free" /\ kind[r] = "validate" => token[r] \in Minted
    /\ orphans \subseteq Minted
    /\ endedAt = None <=> license = "valid"

\* What bars a request from its arrival stays, and keeps it from the window check.
BarredStays ==
    \A r \in Request : barred[r] =>
        /\ license # "valid" \/ TermOver \/ (kind[r] = "validate" /\ token[r] \in orphans)
        /\ stage[r] \notin {"windowed", "cleared"}
        /\ stage[r] = "looked" => license # "valid" \/ TermOver
        /\ answer[r] # "ok"

\* A request that is not barred arrived before the end, and none outlives Serve;
\* so no lease is minted more than Serve after the end.
MintedInTime ==
    /\ \A r \in Request : stage[r] # "free" =>
          /\ since[r] <= now /\ now <= since[r] + Serve
          /\ ~barred[r] =>
                /\ endedAt # None => since[r] <= endedAt
                /\ EndOfTerm # None => since[r] < EndOfTerm
    /\ endedAt # None => endedAt <= now
    /\ \A t \in Minted :
          /\ mintedAt[t] <= now
          /\ endedAt # None => mintedAt[t] <= endedAt + Serve
          /\ EndOfTerm # None => mintedAt[t] < EndOfTerm + Serve

\* Redis has every lease that was minted and is not over, unless it lost some.
CachedWhileGraced ==
    ~lost => \A t \in Minted : now < GraceUntil(t) => t \in cached

\* A token the product holds or is about to receive.
Ours(t) ==
    t = held \/ \E r \in Request : waiting = r /\ answer[r] = "ok" /\ granted[r] = t

\* Its binding goes by the identity the product has; or it was reaped, out of the
\* window, with a fingerprint that nobody can activate again; or it is deleted.
Serves(t) ==
    \/ t \notin orphans /\ bound = client.fp /\ ~InstallsClash(client)
    \/ t \in orphans /\ client.fp \in dead /\ heartbeat + Window < now
    \/ license = "deleted"

\* The product waits for the renewal of the token it holds.  Unless an activation of
\* another identity was under way when it started, all that can still commit are its
\* own, and the binding of its token is its own.
OwnBinding ==
    /\ \A r \in Request :
          waiting = r /\ kind[r] = "validate" /\ stage[r] # "free" => token[r] = held
    /\ ~crossed => ~OtherActivating(client)
    /\ ~crossed => \A t \in Token : Ours(t) => Serves(t)

LeaseInv ==
    /\ LeaseTypeOK
    /\ TokensMinted
    /\ BarredStays
    /\ MintedInTime
    /\ CachedWhileGraced
    /\ OwnBinding

---------------------------------------------------------------------------
(* Types. *)

\* What an answer, a step forward and the end of a request do to its types.
LEMMA RequestTypes ==
    ASSUME LeaseTypeOK, NEW r \in Request
    PROVE  /\ \A c \in Code, t \in Token \cup {None} : Respond(r, c, t) =>
                 /\ stage' \in [Request -> Stage]
                 /\ kind' \in [Request -> {"activate", "validate"}]
                 /\ token' \in [Request -> Token \cup {None}]
                 /\ ident' \in [Request -> Identity \cup {None}]
                 /\ since' \in [Request -> Nat]
                 /\ barred' \in [Request -> BOOLEAN]
                 /\ answer' \in [Request -> Code]
                 /\ granted' \in [Request -> Token \cup {None}]
           /\ \A s \in Stage : Advance(r, s) =>
                 /\ stage' \in [Request -> Stage]
                 /\ UNCHANGED <<kind, token, ident, since, barred, answer, granted>>
           /\ Release(r) =>
                 /\ stage' \in [Request -> Stage]
                 /\ kind' \in [Request -> {"activate", "validate"}]
                 /\ token' \in [Request -> Token \cup {None}]
                 /\ ident' \in [Request -> Identity \cup {None}]
                 /\ since' \in [Request -> Nat]
                 /\ barred' \in [Request -> BOOLEAN]
                 /\ answer' \in [Request -> Code]
                 /\ granted' \in [Request -> Token \cup {None}]
  <1>1. ASSUME NEW c \in Code, NEW t \in Token \cup {None}, Respond(r, c, t)
        PROVE  /\ stage' \in [Request -> Stage]
               /\ answer' \in [Request -> Code]
               /\ granted' \in [Request -> Token \cup {None}]
               /\ UNCHANGED <<kind, token, ident, since, barred>>
    BY <1>1 DEF LeaseTypeOK, Respond, Stage
  <1>2. ASSUME NEW s \in Stage, Advance(r, s)
        PROVE  /\ stage' \in [Request -> Stage]
               /\ UNCHANGED <<kind, token, ident, since, barred, answer, granted>>
    BY <1>2 DEF LeaseTypeOK, Advance
  <1>3. ASSUME Release(r)
        PROVE  /\ stage' \in [Request -> Stage]
               /\ kind' \in [Request -> {"activate", "validate"}]
               /\ token' \in [Request -> Token \cup {None}]
               /\ ident' \in [Request -> Identity \cup {None}]
               /\ since' \in [Request -> Nat]
               /\ barred' \in [Request -> BOOLEAN]
               /\ answer' \in [Request -> Code]
               /\ granted' \in [Request -> Token \cup {None}]
    BY <1>3 DEF LeaseTypeOK, Release, Stage, Code
  <1>4. QED
    BY <1>1, <1>2, <1>3 DEF LeaseTypeOK

\* The codes the handlers answer with.
LEMMA Codes ==
    /\ WindowError \in Code
    /\ {"LICENSE_LEASE_EXPIRED", "LICENSE_BINDING_MISMATCH", "RESOURCE_NOT_FOUND",
        "LICENSE_REVOKED", "ok", OtherError} \subseteq Code
    /\ OtherError # "ok" /\ "ok" \notin DefinitiveLockCodes
  <1>1. QED
    BY DEF WindowError, Code, DefinitiveLockCodes, OtherError

\* The refusal of an activation with the install_id of another installation.
Refuses(r) ==
    /\ stage[r] = "cleared"
    /\ Respond(r, "LICENSE_BINDING_MISMATCH", None)
    /\ UNCHANGED serverUnchanged

\* Steps of the edge on behalf of a request that is given no lease.
PlainServerStep(r) ==
    LookUpLease(r) \/ LoadLicense(r) \/ CheckRevoked(r) \/ ServerFails(r) \/ Refuses(r)

\* They end the request without a lease or bring it one stage further.
LEMMA PlainServerStepCases ==
    ASSUME LeaseTypeOK, NEW r \in Request, PlainServerStep(r)
    PROVE  /\ UNCHANGED serverUnchanged
           /\ \/ \E c \in Code \ {"ok"} : Respond(r, c, None)
              \/ /\ stage[r] = "sent" /\ kind[r] = "validate"
                 /\ token[r] \notin orphans
                 /\ Advance(r, "looked")
              \/ /\ \/ stage[r] = "sent" /\ kind[r] = "activate"
                    \/ stage[r] = "looked"
                 /\ license = "valid" /\ ~TermOver
                 /\ Advance(r, "windowed")
              \/ /\ stage[r] = "windowed"
                 /\ Advance(r, "cleared")
  <1>1. CASE LookUpLease(r)
    BY <1>1, Codes DEF LookUpLease, BindingServes
  <1>2. CASE LoadLicense(r)
    <2>1. WindowError = "ok" /\ license # "deleted" => license = "valid" /\ ~TermOver
      BY DEF WindowError, LeaseTypeOK
    <2>2. QED
      BY <1>2, <2>1, Codes DEF LoadLicense
  <1>3. CASE CheckRevoked(r)
    BY <1>3, Codes DEF CheckRevoked
  <1>4. CASE ServerFails(r) \/ Refuses(r)
    BY <1>4, Codes DEF ServerFails, Refuses
  <1>5. QED
    BY <1>1, <1>2, <1>3, <1>4 DEF PlainServerStep

LEMMA PlainServerTypes ==
    ASSUME LeaseTypeOK, NEW r \in Request, PlainServerStep(r)
    PROVE  LeaseTypeOK'
  <1>1. UNCHANGED serverUnchanged
    BY PlainServerStepCases
  <1>2. CASE \E c \in Code \ {"ok"} : Respond(r, c, None)
    BY <1>1, <1>2, RequestTypes
       DEF LeaseTypeOK, serverUnchanged, adminVars, bindVars, leaseVars, sdkVars
  <1>3. CASE \E s \in Stage : Advance(r, s)
    BY <1>1, <1>3, RequestTypes
       DEF LeaseTypeOK, serverUnchanged, adminVars, bindVars, leaseVars, sdkVars
  <1>4. QED
    BY <1>2, <1>3, PlainServerStepCases DEF Stage

\* The minting of a lease, for an activation or a renewal.
MintStep(r) ==
    \E t \in Token \ Minted :
        /\ stage[r] = "cleared"
        /\ Respond(r, "ok", t)
        /\ mintedAt' = [mintedAt EXCEPT ![t] = now]
        /\ cached' = cached \cup {t}
        /\ leaseRows' = leaseRows \/ leaseRows' = leaseRows \cup {t}
        /\ \/ /\ kind[r] = "validate"
              /\ orphans' = IF token[r] \in orphans THEN orphans \cup {t} ELSE orphans
              /\ UNCHANGED <<bound, install, heartbeat, dead>>
           \/ /\ kind[r] = "activate"
              /\ license # "deleted" /\ ident[r].fp \notin dead
              /\ ~InstallsClash(ident[r])
              /\ bound' = ident[r].fp
              /\ install' = IF install # None THEN install ELSE ident[r].install
              /\ heartbeat' = now
              /\ UNCHANGED <<dead, orphans>>
        /\ UNCHANGED <<now, adminVars, lost, sdkVars>>

LEMMA MintSteps ==
    ASSUME NEW r \in Request, ActivateCommit(r) \/ ValidateMint(r)
    PROVE  MintStep(r) \/ Refuses(r) \/ ServerFails(r)
  <1>1. CASE ActivateCommit(r)
    <2>1. \/ Respond(r, "LICENSE_BINDING_MISMATCH", None) /\ UNCHANGED <<bindVars, leaseVars>>
          \/ Respond(r, OtherError, None) /\ UNCHANGED <<bindVars, leaseVars>>
          \/ MintStep(r)
      BY <1>1 DEF ActivateCommit, MintStep, CachedAfterMint, NewFingerprint
    <2>2. QED
      BY <1>1, <2>1 DEF ActivateCommit, ServerFails, Refuses, serverUnchanged
  <1>2. CASE ValidateMint(r)
    BY <1>2 DEF ValidateMint, MintStep, CachedAfterMint
  <1>3. QED
    BY <1>1, <1>2

LEMMA MintTypes ==
    ASSUME LeaseTypeOK, NEW r \in Request, MintStep(r)
    PROVE  LeaseTypeOK'
  <1>1. PICK t \in Token \ Minted :
           /\ Respond(r, "ok", t)
           /\ mintedAt' = [mintedAt EXCEPT ![t] = now]
           /\ cached' = cached \cup {t}
           /\ leaseRows' = leaseRows \/ leaseRows' = leaseRows \cup {t}
           /\ heartbeat' = heartbeat \/ heartbeat' = now
           /\ orphans' = orphans \/ orphans' = orphans \cup {t}
           /\ UNCHANGED <<now, adminVars, lost, sdkVars>>
    BY DEF MintStep
  <1>2. mintedAt' \in [Token -> Nat \cup {None}]
    BY <1>1 DEF LeaseTypeOK
  <1>3. QED
    BY <1>1, <1>2, RequestTypes, Codes DEF LeaseTypeOK, adminVars, sdkVars

\* The end of a call or of a request.
EndStep(r) ==
    /\ Release(r) \/ UNCHANGED reqVars
    /\ \/ held' = held
       \/ waiting = r /\ answer[r] = "ok" /\ held' = granted[r]
    /\ waiting' = None \/ (waiting # r /\ waiting' = waiting /\ held' = held)
    /\ verdict' \in Verdict
    /\ UNCHANGED <<now, adminVars, bindVars, leaseVars, client, crossed>>

LEMMA EndSteps ==
    ASSUME LeaseTypeOK, NEW r \in Request,
           Receive(r) \/ NetworkFails(r) \/ CallRaises(r) \/ Discard(r)
    PROVE  EndStep(r)
  <1>1. GraceOrLock \in Verdict
    BY DEF GraceOrLock, Verdict
  <1>2. CASE Receive(r)
    BY <1>1, <1>2 DEF Receive, EndStep, Conclude, Verdict
  <1>3. CASE NetworkFails(r)
    BY <1>1, <1>3 DEF NetworkFails, EndStep, Conclude, Verdict
  <1>4. CASE CallRaises(r)
    BY <1>4 DEF CallRaises, EndStep, Conclude, Verdict
  <1>5. CASE Discard(r)
    BY <1>5 DEF Discard, EndStep, serverUnchanged, sdkVars, LeaseTypeOK
  <1>6. QED
    BY <1>2, <1>3, <1>4, <1>5

LEMMA EndTypes ==
    ASSUME LeaseTypeOK, NEW r \in Request, EndStep(r)
    PROVE  LeaseTypeOK'
  <1>1. /\ held' \in Token \cup {None}
        /\ waiting' \in Request \cup {None}
        /\ verdict' \in Verdict
        /\ UNCHANGED <<now, license, endedAt, heartbeat, orphans, leaseRows, cached,
                       mintedAt, lost, client, crossed>>
    BY DEF LeaseTypeOK, EndStep, adminVars, bindVars, leaseVars
  <1>2. CASE Release(r)
    BY <1>1, <1>2, RequestTypes DEF LeaseTypeOK
  <1>3. CASE UNCHANGED reqVars
    BY <1>1, <1>3 DEF LeaseTypeOK, reqVars
  <1>4. QED
    BY <1>2, <1>3 DEF EndStep

LEMMA SendTypes ==
    ASSUME LeaseTypeOK, NEW r \in Request, Activate(r) \/ Revalidate(r)
    PROVE  LeaseTypeOK'
  <1>1. PICK k \in {"activate", "validate"}, t \in Token \cup {None} : Send(r, k, t)
    BY DEF Activate, Revalidate, LeaseTypeOK
  <1>2. Unservable(t) \in BOOLEAN
    BY DEF Unservable
  <1>3. barred' \in [Request -> BOOLEAN]
    BY <1>1, <1>2 DEF Send, LeaseTypeOK
  <1>4. QED
    BY <1>1, <1>3 DEF LeaseTypeOK, Send, Stage, adminVars, bindVars, leaseVars

\* The steps of the others.
EnvironmentStep == Reap \/ Revoke \/ DeleteLicense \/ RedisLoses \/ Tick

LEMMA EnvironmentTypes ==
    ASSUME LeaseTypeOK, EnvironmentStep
    PROVE  LeaseTypeOK'
  <1>1. CASE Reap
    BY <1>1 DEF Reap, LeaseTypeOK, Minted, adminVars, leaseVars, reqVars, sdkVars
  <1>2. CASE Revoke
    BY <1>2 DEF Revoke, LeaseTypeOK, bindVars, leaseVars, reqVars, sdkVars
  <1>3. CASE DeleteLicense
    BY <1>3 DEF DeleteLicense, LeaseTypeOK, Minted, reqVars, sdkVars
  <1>4. CASE RedisLoses
    BY <1>4 DEF RedisLoses, LeaseTypeOK, adminVars, bindVars, reqVars, sdkVars
  <1>5. CASE Tick
    BY <1>5 DEF Tick, LeaseTypeOK, adminVars, bindVars, reqVars, sdkVars
  <1>6. QED
    BY <1>1, <1>2, <1>3, <1>4, <1>5 DEF EnvironmentStep

\* Every step is one of these.
LEMMA StepKinds ==
    ASSUME LeaseTypeOK, Next
    PROVE  \/ \E r \in Request : \/ PlainServerStep(r) \/ MintStep(r)
                                 \/ Activate(r) \/ Revalidate(r) \/ EndStep(r)
           \/ ProductRestarts
           \/ EnvironmentStep
  <1>1. ASSUME NEW r \in Request,
               \/ ServerStep(r) \/ ServerFails(r)
               \/ Activate(r) \/ Revalidate(r)
               \/ Receive(r) \/ NetworkFails(r) \/ CallRaises(r) \/ Discard(r)
        PROVE  \/ PlainServerStep(r) \/ MintStep(r)
               \/ Activate(r) \/ Revalidate(r) \/ EndStep(r)
    BY <1>1, MintSteps, EndSteps DEF ServerStep, PlainServerStep
  <1>2. QED
    BY <1>1 DEF Next, EnvironmentStep

LEMMA RestartTypes ==
    ASSUME LeaseTypeOK, ProductRestarts
    PROVE  LeaseTypeOK'
  <1>1. crossed' \in BOOLEAN /\ client' \in Identity
    BY DEF ProductRestarts, OtherActivating
  <1>2. QED
    BY <1>1
       DEF ProductRestarts, LeaseTypeOK, Verdict, adminVars, bindVars, leaseVars, reqVars

---------------------------------------------------------------------------
(* Steps of the edge. *)

\* What an answer and a step forward do, request by request.
LEMMA RequestEffects ==
    ASSUME LeaseTypeOK, NEW r \in Request
    PROVE  /\ \A c \in Code, t \in Token \cup {None} : Respond(r, c, t) =>
                 /\ stage'[r] = "answered" /\ answer'[r] = c /\ granted'[r] = t
                 /\ \A q \in Request \ {r} : /\ stage'[q] = stage[q]
                                            /\ answer'[q] = answer[q]
                                            /\ granted'[q] = granted[q]
                 /\ UNCHANGED <<kind, token, ident, since, barred>>
           /\ \A s \in Stage : Advance(r, s) =>
                 /\ stage'[r] = s
                 /\ \A q \in Request \ {r} : stage'[q] = stage[q]
                 /\ UNCHANGED <<kind, token, ident, since, barred, answer, granted>>
           /\ Release(r) =>
                 /\ stage'[r] = "free" /\ barred'[r] = FALSE /\ answer'[r] = OtherError
                 /\ \A q \in Request \ {r} : /\ stage'[q] = stage[q]
                                            /\ answer'[q] = answer[q]
                                            /\ granted'[q] = granted[q]
                                            /\ kind'[q] = kind[q]
                                            /\ token'[q] = token[q]
                                            /\ since'[q] = since[q]
                                            /\ barred'[q] = barred[q]
  <1>1. ASSUME NEW c \in Code, NEW t \in Token \cup {None}, Respond(r, c, t)
        PROVE  /\ stage'[r] = "answered" /\ answer'[r] = c /\ granted'[r] = t
               /\ \A q \in Request \ {r} : /\ stage'[q] = stage[q]
                                          /\ answer'[q] = answer[q]
                                          /\ granted'[q] = granted[q]
               /\ UNCHANGED <<kind, token, ident, since, barred>>
    BY <1>1 DEF Respond, LeaseTypeOK
  <1>2. ASSUME NEW s \in Stage, Advance(r, s)
        PROVE  /\ stage'[r] = s
               /\ \A q \in Request \ {r} : stage'[q] = stage[q]
               /\ UNCHANGED <<kind, token, ident, since, barred, answer, granted>>
    BY <1>2 DEF Advance, LeaseTypeOK
  <1>3. ASSUME Release(r)
        PROVE  /\ stage'[r] = "free" /\ barred'[r] = FALSE /\ answer'[r] = OtherError
               /\ \A q \in Request \ {r} : /\ stage'[q] = stage[q]
                                          /\ answer'[q] = answer[q]
                                          /\ granted'[q] = granted[q]
                                          /\ kind'[q] = kind[q]
                                          /\ token'[q] = token[q]
                                          /\ since'[q] = since[q]
                                          /\ barred'[q] = barred[q]
    BY <1>3 DEF Release, LeaseTypeOK
  <1>4. QED
    BY <1>1, <1>2, <1>3

LEMMA PlainServerInv ==
    ASSUME LeaseInv, NEW r \in Request, PlainServerStep(r)
    PROVE  TokensMinted' /\ BarredStays' /\ MintedInTime' /\ CachedWhileGraced'
  <1>1. LeaseTypeOK
    BY DEF LeaseInv
  <1>2. UNCHANGED <<now, license, endedAt, orphans, cached, mintedAt, lost, held>>
    BY <1>1, PlainServerStepCases
       DEF serverUnchanged, adminVars, bindVars, leaseVars, sdkVars
  <1>3. Minted' = Minted /\ TermOver' = TermOver
    BY <1>2 DEF Minted, TermOver
  <1>4. CachedWhileGraced'
    BY <1>2, <1>3 DEF LeaseInv, CachedWhileGraced, GraceUntil
  <1>5. stage[r] # "free"
    BY DEF PlainServerStep, LookUpLease, LoadLicense, CheckRevoked, ServerFails, Refuses
  <1>6. CASE \E c \in Code \ {"ok"} : Respond(r, c, None)
    <2>1. /\ stage'[r] = "answered" /\ answer'[r] # "ok"
          /\ \A q \in Request \ {r} : /\ stage'[q] = stage[q]
                                     /\ answer'[q] = answer[q]
                                     /\ granted'[q] = granted[q]
          /\ UNCHANGED <<kind, token, ident, since, barred>>
      BY <1>1, <1>6, RequestEffects
    <2>2. TokensMinted'
      BY <1>2, <1>3, <1>5, <2>1 DEF LeaseInv, TokensMinted
    <2>3. BarredStays'
      BY <1>2, <1>3, <2>1 DEF LeaseInv, BarredStays
    <2>4. MintedInTime'
      BY <1>2, <1>3, <1>5, <2>1 DEF LeaseInv, MintedInTime
    <2>5. QED
      BY <1>4, <2>2, <2>3, <2>4
  <1>7. CASE \E s \in {"looked", "windowed", "cleared"} : Advance(r, s)
    <2>1. PICK s \in {"looked", "windowed", "cleared"} : Advance(r, s)
      BY <1>7
    <2>2. /\ stage'[r] = s
          /\ \A q \in Request \ {r} : stage'[q] = stage[q]
          /\ UNCHANGED <<kind, token, ident, since, barred, answer, granted>>
      BY <1>1, <2>1, RequestEffects DEF Stage
    <2>3. stage[r] \in {"sent", "looked", "windowed"}
      <3>1. \A c \in Code \ {"ok"} : ~Respond(r, c, None)
        BY <1>1, <2>2, RequestEffects
      <3>2. QED
        BY <1>1, <3>1, PlainServerStepCases
    <2>4. TokensMinted'
      <3>1. answer'[r] # "ok"
        BY <2>2, <2>3 DEF LeaseInv, TokensMinted
      <3>2. QED
        BY <1>2, <1>3, <1>5, <2>2, <3>1 DEF LeaseInv, TokensMinted
    <2>5. BarredStays'
      <3>1. ASSUME barred[r]
            PROVE  /\ s = "looked"
                   /\ license # "valid" \/ TermOver
        <4>1. \A c \in Code \ {"ok"} : ~Respond(r, c, None)
          BY <1>1, <2>2, RequestEffects
        <4>2. CASE /\ stage[r] = "sent" /\ kind[r] = "validate"
                   /\ token[r] \notin orphans
                   /\ Advance(r, "looked")
          <5>1. s = "looked"
            BY <1>1, <2>2, <4>2, RequestEffects DEF Stage
          <5>2. QED
            BY <3>1, <4>2, <5>1 DEF LeaseInv, BarredStays
        <4>3. CASE /\ \/ stage[r] = "sent" /\ kind[r] = "activate"
                      \/ stage[r] = "looked"
                   /\ license = "valid" /\ ~TermOver
          BY <3>1, <4>3 DEF LeaseInv, BarredStays
        <4>4. CASE stage[r] = "windowed"
          BY <3>1, <4>4 DEF LeaseInv, BarredStays
        <4>5. QED
          BY <1>1, <4>1, <4>2, <4>3, <4>4, PlainServerStepCases
      <3>2. QED
        BY <1>2, <1>3, <2>2, <3>1 DEF LeaseInv, BarredStays
    <2>6. MintedInTime'
      BY <1>2, <1>3, <1>5, <2>2 DEF LeaseInv, MintedInTime
    <2>7. QED
      BY <1>4, <2>4, <2>5, <2>6
  <1>8. QED
    BY <1>1, <1>6, <1>7, PlainServerStepCases

LEMMA MintInv ==
    ASSUME LeaseInv, NEW r \in Request, MintStep(r)
    PROVE  TokensMinted' /\ BarredStays' /\ MintedInTime' /\ CachedWhileGraced'
  <1> USE TokenAssumption
  <1>1. LeaseTypeOK
    BY DEF LeaseInv
  <1>2. PICK t \in Token \ Minted :
           /\ stage[r] = "cleared"
           /\ Respond(r, "ok", t)
           /\ mintedAt' = [mintedAt EXCEPT ![t] = now]
           /\ cached' = cached \cup {t}
           /\ orphans' = orphans \/ orphans' = orphans \cup {t}
           /\ UNCHANGED <<now, license, endedAt, lost, held>>
    BY DEF MintStep, adminVars, sdkVars
  <1>3. /\ stage'[r] = "answered" /\ answer'[r] = "ok" /\ granted'[r] = t
        /\ \A q \in Request \ {r} : /\ stage'[q] = stage[q]
                                   /\ answer'[q] = answer[q]
                                   /\ granted'[q] = granted[q]
        /\ UNCHANGED <<kind, token, ident, since, barred>>
    BY <1>1, <1>2, RequestEffects, Codes
  <1>4. /\ mintedAt'[t] = now /\ now # None
        /\ \A u \in Token \ {t} : mintedAt'[u] = mintedAt[u]
    BY <1>1, <1>2 DEF LeaseTypeOK
  <1>5. Minted' = Minted \cup {t} /\ TermOver' = TermOver
    BY <1>2, <1>4 DEF Minted, TermOver
  <1>6. ~barred[r]
    BY <1>2 DEF LeaseInv, BarredStays
  <1>8. TokensMinted'
    BY <1>2, <1>3, <1>5 DEF LeaseInv, TokensMinted
  <1>9. BarredStays'
    BY <1>2, <1>3, <1>5, <1>6 DEF LeaseInv, BarredStays
  <1>10. MintedInTime'
    <2>1. /\ now \in Nat /\ since[r] \in Nat /\ now <= since[r] + Serve
          /\ endedAt # None => endedAt \in Nat /\ since[r] <= endedAt
          /\ EndOfTerm # None => EndOfTerm \in Nat /\ since[r] < EndOfTerm
      BY <1>1, <1>2, <1>6, EndOfTermAssumption DEF LeaseTypeOK, LeaseInv, MintedInTime
    <2>2. /\ endedAt # None => now <= endedAt + Serve
          /\ EndOfTerm # None => now < EndOfTerm + Serve
      BY <2>1, DurationsAssumption
    <2>3. \A u \in Minted' :
             /\ mintedAt'[u] <= now
             /\ endedAt # None => mintedAt'[u] <= endedAt + Serve
             /\ EndOfTerm # None => mintedAt'[u] < EndOfTerm + Serve
      BY <1>4, <1>5, <2>1, <2>2 DEF LeaseInv, MintedInTime, Minted
    <2>4. \A q \in Request : stage'[q] # "free" => stage[q] # "free"
      BY <1>2, <1>3
    <2>5. QED
      BY <1>2, <1>3, <2>3, <2>4 DEF LeaseInv, MintedInTime
  <1>11. CachedWhileGraced'
    BY <1>2, <1>4, <1>5 DEF LeaseInv, CachedWhileGraced, GraceUntil
  <1>12. QED
    BY <1>8, <1>9, <1>10, <1>11

---------------------------------------------------------------------------
(* Steps of the client. *)

\* A request is barred from its arrival or arrives before the end.
LEMMA SendInv ==
    ASSUME LeaseInv, NEW r \in Request, Activate(r) \/ Revalidate(r)
    PROVE  TokensMinted' /\ BarredStays' /\ MintedInTime' /\ CachedWhileGraced'
  <1> USE TokenAssumption
  <1>1. LeaseTypeOK
    BY DEF LeaseInv
  <1>2. PICK k \in {"activate", "validate"}, t \in Token \cup {None} :
           /\ Send(r, k, t)
           /\ IF k = "validate" THEN t # None /\ t = held ELSE t = None
    BY DEF Activate, Revalidate, LeaseInv, LeaseTypeOK
  <1>3. /\ stage[r] = "free" /\ stage'[r] = "sent" /\ kind'[r] = k /\ token'[r] = t
        /\ since'[r] = now /\ barred'[r] = Unservable(t)
        /\ \A q \in Request \ {r} : /\ stage'[q] = stage[q]
                                   /\ kind'[q] = kind[q]
                                   /\ token'[q] = token[q]
                                   /\ since'[q] = since[q]
                                   /\ barred'[q] = barred[q]
        /\ UNCHANGED <<now, license, endedAt, orphans, cached, mintedAt, lost, answer,
                       granted, held>>
    BY <1>1, <1>2 DEF Send, LeaseTypeOK, adminVars, bindVars, leaseVars
  <1>4. Minted' = Minted /\ TermOver' = TermOver
    BY <1>3 DEF Minted, TermOver
  <1>5. answer[r] # "ok"
    BY <1>3 DEF LeaseInv, TokensMinted
  <1>6. TokensMinted'
    BY <1>2, <1>3, <1>4, <1>5 DEF LeaseInv, TokensMinted
  <1>7. ASSUME barred'[r]
        PROVE  license # "valid" \/ TermOver \/ (k = "validate" /\ t \in orphans)
    BY <1>1, <1>2, <1>3, <1>7 DEF Unservable, LeaseTypeOK
  <1>8. BarredStays'
    BY <1>3, <1>4, <1>5, <1>7 DEF LeaseInv, BarredStays
  <1>9. /\ now \in Nat
        /\ ~barred'[r] => endedAt = None /\ (EndOfTerm # None => now < EndOfTerm)
    <2>1. ~barred'[r] => license = "valid" /\ ~TermOver
      BY <1>3 DEF Unservable
    <2>2. license = "valid" => endedAt = None
      BY DEF LeaseInv, TokensMinted
    <2>3. now \in Nat
      BY <1>1 DEF LeaseTypeOK
    <2>4. ~TermOver => (EndOfTerm # None => now < EndOfTerm)
      BY <2>3, EndOfTermAssumption DEF TermOver
    <2>5. QED
      BY <2>1, <2>2, <2>3, <2>4
  <1>10. MintedInTime'
    <2>1. now <= now + Serve
      BY <1>9, DurationsAssumption
    <2>2. \A q \in Request : stage'[q] # "free" =>
             /\ since'[q] <= now /\ now <= since'[q] + Serve
             /\ ~barred'[q] =>
                   /\ endedAt # None => since'[q] <= endedAt
                   /\ EndOfTerm # None => since'[q] < EndOfTerm
      BY <1>3, <1>9, <2>1 DEF LeaseInv, MintedInTime
    <2>3. QED
      BY <1>3, <1>4, <2>2 DEF LeaseInv, MintedInTime
  <1>11. CachedWhileGraced'
    BY <1>3, <1>4 DEF LeaseInv, CachedWhileGraced, GraceUntil
  <1>12. QED
    BY <1>6, <1>8, <1>10, <1>11

LEMMA EndInv ==
    ASSUME LeaseInv, NEW r \in Request, EndStep(r)
    PROVE  TokensMinted' /\ BarredStays' /\ MintedInTime' /\ CachedWhileGraced'
  <1>1. LeaseTypeOK
    BY DEF LeaseInv
  <1>2. /\ held' = held \/ (answer[r] = "ok" /\ held' = granted[r])
        /\ UNCHANGED <<now, license, endedAt, orphans, cached, mintedAt, lost>>
    BY DEF EndStep, adminVars, bindVars, leaseVars
  <1>3. Minted' = Minted /\ TermOver' = TermOver
    BY <1>2 DEF Minted, TermOver
  <1>4. held' # None => held' \in Minted
    BY <1>2 DEF LeaseInv, TokensMinted
  <1>5. CachedWhileGraced'
    BY <1>2, <1>3 DEF LeaseInv, CachedWhileGraced, GraceUntil
  <1>6. CASE Release(r)
    <2>1. /\ stage'[r] = "free" /\ barred'[r] = FALSE /\ answer'[r] # "ok"
          /\ \A q \in Request \ {r} : /\ stage'[q] = stage[q]
                                     /\ answer'[q] = answer[q]
                                     /\ granted'[q] = granted[q]
                                     /\ kind'[q] = kind[q]
                                     /\ token'[q] = token[q]
                                     /\ since'[q] = since[q]
                                     /\ barred'[q] = barred[q]
      BY <1>1, <1>6, RequestEffects, Codes
    <2>2. TokensMinted'
      BY <1>2, <1>3, <1>4, <2>1 DEF LeaseInv, TokensMinted
    <2>3. BarredStays'
      BY <1>2, <1>3, <2>1 DEF LeaseInv, BarredStays
    <2>4. MintedInTime'
      BY <1>2, <1>3, <2>1 DEF LeaseInv, MintedInTime
    <2>5. QED
      BY <1>5, <2>2, <2>3, <2>4
  <1>7. CASE UNCHANGED reqVars
    <2>1. TokensMinted'
      BY <1>2, <1>3, <1>4, <1>7 DEF LeaseInv, TokensMinted, reqVars
    <2>2. BarredStays'
      BY <1>2, <1>3, <1>7 DEF LeaseInv, BarredStays, reqVars
    <2>3. MintedInTime'
      BY <1>2, <1>3, <1>7 DEF LeaseInv, MintedInTime, reqVars
    <2>4. QED
      BY <1>5, <2>1, <2>2, <2>3
  <1>8. QED
    BY <1>6, <1>7 DEF EndStep

\* The product forgets; nothing else changes.
LEMMA RestartInv ==
    ASSUME LeaseInv,
           ProductRestarts \/ UNCHANGED vars
    PROVE  TokensMinted' /\ BarredStays' /\ MintedInTime' /\ CachedWhileGraced'
  <1>1. /\ held' = None \/ held' = held
        /\ UNCHANGED <<now, license, endedAt, orphans, cached, mintedAt, lost>>
        /\ UNCHANGED <<stage, kind, token, since, barred, answer, granted>>
    BY DEF ProductRestarts, vars, adminVars, bindVars, leaseVars, reqVars, sdkVars
  <1>2. Minted' = Minted /\ TermOver' = TermOver
    BY <1>1 DEF Minted, TermOver
  <1>3. TokensMinted'
    BY <1>1, <1>2 DEF LeaseInv, TokensMinted
  <1>4. BarredStays'
    BY <1>1, <1>2 DEF LeaseInv, BarredStays
  <1>5. MintedInTime'
    BY <1>1, <1>2 DEF LeaseInv, MintedInTime
  <1>6. CachedWhileGraced'
    BY <1>1, <1>2 DEF LeaseInv, CachedWhileGraced, GraceUntil
  <1>7. QED
    BY <1>3, <1>4, <1>5, <1>6

---------------------------------------------------------------------------
(* Steps of the others. *)

\* The license ends no earlier than now, and what is ended stays so.
LEMMA EnvironmentInv ==
    ASSUME LeaseInv, EnvironmentStep
    PROVE  TokensMinted' /\ BarredStays' /\ MintedInTime' /\ CachedWhileGraced'
  <1> USE TokenAssumption, EndOfTermAssumption
  <1>1. LeaseTypeOK
    BY DEF LeaseInv
  <1>2. CASE Reap
    <2>1. /\ orphans' = Minted
          /\ UNCHANGED <<now, license, endedAt, cached, mintedAt, lost, held>>
          /\ UNCHANGED <<stage, kind, token, since, barred, answer, granted>>
      BY <1>2 DEF Reap, adminVars, leaseVars, reqVars, sdkVars
    <2>2. Minted' = Minted /\ TermOver' = TermOver
      BY <2>1 DEF Minted, TermOver
    <2>3. TokensMinted' /\ CachedWhileGraced'
      BY <2>1, <2>2 DEF LeaseInv, TokensMinted, CachedWhileGraced, GraceUntil
    <2>4. BarredStays'
      BY <2>1, <2>2 DEF LeaseInv, TokensMinted, BarredStays
    <2>5. MintedInTime'
      BY <2>1, <2>2 DEF LeaseInv, MintedInTime
    <2>6. QED
      BY <2>3, <2>4, <2>5
  <1>3. CASE Revoke \/ DeleteLicense
    <2>1. /\ license' \in {"revoked", "deleted"}
          /\ endedAt' = IF endedAt = None THEN now ELSE endedAt
          /\ orphans' = orphans \/ orphans' = Minted
          /\ UNCHANGED <<now, cached, mintedAt, lost, held>>
          /\ UNCHANGED <<stage, kind, token, since, barred, answer, granted>>
      BY <1>3 DEF Revoke, DeleteLicense, bindVars, leaseVars, reqVars, sdkVars,
                  LeaseInv, TokensMinted
    <2>2. Minted' = Minted /\ TermOver' = TermOver
      BY <2>1 DEF Minted, TermOver
    <2>3. now \in Nat /\ endedAt' # None
      BY <1>1, <2>1 DEF LeaseTypeOK
    <2>4. TokensMinted'
      BY <2>1, <2>2, <2>3 DEF LeaseInv, TokensMinted
    <2>5. BarredStays'
      BY <2>1, <2>2 DEF LeaseInv, BarredStays
    <2>6. MintedInTime'
      <3>1. \A q \in Request : since[q] \in Nat
        BY <1>1 DEF LeaseTypeOK
      <3>2. \A q \in Request : stage[q] # "free" /\ ~barred[q] => since[q] <= endedAt'
        BY <2>1 DEF LeaseInv, MintedInTime
      <3>3. endedAt' <= now
        BY <2>1, <2>3 DEF LeaseInv, MintedInTime
      <3>4. \A t \in Minted : mintedAt[t] <= endedAt' + Serve
        <4>1. ASSUME NEW t \in Minted
              PROVE  mintedAt[t] <= endedAt' + Serve
          <5>1. CASE endedAt = None
            <6>1. mintedAt[t] \in Nat /\ mintedAt[t] <= now
              BY <1>1 DEF Minted, LeaseTypeOK, LeaseInv, MintedInTime
            <6>2. QED
              BY <2>1, <2>3, <5>1, <6>1, DurationsAssumption
          <5>2. CASE endedAt # None
            BY <2>1, <5>2 DEF LeaseInv, MintedInTime
          <5>3. QED
            BY <5>1, <5>2
        <4>2. QED
          BY <4>1
      <3>5. QED
        BY <2>1, <2>2, <3>2, <3>3, <3>4 DEF LeaseInv, MintedInTime
    <2>7. CachedWhileGraced'
      BY <2>1, <2>2 DEF LeaseInv, CachedWhileGraced, GraceUntil
    <2>8. QED
      BY <2>4, <2>5, <2>6, <2>7
  <1>4. CASE RedisLoses
    <2>1. /\ lost' = TRUE
          /\ UNCHANGED <<now, license, endedAt, orphans, mintedAt, held>>
          /\ UNCHANGED <<stage, kind, token, since, barred, answer, granted>>
      BY <1>4 DEF RedisLoses, adminVars, bindVars, reqVars, sdkVars
    <2>2. Minted' = Minted /\ TermOver' = TermOver
      BY <2>1 DEF Minted, TermOver
    <2>3. TokensMinted'
      BY <2>1, <2>2 DEF LeaseInv, TokensMinted
    <2>4. BarredStays'
      BY <2>1, <2>2 DEF LeaseInv, BarredStays
    <2>5. MintedInTime'
      BY <2>1, <2>2 DEF LeaseInv, MintedInTime
    <2>6. QED
      BY <2>1, <2>3, <2>4, <2>5 DEF CachedWhileGraced
  <1>5. CASE Tick
    <2>1. /\ now' = now + 1
          /\ \A r \in Request : stage[r] # "free" => now < since[r] + Serve
          /\ cached' = {t \in cached : now' < GraceUntil(t)}
          /\ UNCHANGED <<license, endedAt, orphans, mintedAt, lost, held>>
          /\ UNCHANGED <<stage, kind, token, since, barred, answer, granted>>
      BY <1>5 DEF Tick, adminVars, bindVars, reqVars, sdkVars
    <2>2. now \in Nat
      BY <1>1 DEF LeaseTypeOK
    <2>3. Minted' = Minted /\ (TermOver => TermOver')
      BY <2>1, <2>2 DEF Minted, TermOver
    <2>4. TokensMinted'
      BY <2>1, <2>3 DEF LeaseInv, TokensMinted
    <2>5. BarredStays'
      BY <2>1, <2>3 DEF LeaseInv, BarredStays
    <2>6. MintedInTime'
      <3>1. \A q \in Request : since[q] \in Nat
        BY <1>1 DEF LeaseTypeOK
      <3>2. \A q \in Request : stage[q] # "free" =>
               since[q] <= now' /\ now' <= since[q] + Serve
        BY <2>1, <2>2, <3>1, DurationsAssumption DEF LeaseInv, MintedInTime
      <3>3. endedAt # None => endedAt <= now'
        BY <1>1, <2>1, <2>2 DEF LeaseTypeOK, LeaseInv, MintedInTime
      <3>4. \A t \in Minted : mintedAt[t] <= now'
        BY <1>1, <2>1, <2>2 DEF LeaseTypeOK, LeaseInv, MintedInTime, Minted
      <3>5. QED
        BY <2>1, <2>3, <3>2, <3>3, <3>4 DEF LeaseInv, MintedInTime
    <2>7. CachedWhileGraced'
      <3>1. ASSUME NEW t \in Minted, ~lost, now' < mintedAt[t] + Ttl + Grace
            PROVE  t \in cached'
        <4>1. mintedAt[t] \in Nat
          BY <1>1 DEF LeaseTypeOK, Minted
        <4>2. now < mintedAt[t] + Ttl + Grace
          BY <2>1, <2>2, <3>1, <4>1, DurationsAssumption
        <4>3. t \in cached
          BY <3>1, <4>2 DEF LeaseInv, CachedWhileGraced, GraceUntil
        <4>4. QED
          BY <2>1, <3>1, <4>3 DEF GraceUntil
      <3>2. QED
        BY <2>1, <2>3, <3>1 DEF CachedWhileGraced, GraceUntil
    <2>8. QED
      BY <2>4, <2>5, <2>6, <2>7
  <1>6. QED
    BY <1>2, <1>3, <1>4, <1>5 DEF EnvironmentStep

---------------------------------------------------------------------------
(* The binding of the held token. *)

\* Steps of the edge that grant nothing.
LEMMA PlainServerOwn ==
    ASSUME LeaseInv, NEW r \in Request, PlainServerStep(r)
    PROVE  OwnBinding'
  <1>1. LeaseTypeOK
    BY DEF LeaseInv
  <1>2. UNCHANGED <<now, license, bound, install, heartbeat, dead, orphans,
                    held, waiting, client, crossed>>
    BY <1>1, PlainServerStepCases
       DEF serverUnchanged, adminVars, bindVars, leaseVars, sdkVars
  <1>3. stage[r] \notin {"free", "answered"}
    BY DEF PlainServerStep, LookUpLease, LoadLicense, CheckRevoked, ServerFails, Refuses
  <1>4. /\ \A q \in Request : /\ stage'[q] \notin {"free", "answered"} =>
                                     stage[q] \notin {"free", "answered"}
                              /\ stage'[q] # "free" => stage[q] # "free"
                              /\ answer'[q] = "ok" => answer[q] = "ok" /\ granted'[q] = granted[q]
        /\ UNCHANGED <<kind, token, ident>>
    <2>1. CASE \E c \in Code \ {"ok"} : Respond(r, c, None)
      BY <1>1, <1>3, <2>1, RequestEffects
    <2>2. CASE \E s \in Stage : Advance(r, s)
      BY <1>1, <1>3, <2>2, RequestEffects
    <2>3. QED
      BY <1>1, <2>1, <2>2, PlainServerStepCases DEF Stage
  <1>5. \A t \in Token : Ours(t)' => Ours(t)
    BY <1>2, <1>4 DEF Ours
  <1>6. \A t : Serves(t)' <=> Serves(t)
    BY <1>2 DEF Serves, InstallsClash
  <1>7. OtherActivating(client)' => OtherActivating(client)
    BY <1>2, <1>4 DEF OtherActivating
  <1>8. QED
    BY <1>2, <1>4, <1>5, <1>6, <1>7 DEF LeaseInv, OwnBinding

\* A renewal keeps the binding of its token; an activation that commits is the
\* product's own, and gives the binding the identity it has.
LEMMA MintOwn ==
    ASSUME LeaseInv, NEW r \in Request, MintStep(r)
    PROVE  OwnBinding'
  <1> USE TokenAssumption
  <1>1. LeaseTypeOK
    BY DEF LeaseInv
  <1>2. PICK t \in Token \ Minted :
           /\ stage[r] = "cleared"
           /\ Respond(r, "ok", t)
           /\ \/ /\ kind[r] = "validate"
                 /\ orphans' = IF token[r] \in orphans THEN orphans \cup {t} ELSE orphans
                 /\ UNCHANGED <<bound, install, heartbeat, dead>>
              \/ /\ kind[r] = "activate"
                 /\ license # "deleted" /\ ident[r].fp \notin dead
                 /\ ~InstallsClash(ident[r])
                 /\ bound' = ident[r].fp
                 /\ install' = IF install # None THEN install ELSE ident[r].install
                 /\ heartbeat' = now
                 /\ UNCHANGED <<dead, orphans>>
           /\ UNCHANGED <<now, license, held, waiting, client, crossed>>
    BY DEF MintStep, adminVars, sdkVars
  <1>3. /\ stage'[r] = "answered" /\ answer'[r] = "ok" /\ granted'[r] = t
        /\ \A q \in Request \ {r} : /\ stage'[q] = stage[q]
                                   /\ answer'[q] = answer[q]
                                   /\ granted'[q] = granted[q]
        /\ UNCHANGED <<kind, token, ident>>
    BY <1>1, <1>2, RequestEffects, Codes
  <1>4. t \notin orphans /\ held # t
    BY <1>2 DEF LeaseInv, TokensMinted
  <1>5. \A u \in Token \ {t} : Ours(u)' => Ours(u)
    BY <1>2, <1>3 DEF Ours
  <1>6. Ours(t)' => waiting = r
    <2>1. \A q \in Request \ {r} : answer[q] = "ok" => granted[q] # t
      BY <1>2 DEF LeaseInv, TokensMinted
    <2>2. QED
      BY <1>2, <1>3, <1>4, <2>1 DEF Ours
  <1>7. ~OtherActivating(client) => ~OtherActivating(client)'
    BY <1>2, <1>3 DEF OtherActivating
  <1>8. ASSUME ~crossed, NEW u \in Token, Ours(u)'
        PROVE  Serves(u)'
    <2>1. CASE kind[r] = "validate"
      <3>1. /\ UNCHANGED <<now, license, bound, install, heartbeat, dead, client>>
            /\ orphans' = IF token[r] \in orphans THEN orphans \cup {t} ELSE orphans
        BY <1>2, <2>1
      <3>2. CASE u = t
        <4>1. token[r] = held /\ waiting = r
          BY <1>2, <1>6, <1>8, <2>1, <3>2 DEF LeaseInv, OwnBinding
        <4>2. token[r] \in Token
          BY <1>2, <2>1 DEF LeaseInv, TokensMinted, Minted
        <4>3. Serves(held)
          BY <1>8, <4>1, <4>2 DEF LeaseInv, OwnBinding, Ours
        <4>4. QED
          BY <1>4, <3>1, <3>2, <4>1, <4>3 DEF Serves, InstallsClash
      <3>3. CASE u # t
        <4>1. Serves(u)
          BY <1>5, <1>8, <3>3 DEF LeaseInv, OwnBinding
        <4>2. QED
          BY <3>1, <3>3, <4>1 DEF Serves, InstallsClash
      <3>4. QED
        BY <3>2, <3>3
    <2>2. CASE kind[r] = "activate"
      <3>1. ident[r] = client
        BY <1>2, <1>8, <2>2 DEF LeaseInv, OwnBinding, OtherActivating
      <3>2. /\ license # "deleted" /\ client.fp \notin dead
            /\ bound' = client.fp /\ ~InstallsClash(client)
            /\ install' = IF install # None THEN install ELSE client.install
            /\ UNCHANGED <<dead, orphans, license, client>>
        BY <1>2, <2>2, <3>1
      <3>3. u \notin orphans
        <4>1. CASE u = t
          BY <1>4, <4>1
        <4>2. CASE u # t
          <5>1. Serves(u)
            BY <1>5, <1>8, <4>2 DEF LeaseInv, OwnBinding
          <5>2. QED
            BY <3>2, <5>1 DEF Serves
        <4>3. QED
          BY <4>1, <4>2
      <3>4. ~InstallsClash(client)'
        BY <3>2 DEF InstallsClash
      <3>5. QED
        BY <3>2, <3>3, <3>4 DEF Serves
    <2>3. QED
      BY <1>2, <2>1, <2>2
  <1>9. \A q \in Request : stage'[q] # "free" => stage[q] # "free"
    BY <1>2, <1>3
  <1>10. QED
    BY <1>2, <1>3, <1>7, <1>8, <1>9 DEF LeaseInv, OwnBinding

\* What the product sends carries its token and its identity.
LEMMA SendOwn ==
    ASSUME LeaseInv, NEW r \in Request, Activate(r) \/ Revalidate(r)
    PROVE  OwnBinding'
  <1>1. LeaseTypeOK
    BY DEF LeaseInv
  <1>2. PICK k \in {"activate", "validate"}, t \in Token \cup {None} :
           Send(r, k, t) /\ (k = "validate" => t = held)
    BY DEF Activate, Revalidate, LeaseInv, LeaseTypeOK
  <1>3. /\ stage[r] = "free" /\ kind'[r] = k /\ token'[r] = t /\ ident'[r] = client
        /\ waiting' = r
        /\ \A q \in Request \ {r} : /\ stage'[q] = stage[q]
                                   /\ kind'[q] = kind[q]
                                   /\ ident'[q] = ident[q]
        /\ UNCHANGED <<now, license, bound, install, heartbeat, dead, orphans, answer,
                       granted, held, client, crossed>>
    BY <1>1, <1>2 DEF Send, LeaseTypeOK, adminVars, bindVars, leaseVars
  <1>4. answer[r] # "ok"
    BY <1>3 DEF LeaseInv, TokensMinted
  <1>5. \A u \in Token : Ours(u)' => Ours(u)
    BY <1>3, <1>4 DEF Ours
  <1>6. \A u : Serves(u)' <=> Serves(u)
    BY <1>3 DEF Serves, InstallsClash
  <1>7. OtherActivating(client)' => OtherActivating(client)
    BY <1>3 DEF OtherActivating
  <1>8. QED
    BY <1>2, <1>3, <1>5, <1>6, <1>7 DEF LeaseInv, OwnBinding

\* The token received is the one that was granted.
LEMMA EndOwn ==
    ASSUME LeaseInv, NEW r \in Request, EndStep(r)
    PROVE  OwnBinding'
  <1>1. LeaseTypeOK
    BY DEF LeaseInv
  <1>2. UNCHANGED <<now, license, bound, install, heartbeat, dead, orphans, client, crossed>>
    BY DEF EndStep, adminVars, bindVars, leaseVars
  <1>3. /\ \A q \in Request \ {r} : /\ stage'[q] = stage[q]
                                   /\ answer'[q] = answer[q]
                                   /\ granted'[q] = granted[q]
                                   /\ kind'[q] = kind[q]
                                   /\ token'[q] = token[q]
                                   /\ ident'[q] = ident[q]
        /\ \/ stage'[r] = "free"
           \/ UNCHANGED <<stage, kind, ident>>
    BY <1>1 DEF EndStep, Release, reqVars, LeaseTypeOK
  <1>4. \/ waiting' = None /\ held' = held
        \/ waiting' = None /\ waiting = r /\ answer[r] = "ok" /\ held' = granted[r]
        \/ waiting' = waiting /\ waiting # r /\ held' = held
    BY DEF EndStep
  <1>5. None \notin Request
    BY TokenAssumption
  <1>6. \A u \in Token : Ours(u)' => Ours(u)
    BY <1>3, <1>4, <1>5 DEF Ours
  <1>7. \A u : Serves(u)' <=> Serves(u)
    BY <1>2 DEF Serves, InstallsClash
  <1>8. OtherActivating(client)' => OtherActivating(client)
    BY <1>2, <1>3 DEF OtherActivating
  <1>9. \A q \in Request :
           waiting' = q /\ kind'[q] = "validate" /\ stage'[q] # "free" => token'[q] = held'
    BY <1>3, <1>4, <1>5 DEF LeaseInv, OwnBinding
  <1>10. QED
    BY <1>2, <1>6, <1>7, <1>8, <1>9 DEF LeaseInv, OwnBinding

\* A product that starts holds nothing and waits for nothing.
LEMMA RestartOwn ==
    ASSUME LeaseInv, ProductRestarts
    PROVE  OwnBinding'
  <1>1. held' = None /\ waiting' = None /\ crossed' = OtherActivating(client')
    BY DEF ProductRestarts
  <1>2. None \notin Token \cup Request
    BY TokenAssumption
  <1>3. \A t \in Token : ~Ours(t)'
    BY <1>1, <1>2 DEF Ours
  <1>4. OtherActivating(client)' <=> OtherActivating(client')
    BY DEF ProductRestarts, OtherActivating, reqVars
  <1>5. QED
    BY <1>1, <1>2, <1>3, <1>4 DEF OwnBinding

\* The reaper leaves a fingerprint behind that nobody activates again.
LEMMA EnvironmentOwn ==
    ASSUME LeaseInv, EnvironmentStep \/ UNCHANGED vars
    PROVE  OwnBinding'
  <1>1. LeaseTypeOK
    BY DEF LeaseInv
  <1>2. UNCHANGED <<stage, kind, token, ident, answer, granted, held, waiting, client, crossed>>
    BY DEF EnvironmentStep, Reap, Revoke, DeleteLicense, RedisLoses, Tick, vars,
           reqVars, sdkVars
  <1>3. \A u \in Token : Ours(u)' <=> Ours(u)
    BY <1>2 DEF Ours
  <1>4. OtherActivating(client)' <=> OtherActivating(client)
    BY <1>2 DEF OtherActivating
  <1>5. \A u \in Token : Ours(u) => u \in Minted
    BY TokenAssumption DEF Ours, LeaseInv, TokensMinted
  <1>6. ASSUME NEW u \in Minted, Serves(u)
        PROVE  Serves(u)'
    <2>1. CASE Reap
      BY <1>2, <1>6, <2>1 DEF Reap, Serves, InstallsClash, adminVars
    <2>2. CASE Revoke
      BY <1>2, <1>6, <2>2 DEF Revoke, Serves, InstallsClash, bindVars
    <2>3. CASE DeleteLicense
      BY <2>3 DEF DeleteLicense, Serves
    <2>4. CASE RedisLoses
      BY <1>2, <1>6, <2>4 DEF RedisLoses, Serves, InstallsClash, adminVars, bindVars
    <2>5. CASE Tick
      <3>1. now \in Nat /\ heartbeat \in Nat /\ now' = now + 1
            /\ UNCHANGED <<license, bound, install, heartbeat, dead, orphans>>
        BY <1>1, <2>5 DEF LeaseTypeOK, Tick, adminVars, bindVars
      <3>2. heartbeat + Window < now => heartbeat + Window < now'
        BY <3>1, DurationsAssumption
      <3>3. QED
        BY <1>2, <1>6, <3>1, <3>2 DEF Serves, InstallsClash
    <2>6. CASE UNCHANGED vars
      BY <1>6, <2>6 DEF Serves, InstallsClash, vars, adminVars, bindVars, sdkVars
    <2>7. QED
      BY <2>1, <2>2, <2>3, <2>4, <2>5, <2>6 DEF EnvironmentStep
  <1>7. QED
    BY <1>2, <1>3, <1>4, <1>5, <1>6 DEF LeaseInv, OwnBinding, Minted

---------------------------------------------------------------------------
(* The theorems. *)

LEMMA LeaseInvInit == Init => LeaseInv
  <1> SUFFICES ASSUME Init PROVE LeaseInv
    OBVIOUS
  <1> USE TokenAssumption, DurationsAssumption
  <1>1. LeaseTypeOK
    BY DEF Init, LeaseTypeOK, Stage, Code, Verdict
  <1>2. Minted = {}
    BY DEF Init, Minted
  <1>3. TokensMinted
    BY <1>2, Codes DEF Init, TokensMinted
  <1>4. BarredStays /\ MintedInTime /\ CachedWhileGraced
    BY <1>2 DEF Init, BarredStays, MintedInTime, CachedWhileGraced
  <1>5. OwnBinding
    BY DEF Init, OwnBinding, Ours, OtherActivating
  <1>6. QED
    BY <1>1, <1>3, <1>4, <1>5 DEF LeaseInv

LEMMA LeaseInvStep == LeaseInv /\ [Next]_vars => LeaseInv'
  <1> SUFFICES ASSUME LeaseInv, [Next]_vars PROVE LeaseInv'
    OBVIOUS
  <1>1. LeaseTypeOK
    BY DEF LeaseInv
  <1>2. ASSUME NEW r \in Request, PlainServerStep(r)
        PROVE  LeaseInv'
    BY <1>1, <1>2, PlainServerTypes, PlainServerInv, PlainServerOwn DEF LeaseInv
  <1>3. ASSUME NEW r \in Request, MintStep(r)
        PROVE  LeaseInv'
    BY <1>1, <1>3, MintTypes, MintInv, MintOwn DEF LeaseInv
  <1>4. ASSUME NEW r \in Request, Activate(r) \/ Revalidate(r)
        PROVE  LeaseInv'
    BY <1>1, <1>4, SendTypes, SendInv, SendOwn DEF LeaseInv
  <1>5. ASSUME NEW r \in Request, EndStep(r)
        PROVE  LeaseInv'
    BY <1>1, <1>5, EndTypes, EndInv, EndOwn DEF LeaseInv
  <1>6. CASE ProductRestarts
    BY <1>1, <1>6, RestartTypes, RestartInv, RestartOwn DEF LeaseInv
  <1>7. CASE EnvironmentStep
    BY <1>1, <1>7, EnvironmentTypes, EnvironmentInv, EnvironmentOwn DEF LeaseInv
  <1>8. CASE UNCHANGED vars
    <2>1. LeaseTypeOK'
      BY <1>1, <1>8 DEF LeaseTypeOK, vars, adminVars, bindVars, leaseVars, reqVars, sdkVars
    <2>2. QED
      BY <1>8, <2>1, RestartInv, EnvironmentOwn DEF LeaseInv
  <1>9. QED
    BY <1>1, <1>2, <1>3, <1>4, <1>5, <1>6, <1>7, <1>8, StepKinds

LEMMA LeaseInvariance == Spec => []LeaseInv
  <1>1. QED
    BY LeaseInvInit, LeaseInvStep, PTL DEF Spec

\* A request to activate or validate that arrives after the license ended, or for
\* a binding that was reaped, is granted no lease, whatever happens to license and
\* binding while it is served.
THEOREM BarredGetsNoLeaseHolds == Spec => []BarredGetsNoLease
  <1>1. LeaseInv => BarredGetsNoLease
    BY DEF LeaseInv, BarredStays, BarredGetsNoLease
  <1>2. QED
    BY <1>1, LeaseInvariance, PTL

\* However many answers of validate are lost, and whatever hosts the product was
\* restarted on, the token it holds is known, its binding serves and the identities
\* agree, while license, grace and the committed heartbeat are in time - if Redis
\* kept its keys or the token has a leases row, and no activation of a former
\* identity was under way when the product started.
THEOREM HeldTokenRenewableHolds == Spec => []HeldTokenRenewable
  <1>1. ASSUME LeaseInv, held # None, now < GraceUntil(held),
               license = "valid", now <= heartbeat + Window,
               lost => held \in leaseRows, ~crossed
        PROVE  Known(held) /\ BindingServes(held) /\ IdentityAgrees(client)
    <2>1. LeaseTypeOK /\ held \in Token
      BY <1>1 DEF LeaseInv, LeaseTypeOK
    <2>2. Known(held)
      BY <1>1 DEF LeaseInv, TokensMinted, CachedWhileGraced, Known
    <2>3. Serves(held)
      BY <1>1, <2>1 DEF LeaseInv, OwnBinding, Ours
    <2>4. ~(heartbeat + Window < now)
      BY <1>1, <2>1, DurationsAssumption DEF LeaseTypeOK
    <2>5. held \notin orphans /\ bound = client.fp /\ ~InstallsClash(client)
      BY <1>1, <2>3, <2>4 DEF Serves
    <2>6. client.fp # None
      BY <2>1, IdentityAssumption DEF LeaseTypeOK
    <2>7. QED
      BY <2>2, <2>5, <2>6 DEF BindingServes, IdentityAgrees
  <1>2. LeaseInv => HeldTokenRenewable
    BY <1>1 DEF HeldTokenRenewable
  <1>3. QED
    BY <1>2, LeaseInvariance, PTL

\* Now is within a bounded time after the end.
InTime ==
    /\ endedAt # None => now < endedAt + Serve + Ttl + Grace
    /\ EndOfTerm # None => now < EndOfTerm + Serve + Ttl + Grace

\* A lease in its grace was minted in time; a granted request arrived in time.
LEMMA UnlockingIsInTime ==
    ASSUME LeaseInv
    PROVE  /\ GraceOrLock = "grace" => InTime
           /\ \A r \in Request : answer[r] = "ok" => InTime
  <1> USE TokenAssumption, DurationsAssumption, EndOfTermAssumption
  <1>1. /\ LeaseTypeOK /\ now \in Nat
        /\ endedAt # None => endedAt \in Nat
        /\ EndOfTerm # None => EndOfTerm \in Nat
    BY DEF LeaseInv, LeaseTypeOK
  <1>2. ASSUME GraceOrLock = "grace"
        PROVE  InTime
    <2>1. held \in Minted /\ now < mintedAt[held] + Ttl + Grace
      BY <1>2 DEF GraceOrLock, GraceUntil, LeaseInv, TokensMinted
    <2>2. mintedAt[held] \in Nat
      BY <1>1, <2>1 DEF LeaseTypeOK, Minted
    <2>3. /\ endedAt # None => mintedAt[held] <= endedAt + Serve
          /\ EndOfTerm # None => mintedAt[held] < EndOfTerm + Serve
      BY <2>1 DEF LeaseInv, MintedInTime
    <2>4. QED
      BY <1>1, <2>1, <2>2, <2>3 DEF InTime
  <1>3. ASSUME NEW r \in Request, answer[r] = "ok"
        PROVE  InTime
    <2>1. stage[r] # "free" /\ ~barred[r]
      BY <1>3 DEF LeaseInv, TokensMinted, BarredStays
    <2>2. /\ since[r] \in Nat /\ now <= since[r] + Serve
          /\ endedAt # None => since[r] <= endedAt
          /\ EndOfTerm # None => since[r] < EndOfTerm
      BY <1>1, <2>1 DEF LeaseTypeOK, LeaseInv, MintedInTime
    <2>3. QED
      BY <1>1, <2>2 DEF InTime
  <1>4. QED
    BY <1>2, <1>3

\* The steps that end a call with a verdict that unlocks.
LEMMA UnlockStep ==
    LeaseInv /\ [Next]_vars =>
        [waiting # None /\ waiting' = None /\ verdict' \in Unlocking => InTime]_vars
  <1> SUFFICES ASSUME LeaseInv, Next,
                      waiting # None, waiting' = None, verdict' \in Unlocking
               PROVE  InTime
    BY DEF vars, sdkVars
  <1>0. GraceOrLock \in {"grace", "locked"}
    BY DEF GraceOrLock
  <1>1. ASSUME NEW r \in Request, Receive(r)
        PROVE  InTime
    <2>1. answer[r] = "ok" \/ verdict' \in {"revoked", "rejected", "locked", GraceOrLock}
      BY <1>1 DEF Receive, Conclude
    <2>2. QED
      BY <1>0, <2>1, UnlockingIsInTime DEF Unlocking
  <1>2. ASSUME NEW r \in Request, NetworkFails(r)
        PROVE  InTime
    BY <1>0, <1>2, UnlockingIsInTime DEF NetworkFails, Conclude, Unlocking
  <1>3. ASSUME NEW r \in Request, CallRaises(r)
        PROVE  InTime
    BY <1>3 DEF CallRaises, Conclude, Unlocking
  <1>4. CASE ProductRestarts
    BY <1>4 DEF ProductRestarts, Unlocking
  <1>5. ASSUME NEW r \in Request, ServerStep(r) \/ ServerFails(r) \/ Discard(r)
        PROVE  InTime
    BY <1>5 DEF ServerStep, ServerFails, Discard, LookUpLease, LoadLicense, CheckRevoked,
                ActivateCommit, ValidateMint, serverUnchanged, sdkVars
  <1>6. ASSUME NEW r \in Request, Activate(r) \/ Revalidate(r)
        PROVE  InTime
    BY <1>6 DEF Activate, Revalidate, Send
  <1>7. CASE EnvironmentStep
    BY <1>7 DEF EnvironmentStep, Reap, Revoke, DeleteLicense, RedisLoses, Tick, sdkVars
  <1>8. QED
    BY <1>1, <1>2, <1>3, <1>4, <1>5, <1>6, <1>7 DEF Next, EnvironmentStep

\* Whatever the network and the administrator do, no call unlocks a product later
\* than the life of a request, plus TTL, plus grace after its license ended.
THEOREM UnlockedEndsHolds == Spec => UnlockedEnds
  <1>1. LeaseInv /\ [Next]_vars =>
           [waiting # None /\ waiting' = None /\ verdict' \in Unlocking =>
              /\ endedAt # None => now < endedAt + Serve + Ttl + Grace
              /\ EndOfTerm # None => now < EndOfTerm + Serve + Ttl + Grace]_vars
    BY UnlockStep DEF InTime
  <1>2. QED
    BY <1>1, LeaseInvariance, PTL DEF Spec, UnlockedEnds

=============================================================================
