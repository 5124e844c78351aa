--------------------------- MODULE ServicesProofs ---------------------------
(***************************************************************************)
(* Theorems about Catalog, SyncBridge and EmailFailover, each of which      *)
(* MCServices instantiates over variables of its own.                       *)
(***************************************************************************)
EXTENDS MCServices, FiniteSetTheorems, TLAPS

---------------------------------------------------------------------------
(* Catalog. *)

CatalogTypeOK ==
    /\ row \in [Cat!Id -> [status: {"absent", "live", "deleted"}, is_active: BOOLEAN]]
    /\ catPc \in [Request -> {"idle", "creating", "patching", "deleting", "resolving",
                             "issuing"}]
    /\ catTarget \in [Request -> Cat!Id \cup {None}]
    /\ product \in [Request -> Product \cup {None}]
    /\ active \in [Request -> BOOLEAN \cup {None}]
    /\ offered \in [Request -> SUBSET Cat!Id]
    /\ \A r \in Request : catPc[r] # "idle" => catTarget[r] \in Cat!Id

\* The row that a request creates is nobody else's and not there yet.
CreatesAlone ==
    \A r \in Request : catPc[r] = "creating" =>
        /\ row[catTarget[r]].status = "absent"
        /\ \A q \in Request \ {r} : catTarget[q] # catTarget[r]

\* Customers are never withdrawn other than by deletion.
CustomersActive ==
    /\ \A c \in Customer : row[c].is_active
    /\ \A r \in Request : catPc[r] = "patching" /\ catTarget[r] \in Customer => active[r] = None

\* What an issue has resolved was on offer since it began.
ResolvedWhileOffered ==
    \A r \in Request :
        /\ catPc[r] \in {"resolving", "issuing"} => catTarget[r] \in offered[r]
        /\ catPc[r] = "issuing" => product[r] \in offered[r]

CatalogInv == CatalogTypeOK /\ CreatesAlone /\ CustomersActive /\ ResolvedWhileOffered

LEMMA CatalogInvInit == Cat!Init => CatalogInv
  <1> SUFFICES ASSUME Cat!Init PROVE CatalogInv
    OBVIOUS
  <1>1. CatalogTypeOK
    BY DEF Cat!Init, CatalogTypeOK, Cat!Id
  <1>2. CreatesAlone /\ CustomersActive /\ ResolvedWhileOffered
    BY DEF Cat!Init, CreatesAlone, CustomersActive, ResolvedWhileOffered, Cat!Id
  <1>3. QED
    BY <1>1, <1>2 DEF CatalogInv

\* A step of one request keeps the types, if it moves within them.
LEMMA CatalogTypesStep ==
    ASSUME CatalogInv, Cat!Next PROVE CatalogTypeOK'
  <1> USE DEF CatalogInv, CatalogTypeOK, Cat!MoveTo, Cat!Leave
  <1>1. offered' \in [Request -> SUBSET Cat!Id]
    <2>1. \A q \in Request : offered[q] \subseteq Cat!Id
      OBVIOUS
    <2>2. Cat!OnOffer(row') \subseteq Cat!Id
      BY DEF Cat!OnOffer
    <2>3. QED
      BY <2>1, <2>2 DEF Cat!Next, Cat!RememberOffers
  <1>2. ASSUME NEW r \in Request, NEW x \in Cat!Id,
               \/ Cat!CheckSlug(r, x) \/ Cat!SelectForPatch(r, x) \/ Cat!SelectForDelete(r, x)
        PROVE  CatalogTypeOK'
    <2>1. CASE Cat!CheckSlug(r, x)
      BY <1>1, <2>1 DEF Cat!CheckSlug
    <2>2. CASE Cat!SelectForPatch(r, x)
      <3>1. active' \in [Request -> BOOLEAN \cup {None}]
        BY <2>2 DEF Cat!SelectForPatch
      <3>2. QED
        BY <1>1, <2>2, <3>1 DEF Cat!SelectForPatch
    <2>3. CASE Cat!SelectForDelete(r, x)
      BY <1>1, <2>3 DEF Cat!SelectForDelete
    <2>4. QED
      BY <1>2, <2>1, <2>2, <2>3
  <1>3. ASSUME NEW r \in Request, NEW c \in Customer, Cat!ResolveCustomer(r, c)
        PROVE  CatalogTypeOK'
    BY <1>1, <1>3 DEF Cat!ResolveCustomer, Cat!Id
  <1>4. ASSUME NEW r \in Request, NEW p \in Product, Cat!ResolveProduct(r, p)
        PROVE  CatalogTypeOK'
    BY <1>1, <1>4 DEF Cat!ResolveProduct
  <1>5. ASSUME NEW r \in Request, Cat!Leave(r),
               row' \in [Cat!Id -> [status: {"absent", "live", "deleted"}, is_active: BOOLEAN]]
        PROVE  CatalogTypeOK'
    BY <1>1, <1>5
  <1>6. ASSUME NEW r \in Request,
               \/ Cat!CommitCreate(r) \/ Cat!CommitPatch(r) \/ Cat!CommitDelete(r)
               \/ Cat!CommitIssue(r) \/ Cat!Abort(r)
        PROVE  CatalogTypeOK'
    <2>1. CASE Cat!CommitCreate(r)
      BY <1>5, <2>1 DEF Cat!CommitCreate
    <2>2. CASE Cat!CommitPatch(r)
      <3>1. catTarget[r] \in Cat!Id /\ Cat!Patched(r) \in BOOLEAN
        BY <2>2 DEF Cat!CommitPatch, Cat!Patched
      <3>2. QED
        BY <1>5, <2>2, <3>1 DEF Cat!CommitPatch
    <2>3. CASE Cat!CommitDelete(r)
      BY <1>5, <2>3 DEF Cat!CommitDelete
    <2>4. CASE Cat!CommitIssue(r) \/ Cat!Abort(r)
      BY <1>5, <2>4 DEF Cat!CommitIssue, Cat!Abort
    <2>5. QED
      BY <1>6, <2>1, <2>2, <2>3, <2>4
  <1>7. QED
    BY <1>2, <1>3, <1>4, <1>6 DEF Cat!Next, Cat!Serve

LEMMA CreatesAloneStep ==
    ASSUME CatalogInv, NEW r \in Request, Cat!Serve(r)
    PROVE  CreatesAlone'
  <1> USE CatalogAssumption DEF CatalogInv, CatalogTypeOK, CreatesAlone, Cat!MoveTo, Cat!Leave
  <1>1. ASSUME NEW x \in Cat!Id, Cat!CheckSlug(r, x) PROVE CreatesAlone'
    BY <1>1 DEF Cat!CheckSlug
  <1>2. ASSUME NEW x \in Cat!Id, Cat!SelectForPatch(r, x) \/ Cat!SelectForDelete(r, x)
        PROVE  CreatesAlone'
    <2>1. /\ catPc'[r] # "creating" /\ row' = row /\ row[x].status = "live"
          /\ catTarget' = [catTarget EXCEPT ![r] = x]
          /\ \A q \in Request \ {r} : catPc'[q] = catPc[q]
      BY <1>2 DEF Cat!SelectForPatch, Cat!SelectForDelete, Cat!Visible
    <2>2. QED
      BY <2>1
  <1>3. ASSUME NEW c \in Customer, Cat!ResolveCustomer(r, c) PROVE CreatesAlone'
    BY <1>3 DEF Cat!ResolveCustomer, Cat!Visible, Cat!Id
  <1>4. ASSUME NEW p \in Product, Cat!ResolveProduct(r, p) PROVE CreatesAlone'
    BY <1>4 DEF Cat!ResolveProduct
  <1>5. ASSUME Cat!Leave(r), catPc[r] # "idle",
               \A x \in Cat!Id \ {catTarget[r]} : row'[x].status = row[x].status
        PROVE  CreatesAlone'
    <2> SUFFICES ASSUME NEW s \in Request, catPc'[s] = "creating"
                 PROVE  /\ row'[catTarget'[s]].status = "absent"
                        /\ \A q \in Request \ {s} : catTarget'[q] # catTarget'[s]
      OBVIOUS
    <2>1. s # r /\ catPc[s] = "creating" /\ catTarget'[s] = catTarget[s]
      BY <1>5
    <2>2. catTarget[s] \in Cat!Id /\ catTarget[r] # catTarget[s]
      BY <2>1
    <2>3. None \notin Cat!Id
      BY DEF Cat!Id
    <2>4. row'[catTarget'[s]].status = "absent"
      BY <1>5, <2>1, <2>2
    <2>5. \A q \in Request \ {s} : catTarget'[q] = catTarget[q] \/ catTarget'[q] = None
      BY <1>5
    <2>6. QED
      BY <2>1, <2>2, <2>3, <2>4, <2>5
  <1>6. CASE Cat!CommitCreate(r)
    BY <1>5, <1>6 DEF Cat!CommitCreate
  <1>7. CASE Cat!CommitPatch(r)
    BY <1>5, <1>7 DEF Cat!CommitPatch
  <1>8. CASE Cat!CommitDelete(r) \/ Cat!CommitIssue(r) \/ Cat!Abort(r)
    BY <1>5, <1>8 DEF Cat!CommitDelete, Cat!CommitIssue, Cat!Abort
  <1>9. QED
    BY <1>1, <1>2, <1>3, <1>4, <1>6, <1>7, <1>8 DEF Cat!Serve

LEMMA CustomersActiveStep ==
    ASSUME CatalogInv, NEW r \in Request, Cat!Serve(r)
    PROVE  CustomersActive'
  <1> USE CatalogAssumption
      DEF CatalogInv, CatalogTypeOK, CustomersActive, Cat!MoveTo, Cat!Leave, Cat!Id
  <1>1. ASSUME NEW x \in Cat!Id, Cat!CheckSlug(r, x) \/ Cat!SelectForDelete(r, x)
        PROVE  CustomersActive'
    BY <1>1 DEF Cat!CheckSlug, Cat!SelectForDelete
  <1>2. ASSUME NEW x \in Cat!Id, Cat!SelectForPatch(r, x) PROVE CustomersActive'
    <2>1. /\ row' = row /\ catTarget' = [catTarget EXCEPT ![r] = x]
          /\ catPc' = [catPc EXCEPT ![r] = "patching"]
          /\ \A q \in Request \ {r} : active'[q] = active[q]
          /\ x \in Customer => active'[r] = None
      BY <1>2 DEF Cat!SelectForPatch
    <2>2. QED
      BY <2>1
  <1>3. ASSUME NEW c \in Customer, Cat!ResolveCustomer(r, c) PROVE CustomersActive'
    BY <1>3 DEF Cat!ResolveCustomer
  <1>4. ASSUME NEW p \in Product, Cat!ResolveProduct(r, p) PROVE CustomersActive'
    BY <1>4 DEF Cat!ResolveProduct
  <1>5. ASSUME Cat!Leave(r), \A c \in Customer : row'[c].is_active
        PROVE  CustomersActive'
    BY <1>5
  <1>6. CASE Cat!CommitCreate(r)
    BY <1>5, <1>6 DEF Cat!CommitCreate
  <1>7. CASE Cat!CommitPatch(r)
    <2>1. \A c \in Customer : row'[c].is_active
      BY <1>7 DEF Cat!CommitPatch, Cat!Patched
    <2>2. QED
      BY <1>5, <1>7, <2>1 DEF Cat!CommitPatch
  <1>8. CASE Cat!CommitDelete(r) \/ Cat!CommitIssue(r) \/ Cat!Abort(r)
    <2>1. \A c \in Customer : row'[c].is_active
      BY <1>8 DEF Cat!CommitDelete, Cat!CommitIssue, Cat!Abort
    <2>2. QED
      BY <1>5, <1>8, <2>1 DEF Cat!CommitDelete, Cat!CommitIssue, Cat!Abort
  <1>9. QED
    BY <1>1, <1>2, <1>3, <1>4, <1>6, <1>7, <1>8 DEF Cat!Serve

LEMMA ResolvedStep ==
    ASSUME CatalogInv, Cat!Next
    PROVE  ResolvedWhileOffered'
  <1> USE DEF CatalogInv, CatalogTypeOK, ResolvedWhileOffered, Cat!MoveTo, Cat!Leave
  <1>1. \A q \in Request : catPc'[q] \in {"resolving", "issuing"} =>
           offered'[q] = offered[q] \cup Cat!OnOffer(row')
    BY DEF Cat!Next, Cat!RememberOffers
  <1>2. ASSUME NEW r \in Request,
               \A q \in Request : catPc'[q] \in {"resolving", "issuing"} =>
                  catPc'[q] = catPc[q] /\ catTarget'[q] = catTarget[q] /\ product'[q] = product[q]
        PROVE  ResolvedWhileOffered'
    BY <1>1, <1>2
  <1>3. ASSUME NEW r \in Request, NEW x \in Cat!Id,
               Cat!CheckSlug(r, x) \/ Cat!SelectForPatch(r, x) \/ Cat!SelectForDelete(r, x)
        PROVE  ResolvedWhileOffered'
    BY <1>2, <1>3 DEF Cat!CheckSlug, Cat!SelectForPatch, Cat!SelectForDelete
  <1>4. ASSUME NEW r \in Request, NEW c \in Customer, Cat!ResolveCustomer(r, c)
        PROVE  ResolvedWhileOffered'
    <2>1. c \in Cat!OnOffer(row')
      BY <1>4 DEF Cat!ResolveCustomer, Cat!OnOffer, Cat!Visible, Cat!Id, CustomersActive
    <2>2. QED
      BY <1>1, <1>4, <2>1 DEF Cat!ResolveCustomer
  <1>5. ASSUME NEW r \in Request, NEW p \in Product, Cat!ResolveProduct(r, p)
        PROVE  ResolvedWhileOffered'
    <2>1. p \in Cat!OnOffer(row')
      BY <1>5 DEF Cat!ResolveProduct, Cat!IssuableProduct, Cat!OnOffer, Cat!Visible, Cat!Id
    <2>2. QED
      BY <1>1, <1>5, <2>1 DEF Cat!ResolveProduct
  <1>6. ASSUME NEW r \in Request,
               \/ Cat!CommitCreate(r) \/ Cat!CommitPatch(r) \/ Cat!CommitDelete(r)
               \/ Cat!CommitIssue(r) \/ Cat!Abort(r)
        PROVE  ResolvedWhileOffered'
    <2>1. Cat!Leave(r)
      BY <1>6 DEF Cat!CommitCreate, Cat!CommitPatch, Cat!CommitDelete, Cat!CommitIssue,
                  Cat!Abort
    <2>2. QED
      BY <1>2, <2>1
  <1>7. QED
    BY <1>3, <1>4, <1>5, <1>6 DEF Cat!Next, Cat!Serve

LEMMA CatalogInvariance == Cat!Spec => []CatalogInv
  <1>1. CatalogInv /\ Cat!Next => CatalogInv'
    BY CatalogTypesStep, CreatesAloneStep, CustomersActiveStep, ResolvedStep
       DEF CatalogInv, Cat!Next
  <1>2. CatalogInv /\ UNCHANGED Cat!vars => CatalogInv'
    BY DEF Cat!vars, CatalogInv, CatalogTypeOK, CreatesAlone, CustomersActive,
           ResolvedWhileOffered
  <1>3. QED
    BY <1>1, <1>2, CatalogInvInit, PTL DEF Cat!Spec

\* What a license is issued for was on offer at some time of the request.
THEOREM IssuedWhileOfferedHolds == Cat!Spec => []IssuedWhileOffered
  <1>1. CatalogInv => IssuedWhileOffered
    BY DEF CatalogInv, ResolvedWhileOffered, IssuedWhileOffered, Cat!IssuedWhileOffered
  <1>2. QED
    BY <1>1, CatalogInvariance, PTL

\* Only an edit that asks for it brings a withdrawn product back, and nothing
\* brings back what was deleted.
THEOREM WithdrawnStaysWithdrawnHolds == Cat!Spec => WithdrawnStaysWithdrawn
  <1>1. ASSUME CatalogInv, NEW x \in Cat!Id, row[x].status # "absent",
               x \in Cat!OnOffer(row'), x \notin Cat!OnOffer(row), Cat!Next
        PROVE  /\ row[x].status = "live"
               /\ \E r \in Request :
                     catTarget[r] = x /\ catPc[r] = "patching" /\ active[r] = TRUE
    <2>1. PICK r \in Request : Cat!Serve(r)
      BY <1>1 DEF Cat!Next
    <2>2. row' # row
      BY <1>1
    <2>3. Cat!CommitCreate(r) \/ Cat!CommitPatch(r) \/ Cat!CommitDelete(r)
      BY <2>1, <2>2 DEF Cat!Serve, Cat!CheckSlug, Cat!SelectForPatch, Cat!SelectForDelete,
                        Cat!ResolveCustomer, Cat!ResolveProduct, Cat!CommitIssue, Cat!Abort
    <2>4. ~Cat!CommitCreate(r)
      BY <1>1 DEF Cat!CommitCreate, CatalogInv, CatalogTypeOK, CreatesAlone, Cat!OnOffer
    <2>5. ~Cat!CommitDelete(r)
      BY <1>1 DEF Cat!CommitDelete, CatalogInv, CatalogTypeOK, Cat!OnOffer
    <2>6. /\ catPc[r] = "patching"
          /\ row' = [row EXCEPT ![catTarget[r]].is_active = Cat!Patched(r)]
      BY <2>3, <2>4, <2>5 DEF Cat!CommitPatch
    <2>7. /\ x = catTarget[r] /\ row[x].status = "live"
          /\ row[x].is_active = FALSE /\ Cat!Patched(r) = TRUE
      BY <1>1, <2>6 DEF CatalogInv, CatalogTypeOK, Cat!OnOffer
    <2>8. active[r] = TRUE
      BY <2>7 DEF Cat!Patched
    <2>9. QED
      BY <2>6, <2>7, <2>8
  <1>2. CatalogInv /\ [Cat!Next]_Cat!vars =>
           [\A x \in Cat!Id :
               /\ row[x].status # "absent"
               /\ x \in Cat!OnOffer(row') /\ x \notin Cat!OnOffer(row)
               => /\ row[x].status = "live"
                  /\ \E r \in Request :
                        catTarget[r] = x /\ catPc[r] = "patching" /\ active[r] = TRUE]_Cat!vars
    BY <1>1
  <1>3. QED
    BY <1>2, CatalogInvariance, PTL DEF Cat!Spec, WithdrawnStaysWithdrawn, Cat!WithdrawnStaysWithdrawn

---------------------------------------------------------------------------
(* Bridge. *)

BridgeTypeOK ==
    /\ bridgePc \in [Request -> {"idle", "entering", "handling", "awaiting", "closing",
                                "shutting", "gone"}]
    /\ queued \in [Request -> Bridge!Operation \cup {None}]
    /\ running \in [Request -> Bridge!Operation \cup {None}]
    /\ connected \in [Request -> BOOLEAN]
    /\ unclosed \in [Request -> BOOLEAN]

\* Where the thread of a request can be, by the place of its handler.
ThreadFollows(r) ==
    /\ shutting = r => bridgePc[r] = "shutting"
    /\ bridgePc[r] \in {"idle", "handling"} => Bridge!ThreadIdle(r)
    /\ bridgePc[r] \in {"idle", "entering"} =>
          /\ {queued[r], running[r]} \subseteq {None, "open"}
          /\ ~connected[r]
    /\ bridgePc[r] = "closing" =>
          \/ queued[r] = "close"
          \/ (queued[r] = None /\ running[r] = "close")
          \/ (Bridge!ThreadIdle(r) /\ ~connected[r])
    /\ bridgePc[r] = "shutting" =>
          /\ queued[r] = None
          /\ unclosed[r] \/ running[r] = "close" \/ (running[r] = None /\ ~connected[r])
    /\ bridgePc[r] = "gone" =>
          /\ queued[r] = None /\ running[r] \in {None, "open"}
          /\ connected[r] => unclosed[r]

BridgeInv == BridgeTypeOK /\ \A r \in Request : ThreadFollows(r)

\* A step of one request, its handler's or its thread's.
BridgeStep(r) ==
    \/ Bridge!Enter(r) \/ Bridge!Operate(r) \/ Bridge!Resume(r) \/ Bridge!Leave(r)
    \/ Bridge!Shutdown(r) \/ Bridge!CancelEnter(r) \/ Bridge!CancelOperation(r)
    \/ Bridge!CancelClose(r) \/ Bridge!ShutdownEnds(r) \/ Bridge!Collect(r)
    \/ Bridge!Begin(r) \/ Bridge!RunStatement(r) \/ Bridge!EndTransaction(r)
    \/ Bridge!OpenSession(r) \/ Bridge!StatementFails(r)

LEMMA BridgeInvInit == Bridge!Init => BridgeInv
  BY OperationAssumption
     DEF Bridge!Init, BridgeInv, BridgeTypeOK, ThreadFollows, Bridge!ThreadIdle

LEMMA BridgeTypesStep ==
    ASSUME BridgeInv, NEW r \in Request, BridgeStep(r)
    PROVE  BridgeTypeOK'
  <1> USE DEF BridgeInv, BridgeTypeOK, Bridge!Operation, Bridge!MoveTo, Bridge!handlerVars,
              Bridge!threadVars
  <1>1. CASE Bridge!Enter(r)
    BY <1>1 DEF Bridge!Enter, Bridge!Submit
  <1>2. CASE Bridge!Operate(r)
    BY <1>2 DEF Bridge!Operate, Bridge!Submit
  <1>3. CASE Bridge!Resume(r)
    BY <1>3 DEF Bridge!Resume
  <1>4. CASE Bridge!Leave(r)
    BY <1>4 DEF Bridge!Leave, Bridge!Submit
  <1>5. CASE Bridge!Shutdown(r)
    BY <1>5 DEF Bridge!Shutdown
  <1>6. CASE Bridge!CancelEnter(r)
    BY <1>6 DEF Bridge!CancelEnter
  <1>7. CASE Bridge!CancelOperation(r)
    BY <1>7 DEF Bridge!CancelOperation, Bridge!Submit
  <1>8. CASE Bridge!CancelClose(r)
    BY <1>8 DEF Bridge!CancelClose
  <1>9. CASE Bridge!ShutdownEnds(r)
    BY <1>9 DEF Bridge!ShutdownEnds, Bridge!ThreadDone
  <1>10. CASE Bridge!Collect(r)
    BY <1>10 DEF Bridge!Collect
  <1>11. CASE Bridge!Begin(r)
    BY <1>11 DEF Bridge!Begin
  <1>12. CASE Bridge!RunStatement(r)
    BY <1>12 DEF Bridge!RunStatement, Bridge!Finish
  <1>13. CASE Bridge!EndTransaction(r)
    BY <1>13 DEF Bridge!EndTransaction, Bridge!Finish
  <1>14. CASE Bridge!OpenSession(r)
    BY <1>14 DEF Bridge!OpenSession, Bridge!Finish
  <1>15. CASE Bridge!StatementFails(r)
    BY <1>15 DEF Bridge!StatementFails, Bridge!Finish
  <1>16. QED
    BY <1>1, <1>2, <1>3, <1>4, <1>5, <1>6, <1>7, <1>8, <1>9, <1>10, <1>11, <1>12,
       <1>13, <1>14, <1>15 DEF BridgeStep

\* Where the request that moves gets to.
LEMMA ThreadFollowsStep ==
    ASSUME BridgeInv, NEW r \in Request, BridgeStep(r)
    PROVE  ThreadFollows(r)'
  <1> USE OperationAssumption
      DEF BridgeInv, BridgeTypeOK, ThreadFollows, Bridge!ThreadIdle, Bridge!MoveTo,
          Bridge!handlerVars, Bridge!threadVars
  <1>1. CASE Bridge!Enter(r)
    BY <1>1 DEF Bridge!Enter, Bridge!Submit
  <1>2. CASE Bridge!Operate(r)
    BY <1>2 DEF Bridge!Operate, Bridge!Submit
  <1>3. CASE Bridge!Resume(r)
    BY <1>3 DEF Bridge!Resume
  <1>4. CASE Bridge!Leave(r)
    BY <1>4 DEF Bridge!Leave, Bridge!Submit
  <1>5. CASE Bridge!Shutdown(r)
    BY <1>5 DEF Bridge!Shutdown
  <1>6. CASE Bridge!CancelEnter(r)
    BY <1>6 DEF Bridge!CancelEnter
  <1>7. CASE Bridge!CancelOperation(r)
    BY <1>7 DEF Bridge!CancelOperation, Bridge!Submit
  <1>8. CASE Bridge!CancelClose(r)
    BY <1>8 DEF Bridge!CancelClose
  <1>9. CASE Bridge!ShutdownEnds(r)
    BY <1>9 DEF Bridge!ShutdownEnds, Bridge!ThreadDone
  <1>10. CASE Bridge!Collect(r)
    BY <1>10 DEF Bridge!Collect
  <1>11. CASE Bridge!Begin(r)
    BY <1>11 DEF Bridge!Begin
  <1>12. CASE Bridge!RunStatement(r)
    BY <1>12 DEF Bridge!RunStatement, Bridge!Finish
  <1>13. CASE Bridge!EndTransaction(r)
    BY <1>13 DEF Bridge!EndTransaction, Bridge!Finish
  <1>14. CASE Bridge!OpenSession(r)
    BY <1>14 DEF Bridge!OpenSession, Bridge!Finish
  <1>15. CASE Bridge!StatementFails(r)
    BY <1>15 DEF Bridge!StatementFails, Bridge!Finish
  <1>16. QED
    BY <1>1, <1>2, <1>3, <1>4, <1>5, <1>6, <1>7, <1>8, <1>9, <1>10, <1>11, <1>12,
       <1>13, <1>14, <1>15 DEF BridgeStep

\* A step of one request changes nothing of another, nor makes it shut down.
LEMMA OthersThreadsStep ==
    ASSUME BridgeInv, NEW r \in Request, BridgeStep(r), NEW q \in Request \ {r}
    PROVE  ThreadFollows(q)'
  <1>1. /\ bridgePc'[q] = bridgePc[q] /\ queued'[q] = queued[q]
        /\ running'[q] = running[q]
        /\ connected'[q] = connected[q] /\ unclosed'[q] = unclosed[q]
        /\ shutting' = q => shutting = q
    <2> USE OperationAssumption
        DEF BridgeInv, BridgeTypeOK, Bridge!MoveTo, Bridge!handlerVars, Bridge!threadVars
    <2>1. CASE Bridge!Enter(r)
      BY <2>1 DEF Bridge!Enter, Bridge!Submit
    <2>2. CASE Bridge!Operate(r)
      BY <2>2 DEF Bridge!Operate, Bridge!Submit
    <2>3. CASE Bridge!Resume(r)
      BY <2>3 DEF Bridge!Resume
    <2>4. CASE Bridge!Leave(r)
      BY <2>4 DEF Bridge!Leave, Bridge!Submit
    <2>5. CASE Bridge!Shutdown(r)
      BY <2>5 DEF Bridge!Shutdown
    <2>6. CASE Bridge!CancelEnter(r)
      BY <2>6 DEF Bridge!CancelEnter
    <2>7. CASE Bridge!CancelOperation(r)
      BY <2>7 DEF Bridge!CancelOperation, Bridge!Submit
    <2>8. CASE Bridge!CancelClose(r)
      BY <2>8 DEF Bridge!CancelClose
    <2>9. CASE Bridge!ShutdownEnds(r)
      BY <2>9 DEF Bridge!ShutdownEnds, Bridge!ThreadDone
    <2>10. CASE Bridge!Collect(r)
      BY <2>10 DEF Bridge!Collect
    <2>11. CASE Bridge!Begin(r)
      BY <2>11 DEF Bridge!Begin
    <2>12. CASE Bridge!RunStatement(r)
      BY <2>12 DEF Bridge!RunStatement, Bridge!Finish
    <2>13. CASE Bridge!EndTransaction(r)
      BY <2>13 DEF Bridge!EndTransaction, Bridge!Finish
    <2>14. CASE Bridge!OpenSession(r)
      BY <2>14 DEF Bridge!OpenSession, Bridge!Finish
    <2>15. CASE Bridge!StatementFails(r)
      BY <2>15 DEF Bridge!StatementFails, Bridge!Finish
    <2>16. QED
      BY <2>1, <2>2, <2>3, <2>4, <2>5, <2>6, <2>7, <2>8, <2>9, <2>10, <2>11, <2>12,
       <2>13, <2>14, <2>15 DEF BridgeStep
  <1>2. QED
    BY <1>1 DEF BridgeInv, ThreadFollows, Bridge!ThreadIdle

LEMMA BridgeInvariance == Bridge!Spec => []BridgeInv
  <1>1. BridgeInv /\ Bridge!Next => BridgeInv'
    <2> SUFFICES ASSUME BridgeInv, NEW r \in Request, BridgeStep(r) PROVE BridgeInv'
      BY DEF Bridge!Next, BridgeStep
    <2>1. BridgeTypeOK'
      BY BridgeTypesStep
    <2>2. \A q \in Request : ThreadFollows(q)'
      BY ThreadFollowsStep, OthersThreadsStep
    <2>3. QED
      BY <2>1, <2>2 DEF BridgeInv
  <1>2. BridgeInv /\ UNCHANGED Bridge!vars => BridgeInv'
    BY DEF Bridge!vars, Bridge!handlerVars, Bridge!threadVars, BridgeInv, BridgeTypeOK,
           ThreadFollows, Bridge!ThreadIdle
  <1>3. QED
    BY <1>1, <1>2, BridgeInvInit, PTL DEF Bridge!Spec

\* Wherever a request was cancelled, once it has ended nothing of it touches the
\* database, and only a close that never began leaves its connection taken.
THEOREM SessionEndsWithRequestHolds == Bridge!Spec => []SessionEndsWithRequest
  <1>1. BridgeInv => SessionEndsWithRequest
    BY DEF BridgeInv, ThreadFollows, SessionEndsWithRequest, Bridge!SessionEndsWithRequest
  <1>2. QED
    BY <1>1, BridgeInvariance, PTL

---------------------------------------------------------------------------
(* E-mail. *)

\* Only a service with a fallback counts failures, and no message is on its way
\* before there is a service.
SendInv ==
    /\ failures \in Nat
    /\ service \in {"none", "plain", "failover"}
    /\ service = "none" => \A m \in Message : sendPc[m] = "idle"
    /\ service # "failover" => failures = 0
    /\ sendPc \in [Message -> {"idle", "primary", "fallback"}]

LEMMA LimitPositive == Send!Limit \in Nat \ {0}
  BY ThresholdAssumption DEF Send!Limit

LEMMA SendInvInit == Send!Init => SendInv
  BY DEF Send!Init, SendInv

LEMMA SendInvStep == ASSUME SendInv, Send!Next PROVE SendInv'
  <1> USE DEF SendInv, Send!MoveTo, Send!settingsVars
  <1>1. CASE Send!GetEmailService
    BY <1>1 DEF Send!GetEmailService
  <1>2. ASSUME NEW m \in Message, Send!StartSend(m) PROVE SendInv'
    BY <1>2 DEF Send!StartSend
  <1>3. ASSUME NEW m \in Message, Send!PrimarySends(m) PROVE SendInv'
    BY <1>3 DEF Send!PrimarySends
  <1>4. ASSUME NEW m \in Message, Send!PrimaryFails(m), service = "plain" PROVE SendInv'
    BY <1>4 DEF Send!PrimaryFails
  <1>5. ASSUME NEW m \in Message, Send!PrimaryFails(m), service # "plain" PROVE SendInv'
    BY <1>5 DEF Send!PrimaryFails
  <1>6. ASSUME NEW m \in Message, Send!FallbackEnds(m) PROVE SendInv'
    BY <1>6 DEF Send!FallbackEnds
  <1>7. QED
    BY <1>1, <1>2, <1>3, <1>4, <1>5, <1>6 DEF Send!Next

LEMMA SendInvariance == Send!Spec => []SendInv
  <1>1. SendInv /\ UNCHANGED Send!vars => SendInv'
    BY DEF Send!vars, SendInv
  <1>2. QED
    BY <1>1, SendInvInit, SendInvStep, PTL DEF Send!Spec

\* The sends that have read the breaker and not yet heard from the primary.
AtPrimary == {m \in Message : sendPc[m] = "primary"}

\* EmailFailover counts as this module does.
LEMMA SendCounts == \A S : Send!Cardinality(S) = Cardinality(S)
  BY DEF Send!Cardinality, Cardinality

\* Those sends are what the counter may still pass the threshold by.
FailuresLeft ==
    service = "failover" =>
        failures + Cardinality(AtPrimary) < Send!Limit + Cardinality(Message)

LEMMA AtPrimaryFinite ==
    /\ IsFiniteSet(AtPrimary) /\ Cardinality(AtPrimary) \in Nat
    /\ Cardinality(AtPrimary) <= Cardinality(Message) /\ Cardinality(Message) \in Nat
  BY MessageAssumption, FS_Subset, FS_CardinalityType DEF AtPrimary

\* One send leaves the primary, and no other moves.
LEMMA LeavePrimary ==
    ASSUME SendInv, NEW m \in Message, sendPc[m] = "primary",
           NEW place \in {"idle", "fallback"}, Send!MoveTo(m, place)
    PROVE  /\ Cardinality(AtPrimary') = Cardinality(AtPrimary) - 1
           /\ Cardinality(AtPrimary') \in Nat
           /\ Cardinality(AtPrimary') < Cardinality(Message)
  <1>1. AtPrimary' = AtPrimary \ {m} /\ m \in AtPrimary
    BY DEF AtPrimary, SendInv, Send!MoveTo
  <1>2. Cardinality(AtPrimary \ {m}) = Cardinality(AtPrimary) - 1
    BY <1>1, AtPrimaryFinite, FS_RemoveElement
  <1>3. Cardinality(AtPrimary \ {m}) \in Nat
    BY AtPrimaryFinite, FS_RemoveElement, FS_CardinalityType
  <1>4. QED
    BY <1>1, <1>2, <1>3, AtPrimaryFinite

LEMMA FailuresLeftStep ==
    ASSUME SendInv, FailuresLeft, Send!Next PROVE FailuresLeft'
  <1> USE DEF SendInv, FailuresLeft, Send!settingsVars
  <1> DEFINE N == Cardinality(Message)
             C == Cardinality(AtPrimary)
             L == Send!Limit
  <1>0. L \in Nat \ {0} /\ L' = L /\ C \in Nat /\ N \in Nat /\ C <= N /\ N' = N
    BY LimitPositive, AtPrimaryFinite DEF Send!Limit
  <1>1. CASE Send!GetEmailService
    <2>1. service = "none" /\ failures' = 0 /\ sendPc' = sendPc
      BY <1>1 DEF Send!GetEmailService
    <2>2. AtPrimary' = {}
      BY <2>1 DEF AtPrimary
    <2>3. Cardinality(AtPrimary') = 0
      BY <2>2, FS_EmptySet
    <2>4. QED
      BY <1>0, <2>1, <2>3
  <1>2. ASSUME NEW m \in Message, Send!StartSend(m) PROVE FailuresLeft'
    <2>1. failures' = failures /\ service' = service
      BY <1>2 DEF Send!StartSend
    <2>2. CASE service = "plain" \/ Send!TriesPrimary
      <3>1. service = "failover" => failures < L
        BY <1>0, <2>2 DEF Send!TriesPrimary, Send!Open
      <3>2. Cardinality(AtPrimary') \in Nat /\ Cardinality(AtPrimary') <= N
        <4>1. AtPrimary' \subseteq Message
          BY DEF AtPrimary
        <4>2. QED
          BY <4>1, MessageAssumption, FS_Subset, FS_CardinalityType
      <3>3. QED
        BY <1>0, <2>1, <3>1, <3>2
    <2>3. CASE ~(service = "plain" \/ Send!TriesPrimary)
      <3>1. sendPc[m] = "idle" /\ sendPc' = [sendPc EXCEPT ![m] = "fallback"]
        BY <1>2, <2>3 DEF Send!StartSend, Send!MoveTo
      <3>2. AtPrimary' = AtPrimary
        BY <3>1 DEF AtPrimary
      <3>3. QED
        BY <1>0, <2>1, <3>2
    <2>4. QED
      BY <2>2, <2>3
  <1>3. ASSUME NEW m \in Message, Send!PrimarySends(m) PROVE FailuresLeft'
    <2>1. /\ Cardinality(AtPrimary') \in Nat /\ Cardinality(AtPrimary') < N
          /\ failures' = 0
      BY <1>3, LeavePrimary DEF Send!PrimarySends
    <2>2. QED
      BY <1>0, <2>1
  <1>4. ASSUME NEW m \in Message, Send!PrimaryFails(m) PROVE FailuresLeft'
    <2>1. CASE service = "plain"
      BY <1>4, <2>1 DEF Send!PrimaryFails
    <2>2. CASE service # "plain"
      <3>1. /\ Send!MoveTo(m, "fallback") /\ failures' = failures + 1
            /\ sendPc[m] = "primary" /\ service' = service
        BY <1>4, <2>2 DEF Send!PrimaryFails
      <3>2. Cardinality(AtPrimary') = C - 1
        BY <3>1, LeavePrimary
      <3>3. QED
        BY <1>0, <3>1, <3>2
    <2>3. QED
      BY <2>1, <2>2
  <1>5. ASSUME NEW m \in Message, Send!FallbackEnds(m) PROVE FailuresLeft'
    <2>1. /\ sendPc[m] = "fallback" /\ sendPc' = [sendPc EXCEPT ![m] = "idle"]
          /\ failures' = failures /\ service' = service
      BY <1>5 DEF Send!FallbackEnds, Send!MoveTo
    <2>2. AtPrimary' = AtPrimary
      BY <2>1 DEF AtPrimary
    <2>3. QED
      BY <1>0, <2>1, <2>2
  <1>6. QED
    BY <1>1, <1>2, <1>3, <1>4, <1>5 DEF Send!Next

\* However many sends overlap, the failures in a row pass the threshold by no more
\* than the sends that read the breaker while it was closed.
THEOREM FailuresBoundedHolds == Send!Spec => []FailuresBounded
  <1>1. Send!Init => FailuresLeft
    BY DEF Send!Init, FailuresLeft
  <1>2. SendInv /\ FailuresLeft /\ [Send!Next]_Send!vars => FailuresLeft'
    <2>1. SendInv /\ FailuresLeft /\ UNCHANGED Send!vars => FailuresLeft'
      BY DEF Send!vars, Send!settingsVars, FailuresLeft, AtPrimary, Send!Limit
    <2>2. QED
      BY <2>1, FailuresLeftStep
  <1>3. SendInv /\ FailuresLeft => FailuresBounded
    <2> SUFFICES ASSUME SendInv, FailuresLeft
                 PROVE  failures < Send!Limit + Cardinality(Message)
      BY SendCounts DEF FailuresBounded, Send!FailuresBounded
    <2>1. /\ Send!Limit \in Nat \ {0} /\ failures \in Nat
          /\ Cardinality(Message) \in Nat /\ Cardinality(AtPrimary) \in Nat
      BY LimitPositive, AtPrimaryFinite DEF SendInv
    <2>2. CASE service = "failover"
      BY <2>1, <2>2 DEF FailuresLeft
    <2>3. CASE service # "failover"
      BY <2>1, <2>3 DEF SendInv
    <2>4. QED
      BY <2>2, <2>3
  <1>4. QED
    BY <1>1, <1>2, <1>3, SendInvariance, PTL DEF Send!Spec

---------------------------------------------------------------------------
(* The parts in MCServices. *)

\* What a part does in the run, it does under its own specification: each theorem
\* above, and each about CrlPublication, holds of MCServices.
THEOREM ServicesRunRequests ==
    Spec => CrlSpec /\ Cat!Spec /\ Bridge!Spec /\ Send!Spec
  <1>1. Init => CrlInit /\ Cat!Init /\ Bridge!Init /\ Send!Init
    BY DEF Init
  <1>2. [Next]_vars => [CrlNext]_crlVars
    BY DEF Next, vars
  <1>3. [Next]_vars => [Cat!Next]_Cat!vars
    BY DEF Next, vars, Cat!vars, catState
  <1>4. [Next]_vars => [Bridge!Next]_Bridge!vars
    BY DEF Next, vars, Bridge!vars, Bridge!handlerVars, Bridge!threadVars, bridgeState
  <1>5. [Next]_vars => [Send!Next]_Send!vars
    BY DEF Next, vars, Send!vars, Send!settingsVars, sendState
  <1>6. QED
    BY <1>1, <1>2, <1>3, <1>4, <1>5, PTL
       DEF Spec, CrlSpec, Cat!Spec, Bridge!Spec, Send!Spec

=============================================================================
