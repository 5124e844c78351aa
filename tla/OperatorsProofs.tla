-------------------------- MODULE OperatorsProofs --------------------------
(***************************************************************************)
(* Theorems about the modules of the operators: TwoFactor, LoginGuard,      *)
(* OperatorEmails, Accounts and OperatorSessions, each of which MCServices  *)
(* instantiates over variables of its own.                                  *)
(***************************************************************************)
EXTENDS MCServices, TLAPS, FiniteSetTheorems

\* The instances count as this module does.
LEMMA SameCardinality ==
    \A S : /\ Log!Cardinality(S) = Cardinality(S)
          /\ Mail!Cardinality(S) = Cardinality(S)
          /\ Acc!Cardinality(S) = Cardinality(S)
  BY DEF Log!Cardinality, Mail!Cardinality, Acc!Cardinality, Cardinality

---------------------------------------------------------------------------
(* Second factor. *)

FactorTypeOK ==
    /\ secret \in Secret \cup {None}
    /\ enabled \in BOOLEAN
    /\ shown \subseteq Secret
    /\ verifyPc \in [Request -> {"idle", "read"}]
    /\ read \in [Request -> Secret \cup {None}]
    /\ code \in [Request -> Secret \cup {None}]
    /\ proved \subseteq Secret
    /\ replaced \in BOOLEAN

\* Until a setup replaces a secret under verification, the stored one is the one
\* that every verification has read and that was proved.
SecretStays ==
    ~replaced =>
        /\ enabled => secret \in proved
        /\ \A r \in Request : verifyPc[r] = "read" => read[r] = secret /\ code[r] \in Secret

FactorInv == FactorTypeOK /\ SecretStays

LEMMA FactorInvInit == Factor!Init => FactorInv
  BY DEF Factor!Init, FactorInv, FactorTypeOK, SecretStays

LEMMA FactorInvStep == FactorInv /\ [Factor!Next]_Factor!vars => FactorInv'
  <1> SUFFICES ASSUME FactorInv, [Factor!Next]_Factor!vars PROVE FactorInv'
    OBVIOUS
  <1> USE DEF FactorInv, FactorTypeOK, SecretStays
  <1>1. ASSUME NEW s \in Secret, Factor!Setup(s) PROVE FactorInv'
    BY <1>1 DEF Factor!Setup, Factor!requestVars
  <1>2. ASSUME NEW r \in Request, NEW c \in Secret, Factor!ReadUser(r, c)
        PROVE  FactorInv'
    BY <1>2 DEF Factor!ReadUser, Factor!userVars, Factor!historyVars
  <1>3. ASSUME NEW r \in Request, Factor!CommitVerify(r) PROVE FactorInv'
    <2> USE DEF Factor!CommitVerify, Factor!Leave
    <2>1. /\ verifyPc[r] = "read" /\ verifyPc' = [verifyPc EXCEPT ![r] = "idle"]
          /\ read' = [read EXCEPT ![r] = None] /\ code' = [code EXCEPT ![r] = None]
          /\ UNCHANGED <<secret, shown, replaced>>
      BY <1>3
    <2>2. CASE Factor!CodeTaken(r)
      <3>1. /\ enabled' = TRUE /\ proved' = proved \cup {code[r]}
            /\ code[r] \in Secret /\ code[r] = read[r]
        BY <1>3, <2>2 DEF Factor!CodeTaken
      <3>2. QED
        BY <2>1, <3>1
    <2>3. CASE ~Factor!CodeTaken(r)
      <3>1. enabled' = enabled /\ proved' = proved
        BY <1>3, <2>3
      <3>2. QED
        BY <2>1, <3>1
    <2>4. QED
      BY <2>2, <2>3
  <1>4. CASE UNCHANGED Factor!vars
    BY <1>4 DEF Factor!vars, Factor!userVars, Factor!requestVars, Factor!historyVars
  <1>5. QED
    BY <1>1, <1>2, <1>3, <1>4 DEF Factor!Next

\* A login asks for a secret that the operator has shown to hold, unless a setup
\* replaced it while its verification was under way or after it.
THEOREM LoginAsksForProvedSecretHolds == Factor!Spec => []LoginAsksForProvedSecret
  <1>1. FactorInv => LoginAsksForProvedSecret
    BY DEF FactorInv, FactorTypeOK, SecretStays, LoginAsksForProvedSecret,
           Factor!LoginAsksForProvedSecret, Factor!LoginTakes
  <1>2. QED
    BY <1>1, FactorInvInit, FactorInvStep, PTL DEF Factor!Spec

---------------------------------------------------------------------------
(* Lockout. *)

LoginTypeOK ==
    /\ fails \in Nat /\ guesses \in Nat /\ crashes \in Nat
    /\ timed \in BOOLEAN /\ locked \in BOOLEAN
    /\ logPc \in [Attempt -> {"idle", "passed", "failed", "counted", "timed"}]
    /\ count \in [Attempt -> Nat]

\* Past the lock check, password not yet decided.
Passed == {a \in Attempt : logPc[a] = "passed"}

\* Wrong, and the counter does not show it yet, or the lock it calls for is not set.
Unanswered ==
    {a \in Attempt :
        \/ logPc[a] = "failed"
        \/ logPc[a] \in {"counted", "timed"} /\ count[a] >= Threshold}

\* While the address is open a guess is in the counter, below the threshold, or
\* unanswered, or its record died; once it is locked each attempt past the
\* check has one guess left.
GuessesAccounted ==
    /\ ~locked =>
          /\ guesses <= fails + Cardinality(Unanswered) + crashes
          /\ guesses <= Threshold - 1 + Cardinality(Unanswered) + crashes
    /\ locked => guesses + Cardinality(Passed) <= Threshold - 1 + Cardinality(Attempt) + crashes

LoginInv == LoginTypeOK /\ GuessesAccounted

\* Counting attempts.
LEMMA AttemptSets ==
    ASSUME NEW S \in SUBSET Attempt, NEW a \in Attempt
    PROVE  /\ Cardinality(S) \in Nat /\ Cardinality(S) <= Cardinality(Attempt)
           /\ Cardinality(Attempt) \in Nat
           /\ a \notin S => Cardinality(S \cup {a}) = Cardinality(S) + 1
           /\ a \in S => Cardinality(S \ {a}) = Cardinality(S) - 1
           /\ a \notin S => S \ {a} = S
  <1>1. IsFiniteSet(S) /\ Cardinality(S) <= Cardinality(Attempt)
    BY AttemptAssumption, FS_Subset
  <1>2. Cardinality(S) \in Nat /\ Cardinality(Attempt) \in Nat
    BY <1>1, AttemptAssumption, FS_CardinalityType
  <1>3. a \notin S => Cardinality(S \cup {a}) = Cardinality(S) + 1
    BY <1>1, FS_AddElement
  <1>4. a \in S => Cardinality(S \ {a}) = Cardinality(S) - 1
    BY <1>1, FS_RemoveElement
  <1>5. QED
    BY <1>1, <1>2, <1>3, <1>4

\* Two sets of attempts that have none in common.
LEMMA DisjointAttempts ==
    ASSUME NEW P \in SUBSET Attempt, NEW Q \in SUBSET Attempt, P \cap Q = {}
    PROVE  /\ Cardinality(P) \in Nat /\ Cardinality(Q) \in Nat /\ Cardinality(Attempt) \in Nat
           /\ Cardinality(P) + Cardinality(Q) <= Cardinality(Attempt)
  <1>1. IsFiniteSet(P) /\ IsFiniteSet(Q)
    BY AttemptAssumption, FS_Subset
  <1>2. Cardinality(P \cup Q) = Cardinality(P) + Cardinality(Q) - Cardinality(P \cap Q)
    BY <1>1, FS_Union
  <1>3. Cardinality(P \cup Q) <= Cardinality(Attempt)
    BY AttemptAssumption, FS_Subset
  <1>4. Cardinality(P) \in Nat /\ Cardinality(Q) \in Nat /\ Cardinality(Attempt) \in Nat
    BY <1>1, AttemptAssumption, FS_CardinalityType
  <1>5. Cardinality(P \cap Q) = 0
    BY FS_EmptySet
  <1>6. QED
    BY <1>2, <1>3, <1>4, <1>5

\* No attempt is both past the check and unanswered.
LEMMA PassedOrUnanswered ==
    /\ Cardinality(Passed) \in Nat /\ Cardinality(Unanswered) \in Nat
    /\ Cardinality(Attempt) \in Nat
    /\ Cardinality(Passed) + Cardinality(Unanswered) <= Cardinality(Attempt)
  <1>1. Passed \in SUBSET Attempt /\ Unanswered \in SUBSET Attempt /\ Passed \cap Unanswered = {}
    BY DEF Passed, Unanswered
  <1>2. QED
    BY <1>1, DisjointAttempts

LEMMA LoginInvInit == Log!Init => LoginInv
  <1> SUFFICES ASSUME Log!Init PROVE LoginInv
    OBVIOUS
  <1>1. LoginTypeOK
    BY DEF Log!Init, LoginTypeOK
  <1>2. fails = 0 /\ guesses = 0 /\ crashes = 0 /\ ~locked
    BY DEF Log!Init
  <1>3. GuessesAccounted
    BY <1>2, PassedOrUnanswered, ThresholdAssumption DEF GuessesAccounted
  <1>4. QED
    BY <1>1, <1>3 DEF LoginInv

\* Every step keeps the types.
LEMMA LoginTypesStep == LoginTypeOK /\ [Log!Next]_Log!vars => LoginTypeOK'
  <1> SUFFICES ASSUME LoginTypeOK, [Log!Next]_Log!vars PROVE LoginTypeOK'
    OBVIOUS
  <1> USE DEF LoginTypeOK, Log!Leave
  <1>1. ASSUME NEW a \in Attempt, Log!AssertNotLocked(a) \/ Log!WrongPassword(a)
        PROVE  LoginTypeOK'
    BY <1>1 DEF Log!AssertNotLocked, Log!WrongPassword
  <1>2. ASSUME NEW a \in Attempt, Log!Undecided(a) \/ Log!RightPassword(a) \/ Log!Crash(a)
        PROVE  LoginTypeOK'
    <2>1. CASE Log!Undecided(a)
      BY <2>1 DEF Log!Undecided
    <2>2. CASE Log!RightPassword(a)
      BY <2>2 DEF Log!RightPassword
    <2>3. CASE Log!Crash(a)
      BY <2>3 DEF Log!Crash
    <2>4. QED
      BY <1>2, <2>1, <2>2, <2>3
  <1>3. ASSUME NEW a \in Attempt,
               Log!CountFailure(a) \/ Log!ExpireCounter(a) \/ Log!LockAddress(a)
        PROVE  LoginTypeOK'
    <2>1. CASE Log!CountFailure(a)
      BY <2>1 DEF Log!CountFailure
    <2>2. CASE Log!ExpireCounter(a)
      <3>1. timed' \in BOOLEAN
        BY <2>2 DEF Log!ExpireCounter
      <3>2. QED
        BY <2>2, <3>1 DEF Log!ExpireCounter
    <2>3. CASE Log!LockAddress(a)
      <3>1. locked' \in BOOLEAN
        BY <2>3 DEF Log!LockAddress
      <3>2. QED
        BY <2>3, <3>1 DEF Log!LockAddress
    <2>4. QED
      BY <1>3, <2>1, <2>2, <2>3
  <1>4. CASE Log!CounterExpires \/ Log!LockExpires
    <2>1. CASE Log!CounterExpires
      BY <2>1 DEF Log!CounterExpires
    <2>2. CASE Log!LockExpires
      BY <2>2 DEF Log!LockExpires
    <2>3. QED
      BY <1>4, <2>1, <2>2
  <1>5. CASE UNCHANGED Log!vars
    BY <1>5 DEF Log!vars
  <1>6. QED
    BY <1>1, <1>2, <1>3, <1>4, <1>5 DEF Log!Next

\* A guess that is forgotten leaves room for those under way.
LEMMA NoGuesses ==
    ASSUME LoginTypeOK', guesses' = 0
    PROVE  GuessesAccounted'
  <1>1. /\ Cardinality(Passed)' \in Nat /\ Cardinality(Unanswered)' \in Nat
        /\ Cardinality(Attempt) \in Nat
        /\ Cardinality(Passed)' + Cardinality(Unanswered)' <= Cardinality(Attempt)
    <2>1. /\ Passed' \in SUBSET Attempt /\ Unanswered' \in SUBSET Attempt
          /\ Passed' \cap Unanswered' = {}
      BY DEF Passed, Unanswered
    <2>2. QED
      BY <2>1, DisjointAttempts
  <1>2. QED
    BY <1>1, ThresholdAssumption DEF GuessesAccounted, LoginTypeOK

LEMMA GuessesStep == LoginInv /\ LoginTypeOK' /\ [Log!Next]_Log!vars => GuessesAccounted'
  <1> SUFFICES ASSUME LoginInv, LoginTypeOK', [Log!Next]_Log!vars PROVE GuessesAccounted'
    OBVIOUS
  <1> USE ThresholdAssumption, PassedOrUnanswered DEF LoginInv, LoginTypeOK
  <1>1. ASSUME NEW a \in Attempt, Log!AssertNotLocked(a) PROVE GuessesAccounted'
    <2>1. ~locked' /\ Unanswered' = Unanswered /\ UNCHANGED <<fails, guesses, crashes, locked>>
      BY <1>1 DEF Log!AssertNotLocked, Unanswered
    <2>2. QED
      BY <2>1 DEF GuessesAccounted
  <1>2. ASSUME NEW a \in Attempt, Log!WrongPassword(a) PROVE GuessesAccounted'
    <2>1. /\ Passed' = Passed \ {a} /\ a \in Passed
          /\ Unanswered' = Unanswered \cup {a} /\ a \notin Unanswered
          /\ guesses' = guesses + 1 /\ UNCHANGED <<fails, crashes, locked>>
      BY <1>2 DEF Log!WrongPassword, Passed, Unanswered
    <2>2. /\ Cardinality(Passed') = Cardinality(Passed) - 1
          /\ Cardinality(Unanswered') = Cardinality(Unanswered) + 1
      BY <2>1, AttemptSets DEF Passed, Unanswered
    <2>3. QED
      BY <2>1, <2>2 DEF GuessesAccounted
  <1>3. ASSUME NEW a \in Attempt, Log!Undecided(a) PROVE GuessesAccounted'
    <2>1. /\ Passed' = Passed \ {a} /\ a \in Passed /\ Unanswered' = Unanswered
          /\ UNCHANGED <<fails, guesses, crashes, locked>>
      BY <1>3 DEF Log!Undecided, Log!Leave, Passed, Unanswered
    <2>2. Cardinality(Passed') = Cardinality(Passed) - 1
      BY <2>1, AttemptSets DEF Passed
    <2>3. QED
      BY <2>1, <2>2 DEF GuessesAccounted
  <1>4. CASE (\E a \in Attempt : Log!RightPassword(a)) \/ Log!CounterExpires \/ Log!LockExpires
    BY <1>4, NoGuesses DEF Log!RightPassword, Log!CounterExpires, Log!LockExpires
  <1>5. ASSUME NEW a \in Attempt, Log!CountFailure(a) PROVE GuessesAccounted'
    <2>1. /\ Passed' = Passed
          /\ fails' = fails + 1 /\ UNCHANGED <<guesses, crashes, locked>>
      BY <1>5 DEF Log!CountFailure, Passed
    <2>2. CASE fails + 1 >= Threshold
      <3>1. Unanswered' = Unanswered
        BY <1>5, <2>2 DEF Log!CountFailure, Unanswered
      <3>2. QED
        BY <2>1, <3>1 DEF GuessesAccounted
    <2>3. CASE ~(fails + 1 >= Threshold)
      <3>1. Unanswered' = Unanswered \ {a} /\ a \in Unanswered
        BY <1>5, <2>3 DEF Log!CountFailure, Unanswered
      <3>2. Cardinality(Unanswered') = Cardinality(Unanswered) - 1
        BY <3>1, AttemptSets DEF Unanswered
      <3>3. QED
        BY <2>1, <2>3, <3>1, <3>2 DEF GuessesAccounted
    <2>4. QED
      BY <2>2, <2>3
  <1>6. ASSUME NEW a \in Attempt, Log!ExpireCounter(a) PROVE GuessesAccounted'
    <2>1. /\ Passed' = Passed /\ Unanswered' = Unanswered
          /\ UNCHANGED <<fails, guesses, crashes, locked>>
      BY <1>6 DEF Log!ExpireCounter, Passed, Unanswered
    <2>2. QED
      BY <2>1 DEF GuessesAccounted
  <1>7. ASSUME NEW a \in Attempt, Log!LockAddress(a) PROVE GuessesAccounted'
    <2>1. Passed' = Passed /\ UNCHANGED <<fails, guesses, crashes>>
      BY <1>7 DEF Log!LockAddress, Log!Leave, Passed
    <2>2. CASE locked \/ count[a] >= Threshold
      <3>1. locked'
        BY <1>7, <2>2 DEF Log!LockAddress, Log!Reaches
      <3>2. QED
        BY <2>1, <2>2, <3>1 DEF GuessesAccounted
    <2>3. CASE ~locked /\ ~(count[a] >= Threshold)
      <3>1. ~locked' /\ Unanswered' = Unanswered
        BY <1>7, <2>3 DEF Log!LockAddress, Log!Reaches, Log!Leave, Unanswered
      <3>2. QED
        BY <2>1, <2>3, <3>1 DEF GuessesAccounted
    <2>4. QED
      BY <2>2, <2>3
  <1>8. ASSUME NEW a \in Attempt, Log!Crash(a) PROVE GuessesAccounted'
    <2>1. /\ Passed' = Passed /\ Unanswered' = Unanswered \ {a}
          /\ crashes' = crashes + 1 /\ UNCHANGED <<fails, guesses, locked>>
      BY <1>8 DEF Log!Crash, Log!Leave, Passed, Unanswered
    <2>2. /\ Unanswered \in SUBSET Attempt
          /\ Cardinality(Unanswered') = Cardinality(Unanswered)
             \/ Cardinality(Unanswered') = Cardinality(Unanswered) - 1
      <3>1. Unanswered \in SUBSET Attempt
        BY DEF Unanswered
      <3>2. QED
        BY <2>1, <3>1, AttemptSets
    <2>3. QED
      BY <2>1, <2>2 DEF GuessesAccounted
  <1>9. CASE UNCHANGED Log!vars
    <2>1. /\ Passed' = Passed /\ Unanswered' = Unanswered
          /\ UNCHANGED <<fails, guesses, crashes, locked>>
      BY <1>9 DEF Log!vars, Passed, Unanswered
    <2>2. QED
      BY <2>1 DEF GuessesAccounted
  <1>10. QED
    BY <1>1, <1>2, <1>3, <1>4, <1>5, <1>6, <1>7, <1>8, <1>9 DEF Log!Next

\* However many logins run at once, an address takes no more wrong passwords before
\* it locks than the threshold, one for every other attempt, and the crashes.
THEOREM GuessesBoundedHolds == Log!Spec => []GuessesBounded
  <1>1. LoginInv => GuessesBounded
    BY PassedOrUnanswered, ThresholdAssumption, SameCardinality
       DEF LoginInv, LoginTypeOK, GuessesAccounted, GuessesBounded, Log!GuessesBounded
  <1>2. LoginInv /\ [Log!Next]_Log!vars => LoginInv'
    BY LoginTypesStep, GuessesStep DEF LoginInv
  <1>3. QED
    BY <1>1, <1>2, LoginInvInit, PTL DEF Log!Spec

---------------------------------------------------------------------------
(* E-mail addresses. *)

EmailTypeOK ==
    /\ email \in [Person -> Email \cup {None}]
    /\ mailPc \in [Request -> {"idle", "creating", "renaming", "deleting"}]
    /\ mailTarget \in [Request -> Person \cup {None}]
    /\ wanted \in [Request -> Email \cup {None}]
    /\ \A r \in Request :
          /\ mailPc[r] = "idle" => wanted[r] = None
          /\ mailPc[r] # "idle" => mailTarget[r] \in Person
          /\ mailPc[r] \in {"creating", "renaming"} => wanted[r] \in Email

\* An address nobody raced for has one row, and whoever found it free finds it so.
FreeStaysFree ==
    \A e \in Email \ mailRaced :
        /\ \A u, v \in Mail!RowsWith(e) : u = v
        /\ \A r \in Request : wanted[r] = e => Mail!RowsWith(e) \subseteq {mailTarget[r]}

EmailInv == EmailTypeOK /\ FreeStaysFree

LEMMA EmailInvInit == Mail!Init => EmailInv
  <1> SUFFICES ASSUME Mail!Init PROVE EmailInv
    OBVIOUS
  <1>1. EmailTypeOK
    BY DEF Mail!Init, EmailTypeOK
  <1>2. \A e \in Email : Mail!RowsWith(e) = {} /\ \A r \in Request : wanted[r] # e
    BY EmailAssumption DEF Mail!Init, Mail!RowsWith
  <1>3. QED
    BY <1>1, <1>2 DEF EmailInv, FreeStaysFree

\* A request that found an address free keeps everybody but its user away from
\* it, or leaves it to those who wanted it too.
LEMMA TakingKeeps ==
    ASSUME EmailInv, NEW r \in Request, Mail!CommitEmail(r)
    PROVE  EmailInv'
  <1> DEFINE t == mailTarget[r]
             w == wanted[r]
  <1>1. /\ mailPc[r] \in {"creating", "renaming"} /\ t \in Person /\ w \in Email
        /\ mailPc' = [mailPc EXCEPT ![r] = "idle"]
        /\ mailTarget' = [mailTarget EXCEPT ![r] = None]
        /\ wanted' = [wanted EXCEPT ![r] = None]
    BY DEF EmailInv, EmailTypeOK, Mail!CommitEmail, Mail!Leave
  <1>2. /\ email' = email \/ email' = [email EXCEPT ![t] = w]
        /\ mailRaced \subseteq mailRaced'
        /\ email' # email /\ w \notin mailRaced' =>
              \A q \in Request \ {r} : wanted[q] # w
    BY DEF Mail!CommitEmail
  <1>3. EmailTypeOK'
    BY <1>1, <1>2 DEF EmailInv, EmailTypeOK
  <1>4. ASSUME NEW e \in Email \ mailRaced'
        PROVE  /\ \A u, v \in Mail!RowsWith(e)' : u = v
               /\ \A q \in Request : wanted'[q] = e =>
                     Mail!RowsWith(e)' \subseteq {mailTarget'[q]}
    <2>1. /\ e \in Email \ mailRaced
          /\ \A u, v \in Mail!RowsWith(e) : u = v
          /\ \A q \in Request : wanted[q] = e => Mail!RowsWith(e) \subseteq {mailTarget[q]}
      BY <1>2 DEF EmailInv, FreeStaysFree
    <2>2. \A q \in Request : wanted'[q] = e => q # r /\ wanted[q] = e /\ mailTarget'[q] = mailTarget[q]
      BY <1>1, EmailAssumption DEF EmailInv, EmailTypeOK
    <2>3. CASE email' = email \/ e # w
      <3>1. Mail!RowsWith(e)' \subseteq Mail!RowsWith(e)
        BY <1>1, <1>2, <2>3 DEF EmailInv, EmailTypeOK, Mail!RowsWith
      <3>2. QED
        BY <2>1, <2>2, <3>1
    <2>4. CASE email' # email /\ e = w
      <3>1. Mail!RowsWith(e)' \subseteq Mail!RowsWith(e) \cup {t}
        BY <1>1, <1>2, <2>4 DEF EmailInv, EmailTypeOK, Mail!RowsWith
      <3>2. Mail!RowsWith(e) \subseteq {t}
        BY <2>1, <2>4
      <3>3. \A q \in Request : wanted'[q] # e
        BY <1>2, <2>2, <2>4
      <3>4. QED
        BY <3>1, <3>2, <3>3
    <2>5. QED
      BY <2>3, <2>4
  <1>5. FreeStaysFree'
    BY <1>4 DEF FreeStaysFree
  <1>6. QED
    BY <1>3, <1>5 DEF EmailInv

\* The other steps write no address.
LEMMA EmailInvStep == EmailInv /\ [Mail!Next]_Mail!vars => EmailInv'
  <1> SUFFICES ASSUME EmailInv, [Mail!Next]_Mail!vars PROVE EmailInv'
    OBVIOUS
  <1>1. ASSUME email' = email, mailRaced' = mailRaced, EmailTypeOK',
               \A r \in Request : \A e \in Email : wanted'[r] = e =>
                  \/ Mail!RowsWith(e) \subseteq {mailTarget'[r]}
                  \/ wanted[r] = e /\ mailTarget'[r] = mailTarget[r]
        PROVE  EmailInv'
    <2>1. \A e \in Email : Mail!RowsWith(e)' = Mail!RowsWith(e)
      BY <1>1 DEF Mail!RowsWith
    <2>2. QED
      BY <1>1, <2>1 DEF EmailInv, FreeStaysFree
  <1>2. ASSUME NEW r \in Request, NEW u \in Person, NEW e \in Email,
               Mail!CheckNewEmail(r, u, e) \/ Mail!CheckOwnEmail(r, u, e)
        PROVE  EmailInv'
    <2>1. /\ mailPc' \in {[mailPc EXCEPT ![r] = "creating"], [mailPc EXCEPT ![r] = "renaming"]}
          /\ mailTarget' = [mailTarget EXCEPT ![r] = u]
          /\ wanted' = [wanted EXCEPT ![r] = e]
          /\ Mail!RowsWith(e) \subseteq {u}
          /\ email' = email /\ mailRaced' = mailRaced
      BY <1>2 DEF Mail!CheckNewEmail, Mail!CheckOwnEmail, Mail!FoundFree
    <2>2. QED
      BY <1>1, <2>1 DEF EmailInv, EmailTypeOK
  <1>3. ASSUME NEW r \in Request, NEW u \in Person, Mail!SelectUser(r, u)
        PROVE  EmailInv'
    <2>1. EmailTypeOK'
      BY <1>3 DEF Mail!SelectUser, EmailInv, EmailTypeOK
    <2>2. \A q \in Request : \A e \in Email : wanted'[q] = e =>
             wanted[q] = e /\ mailTarget'[q] = mailTarget[q]
      BY <1>3, EmailAssumption DEF Mail!SelectUser, EmailInv, EmailTypeOK
    <2>3. QED
      BY <1>1, <1>3, <2>1, <2>2 DEF Mail!SelectUser
  <1>4. ASSUME NEW r \in Request, Mail!CommitDelete(r) \/ Mail!Abort(r)
        PROVE  EmailInv'
    <2>1. /\ mailPc' = [mailPc EXCEPT ![r] = "idle"]
          /\ mailTarget' = [mailTarget EXCEPT ![r] = None]
          /\ wanted' = [wanted EXCEPT ![r] = None]
          /\ email' = email /\ mailRaced' = mailRaced
      BY <1>4 DEF Mail!CommitDelete, Mail!Abort, Mail!Leave
    <2>2. QED
      BY <1>1, <2>1, EmailAssumption DEF EmailInv, EmailTypeOK
  <1>5. CASE UNCHANGED Mail!vars
    BY <1>1, <1>5 DEF Mail!vars, EmailInv, EmailTypeOK
  <1>6. QED
    BY <1>2, <1>3, <1>4, <1>5, TakingKeeps DEF Mail!Next

\* An address for which no two requests raced is never on two rows, so that the
\* lookup of every creation and renaming finds at most one.
THEOREM LookupUnambiguousHolds == Mail!Spec => []LookupUnambiguous
  <1>1. ASSUME EmailInv, NEW e \in Email \ mailRaced
        PROVE  Cardinality(Mail!RowsWith(e)) <= 1
    <2>1. Mail!RowsWith(e) = {} \/ \E u : Mail!RowsWith(e) = {u}
      BY <1>1 DEF EmailInv, FreeStaysFree
    <2>2. QED
      BY <2>1, FS_EmptySet, FS_Singleton
  <1>2. EmailInv => LookupUnambiguous
    BY <1>1, SameCardinality DEF LookupUnambiguous, Mail!LookupUnambiguous
  <1>3. QED
    BY <1>2, EmailInvInit, EmailInvStep, PTL DEF Mail!Spec

---------------------------------------------------------------------------
(* Users and roles. *)

AccountTypeOK ==
    /\ user \in [User -> Acc!Account]
    /\ accPc \in [Request -> Acc!Permission \cup {"idle", "selected", "checked"}]
    /\ accTarget \in [Request -> User \cup {None}]
    /\ accSeen \in [Request -> Acc!Account]
    /\ write \in [Request -> Acc!Account]
    /\ crossed \in BOOLEAN
    /\ \A r \in Request : accPc[r] \in {"selected", "checked"} => accTarget[r] \in User

OtherSuperAdmin(r) == \E u \in Acc!ActiveSuperAdmins : u # accTarget[r]

\* Somebody else stays super admin when the request commits, or the request has
\* still to be checked, or removes nobody.
RemovalLeavesOne(r) ==
    \/ OtherSuperAdmin(r)
    \/ /\ Acc!IsSuperAdmin(accSeen[r])
       /\ accPc[r] = "checked" => ~Acc!Removing(r)

AccountInv ==
    /\ AccountTypeOK
    /\ ~crossed =>
          /\ Acc!ActiveSuperAdmins # {}
          /\ \A r \in Request : accPc[r] \in {"selected", "checked"} => RemovalLeavesOne(r)

\* _active_super_admins counts more than one: somebody else is one.
LEMMA MoreThanOne ==
    ASSUME NEW t, ~(Cardinality(Acc!ActiveSuperAdmins) <= 1)
    PROVE  \E u \in Acc!ActiveSuperAdmins : u # t
  <1> SUFFICES ASSUME Acc!ActiveSuperAdmins \subseteq {t}
               PROVE  Cardinality(Acc!ActiveSuperAdmins) <= 1
    OBVIOUS
  <1>1. Acc!ActiveSuperAdmins = {} \/ Acc!ActiveSuperAdmins = {t}
    OBVIOUS
  <1>2. Cardinality({}) = 0 /\ Cardinality({t}) = 1
    BY FS_EmptySet, FS_Singleton
  <1>3. QED
    BY <1>1, <1>2

\* A place in a handler is no permission.
LEMMA PlacesAreNoPermissions == {"idle", "selected", "checked"} \cap Acc!Permission = {}
  BY DEF Acc!Permission

LEMMA AccountInvInit == Acc!Init => AccountInv
  <1> SUFFICES ASSUME Acc!Init PROVE AccountInv
    OBVIOUS
  <1>1. "auditor" \in Acc!Role
    BY DEF Acc!Role, Acc!PermissionsOf
  <1>2. AccountTypeOK
    BY <1>1 DEF Acc!Init, AccountTypeOK, Acc!Account, Acc!NobodysAccount
  <1>3. QED
    BY <1>2 DEF Acc!Init, AccountInv

\* A request that is answered wants nothing any more.
LEMMA LeavingKeeps ==
    ASSUME AccountInv, NEW r \in Request, Acc!Leave(r), UNCHANGED <<user, crossed>>
    PROVE  AccountInv'
  <1>1. "auditor" \in Acc!Role
    BY DEF Acc!Role, Acc!PermissionsOf
  <1>2. /\ accPc' = [accPc EXCEPT ![r] = "idle"]
        /\ accTarget' = [accTarget EXCEPT ![r] = None]
        /\ accSeen' = [accSeen EXCEPT ![r] = Acc!NobodysAccount]
        /\ write' = [write EXCEPT ![r] = Acc!NobodysAccount]
        /\ user' = user /\ crossed' = crossed
    BY DEF Acc!Leave
  <1>3. AccountTypeOK'
    BY <1>1, <1>2 DEF AccountInv, AccountTypeOK, Acc!Account, Acc!NobodysAccount
  <1>4. Acc!ActiveSuperAdmins' = Acc!ActiveSuperAdmins
    BY <1>2 DEF Acc!ActiveSuperAdmins, Acc!IsSuperAdmin
  <1>5. ASSUME NEW q \in Request, accPc'[q] \in {"selected", "checked"}, RemovalLeavesOne(q)
        PROVE  RemovalLeavesOne(q)'
    <2>1. /\ accPc'[q] = accPc[q] /\ accTarget'[q] = accTarget[q]
          /\ accSeen'[q] = accSeen[q] /\ write'[q] = write[q]
      BY <1>2, <1>5 DEF AccountInv, AccountTypeOK
    <2>2. QED
      BY <1>4, <1>5, <2>1 DEF RemovalLeavesOne, OtherSuperAdmin, Acc!Removing, Acc!Demoting,
                              Acc!Disabling, Acc!Deleting, Acc!IsSuperAdmin
  <1>6. \A q \in Request : accPc'[q] \in {"selected", "checked"} => accPc'[q] = accPc[q]
    BY <1>2 DEF AccountInv, AccountTypeOK
  <1>7. QED
    BY <1>2, <1>3, <1>4, <1>5, <1>6 DEF AccountInv

\* The request itself goes on, and the accounts stay as they are.
LEMMA OthersUntouched ==
    ASSUME AccountInv, NEW r \in Request, AccountTypeOK', UNCHANGED <<user, crossed>>,
           \A q \in Request \ {r} :
              /\ accPc'[q] = accPc[q] /\ accTarget'[q] = accTarget[q]
              /\ accSeen'[q] = accSeen[q] /\ write'[q] = write[q],
           ~crossed /\ accPc'[r] \in {"selected", "checked"} => RemovalLeavesOne(r)'
    PROVE  AccountInv'
  <1>1. Acc!ActiveSuperAdmins' = Acc!ActiveSuperAdmins
    BY DEF Acc!ActiveSuperAdmins, Acc!IsSuperAdmin
  <1>2. ASSUME NEW q \in Request \ {r}, RemovalLeavesOne(q)
        PROVE  RemovalLeavesOne(q)'
    BY <1>1, <1>2 DEF RemovalLeavesOne, OtherSuperAdmin, Acc!Removing, Acc!Demoting,
                      Acc!Disabling, Acc!Deleting, Acc!IsSuperAdmin
  <1>3. QED
    BY <1>1, <1>2 DEF AccountInv

LEMMA AuthoriseKeeps ==
    ASSUME AccountInv, NEW r \in Request, Acc!Authorise(r)
    PROVE  AccountInv'
  <1>1. PICK p \in {"platform.user.write", "platform.user.delete"} :
           accPc' = [accPc EXCEPT ![r] = p]
    BY DEF Acc!Authorise
  <1>2. p \in Acc!Permission
    BY <1>1 DEF Acc!Permission
  <1>3. UNCHANGED <<user, accTarget, accSeen, write, crossed>>
    BY DEF Acc!Authorise
  <1>4. AccountTypeOK' /\ accPc'[r] \notin {"selected", "checked"}
    BY <1>1, <1>2, <1>3, PlacesAreNoPermissions DEF AccountInv, AccountTypeOK
  <1>5. QED
    BY <1>1, <1>3, <1>4, OthersUntouched DEF AccountInv, AccountTypeOK

LEMMA SelectKeeps ==
    ASSUME AccountInv, NEW r \in Request, Acc!SelectAccount(r)
    PROVE  AccountInv'
  <1>1. PICK u \in User, a \in Acc!Account :
           /\ accTarget' = [accTarget EXCEPT ![r] = u]
           /\ accSeen' = [accSeen EXCEPT ![r] = user[u]]
           /\ write' = [write EXCEPT ![r] = a]
    BY DEF Acc!SelectAccount
  <1>2. accPc' = [accPc EXCEPT ![r] = "selected"] /\ UNCHANGED <<user, crossed>>
    BY DEF Acc!SelectAccount
  <1>3. AccountTypeOK'
    BY <1>1, <1>2 DEF AccountInv, AccountTypeOK
  <1>4. accPc'[r] = "selected" /\ accTarget'[r] = u /\ accSeen'[r] = user[u]
    BY <1>1, <1>2 DEF AccountInv, AccountTypeOK
  <1>5. ASSUME ~crossed PROVE RemovalLeavesOne(r)'
    <2>1. CASE Acc!IsSuperAdmin(user[u])
      BY <1>4, <2>1 DEF RemovalLeavesOne, Acc!IsSuperAdmin
    <2>2. CASE ~Acc!IsSuperAdmin(user[u])
      <3>1. \E v \in Acc!ActiveSuperAdmins : v # u
        BY <1>5, <2>2 DEF AccountInv, Acc!ActiveSuperAdmins
      <3>2. Acc!ActiveSuperAdmins' = Acc!ActiveSuperAdmins
        BY <1>2 DEF Acc!ActiveSuperAdmins, Acc!IsSuperAdmin
      <3>3. QED
        BY <1>4, <3>1, <3>2 DEF RemovalLeavesOne, OtherSuperAdmin
    <2>3. QED
      BY <2>1, <2>2
  <1>6. QED
    BY <1>1, <1>2, <1>3, <1>5, OthersUntouched DEF AccountInv, AccountTypeOK

LEMMA CheckKeeps ==
    ASSUME AccountInv, NEW r \in Request, Acc!CheckLockout(r)
    PROVE  AccountInv'
  <1>1. CASE Acc!Leave(r)
    BY <1>1, LeavingKeeps DEF Acc!CheckLockout
  <1>2. CASE ~Acc!Leave(r)
    <2>1. /\ accPc[r] = "selected" /\ ~Acc!LastSuperAdmin(r)
          /\ accPc' = [accPc EXCEPT ![r] = "checked"]
          /\ UNCHANGED <<accTarget, accSeen, write, user, crossed>>
      BY <1>2 DEF Acc!CheckLockout
    <2>2. AccountTypeOK'
      BY <2>1 DEF AccountInv, AccountTypeOK
    <2>3. ASSUME ~crossed PROVE RemovalLeavesOne(r)'
      <3>1. RemovalLeavesOne(r)
        BY <2>1, <2>3 DEF AccountInv
      <3>2. OtherSuperAdmin(r)' <=> OtherSuperAdmin(r)
        BY <2>1 DEF OtherSuperAdmin, Acc!ActiveSuperAdmins, Acc!IsSuperAdmin
      <3>3. CASE Acc!Removing(r) /\ Acc!IsSuperAdmin(accSeen[r])
        <4>1. ~(Cardinality(Acc!ActiveSuperAdmins) <= 1)
          BY <2>1, <3>3, SameCardinality DEF Acc!LastSuperAdmin, Acc!IsSuperAdmin
        <4>2. OtherSuperAdmin(r)
          BY <4>1, MoreThanOne DEF OtherSuperAdmin
        <4>3. QED
          BY <3>2, <4>2 DEF RemovalLeavesOne
      <3>4. CASE ~Acc!Removing(r) /\ Acc!IsSuperAdmin(accSeen[r])
        <4>1. ~Acc!Removing(r)' /\ Acc!IsSuperAdmin(accSeen[r])'
          BY <2>1, <3>4 DEF Acc!Removing, Acc!Demoting, Acc!Disabling, Acc!Deleting,
                            Acc!IsSuperAdmin
        <4>2. QED
          BY <4>1 DEF RemovalLeavesOne
      <3>5. CASE OtherSuperAdmin(r)
        BY <3>2, <3>5 DEF RemovalLeavesOne
      <3>6. QED
        BY <3>1, <3>3, <3>4, <3>5 DEF RemovalLeavesOne
    <2>4. QED
      BY <2>1, <2>2, <2>3, OthersUntouched DEF AccountInv, AccountTypeOK
  <1>3. QED
    BY <1>1, <1>2

\* What the request read was a super admin and it removes nobody: whatever the
\* account is now, it stays a super admin if it is one.
LEMMA HarmlessWrite ==
    ASSUME AccountTypeOK, NEW r \in Request,
           Acc!IsSuperAdmin(accSeen[r]), ~Acc!Removing(r),
           Acc!IsSuperAdmin(user[accTarget[r]])
    PROVE  Acc!IsSuperAdmin(Acc!WrittenAccount(r))
  BY DEF AccountTypeOK, Acc!Account, Acc!IsSuperAdmin, Acc!Removing, Acc!Demoting,
         Acc!Disabling, Acc!Deleting, Acc!WrittenAccount

LEMMA CommitKeeps ==
    ASSUME AccountInv, NEW r \in Request, Acc!CommitAccount(r)
    PROVE  AccountInv'
  <1> DEFINE t == accTarget[r]
             w == Acc!WrittenAccount(r)
             S == Acc!ActiveSuperAdmins
  <1>1. /\ accPc[r] = "checked" /\ t \in User
        /\ user' = [user EXCEPT ![t] = w]
        /\ accPc' = [accPc EXCEPT ![r] = "idle"]
        /\ accTarget' = [accTarget EXCEPT ![r] = None]
        /\ accSeen' = [accSeen EXCEPT ![r] = Acc!NobodysAccount]
        /\ write' = [write EXCEPT ![r] = Acc!NobodysAccount]
        /\ Acc!NobodysAccount \in Acc!Account
    BY DEF AccountInv, AccountTypeOK, Acc!CommitAccount, Acc!Leave, Acc!NobodysAccount,
           Acc!Account, Acc!Role, Acc!PermissionsOf
  <1>2. /\ crossed' \in BOOLEAN
        /\ ~crossed' => ~crossed
        /\ ~crossed' /\ Acc!IsSuperAdmin(user[t]) /\ ~Acc!IsSuperAdmin(w) =>
              \A q \in Request \ {r} : accPc[q] \notin {"selected", "checked"}
    BY DEF Acc!CommitAccount
  <1>3. w \in Acc!Account
    BY <1>1 DEF AccountInv, AccountTypeOK, Acc!Account, Acc!WrittenAccount
  <1>4. AccountTypeOK'
    BY <1>1, <1>2, <1>3 DEF AccountInv, AccountTypeOK
  <1>5. /\ S \ {t} \subseteq S'
        /\ Acc!IsSuperAdmin(w) \/ ~Acc!IsSuperAdmin(user[t]) => S \subseteq S'
    BY <1>1, <1>3 DEF AccountInv, AccountTypeOK, Acc!ActiveSuperAdmins, Acc!IsSuperAdmin
  <1>6. ASSUME ~crossed' PROVE S' # {}
    <2>1. RemovalLeavesOne(r) /\ S # {}
      BY <1>1, <1>2, <1>6 DEF AccountInv
    <2>2. CASE OtherSuperAdmin(r)
      BY <1>5, <2>2 DEF OtherSuperAdmin
    <2>3. CASE Acc!IsSuperAdmin(accSeen[r]) /\ ~Acc!Removing(r)
      BY <1>5, <2>1, <2>3, HarmlessWrite DEF AccountInv
    <2>4. QED
      BY <1>1, <2>1, <2>2, <2>3 DEF RemovalLeavesOne
  <1>7. ASSUME ~crossed', NEW q \in Request, accPc'[q] \in {"selected", "checked"}
        PROVE  RemovalLeavesOne(q)'
    <2>1. /\ q # r /\ accPc'[q] = accPc[q] /\ accTarget'[q] = accTarget[q]
          /\ accSeen'[q] = accSeen[q] /\ write'[q] = write[q]
      BY <1>1, <1>7 DEF AccountInv, AccountTypeOK
    <2>2. S \subseteq S'
      BY <1>2, <1>5, <1>7, <2>1
    <2>3. RemovalLeavesOne(q)
      BY <1>2, <1>7, <2>1 DEF AccountInv
    <2>4. QED
      BY <2>1, <2>2, <2>3 DEF RemovalLeavesOne, OtherSuperAdmin, Acc!Removing, Acc!Demoting,
                              Acc!Disabling, Acc!Deleting, Acc!IsSuperAdmin
  <1>8. QED
    BY <1>4, <1>6, <1>7 DEF AccountInv

LEMMA AccountInvStep == AccountInv /\ [Acc!Next]_Acc!vars => AccountInv'
  <1> SUFFICES ASSUME AccountInv, [Acc!Next]_Acc!vars PROVE AccountInv'
    OBVIOUS
  <1>1. ASSUME NEW r \in Request, Acc!AbortAccount(r) PROVE AccountInv'
    BY <1>1, LeavingKeeps DEF Acc!AbortAccount
  <1>2. CASE UNCHANGED Acc!vars
    BY <1>2 DEF Acc!vars, AccountInv, AccountTypeOK, RemovalLeavesOne, OtherSuperAdmin,
                Acc!ActiveSuperAdmins, Acc!Removing, Acc!Demoting, Acc!Disabling,
                Acc!Deleting, Acc!IsSuperAdmin
  <1>3. QED
    BY <1>1, <1>2, AuthoriseKeeps, SelectKeeps, CheckKeeps, CommitKeeps DEF Acc!Next

\* Whatever the requests ask for, it takes two that overlap, one of which removes a
\* super admin, to leave no active super admin.
THEOREM SuperAdminRemainsHolds == Acc!Spec => []SuperAdminRemains
  <1>1. AccountInv => SuperAdminRemains
    BY DEF AccountInv, AccountTypeOK, SuperAdminRemains, Acc!SuperAdminRemains
  <1>2. QED
    BY <1>1, AccountInvInit, AccountInvStep, PTL DEF Acc!Spec

---------------------------------------------------------------------------
(* Sessions. *)

SessionTypeOK ==
    /\ sesPc \in [Request -> {"idle", "verified", "stored", "fetched", "acting", "leaving",
                             "committed", "destroying"}]
    /\ sid \in [Request -> Sid \cup {None}]
    /\ doomed \in [Request -> SUBSET Sid]
    /\ due \in [Request -> SUBSET Sid]
    /\ \A r \in Request : due[r] \subseteq issued
    /\ ended \subseteq issued
    /\ issued \subseteq Sid /\ index \subseteq Sid
    /\ session \subseteq issued
    /\ \A r \in Request : sesPc[r] \notin {"idle", "committed", "destroying"} => sid[r] \in issued

\* A login past its password check will not store a session that a global logout
\* was, or is about to be, done with, except by a race.
LoginsNotDue ==
    \A q \in Request : sesPc[q] \in {"verified", "stored"} =>
        \/ sid[q] \in sesRaced
        \/ /\ sid[q] \notin ended
           /\ \A r \in Request : sesPc[r] = "destroying" => sid[q] \notin due[r]

SessionInv ==
    /\ SessionTypeOK
    /\ LoginsNotDue
    /\ UnindexedSessionsRaced
    /\ GlobalLogout

LEMMA SessionInvInit == Ses!Init => SessionInv
  BY DEF Ses!Init, SessionInv, SessionTypeOK, LoginsNotDue, UnindexedSessionsRaced,
         Ses!UnindexedSessionsRaced, GlobalLogout, Ses!GlobalLogout

LEMMA SessionTypesStep == SessionInv /\ [Ses!Next]_Ses!vars => SessionTypeOK'
  <1> SUFFICES ASSUME SessionInv, [Ses!Next]_Ses!vars PROVE SessionTypeOK'
    OBVIOUS
  <1> USE DEF SessionInv, SessionTypeOK, Ses!MoveTo, Ses!Leave, Ses!historyVars, Ses!storeVars
  <1>1. ASSUME NEW r \in Request, NEW s \in Sid, Ses!Authenticate(r, s) \/ Ses!GetSession(r, s)
        PROVE  SessionTypeOK'
    BY <1>1 DEF Ses!Authenticate, Ses!GetSession
  <1>2. ASSUME NEW r \in Request,
               Ses!StoreSession(r) \/ Ses!RenewSession(r) \/ Ses!LeaveIndex(r)
        PROVE  SessionTypeOK'
    BY <1>2 DEF Ses!StoreSession, Ses!RenewSession, Ses!LeaveIndex
  <1>3. ASSUME NEW r \in Request,
               Ses!IndexSession(r) \/ Ses!Answer(r) \/ Ses!DropSession(r) \/ Ses!Crash(r)
        PROVE  SessionTypeOK'
    <2>1. /\ sesPc' = [sesPc EXCEPT ![r] = "idle"] /\ sid' = [sid EXCEPT ![r] = None]
          /\ doomed' = [doomed EXCEPT ![r] = {}] /\ due' = [due EXCEPT ![r] = {}]
          /\ UNCHANGED <<issued, ended>>
      BY <1>3 DEF Ses!IndexSession, Ses!Answer, Ses!DropSession, Ses!Crash
    <2>2. index' \subseteq Sid /\ session' \subseteq session
      <3>1. CASE Ses!IndexSession(r)
        BY <3>1 DEF Ses!IndexSession, Ses!IndexWith
      <3>2. CASE Ses!Answer(r) \/ Ses!DropSession(r) \/ Ses!Crash(r)
        BY <3>2 DEF Ses!Answer, Ses!DropSession, Ses!Crash
      <3>3. QED
        BY <1>3, <3>1, <3>2
    <2>3. QED
      BY <2>1, <2>2
  <1>4. ASSUME NEW r \in Request, NEW c \in Ses!Change, Ses!CommitChange(r, c)
        PROVE  SessionTypeOK'
    <2>1. UNCHANGED <<session, index, issued, sid, doomed, sesRaced>>
      BY <1>4 DEF Ses!CommitChange
    <2>2. CASE Ses!KillsSessions(c)
      <3>1. /\ sesPc[r] = "idle" /\ sesPc' = [sesPc EXCEPT ![r] = "committed"]
            /\ due' = [due EXCEPT ![r] = issued] /\ ended' = ended
        BY <1>4, <2>2 DEF Ses!CommitChange
      <3>2. QED
        BY <2>1, <3>1
    <2>3. CASE ~Ses!KillsSessions(c)
      <3>1. sesPc' = sesPc /\ due' = due /\ ended' \in {ended, ended \cup issued}
        BY <1>4, <2>3 DEF Ses!CommitChange
      <3>2. QED
        BY <2>1, <3>1
    <2>4. QED
      BY <2>2, <2>3
  <1>5. ASSUME NEW r \in Request, Ses!ReadIndex(r) \/ Ses!DeleteSession(r)
        PROVE  SessionTypeOK'
    BY <1>5 DEF Ses!ReadIndex, Ses!DeleteSession
  <1>6. ASSUME NEW r \in Request, Ses!DeleteIndex(r) PROVE SessionTypeOK'
    BY <1>6 DEF Ses!DeleteIndex
  <1>7. ASSUME NEW s \in Sid, Ses!SessionIdles(s) PROVE SessionTypeOK'
    BY <1>7 DEF Ses!SessionIdles
  <1>8. CASE UNCHANGED Ses!vars
    BY <1>8 DEF Ses!vars
  <1>9. QED
    BY <1>1, <1>2, <1>3, <1>4, <1>5, <1>6, <1>7, <1>8 DEF Ses!Next, Ses!Serve

\* A step that ends nothing and lets nobody log in.
LEMMA LoginsFrame ==
    ASSUME SessionInv, sesRaced \subseteq sesRaced', ended' = ended,
           \A q \in Request : sesPc'[q] \in {"verified", "stored"} =>
              sesPc[q] \in {"verified", "stored"} /\ sid'[q] = sid[q],
           \A r \in Request : sesPc'[r] = "destroying" =>
              sesPc[r] = "destroying" /\ due'[r] = due[r]
    PROVE  LoginsNotDue'
  BY DEF SessionInv, LoginsNotDue

LEMMA LoginsStep == SessionInv /\ [Ses!Next]_Ses!vars => LoginsNotDue'
  <1> SUFFICES ASSUME SessionInv, [Ses!Next]_Ses!vars PROVE LoginsNotDue'
    OBVIOUS
  <1> USE DEF SessionTypeOK, Ses!MoveTo, Ses!Leave, Ses!historyVars, Ses!storeVars
  <1>0. SessionTypeOK
    BY DEF SessionInv
  <1>1. ASSUME NEW r \in Request, NEW s \in Sid, Ses!Authenticate(r, s) PROVE LoginsNotDue'
    BY <1>1 DEF Ses!Authenticate, SessionInv, LoginsNotDue
  <1>2. ASSUME NEW r \in Request,
               \/ Ses!StoreSession(r) \/ Ses!RenewSession(r) \/ Ses!LeaveIndex(r)
               \/ \E s \in Sid : Ses!GetSession(r, s)
        PROVE  LoginsNotDue'
    BY <1>0, <1>2, LoginsFrame
       DEF Ses!StoreSession, Ses!RenewSession, Ses!LeaveIndex, Ses!GetSession
  <1>3. ASSUME NEW r \in Request,
               Ses!IndexSession(r) \/ Ses!Answer(r) \/ Ses!DropSession(r) \/ Ses!Crash(r)
        PROVE  LoginsNotDue'
    BY <1>0, <1>3, LoginsFrame DEF Ses!IndexSession, Ses!Answer, Ses!DropSession, Ses!Crash
  <1>4. ASSUME NEW r \in Request, NEW c \in Ses!Change, Ses!CommitChange(r, c)
        PROVE  LoginsNotDue'
    <2>1. UNCHANGED <<sid, sesRaced>> /\ ended' = ended
      BY <1>4 DEF Ses!CommitChange, Ses!KillsSessions, Ses!Change
    <2>2. \/ sesPc[r] = "idle" /\ sesPc' = [sesPc EXCEPT ![r] = "committed"]
             /\ due' = [due EXCEPT ![r] = issued]
          \/ sesPc' = sesPc /\ due' = due
      BY <1>4 DEF Ses!CommitChange
    <2>3. QED
      BY <1>0, <2>1, <2>2, LoginsFrame
  <1>5. ASSUME NEW r \in Request, Ses!ReadIndex(r) PROVE LoginsNotDue'
    BY <1>0, <1>5 DEF Ses!ReadIndex, LoginsNotDue
  <1>6. ASSUME NEW r \in Request, Ses!DeleteSession(r) PROVE LoginsNotDue'
    BY <1>0, <1>6, LoginsFrame DEF Ses!DeleteSession
  <1>7. ASSUME NEW r \in Request, Ses!DeleteIndex(r) PROVE LoginsNotDue'
    BY <1>7 DEF Ses!DeleteIndex, SessionInv, LoginsNotDue
  <1>8. CASE (\E s \in Sid : Ses!SessionIdles(s)) \/ UNCHANGED Ses!vars
    BY <1>0, <1>8, LoginsFrame DEF Ses!SessionIdles, Ses!vars
  <1>9. QED
    BY <1>1, <1>2, <1>3, <1>4, <1>5, <1>6, <1>7, <1>8 DEF Ses!Next, Ses!Serve

\* A step that adds no session, takes none out of the index and ends no login or
\* logout of a session that is left.
LEMMA ReachFrame ==
    ASSUME SessionInv, session' \subseteq session, session' \cap index \subseteq index',
           sesRaced \subseteq sesRaced', ended' = ended,
           \A r \in Request : sesPc[r] \in {"stored", "leaving"} =>
              \/ sesPc'[r] = sesPc[r] /\ sid'[r] = sid[r]
              \/ sid[r] \notin session'
              \/ sid[r] \in sesRaced'
              \/ sid[r] \in index' /\ sesPc[r] # "leaving"
    PROVE  UnindexedSessionsRaced' /\ GlobalLogout'
  <1> USE DEF SessionInv, UnindexedSessionsRaced, Ses!UnindexedSessionsRaced,
              GlobalLogout, Ses!GlobalLogout
  <1>1. UnindexedSessionsRaced'
    OBVIOUS
  <1>2. GlobalLogout'
    OBVIOUS
  <1>3. QED
    BY <1>1, <1>2

LEMMA ReachStep ==
    SessionInv /\ [Ses!Next]_Ses!vars => UnindexedSessionsRaced' /\ GlobalLogout'
  <1> SUFFICES ASSUME SessionInv, [Ses!Next]_Ses!vars
               PROVE  UnindexedSessionsRaced' /\ GlobalLogout'
    OBVIOUS
  <1> DEFINE Goal == UnindexedSessionsRaced' /\ GlobalLogout'
  <1> USE DEF SessionTypeOK, Ses!MoveTo, Ses!Leave, Ses!historyVars, Ses!storeVars
  <1>0. SessionTypeOK
    BY DEF SessionInv
  <1>1. ASSUME NEW r \in Request, NEW s \in Sid, Ses!Authenticate(r, s) \/ Ses!GetSession(r, s)
        PROVE  Goal
    BY <1>0, <1>1, ReachFrame DEF Ses!Authenticate, Ses!GetSession
  <1>2. ASSUME NEW r \in Request, Ses!StoreSession(r) \/ Ses!RenewSession(r)
        PROVE  Goal
    <2>1. /\ session' = session \cup {sid[r]} /\ UNCHANGED <<index, ended, sid>>
          /\ sesRaced \subseteq sesRaced'
          /\ \A q \in Request : sesPc[q] \in {"stored", "leaving"} => sesPc'[q] = sesPc[q]
          /\ \/ sesPc[r] = "verified" /\ sesPc'[r] = "stored"
             \/ sid[r] \in session \/ sid[r] \in sesRaced'
      BY <1>0, <1>2 DEF Ses!StoreSession, Ses!RenewSession
    <2>2. UnindexedSessionsRaced'
      BY <2>1 DEF SessionInv, UnindexedSessionsRaced, Ses!UnindexedSessionsRaced
    <2>3. GlobalLogout'
      BY <2>1 DEF SessionInv, LoginsNotDue, GlobalLogout, Ses!GlobalLogout
    <2>4. QED
      BY <2>2, <2>3
  <1>3. ASSUME NEW r \in Request,
               Ses!IndexSession(r) \/ Ses!Answer(r) \/ Ses!DropSession(r) \/ Ses!Crash(r)
        PROVE  Goal
    <2>1. CASE Ses!IndexSession(r)
      BY <1>0, <2>1, ReachFrame DEF Ses!IndexSession, Ses!IndexWith
    <2>2. CASE Ses!Answer(r) \/ Ses!DropSession(r)
      BY <1>0, <2>2, ReachFrame DEF Ses!Answer, Ses!DropSession
    <2>3. CASE Ses!Crash(r)
      BY <1>0, <2>3, ReachFrame DEF Ses!Crash
    <2>4. QED
      BY <1>3, <2>1, <2>2, <2>3
  <1>4. ASSUME NEW r \in Request, Ses!LeaveIndex(r) PROVE Goal
    <2>1. /\ session' = session /\ UNCHANGED <<ended, sid, sesRaced>>
          /\ index \ {sid[r]} \subseteq index'
          /\ sesPc' = [sesPc EXCEPT ![r] = "leaving"]
          /\ sesPc[r] \in {"fetched", "acting"}
      BY <1>4 DEF Ses!LeaveIndex
    <2>2. \A q \in Request : sesPc[q] \in {"stored", "leaving"} => sesPc'[q] = sesPc[q]
      BY <1>0, <2>1
    <2>3. sesPc'[r] = "leaving"
      BY <1>0, <2>1
    <2>4. UnindexedSessionsRaced'
      BY <2>1, <2>2, <2>3 DEF SessionInv, UnindexedSessionsRaced, Ses!UnindexedSessionsRaced
    <2>5. GlobalLogout'
      BY <2>1, <2>2 DEF SessionInv, GlobalLogout, Ses!GlobalLogout
    <2>6. QED
      BY <2>4, <2>5
  <1>5. ASSUME NEW r \in Request, NEW c \in Ses!Change, Ses!CommitChange(r, c)
        PROVE  Goal
    <2>1. UNCHANGED <<session, index, sid, sesRaced>> /\ ended' = ended
      BY <1>5 DEF Ses!CommitChange, Ses!KillsSessions, Ses!Change
    <2>2. \/ sesPc[r] = "idle" /\ sesPc' = [sesPc EXCEPT ![r] = "committed"]
          \/ sesPc' = sesPc
      BY <1>5 DEF Ses!CommitChange
    <2>3. QED
      BY <1>0, <2>1, <2>2, ReachFrame
  <1>6. ASSUME NEW r \in Request, Ses!ReadIndex(r) \/ Ses!DeleteSession(r) PROVE Goal
    <2>1. CASE Ses!ReadIndex(r)
      BY <1>0, <2>1, ReachFrame DEF Ses!ReadIndex
    <2>2. CASE Ses!DeleteSession(r)
      BY <1>0, <2>2, ReachFrame DEF Ses!DeleteSession
    <2>3. QED
      BY <1>6, <2>1, <2>2
  <1>7. ASSUME NEW r \in Request, Ses!DeleteIndex(r) PROVE Goal
    <2>1. /\ sesPc[r] = "destroying" /\ session' = session
          /\ sesRaced' = sesRaced \cup (index \cap session)
          /\ ended' = ended \cup due[r]
          /\ \A q \in Request : sesPc[q] \in {"stored", "leaving"} =>
                sesPc'[q] = sesPc[q] /\ sid'[q] = sid[q]
      BY <1>0, <1>7 DEF Ses!DeleteIndex
    <2>2. UnindexedSessionsRaced'
      BY <2>1 DEF SessionInv, UnindexedSessionsRaced, Ses!UnindexedSessionsRaced
    <2>3. ASSUME NEW s \in due[r] \cap session, s \notin sesRaced'
          PROVE  \E q \in Request : sesPc'[q] = "leaving" /\ sid'[q] = s
      <3>1. s \in session \ index /\ s \notin sesRaced
        BY <2>1, <2>3
      <3>2. PICK q \in Request : sid[q] = s /\ sesPc[q] \in {"stored", "leaving"}
        BY <3>1 DEF SessionInv, UnindexedSessionsRaced, Ses!UnindexedSessionsRaced
      <3>3. sesPc[q] # "stored"
        BY <2>1, <2>3, <3>1, <3>2 DEF SessionInv, LoginsNotDue
      <3>4. QED
        BY <2>1, <3>2, <3>3
    <2>4. GlobalLogout'
      BY <2>1, <2>3 DEF SessionInv, GlobalLogout, Ses!GlobalLogout
    <2>5. QED
      BY <2>2, <2>4
  <1>8. CASE (\E s \in Sid : Ses!SessionIdles(s)) \/ UNCHANGED Ses!vars
    BY <1>0, <1>8, ReachFrame DEF Ses!SessionIdles, Ses!vars
  <1>9. QED
    BY <1>1, <1>2, <1>3, <1>4, <1>5, <1>6, <1>7, <1>8 DEF Ses!Next, Ses!Serve

LEMMA SessionInvariance == Ses!Spec => []SessionInv
  <1>1. SessionInv /\ [Ses!Next]_Ses!vars => SessionInv'
    BY SessionTypesStep, LoginsStep, ReachStep DEF SessionInv
  <1>2. QED
    BY <1>1, SessionInvInit, PTL DEF Ses!Spec

\* What a global logout should have ended is gone, or raced, or about to go.
THEOREM GlobalLogoutHolds == Ses!Spec => []GlobalLogout
  <1>1. SessionInv => GlobalLogout
    BY DEF SessionInv
  <1>2. QED
    BY <1>1, SessionInvariance, PTL

\* What no global logout can reach came out of one of the named races.
THEOREM UnindexedSessionsRacedHolds == Ses!Spec => []UnindexedSessionsRaced
  <1>1. SessionInv => UnindexedSessionsRaced
    BY DEF SessionInv
  <1>2. QED
    BY <1>1, SessionInvariance, PTL

---------------------------------------------------------------------------
(* The run of MCServices. *)

\* What the parts have proved holds of the run that composes them: each of its
\* behaviours is one of every part.
THEOREM ServicesRunOperators ==
    Spec => Factor!Spec /\ Log!Spec /\ Mail!Spec /\ Acc!Spec /\ Ses!Spec
  <1>1. Init => Factor!Init /\ Log!Init /\ Mail!Init /\ Acc!Init /\ Ses!Init
    BY DEF Init
  <1>2. [Next]_vars => [Factor!Next]_Factor!vars
    BY DEF Next, vars, factorState, Factor!vars, Factor!userVars, Factor!requestVars,
           Factor!historyVars
  <1>3. [Next]_vars => [Log!Next]_Log!vars
    BY DEF Next, vars, logState, Log!vars
  <1>4. [Next]_vars => [Mail!Next]_Mail!vars
    BY DEF Next, vars, mailState, Mail!vars
  <1>5. [Next]_vars => [Acc!Next]_Acc!vars
    BY DEF Next, vars, accState, Acc!vars
  <1>6. [Next]_vars => [Ses!Next]_Ses!vars
    BY DEF Next, vars, sesState, Ses!vars, Ses!storeVars, Ses!historyVars
  <1>7. QED
    BY <1>1, <1>2, <1>3, <1>4, <1>5, <1>6, PTL
       DEF Spec, Factor!Spec, Log!Spec, Mail!Spec, Acc!Spec, Ses!Spec

=============================================================================
