--------------------------- MODULE EmailFailover ---------------------------
(***************************************************************************)
(* The e-mail service of one process (adapters/email/base.py): a provider   *)
(* chosen by the settings, and a second one behind a circuit breaker.       *)
(* Sends overlap: the breaker is read before the await of the provider,     *)
(* and its counter is written after it.                                     *)
(***************************************************************************)
EXTENDS Naturals, FiniteSets

CONSTANTS
    Message,     \* messages on their way at once
    Threshold,   \* EMAIL_FAILOVER_THRESHOLD
    MaxFailures, \* bound: the counter at which no message is sent any more
    None         \* no value

\* The types for which there is an adapter.
Adapter == {"smtp", "aws_ses", "sendgrid", "aliyun_dm", "tencent_ses", "volcengine_dm"}

VARIABLES
    emailType,     \* EMAIL_TYPE, which may name no adapter
    fallbackType,  \* EMAIL_FALLBACK_TYPE, None when it is empty
    service,       \* "none" until get_email_service returns; then "plain" or "failover"
    failures,      \* _consecutive_failures
    pc             \* where each message is

settingsVars == <<emailType, fallbackType>>
vars == <<settingsVars, service, failures, pc>>

MoveTo(m, place) == pc' = [pc EXCEPT ![m] = place]

\* get_email_service wraps the primary adapter.
HasFallback == fallbackType # None /\ fallbackType # emailType

\* get_email_adapter raises on a type it does not know.
Known == emailType \in Adapter /\ (HasFallback => fallbackType \in Adapter)

GetEmailService ==
    /\ service = "none" /\ Known
    /\ service' = IF HasFallback THEN "failover" ELSE "plain"
    /\ UNCHANGED <<settingsVars, failures, pc>>

\* max(1, threshold)
Limit == IF Threshold > 1 THEN Threshold ELSE 1

Open == failures >= Limit

\* Faulty variant: the primary is tried again although the breaker is open.
AlwaysTried == TRUE

TriesPrimary == ~Open

\* send, down to its first await
StartSend(m) ==
    /\ service # "none" /\ pc[m] = "idle"
    /\ failures < MaxFailures
    /\ MoveTo(m, IF service = "plain" \/ TriesPrimary THEN "primary" ELSE "fallback")
    /\ UNCHANGED <<settingsVars, service, failures>>

PrimarySends(m) ==
    /\ pc[m] = "primary"
    /\ failures' = 0
    /\ MoveTo(m, "idle")
    /\ UNCHANGED <<settingsVars, service>>

\* Without a fallback the caller gets the exception.
PrimaryFails(m) ==
    /\ pc[m] = "primary"
    /\ IF service = "plain"
       THEN MoveTo(m, "idle") /\ UNCHANGED failures
       ELSE MoveTo(m, "fallback") /\ failures' = failures + 1
    /\ UNCHANGED <<settingsVars, service>>

\* The fallback takes the message, or the caller gets its exception.
FallbackEnds(m) ==
    /\ pc[m] = "fallback"
    /\ MoveTo(m, "idle")
    /\ UNCHANGED <<settingsVars, service, failures>>

---------------------------------------------------------------------------
Init ==
    /\ emailType \in {"smtp", "sendgrid", "unknown"}
    /\ fallbackType \in {"smtp", "sendgrid", "unknown", None}
    /\ service = "none" /\ failures = 0
    /\ pc = [m \in Message |-> "idle"]

Next ==
    \/ GetEmailService
    \/ \E m \in Message :
          StartSend(m) \/ PrimarySends(m) \/ PrimaryFails(m) \/ FallbackEnds(m)

Spec == Init /\ [][Next]_vars

\* Messages go on being sent, and each send ends.
Fairness ==
    /\ WF_vars(GetEmailService)
    /\ \A m \in Message :
          WF_vars(StartSend(m) \/ PrimarySends(m) \/ PrimaryFails(m) \/ FallbackEnds(m))

FairSpec == Spec /\ Fairness

---------------------------------------------------------------------------
(* Properties. *)

\* A primary that is down is not tried without end: however many sends overlap,
\* the failures in a row pass the threshold by no more than the sends that read
\* the breaker before the failure that opened it was counted.
FailuresBounded == failures < Limit + Cardinality(Message)

\* What a comment says and the code does not keep.

\* base.py: a single later success on the primary closes the breaker again - so an
\* open breaker is closed, or at least somebody goes on trying the primary.
BreakerCloses == Open ~> ~Open \/ \E m \in Message : pc[m] = "primary"

=============================================================================
