------------------------------ MODULE Identity ------------------------------
(***************************************************************************)
(* How forge-edge recognises a deployment: EdgeService._match_binding of    *)
(* app/services/edge.py.  A presented identity q and a stored binding b are *)
(* records with the fields                                                  *)
(*     fp       the fingerprint string,                                     *)
(*     uid      the injected deployment_uid, or None,                       *)
(*     install  the install_id of the first activation, or None,            *)
(*     sig      the signal vector {signal: sha256}, as a set of pairs       *)
(*              <<signal, hash>>; an absent vector is the empty set.        *)
(***************************************************************************)
EXTENDS Integers, FiniteSets

CONSTANTS
    None,         \* a nullable column or field without a value
    Fingerprint,  \* fingerprints a host can present
    Uid,          \* deployment_uid values that can be injected
    Install,      \* install_id values
    Signal        \* <<signal, hash>> pairs

IdentityRecord ==
    [fp: Fingerprint, uid: Uid \cup {None}, install: Install \cup {None},
     sig: SUBSET Signal]

\* edge.py _FUZZY_MIN: equal signals that make two vectors the same machine.
FuzzyMin == 2

SameUid(b, q) == b.uid = q.uid

\* Faulty variant: the hardware tier looks at cluster bindings too.
SameFingerprint(b, q) == b.fp = q.fp

SameHardware(b, q) == b.uid = None /\ b.fp = q.fp

DriftedHardware(b, q) ==
    b.uid = None /\ Cardinality(b.sig \cap q.sig) >= FuzzyMin

\* The bindings _match_binding may return for q among the rows tbl[s], s \in S.
\* The SELECT has no ORDER BY, so within a tier any of them can come first.  An
\* injected uid decides alone: it never falls through to the hardware tiers.
Matches(tbl, S, q) ==
    LET exact == {s \in S : SameHardware(tbl[s], q)}
    IN  IF q.uid # None THEN {s \in S : SameUid(tbl[s], q)}
        ELSE IF exact # {} THEN exact
        ELSE {s \in S : DriftedHardware(tbl[s], q)}

\* install_id double lock: both sides carry one and they differ.
InstallClash(b, q) ==
    b.install # None /\ q.install # None /\ b.install # q.install

=============================================================================
