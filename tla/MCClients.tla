----------------------------- MODULE MCClients -----------------------------
(***************************************************************************)
(* One TLC run for the clients of the two verifiers: a product that renews  *)
(* its lease (LeaseRenewal) and one that checks an offline license          *)
(* (OfflineRevocation).  They share no state; the initial state picks the   *)
(* part that moves, and the other stays as it starts.  The lease has two    *)
(* parts: a host that never changes while Redis may lose its keys, and a    *)
(* host that may change when the product restarts, on a license that stays. *)
(***************************************************************************)
EXTENDS LeaseRenewal, OfflineRevocation, TLC

CONSTANT MovesMaxTime \* bound of the clock while the host moves

VARIABLE part

leaseState == <<now, adminVars, bindVars, leaseVars, reqVars, sdkVars>>

\* A product without install_id that was replaced on another host by one with it.
HostMoves ==
    {[fp |-> "host1", install |-> None], [fp |-> "host2", install |-> "id1"]}

\* The first list is of the first month, and the last of that or of the last month.
PublicationTimes == {t \in [1..MaxVersion -> {0, MaxMonth}] : t[1] = 0}

ClientsInit ==
    /\ part \in {"online", "moved", "offline"}
    /\ Init /\ (part # "moved" => client.install # None)
    /\ OfflineInit /\ generatedAt \in PublicationTimes
    /\ (part # "offline" => generatedAt[MaxVersion] = 0)

HostStays == client' = client
HostMayMove == now' <= MovesMaxTime /\ ~lost' /\ license' = "valid"

ClientsNext ==
    /\ UNCHANGED part
    /\ \/ part = "online" /\ Next /\ HostStays /\ UNCHANGED offlineVars
       \/ part = "moved" /\ Next /\ HostMayMove /\ UNCHANGED offlineVars
       \/ part = "offline" /\ OfflineNext /\ UNCHANGED leaseState

ClientsSpec == ClientsInit /\ [][ClientsNext]_<<part, leaseState, offlineVars>>

\* All but the verdict of the last call, which the next one does not read: two states
\* that differ in it alone have the same steps.
VerdictAside ==
    <<part, now, adminVars, bindVars, leaseVars, reqVars, held, waiting, client, crossed,
      offlineVars>>

\* Tokens and requests, generations and processes of the product are
\* interchangeable.  The parts share no state, so a token and a generation may be
\* the same model value, which keeps the group small.
Symmetry ==
    Permutations(Token \cup Generator) \cup Permutations(Request \cup Verifier)

=============================================================================
