----------------------------- MODULE MCLiveness -----------------------------
(***************************************************************************)
(* One TLC run under fairness, for the seats of a license (SeatControl) and *)
(* the lease of a deployment (LeaseRenewal).  They share no state; the      *)
(* initial state picks the part that moves.  The other stays where none of  *)
(* its fair actions is enabled, so its fairness asks for nothing.           *)
(***************************************************************************)
EXTENDS SeatControl

CONSTANTS
    Token, Request, ByUid, Ttl, Grace, Window, Serve, EndOfTerm, MaxTime, LastChange,
    RedisMayLose

VARIABLES
    part,
    now, license, endedAt, bound, install, heartbeat, dead, leaseRows, cached,
    mintedAt, orphans, lost, stage, kind, token, ident, since, barred, answer,
    granted, held, waiting, verdict, client, crossed

leaseState ==
    <<now, license, endedAt, bound, install, heartbeat, dead, leaseRows, cached,
      mintedAt, orphans, lost, stage, kind, token, ident, since, barred, answer,
      granted, held, waiting, verdict, client, crossed>>

\* One machine in two installations.
TwoInstallations ==
    {[fp |-> "h1", uid |-> None, install |-> i, sig |-> {}] : i \in Install}

\* The machine as an activation by an SDK without install_id and signals left it.
OldSdkRow ==
    {[fp |-> "h1", uid |-> None, install |-> None, sig |-> {},
      status |-> "active", hb |-> "null"]}

\* The product and its copy in another installation.
Copies ==
    {[fp |-> "host1", install |-> "id1"], [fp |-> "host2", install |-> "id2"]}

Lease == INSTANCE LeaseRenewal WITH Identity <- Copies

PartInit ==
    /\ part \in {"lease", "seats"}
    /\ Init /\ (part # "seats" => Present = {})
    /\ Lease!Init /\ (part # "lease" => client.fp = "host1")

PartNext ==
    /\ UNCHANGED part
    /\ \/ part = "seats" /\ Next /\ UNCHANGED leaseState
       \/ part = "lease" /\ Lease!Next /\ UNCHANGED vars

\* Of the fair actions, Tick alone is enabled in an initial state.
PartSpec ==
    /\ PartInit /\ [][PartNext]_<<part, vars, leaseState>>
    /\ Fairness
    /\ Lease!CallsEnd /\ SF_leaseState(part = "lease" /\ Lease!Tick)

---------------------------------------------------------------------------
(* The property of the lease. *)

LockedForGood == Lease!LockedForGood

=============================================================================
