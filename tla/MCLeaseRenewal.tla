--------------------------- MODULE MCLeaseRenewal ---------------------------
(***************************************************************************)
(* Instances of LeaseRenewal for TLC.                                       *)
(***************************************************************************)
EXTENDS LeaseRenewal

\* The product never changes its host.
OneHost == {[fp |-> "host1", install |-> "id1"]}

=============================================================================
