--------------------------- MODULE MCSeatControl ---------------------------
(***************************************************************************)
(* Instances of SeatControl for TLC.                                        *)
(***************************************************************************)
EXTENDS SeatControl, TLC

\* Hosts with nothing in common: bare-metal identities without drift.
DistinctHosts ==
    {[fp |-> f, uid |-> None, install |-> None, sig |-> {}] : f \in Fingerprint}

\* A machine h1; the same machine after a drift of its fingerprint (or a copy
\* of its signals on another machine); and a cluster member on that host, whose
\* identity is an injected uid.
MixedHosts ==
    {[fp |-> "h1", uid |-> None, install |-> None, sig |-> Signal],
     [fp |-> "h2", uid |-> None, install |-> None, sig |-> Signal],
     [fp |-> "h2", uid |-> "u1", install |-> None, sig |-> {}]}

\* One machine in two installations.
TwoInstallations ==
    {[fp |-> "h1", uid |-> None, install |-> i, sig |-> {}] : i \in Install}

MixedSignals == {<<"dmi", 1>>, <<"board", 1>>}

NoLegacy == {}

\* h1 as an activation by an SDK without install_id and signals left it.
OldSdkRow ==
    {[fp |-> "h1", uid |-> None, install |-> None, sig |-> {},
      status |-> "active", hb |-> "null"]}

\* Requests are interchangeable, and so are rows.
RowSymmetry == Permutations(Activation) \cup Permutations(Slot)

=============================================================================
