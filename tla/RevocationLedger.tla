-------------------------- MODULE RevocationLedger --------------------------
(***************************************************************************)
(* What the revocation of offline licenses promises to whoever imports its  *)
(* lists: revocations are a log that only grows, and every list published   *)
(* is what the log held at some moment.  Two lists can therefore always be  *)
(* compared, and a list names nobody who was not revoked.                   *)
(***************************************************************************)
EXTENDS Sequences, Naturals

CONSTANT Offline  \* the licenses

VARIABLES
    log,       \* the licenses revoked, in order
    published  \* the lists published, in order: sets of licenses

Snapshot(n) == {log[i] : i \in 1..n}

Init == log = <<>> /\ published = <<>>

Revoke(l) ==
    /\ l \notin Snapshot(Len(log))
    /\ log' = Append(log, l)
    /\ UNCHANGED published

Publish(n) ==
    /\ published' = Append(published, Snapshot(n))
    /\ UNCHANGED log

Next ==
    \/ \E l \in Offline : Revoke(l)
    \/ \E n \in 0..Len(log) : Publish(n)

Spec == Init /\ [][Next]_<<log, published>>

=============================================================================
