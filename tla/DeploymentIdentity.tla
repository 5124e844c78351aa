------------------------- MODULE DeploymentIdentity -------------------------
(***************************************************************************)
(* The identity a product presents (verifier-sdk, fingerprint.py and        *)
(* ForgeVerifier) and whether forge-edge, by the rules of Identity, still   *)
(* recognises the deployment that holds the seat of a license.              *)
(*                                                                         *)
(* The host changes under the product: it is renamed, gets another network  *)
(* card, other processors or a new operating system, and a container is     *)
(* created again, here or on another node.  Several processes of the        *)
(* product may start at once and share the file with the install_id; a      *)
(* process computes its identity once and keeps it.  A value that is random *)
(* or new is modelled by a number never used before.                        *)
(***************************************************************************)
EXTENDS Integers, FiniteSets

CONSTANTS
    Process,     \* the product's processes
    MaxStarts,   \* bound: starts of a process
    MaxChanges,  \* bound: changes of the host
    None         \* no value

VARIABLES
    host,      \* what fingerprint.py reads: machine_id (0: none), mac (0: it has
               \* to be invented), hostname, cpu (architecture and number of
               \* processors), dmi (the board, 0: for root only), container,
               \* uid (FORGE_DEPLOYMENT_UID is set), writable (the file's directory)
    file,      \* the id in the install_id file, 0 when absent or empty
    pc,        \* where each process is
    identity,  \* the identity each process presents
    origin,    \* history: the host it was computed from
    binding,   \* the active binding of the license at the server, or None
    starts,    \* processes started
    changes,   \* changes of the host
    boundHost, \* history: the host the identity in the binding was computed from
    lost       \* history: the install_id may differ from the one once sent

vars == <<host, file, pc, identity, origin, binding, starts, changes, boundHost, lost>>

\* _raw_machine_id: /etc/machine-id, or else the name and uuid.getnode(), which
\* makes up a number in every process when there is no card to read.
RawMachineId(h, start) ==
    IF h.machine_id # 0 THEN <<"linux", h.machine_id, 0>>
    ELSE <<"fallback", h.hostname, IF h.mac # 0 THEN h.mac ELSE -start>>

\* deployment_uid
DeploymentUid(h) == IF h.uid /\ h.container THEN "uid" ELSE None

\* _dmi: what only root can read.  As the whole vector, a faulty variant.
FirmwareSignals(h) ==
    IF h.dmi = 0 THEN {}
    ELSE {"dmi_product_uuid", "board_serial", "disk_serial"} \X {h.dmi}

\* collect_signals: what cannot be read is left out, an invented MAC as well.
Signals(h) ==
    {<<"cpu_sig", h.cpu>>}
    \cup {s \in {<<"machine_id", h.machine_id>>, <<"mac", h.mac>>} : s[2] # 0}
    \cup FirmwareSignals(h)

IdentityOf(h, start, id) ==
    [fp |-> RawMachineId(h, start), uid |-> DeploymentUid(h), install |-> id, sig |-> Signals(h)]

INSTANCE Identity WITH
    Fingerprint <- {"linux", "fallback"} \X (0..MaxChanges + 1) \X (-MaxStarts..MaxChanges + 1),
    Uid <- {"uid"},
    Install <- 1..MaxStarts,
    Signal <- {"cpu_sig", "machine_id", "mac", "dmi_product_uuid", "board_serial",
               "disk_serial"} \X (1..MaxChanges + 1)

---------------------------------------------------------------------------
(* ForgeVerifier.__init__ *)

\* Faulty variant: what was stored is never long enough.
AlwaysFresh(id) == FALSE

\* ensure_install_id: len(existing) >= 16
Usable(id) == id # 0

Start(p) ==
    /\ pc[p] = "off"
    /\ starts < MaxStarts
    /\ starts' = starts + 1
    /\ IF Usable(file)
       THEN /\ identity' = [identity EXCEPT ![p] = IdentityOf(host, starts + 1, file)]
            /\ pc' = [pc EXCEPT ![p] = "running"]
            /\ UNCHANGED lost
       ELSE /\ identity' = [identity EXCEPT ![p] = IdentityOf(host, starts + 1, starts + 1)]
            /\ pc' = [pc EXCEPT ![p] = IF host.writable THEN "creating" ELSE "running"]
            /\ lost' = (lost \/ ~host.writable \/ \E q \in Process : pc[q] \in {"creating", "writing"})
    /\ origin' = [origin EXCEPT ![p] = host]
    /\ UNCHANGED <<host, file, binding, changes, boundHost>>

\* os.open with O_TRUNC
TruncateFile(p) ==
    /\ pc[p] = "creating"
    /\ file' = 0
    /\ pc' = [pc EXCEPT ![p] = "writing"]
    /\ UNCHANGED <<host, identity, origin, binding, starts, changes, boundHost, lost>>

WriteFile(p) ==
    /\ pc[p] = "writing"
    /\ file' = identity[p].install
    /\ pc' = [pc EXCEPT ![p] = "running"]
    /\ UNCHANGED <<host, identity, origin, binding, starts, changes, boundHost, lost>>

Stop(p) ==
    /\ pc[p] # "off"
    /\ pc' = [pc EXCEPT ![p] = "off"]
    /\ identity' = [identity EXCEPT ![p] = None]
    /\ UNCHANGED <<host, file, origin, binding, starts, changes, boundHost, lost>>

---------------------------------------------------------------------------
(* activate_online, on the only seat of the license *)

Recognised(q) == Matches([b \in {1} |-> binding], {1}, q) # {}

\* EdgeService.activate inserts the binding.
ActivateFirst(p) ==
    /\ pc[p] = "running" /\ binding = None
    /\ binding' = identity[p]
    /\ boundHost' = origin[p]
    /\ UNCHANGED <<host, file, pc, identity, origin, starts, changes, lost>>

\* EdgeService.activate reuses the binding.  A deployment it does not recognise
\* needs another seat, and one with another install_id is refused.
ActivateAgain(p) ==
    /\ pc[p] = "running" /\ binding # None
    /\ Recognised(identity[p])
    /\ ~InstallClash(binding, identity[p])
    /\ binding' = identity[p]
    /\ boundHost' = origin[p]
    /\ UNCHANGED <<host, file, pc, identity, origin, starts, changes, lost>>

---------------------------------------------------------------------------
(* The host *)

Renamed(h) == [h EXCEPT !.hostname = @ + 1]
NewCard(h) == [h EXCEPT !.mac = IF @ = 0 THEN 0 ELSE @ + 1]
Resized(h) == [h EXCEPT !.cpu = @ + 1]
NewSystem(h) == [h EXCEPT !.machine_id = IF @ = 0 THEN 0 ELSE @ + 1]

\* A container that is created again has another name and another card, and on
\* another node the processors and the board of that one.
Recreated(h) == NewCard(Renamed(h))
Moved(h) == [Resized(Recreated(h)) EXCEPT !.dmi = IF @ = 0 THEN 0 ELSE @ + 1]

\* What can change under processes that run.
HostDrifts ==
    /\ changes < MaxChanges
    /\ changes' = changes + 1
    /\ host' \in {Renamed(host), NewCard(host), Resized(host)}
    /\ UNCHANGED <<file, pc, identity, origin, binding, starts, boundHost, lost>>

\* What stops them all.  The product's files may or may not be on a disk or a
\* volume that is kept.
HostRebuilt ==
    /\ changes < MaxChanges
    /\ \A p \in Process : pc[p] = "off"
    /\ changes' = changes + 1
    /\ \/ host' = NewSystem(host)
       \/ host.container /\ host' \in {Recreated(host), Moved(host)}
    /\ file' \in {file, 0}
    /\ lost' = (lost \/ file' # file)
    /\ UNCHANGED <<pc, identity, origin, binding, starts, boundHost>>

---------------------------------------------------------------------------
Init ==
    /\ host \in [machine_id: {0, 1}, mac: {0, 1}, hostname: {1}, cpu: {1}, dmi: {0, 1},
                 container: BOOLEAN, uid: BOOLEAN, writable: BOOLEAN]
    /\ file = 0
    /\ pc = [p \in Process |-> "off"]
    /\ identity = [p \in Process |-> None]
    /\ origin = [p \in Process |-> host]
    /\ binding = None
    /\ starts = 0 /\ changes = 0
    /\ boundHost = host
    /\ lost = FALSE

Next ==
    \/ \E p \in Process :
          \/ Start(p) \/ TruncateFile(p) \/ WriteFile(p) \/ Stop(p)
          \/ ActivateFirst(p) \/ ActivateAgain(p)
    \/ HostDrifts \/ HostRebuilt

Spec == Init /\ [][Next]_vars

---------------------------------------------------------------------------
(* Properties. *)

\* What can be read of the host h and is what it was of the bound one.
Kept(h) ==
    {f \in {"machine_id", "mac", "hostname", "cpu", "dmi"} : h[f] = boundHost[f] /\ h[f] # 0}

\* A deployment that activated keeps its seat, whatever else of its host changed:
\* with its uid in a container, with its machine-id, as root on the same board, on
\* the same card and the same processors, and, where there is no machine-id, with
\* the same name and card.  A card alone is one signal, which is not enough.
HostRecognised ==
    \A p \in Process :
        /\ pc[p] = "running" /\ binding # None
        /\ \/ origin[p].container /\ origin[p].uid
           \/ "machine_id" \in Kept(origin[p])
           \/ "dmi" \in Kept(origin[p])
           \/ {"mac", "cpu"} \subseteq Kept(origin[p])
           \/ origin[p].machine_id = 0 /\ {"hostname", "mac"} \subseteq Kept(origin[p])
        => Recognised(identity[p])

\* A deployment that is recognised is refused because of its install_id only if
\* the id was lost: with the file, with a directory that cannot be written, or
\* when two processes started for the first time at once.
RefusedOnlyIfIdLost ==
    \A p \in Process :
        pc[p] = "running" /\ binding # None /\ ~lost
        => ~InstallClash(binding, identity[p])

=============================================================================
