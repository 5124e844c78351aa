-------------------------- MODULE MCSeatLifecycle --------------------------
(***************************************************************************)
(* One TLC run for the seats of a license, in two parts of which the        *)
(* initial state picks one: the whole system of SeatControl with two        *)
(* activations of look-alike hosts and two rows, and the race of three      *)
(* activations of different hosts on a license nobody else touches.         *)
(***************************************************************************)
EXTENDS MCSeatControl

CONSTANTS
    Third,  \* the activation that takes part in the race only
    Spare   \* the row that is used in the race only

ASSUME ThirdAssumption == Third \in Activation /\ Spare \in Slot

VARIABLE part

PartsInit ==
    /\ part \in {"lifecycle", "race"}
    /\ Init
    /\ row[Spare] = AbsentRow
    /\ (part = "race" => Present = {})

LifecycleNext ==
    /\ SlowNext
    /\ pc'[Third] = "idle"
    /\ \A a \in Activation :
          req'[a] \in MixedHosts \cup {NoRequest} /\ target'[a] # Spare

RaceNext ==
    /\ \E a \in Activation : Activate(a)
    /\ \A a \in Activation : req'[a] \in DistinctHosts \cup {NoRequest}

PartsNext ==
    /\ UNCHANGED part
    /\ \/ part = "lifecycle" /\ LifecycleNext
       \/ part = "race" /\ RaceNext

PartsSpec == PartsInit /\ [][PartsNext]_<<part, vars>>

\* Requests are interchangeable but for the third, and so are rows.
PartsSymmetry ==
    Permutations(Activation \ {Third}) \cup Permutations(Slot \ {Spare})

\* All but the clone alert, which no code reads: two states that differ in it alone
\* have the same steps.
AlertAside == <<part, licVars, row, holder, actVars, doomed>>

\* What hosts present to activate in either part.
AllHosts == MixedHosts \cup DistinctHosts

=============================================================================
