-------------------------------- MODULE Faults --------------------------------
(***************************************************************************)
(* Every call that leaves the process can fail.  A failure has a kind; a   *)
(* model chooses the kinds that may occur, and at most MaxFaults of them   *)
(* occur in one behaviour.                                                 *)
(***************************************************************************)
EXTENDS Naturals

CONSTANTS
  FaultKinds,   \* the kinds of failure that may occur
  MaxFaults     \* bound: failures in one behaviour

ASSUME FaultAssumption == MaxFaults \in Nat

VARIABLE faults \* failures so far

NoFault == UNCHANGED faults

Fault(kind) ==
  /\ kind \in FaultKinds
  /\ faults < MaxFaults
  /\ faults' = faults + 1

\* A failure that the code itself lets happen only so often is not counted.
BoundedFault(kind) ==
  /\ kind \in FaultKinds
  /\ UNCHANGED faults
=============================================================================
