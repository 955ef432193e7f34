------------------------------ MODULE MCQuiesce ------------------------------
(* Bringing the service to rest, small: the gate of synthetic probes by      *)
(* itself, with Close; the same gate under the controller; and the rotation  *)
(* of the master key with its fences.  A behaviour is of one of the three,   *)
(* and what has to happen in the end is asked of each.                       *)
EXTENDS RunState, MasterRotation

VARIABLE part

Alone      == part = "gate"
Controlled == part = "controller"
Rotates    == part = "rotation"

\* What does not move starts from one state.
PartsInit == /\ Init /\ MasterInit
             /\ part \in {"gate", "controller", "rotation"}
             /\ ~Rotates => running
             /\ Rotates => db.state = "running"

PartsNext ==
    /\ UNCHANGED part
    /\ \/ Alone /\ CoordNext /\ UNCHANGED <<ctlVars, masterVars>>
       \/ Controlled /\ Next /\ UNCHANGED masterVars
       \/ Rotates /\ MasterNext /\ UNCHANGED vars

GateFair ==
    /\ \A j \in Jobs : /\ WF_coordVars(Alone /\ ~panicked /\ AcquireLease(j))
                       /\ WF_coordVars(Alone /\ ~panicked /\ AcquireConfirm(j))
                       /\ WF_coordVars(Alone /\ ~panicked /\ AcquireReject(j))
                       /\ WF_coordVars(Alone /\ ~panicked /\ Release(j))
    /\ \A c \in Callers : WF_coordVars(Alone /\ ~panicked /\ CallStep(c))

ControllerFair ==
    /\ \A c \in Callers : /\ WF_vars(Controlled /\ ~panicked /\ CtlStep(c))
                          /\ WF_vars(Controlled /\ ~panicked /\ GateStep(c))
    /\ WF_vars(Controlled /\ ~panicked /\ \E j \in Jobs : job[j] # "idle" /\ LeaseStep(j))

RotationFair == \A r \in Rotators : WF_masterVars(Rotates /\ Rotate(r))

PartsSpec == /\ PartsInit /\ [][PartsNext]_<<part, vars, masterVars>>
             /\ GateFair /\ ControllerFair /\ RotationFair

-----------------------------------------------------------------------------
(* Close returns (SyntheticCoordinator), a pause that could not drain stops  *)
(* being pending (RunState), and every rotation ends, or holds the service   *)
(* on purpose (MasterRotation).                                              *)
QuiesceEnds == CloseReturns /\ PendingClears /\ MaintenanceEnds
=============================================================================
