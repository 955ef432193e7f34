------------------------------ MODULE MCProbe ------------------------------
(* The two state machines behind a synthetic probe, side by side and small:  *)
(* one execution with its goroutines and its cost, and the runs that try one *)
(* authentication mode after the other.  A behaviour is of one of them.      *)
EXTENDS ProbeExecutor, Calibration

VARIABLE part

MCKinds == {"probe", "canary"}

Calibrates == part = "calibration"
Executes   == part = "executor"

\* What does not move starts from one state.
PartsInit == /\ Init /\ CalibrationInit
             /\ part \in {"calibration", "executor"}
             /\ Calibrates => kind = "probe"

(* An edit of the configuration, or a crash.                                 *)
PartsNext == /\ UNCHANGED part
             /\ \/ Executes /\ Next /\ UNCHANGED calibrationVars
                \/ /\ Calibrates /\ CalibrationNext /\ UNCHANGED vars
                   /\ edits' + crashes' <= 1

PartsFair == /\ WF_vars(Executes /\ Execute)
             /\ WF_vars(Executes /\ ReaderStops)
             /\ WF_vars(Executes /\ RoundTripReturns /\ stop)
             /\ WF_vars(Executes /\ DeadlinePasses)
             /\ WF_calibrationVars(Calibrates /\ Work)

PartsSpec == PartsInit /\ [][PartsNext]_<<part, vars, calibrationVars>> /\ PartsFair

-----------------------------------------------------------------------------
(* An execution ends, and both of its goroutines (ProbeExecutor); a running  *)
(* run ends unless it or a newer one is outdated (Calibration).              *)
ProbesEnd == (Executes => ProbeEnds) /\ RunEnds
=============================================================================
