----------------------------- MODULE RunStateProofs -----------------------------
(***************************************************************************)
(* Proofs about SyntheticCoordinator, for every set of jobs and callers,   *)
(* and about RunState over it, for every set of clients, background drains *)
(* and synthetic attempts, and every bound on revisions; and about         *)
(* AlertMailer, for every set of identities, callers and settings.         *)
(***************************************************************************)
EXTENDS RunState, AlertMailer, FiniteSetTheorems, TLAPS

(***************************************************************************)
(* The coordinator, by itself.                                             *)
(***************************************************************************)

\* A job descends from a root exactly while it is counted, and from a root
\* that a caller has swapped out only while that caller has yet to cancel it.
Parents ==
    /\ \A j \in Jobs : parent[j] = "none" <=> job[j] \notin Counted
    /\ \A j \in Jobs : \A c \in Callers :
          parent[j] = c => call[c] = "broadcast"

\* While the gate is shut and nobody is about to replace or cancel the current
\* root, no job descends from it.
CurrentUnused ==
    ~open /\ (\A c \in Callers : call[c] \notin {"swap", "closeRoot"}) =>
        \A j \in Jobs : parent[j] # "current"

\* A gate that nobody reopened is still shut.
ShutGate ==
    \A c \in Callers : call[c] \in Cancelling /\ ~reopened[c] => ~open

\* A draining call has a Wait() goroutine; once that returned and nobody
\* reopened the gate, the group is still empty.
WaitedEmpty ==
    \A c \in Callers :
        /\ call[c] = "drain" => waiter[c] # "none"
        /\ call[c] = "drain" /\ waiter[c] = "done" /\ ~reopened[c] => Leases = {}
        /\ call[c] = "closeWait" /\ waiter[c] = "done" => Leases = {}

\* Every step of Close after the first leaves the coordinator closed.
ClosedFlag ==
    \A c \in Callers :
        call[c] \in {"closeGate", "closeRoot", "closeWait", "closed"} => closed

IInv == /\ CoordTypeOK /\ Parents /\ CurrentUnused /\ ShutGate
        /\ WaitedEmpty /\ ClosedFlag
        /\ DrainedIsEmpty /\ CloseIsFinal

-----------------------------------------------------------------------------
\* The gate starts with no lease, no call and nothing to drain.
LEMMA InitInv == ASSUME NEW b \in BOOLEAN, CoordInit(b) PROVE IInv
  BY CallersAssumption DEF CoordInit, IInv, CoordTypeOK, Parents, CurrentUnused,
     ShutGate, WaitedEmpty, ClosedFlag, DrainedIsEmpty, CloseIsFinal, JobStates,
     CallStates, WaiterStates, Cancelling, Counted, Leases

\* leases.Done() keeps every part: it can only empty the group.
LEMMA DoneInv ==
    ASSUME IInv, NEW j \in Jobs, Done(j) PROVE IInv'
  <1> USE CallersAssumption DEF IInv, Done
  <1>1. CoordTypeOK'
    <2>1. job' \in [Jobs -> JobStates]
      BY DEF CoordTypeOK, JobStates
    <2>2. parent' \in [Jobs -> {"none", "current", "cancelled"} \cup Callers]
      BY DEF CoordTypeOK
    <2>3. waiter' \in [Callers -> WaiterStates]
      BY DEF CoordTypeOK, WaiterStates
    <2>4. strays' \subseteq {"starting", "blocked", "woken"}
      <3>1. CASE Leases = {j}
        BY <3>1 DEF CoordTypeOK
      <3>2. CASE Leases # {j}
        BY <3>2 DEF CoordTypeOK
      <3> QED BY <3>1, <3>2
    <2> QED BY <2>1, <2>2, <2>3, <2>4 DEF CoordTypeOK
  <1>2. Leases' \subseteq Leases
    BY DEF Leases, Counted, CoordTypeOK
  <1>3. \A c \in Callers : /\ waiter'[c] = "done" => waiter[c] = "done"
                          /\ waiter'[c] = "none" => waiter[c] = "none"
    BY DEF CoordTypeOK
  <1>4. Parents' /\ CurrentUnused'
    BY DEF Parents, CurrentUnused, Counted, CoordTypeOK
  <1>5. WaitedEmpty' /\ DrainedIsEmpty' /\ CloseIsFinal'
    BY <1>2, <1>3 DEF WaitedEmpty, DrainedIsEmpty, CloseIsFinal
  <1>6. ShutGate' /\ ClosedFlag'
    BY DEF ShutGate, ClosedFlag
  <1> QED BY <1>1, <1>4, <1>5, <1>6

\* The steps of AcquireSynthetic: only AcquireLease adds to the group, and it
\* needs an open gate.
LEMMA JobInv ==
    ASSUME IInv, NEW j \in Jobs, JobStep(j) PROVE IInv'
  <1> USE CallersAssumption DEF IInv, Counted, Leases
  <1>1. CASE AcquireEnter(j)
    BY <1>1 DEF AcquireEnter, CoordTypeOK, JobStates, Parents, CurrentUnused,
       ShutGate, WaitedEmpty, ClosedFlag, DrainedIsEmpty, CloseIsFinal
  <1>2. CASE AcquireLease(j)
    <2>1. CASE ~closed /\ open
      BY <1>2, <2>1 DEF AcquireLease, CoordTypeOK, JobStates, Parents,
         CurrentUnused, ShutGate, WaitedEmpty, ClosedFlag, DrainedIsEmpty,
         CloseIsFinal, Cancelling
    <2>2. CASE ~(~closed /\ open)
      BY <1>2, <2>2 DEF AcquireLease, CoordTypeOK, JobStates, Parents,
         CurrentUnused, ShutGate, WaitedEmpty, ClosedFlag, DrainedIsEmpty,
         CloseIsFinal
    <2> QED BY <2>1, <2>2
  <1>3. CASE AcquireConfirm(j)
    BY <1>3 DEF AcquireConfirm, CoordTypeOK, JobStates, Parents, CurrentUnused,
       ShutGate, WaitedEmpty, ClosedFlag, DrainedIsEmpty, CloseIsFinal
  <1>4. CASE AcquireGrant(j)
    BY <1>4 DEF AcquireGrant, CoordTypeOK, JobStates, Parents, CurrentUnused,
       ShutGate, WaitedEmpty, ClosedFlag, DrainedIsEmpty, CloseIsFinal
  <1>5. CASE AcquireReject(j) \/ Release(j)
    BY <1>5, DoneInv DEF AcquireReject, Release
  <1> QED BY <1>1, <1>2, <1>3, <1>4, <1>5 DEF JobStep

\* The steps of CancelSynthetic and of its Wait() goroutine.
LEMMA CancelInv ==
    ASSUME IInv, NEW c \in Callers, CancelStep(c) \/ CancelCall(c) \/ CancelReturn(c)
    PROVE  IInv'
  <1> USE CallersAssumption DEF IInv, Counted, Leases, Cancelling
  <1>1. CASE CancelCall(c)
    BY <1>1 DEF CancelCall, CoordTypeOK, CallStates, Parents, CurrentUnused,
       ShutGate, WaitedEmpty, ClosedFlag, DrainedIsEmpty, CloseIsFinal
  <1>2. CASE CancelShut(c)
    BY <1>2 DEF CancelShut, CoordTypeOK, CallStates, Parents, CurrentUnused,
       ShutGate, WaitedEmpty, ClosedFlag, DrainedIsEmpty, CloseIsFinal
  <1>3. CASE CancelSwap(c)
    BY <1>3 DEF CancelSwap, Reparent, CoordTypeOK, CallStates, Parents,
       CurrentUnused, ShutGate, WaitedEmpty, ClosedFlag, DrainedIsEmpty,
       CloseIsFinal
  <1>4. CASE CancelBroadcast(c)
    BY <1>4 DEF CancelBroadcast, Reparent, CoordTypeOK, CallStates, WaiterStates,
       Parents, CurrentUnused, ShutGate, WaitedEmpty, ClosedFlag,
       DrainedIsEmpty, CloseIsFinal
  <1>5. CASE WaiterEnter(c)
    BY <1>5 DEF WaiterEnter, CoordTypeOK, WaiterStates, Parents, CurrentUnused,
       ShutGate, WaitedEmpty, ClosedFlag, DrainedIsEmpty, CloseIsFinal
  <1>6. CASE WaiterReturn(c)
    BY <1>6 DEF WaiterReturn, CoordTypeOK, WaiterStates, Parents, CurrentUnused,
       ShutGate, WaitedEmpty, ClosedFlag, DrainedIsEmpty, CloseIsFinal
  <1>7. CASE CancelDrained(c)
    BY <1>7 DEF CancelDrained, CoordTypeOK, CallStates, WaiterStates, Parents,
       CurrentUnused, ShutGate, WaitedEmpty, ClosedFlag, DrainedIsEmpty,
       CloseIsFinal
  <1>8. CASE CancelTimeout(c)
    <2>1. strays' \subseteq {"starting", "blocked", "woken"}
      BY <1>8 DEF CancelTimeout, CoordTypeOK, WaiterStates, WaitedEmpty
    <2>2. /\ call' = [call EXCEPT ![c] = "timedout"]
          /\ reopened' = [reopened EXCEPT ![c] = FALSE]
          /\ waiter' = [waiter EXCEPT ![c] = "none"]
          /\ UNCHANGED <<open, closed, job, parent, panicked>>
          /\ call[c] = "drain"
      BY <1>8 DEF CancelTimeout
    <2>3. CoordTypeOK'
      BY <2>1, <2>2 DEF CoordTypeOK, CallStates, WaiterStates
    <2>4. Parents' /\ CurrentUnused'
      BY <2>2 DEF CoordTypeOK, Parents, CurrentUnused
    <2>5. ShutGate' /\ ClosedFlag'
      BY <2>2 DEF CoordTypeOK, ShutGate, ClosedFlag
    <2>6. WaitedEmpty' /\ DrainedIsEmpty' /\ CloseIsFinal'
      BY <2>2 DEF CoordTypeOK, WaitedEmpty, DrainedIsEmpty, CloseIsFinal
    <2> QED BY <2>3, <2>4, <2>5, <2>6
  <1>9. CASE CancelReturn(c)
    BY <1>9 DEF CancelReturn, CoordTypeOK, CallStates, Parents, CurrentUnused,
       ShutGate, WaitedEmpty, ClosedFlag, DrainedIsEmpty, CloseIsFinal
  <1> QED BY <1>1, <1>2, <1>3, <1>4, <1>5, <1>6, <1>7, <1>8, <1>9
          DEF CancelStep

\* The steps of ResumeGradually: opening the gate is recorded for every call
\* that has shut it.
LEMMA ResumeInv ==
    ASSUME IInv, NEW c \in Callers,
           ResumeCall(c) \/ ResumeCheck(c) \/ ResumeOpen(c)
    PROVE  IInv'
  <1> USE CallersAssumption DEF IInv, Counted, Leases, Cancelling
  <1>1. CASE ResumeCall(c)
    BY <1>1 DEF ResumeCall, CoordTypeOK, CallStates, Parents, CurrentUnused,
       ShutGate, WaitedEmpty, ClosedFlag, DrainedIsEmpty, CloseIsFinal
  <1>2. CASE ResumeCheck(c)
    BY <1>2 DEF ResumeCheck, CoordTypeOK, CallStates, Parents, CurrentUnused,
       ShutGate, WaitedEmpty, ClosedFlag, DrainedIsEmpty, CloseIsFinal
  <1>3. CASE ResumeOpen(c)
    <2>1. /\ CoordTypeOK'
          /\ \A d \in Callers : reopened'[d] = (call[d] \in Cancelling)
      BY <1>3 DEF ResumeOpen, CoordTypeOK, CallStates
    <2>2. Parents' /\ CurrentUnused' /\ ClosedFlag'
      BY <1>3 DEF ResumeOpen, CoordTypeOK, Parents, CurrentUnused, ClosedFlag
    <2>3. ShutGate' /\ WaitedEmpty' /\ DrainedIsEmpty' /\ CloseIsFinal'
      BY <1>3, <2>1 DEF ResumeOpen, CoordTypeOK, ShutGate, WaitedEmpty,
         DrainedIsEmpty, CloseIsFinal
    <2> QED BY <2>1, <2>2, <2>3
  <1> QED BY <1>1, <1>2, <1>3

\* The steps of Close.
LEMMA CloseInv ==
    ASSUME IInv, NEW c \in Callers,
           \/ CloseCall(c) \/ CloseFlag(c) \/ CloseGate(c) \/ CloseRoot(c)
           \/ CloseDone(c)
    PROVE  IInv'
  <1> USE CallersAssumption DEF IInv, Counted, Leases, Cancelling
  <1>1. CASE CloseCall(c)
    BY <1>1 DEF CloseCall, CoordTypeOK, CallStates, Parents, CurrentUnused,
       ShutGate, WaitedEmpty, ClosedFlag, DrainedIsEmpty, CloseIsFinal
  <1>2. CASE CloseFlag(c)
    BY <1>2 DEF CloseFlag, CoordTypeOK, CallStates, Parents, CurrentUnused,
       ShutGate, WaitedEmpty, ClosedFlag, DrainedIsEmpty, CloseIsFinal
  <1>3. CASE CloseGate(c)
    BY <1>3 DEF CloseGate, CoordTypeOK, CallStates, Parents, CurrentUnused,
       ShutGate, WaitedEmpty, ClosedFlag, DrainedIsEmpty, CloseIsFinal
  <1>4. CASE CloseRoot(c)
    BY <1>4 DEF CloseRoot, Reparent, CoordTypeOK, CallStates, WaiterStates,
       Parents, CurrentUnused, ShutGate, WaitedEmpty, ClosedFlag,
       DrainedIsEmpty, CloseIsFinal
  <1>5. CASE CloseDone(c)
    BY <1>5 DEF CloseDone, CoordTypeOK, CallStates, WaiterStates, Parents,
       CurrentUnused, ShutGate, WaitedEmpty, ClosedFlag, DrainedIsEmpty,
       CloseIsFinal
  <1> QED BY <1>1, <1>2, <1>3, <1>4, <1>5

\* The goroutines left behind by a timeout touch only themselves.
LEMMA StrayInv ==
    ASSUME IInv, StrayEnter \/ StrayReturn PROVE IInv'
  <1>1. /\ strays' \subseteq {"starting", "blocked", "woken"}
        /\ panicked' \in BOOLEAN
        /\ UNCHANGED <<open, closed, job, parent, call, waiter, reopened>>
    <2>1. CASE StrayEnter
      BY <2>1 DEF IInv, StrayEnter, CoordTypeOK
    <2>2. CASE StrayReturn
      BY <2>2 DEF IInv, StrayReturn, CoordTypeOK
    <2> QED BY <2>1, <2>2
  <1> QED BY <1>1 DEF IInv, CoordTypeOK, Parents, CurrentUnused, ShutGate,
     WaitedEmpty, ClosedFlag, DrainedIsEmpty, CloseIsFinal, Leases, Counted

\* A step that changes nothing of the coordinator keeps its invariant.
LEMMA StutterInv ==
    ASSUME IInv, UNCHANGED coordVars PROVE IInv'
  BY DEF IInv, coordVars, CoordTypeOK, Parents, CurrentUnused, ShutGate,
     WaitedEmpty, ClosedFlag, DrainedIsEmpty, CloseIsFinal, Leases

LEMMA NextInv == IInv /\ [CoordNext]_coordVars => IInv'
  <1> SUFFICES ASSUME IInv, [CoordNext]_coordVars PROVE IInv'
    OBVIOUS
  <1>1. ASSUME NEW j \in Jobs, JobStep(j) PROVE IInv'
    BY <1>1, JobInv
  <1>2. ASSUME NEW c \in Callers, CancelCall(c) \/ ResumeCall(c) \/ CloseCall(c)
        PROVE  IInv'
    BY <1>2, CancelInv, ResumeInv, CloseInv
  <1>3. ASSUME NEW c \in Callers, CallStep(c) PROVE IInv'
    BY <1>3, CancelInv, ResumeInv, CloseInv DEF CallStep
  <1>4. CASE StrayEnter \/ StrayReturn
    BY <1>4, StrayInv
  <1>5. CASE UNCHANGED coordVars
    BY <1>5, StutterInv
  <1> QED BY <1>1, <1>2, <1>3, <1>4, <1>5 DEF CoordNext

LEMMA InductiveInvariant == CoordSpec => []IInv
  <1>1. (\E b \in BOOLEAN : CoordInit(b)) => IInv
    BY InitInv
  <1> QED BY <1>1, NextInv, PTL DEF CoordSpec

-----------------------------------------------------------------------------
(* Every value the goroutines of synthetic_coordinator.go leave behind is  *)
(* of its type.                                                            *)
THEOREM CoordTypeCorrect == CoordSpec => []CoordTypeOK
  <1>1. IInv => CoordTypeOK
    BY DEF IInv
  <1> QED BY <1>1, InductiveInvariant, PTL

(* CancelSynthetic returns nil only when no lease is out and, unless the   *)
(* gate is opened again, none will be: for any number of attempts and of   *)
(* callers that pause, resume and close at the same time.                  *)
THEOREM DrainedIsEmptyAlways == CoordSpec => []DrainedIsEmpty
  <1>1. IInv => DrainedIsEmpty
    BY DEF IInv
  <1> QED BY <1>1, InductiveInvariant, PTL

(* There is no third path: a lease that survives the shutting of the gate  *)
(* is a cancelled one.                                                     *)
THEOREM HeldIsCancelledAlways == CoordSpec => []HeldIsCancelled
  <1>1. IInv => HeldIsCancelled
    BY DEF IInv, Parents, CurrentUnused, HeldIsCancelled, Broadcasting,
       CoordTypeOK, Counted
  <1> QED BY <1>1, InductiveInvariant, PTL

(* Close is final.                                                         *)
THEOREM CloseIsFinalAlways == CoordSpec => []CloseIsFinal
  <1>1. IInv => CloseIsFinal
    BY DEF IInv
  <1> QED BY <1>1, InductiveInvariant, PTL

(***************************************************************************)
(* The controller over it.                                                 *)
(***************************************************************************)
\* TypeOK without the part the coordinator's invariant already covers.
CtlTypeOK ==
    /\ db \in Snapshots
    /\ snap \in Snapshots
    /\ drainPending \in BOOLEAN
    /\ maintenance \in BOOLEAN
    /\ ctl \in [Callers -> CtlStates]
    /\ want \in [Callers -> Snapshots \cup {NoSnap}]
    /\ stale \in BOOLEAN

\* A Set that passed its precheck carries a revision that was published, below
\* the bound; as long as that revision is the published one, so is the state
\* the precheck compared with.
Committing ==
    \A c \in Callers : ctl[c] = "commit" =>
        /\ want[c] \in Snapshots
        /\ want[c].revision <= snap.revision
        /\ want[c].revision < MaxRevision
        /\ want[c].revision = snap.revision => want[c].state # snap.state

\* The compare-and-swap of the maintenance flag lets one caller in at a time.
MaintOwners == {"enterCancel", "inMaintenance", "exitPrepare", "exitSwap"}
OneOwner ==
    /\ \A c \in Callers : ctl[c] \in MaintOwners => maintenance
    /\ \A c, d \in Callers :
          ctl[c] \in MaintOwners /\ ctl[d] \in MaintOwners => c = d

\* Whoever is one step away from Admitting has demoted, or somebody did since.
Demoted ==
    \A c \in Callers :
        /\ ctl[c] = "publishRunning" => ~stale /\ want[c].state = "running"
        /\ ctl[c] = "prepare" => want[c].state = "running"
        /\ ctl[c] = "publishPaused" => want[c].state = "paused"
        /\ ctl[c] = "exitSwap" /\ "running" \in {want[c].state, snap.state} => ~stale

CtlInv == /\ CtlTypeOK /\ Committing /\ SnapFollowsRow
          /\ OneOwner /\ Demoted /\ NoStaleAdmission

RInv == IInv /\ CtlInv

-----------------------------------------------------------------------------
\* The first process starts on a row with nothing under way.
LEMMA CtlInitInv == Init => RInv
  <1> SUFFICES ASSUME Init PROVE RInv
    OBVIOUS
  <1>1. db \in Snapshots /\ (db.state = "running") \in BOOLEAN
    BY RunStateAssumption DEF Init, Snapshots, RunStates
  <1>2. IInv
    BY <1>1, InitInv DEF Init
  <1>3. CtlInv
    BY <1>1 DEF Init, CtlInv, CtlTypeOK, Committing, SnapFollowsRow, Publishing,
       OneOwner, MaintOwners, Demoted, NoStaleAdmission, CtlStates
  <1> QED BY <1>2, <1>3 DEF RInv

\* The process that replaces a dead one starts like the first.
LEMMA RestartInv == ASSUME RInv, Restart PROVE RInv'
  <1>1. IInv'
    BY CallersAssumption DEF Restart, CoordRestart, IInv, CoordTypeOK, Parents,
       CurrentUnused, ShutGate, WaitedEmpty, ClosedFlag, DrainedIsEmpty,
       CloseIsFinal, JobStates, CallStates, WaiterStates, Cancelling, Counted,
       Leases
  <1>2. CtlInv'
    BY DEF Restart, RInv, CtlInv, CtlTypeOK, Committing, SnapFollowsRow,
       Publishing, OneOwner, MaintOwners, Demoted, NoStaleAdmission, CtlStates
  <1> QED BY <1>1, <1>2 DEF RInv

\* For the coordinator, a step of the controller is one of its own or none.
LEMMA CoordStep == ASSUME Next, ~Restart PROVE [CoordNext]_coordVars
  <1>1. ~panicked
    BY DEF Next
  <1>2. ASSUME NEW c \in Callers, Call(c) PROVE [CoordNext]_coordVars
    BY <1>1, <1>2 DEF Call, SetCheck, EnterMaintenance, CoordNext, coordVars
  <1>3. ASSUME NEW c \in Callers, CtlStep(c) PROVE [CoordNext]_coordVars
    BY <1>1, <1>3 DEF CtlStep, SetCommit, SetFails, PublishPaused, Drained,
       DrainFailed, MarkPending, SpawnDrain, PrepareResume, PublishRunning,
       Resumed, ClearPending, DrainCheck, DrainRetry, Entered, ExitRead,
       ExitPrepare, ExitSwap, Exited, CoordNext, CallStep, coordVars
  <1>4. ASSUME NEW c \in Callers, GateStep(c) PROVE [CoordNext]_coordVars
    BY <1>1, <1>4 DEF GateStep, CoordNext, CallStep
  <1>5. ASSUME NEW j \in Jobs, LeaseStep(j) PROVE [CoordNext]_coordVars
    BY <1>1, <1>5 DEF LeaseStep, CoordNext
  <1>6. CASE StrayStep
    BY <1>1, <1>6 DEF StrayStep, CoordNext
  <1> QED BY <1>2, <1>3, <1>4, <1>5, <1>6 DEF Next

-----------------------------------------------------------------------------
\* Steps of Set up to its commit: only SetCommit moves the row, and it can do
\* so only when nobody else is between a commit and a publication.
LEMMA SetInv ==
    ASSUME CtlInv, NEW c \in Callers,
           \/ \E s \in RunStates : SetCheck(c, s)
           \/ SetCommit(c) \/ SetFails(c)
    PROVE  CtlInv'
  <1> USE RunStateAssumption DEF CtlInv, Snapshots, RunStates, Goto, Finish, NoSnap
  <1>1. ASSUME NEW s \in RunStates, SetCheck(c, s) PROVE CtlInv'
    BY <1>1 DEF SetCheck, CtlTypeOK, CtlStates, SetSteps, Committing,
       SnapFollowsRow, Publishing, OneOwner, MaintOwners, Demoted,
       NoStaleAdmission, Admitting
  <1>2. CASE SetCommit(c)
    <2>1. snap = db /\ Publishing = {}
      BY <1>2 DEF SetCommit, SnapFollowsRow, Committing, CtlTypeOK
    <2>2. CtlTypeOK' /\ Committing'
      BY <1>2 DEF SetCommit, CtlTypeOK, CtlStates, SetSteps, Committing
    <2>3. SnapFollowsRow'
      <3>1. Publishing' = {c} /\ want'[c] = db'
        BY <1>2, <2>1 DEF SetCommit, CtlTypeOK, Publishing
      <3> QED BY <1>2, <2>1, <3>1 DEF SetCommit, CtlTypeOK, Committing,
         SnapFollowsRow
    <2>4. OneOwner' /\ NoStaleAdmission'
      BY <1>2 DEF SetCommit, CtlTypeOK, OneOwner, MaintOwners,
         NoStaleAdmission, Admitting
    <2>5. Demoted'
      BY <1>2 DEF SetCommit, CtlTypeOK, Committing, Demoted
    <2> QED BY <2>2, <2>3, <2>4, <2>5
  <1>3. CASE SetFails(c)
    BY <1>3 DEF SetFails, CtlTypeOK, CtlStates, Committing, SnapFollowsRow,
       Publishing, OneOwner, MaintOwners, Demoted, NoStaleAdmission, Admitting
  <1> QED BY <1>1, <1>2, <1>3

\* The two publications: each one publishes the row, and closes the only window.
LEMMA PublishInv ==
    ASSUME CtlInv, NEW c \in Callers, PublishPaused(c) \/ PublishRunning(c)
    PROVE  CtlInv'
  <1> USE RunStateAssumption DEF CtlInv, Goto
  <1>1. /\ Publishing = {c} /\ want[c] = db /\ snap' = db /\ db' = db
        /\ snap.state # db.state
        /\ snap.revision + 1 = db.revision
        /\ want' = want /\ maintenance' = maintenance
    BY DEF PublishPaused, PublishRunning, SnapFollowsRow, Publishing
  <1>2. Publishing' = {}
    BY <1>1 DEF PublishPaused, PublishRunning, Publishing, CtlTypeOK
  <1>3. \E s \in {"draining", "reopening"} : ctl' = [ctl EXCEPT ![c] = s]
    BY DEF PublishPaused, PublishRunning
  <1>4. stale' \in BOOLEAN /\ drainPending' \in BOOLEAN
    BY DEF PublishPaused, PublishRunning, CtlTypeOK
  <1>5. CtlTypeOK'
    BY <1>1, <1>3, <1>4 DEF CtlTypeOK, CtlStates, SetSteps, DrainSteps
  <1>6. Committing'
    BY <1>1, <1>3 DEF CtlTypeOK, Committing, Snapshots
  <1>7. SnapFollowsRow' /\ OneOwner'
    BY <1>1, <1>2, <1>3 DEF SnapFollowsRow, OneOwner, MaintOwners, CtlTypeOK
  <1>8. CASE PublishPaused(c)
    <2>1. snap'.state = "paused"
      BY <1>1, <1>8 DEF PublishPaused, Demoted
    <2>2. \A d \in Callers :
             ctl'[d] \notin {"publishPaused", "prepare", "publishRunning"}
      BY <1>2 DEF Publishing
    <2>3. \A d \in Callers : ctl'[d] = "exitSwap" => ctl[d] = "exitSwap" /\ maintenance
      BY <1>3 DEF OneOwner, MaintOwners, CtlTypeOK
    <2>4. maintenance /\ ~stale => ~stale'
      BY <1>8 DEF PublishPaused, Admitting
    <2>5. Demoted'
      BY <1>1, <2>1, <2>2, <2>3, <2>4 DEF Demoted
    <2>6. NoStaleAdmission'
      BY <2>1 DEF NoStaleAdmission, Admitting
    <2> QED BY <1>5, <1>6, <1>7, <2>5, <2>6
  <1>9. CASE PublishRunning(c)
    <2>1. ~stale /\ stale' = stale
      BY <1>9 DEF PublishRunning, Demoted
    <2>2. Demoted'
      BY <1>1, <1>3, <2>1 DEF Demoted, CtlTypeOK
    <2>3. NoStaleAdmission'
      BY <2>1 DEF NoStaleAdmission
    <2> QED BY <1>5, <1>6, <1>7, <2>2, <2>3
  <1> QED BY <1>8, <1>9

\* Steps that move one goroutine between drain, resume and idle, and touch
\* neither row, snapshot nor overlay.
LEMMA DrainInv ==
    ASSUME CtlInv, NEW c \in Callers,
           \/ Drained(c) \/ DrainFailed(c) \/ MarkPending(c) \/ Resumed(c)
           \/ ClearPending(c) \/ DrainCheck(c) \/ DrainRetry(c) \/ Exited(c)
    PROVE  CtlInv'
  <1> USE DEF CtlInv, Goto, Finish
  <1>1. \E s \in {"idle", "check", "draining", "clearPending", "sleep",
                  "markPending", "spawn"} : ctl' = [ctl EXCEPT ![c] = s]
    BY DEF Drained, DrainFailed, MarkPending, Resumed, ClearPending,
       DrainCheck, DrainRetry, Exited
  <1>2. /\ UNCHANGED <<db, snap, maintenance, stale>>
        /\ drainPending' \in BOOLEAN
        /\ want' \in {want, [want EXCEPT ![c] = NoSnap]}
    BY DEF Drained, DrainFailed, MarkPending, Resumed, ClearPending,
       DrainCheck, DrainRetry, Exited, CtlTypeOK
  <1>3. ctl[c] \notin {"publishPaused", "prepare", "publishRunning"}
    BY DEF Drained, DrainFailed, MarkPending, Resumed, ClearPending,
       DrainCheck, DrainRetry, Exited
  <1>4. CtlTypeOK' /\ Committing'
    BY <1>1, <1>2 DEF CtlTypeOK, CtlStates, SetSteps, DrainSteps, Committing
  <1>5. Publishing' = Publishing /\ (\A d \in Publishing : want'[d] = want[d])
    BY <1>1, <1>2, <1>3 DEF CtlTypeOK, Publishing
  <1>6. SnapFollowsRow'
    BY <1>2, <1>5 DEF SnapFollowsRow
  <1>7. OneOwner' /\ Demoted' /\ NoStaleAdmission'
    BY <1>1, <1>2 DEF CtlTypeOK, OneOwner, MaintOwners, Demoted,
       NoStaleAdmission, Admitting
  <1> QED BY <1>4, <1>6, <1>7

\* startBackgroundDrain starts one goroutine and ends another.
LEMMA SpawnInv ==
    ASSUME CtlInv, NEW c \in Callers, SpawnDrain(c) PROVE CtlInv'
  <1> USE DEF CtlInv
  <1>1. PICK d \in Drains : /\ ctl[d] = "idle"
                            /\ ctl' = [ctl EXCEPT ![c] = "idle", ![d] = "check"]
    BY DEF SpawnDrain
  <1>2. d \in Callers
    BY RunStateAssumption
  <1>3. CtlTypeOK' /\ Committing'
    BY <1>1, <1>2 DEF SpawnDrain, CtlTypeOK, CtlStates, DrainSteps, Committing
  <1>4. Publishing' = Publishing /\ (\A e \in Publishing : want'[e] = want[e])
    BY <1>1, <1>2 DEF SpawnDrain, CtlTypeOK, Publishing
  <1>5. SnapFollowsRow'
    BY <1>4 DEF SpawnDrain, SnapFollowsRow
  <1>6. OneOwner' /\ Demoted' /\ NoStaleAdmission'
    BY <1>1, <1>2 DEF SpawnDrain, CtlTypeOK, OneOwner, MaintOwners, Demoted,
       NoStaleAdmission, Admitting
  <1> QED BY <1>3, <1>5, <1>6

\* Demotion, and the steps of the maintenance overlay.
LEMMA MaintInv ==
    ASSUME CtlInv, NEW c \in Callers,
           \/ PrepareResume(c) \/ EnterMaintenance(c) \/ Entered(c)
           \/ ExitRead(c) \/ ExitPrepare(c) \/ ExitSwap(c)
    PROVE  CtlInv'
  <1> USE DEF CtlInv, Goto, Finish
  <1>1. CASE PrepareResume(c)
    <2>1. Publishing' = Publishing
      BY <1>1 DEF PrepareResume, CtlTypeOK, Publishing
    <2> QED BY <1>1, <2>1 DEF PrepareResume, CtlTypeOK, CtlStates, SetSteps,
       Committing, SnapFollowsRow, OneOwner, MaintOwners, Demoted,
       NoStaleAdmission, Admitting
  <1>2. CASE EnterMaintenance(c)
    <2>1. Publishing' = Publishing
      BY <1>2 DEF EnterMaintenance, CtlTypeOK, Publishing
    <2>2. \A d \in Publishing : snap.state # want[d].state
      BY DEF SnapFollowsRow
    <2>3. stale' => stale \/ snap.state = "running"
      BY <1>2 DEF EnterMaintenance, Admitting, CtlTypeOK
    <2>4. Demoted'
      BY <1>2, <2>2, <2>3 DEF EnterMaintenance, CtlTypeOK, Publishing, Demoted,
         OneOwner, MaintOwners
    <2>5. CtlTypeOK'
      BY <1>2, <2>3 DEF EnterMaintenance, CtlTypeOK, CtlStates, MaintSteps
    <2> QED BY <1>2, <2>1, <2>4, <2>5 DEF EnterMaintenance, CtlTypeOK,
       Committing, SnapFollowsRow, OneOwner, MaintOwners, NoStaleAdmission,
       Admitting
  <1>3. CASE Entered(c)
    <2>1. Publishing' = Publishing
      BY <1>3 DEF Entered, CtlTypeOK, Publishing
    <2> QED BY <1>3, <2>1 DEF Entered, CtlTypeOK, CtlStates, MaintSteps,
       Committing, SnapFollowsRow, OneOwner, MaintOwners, Demoted,
       NoStaleAdmission, Admitting
  <1>4. CASE ExitRead(c)
    <2>1. Publishing' = Publishing /\ (\A d \in Publishing : want'[d] = want[d])
      BY <1>4 DEF ExitRead, CtlTypeOK, Publishing
    <2>2. SnapFollowsRow'
      BY <1>4, <2>1 DEF ExitRead, SnapFollowsRow
    <2> QED BY <1>4, <2>2 DEF ExitRead, CtlTypeOK, CtlStates, MaintSteps,
       Committing, OneOwner, MaintOwners, Demoted, NoStaleAdmission, Admitting
  <1>5. CASE ExitPrepare(c)
    <2>1. Publishing' = Publishing
      BY <1>5 DEF ExitPrepare, CtlTypeOK, Publishing
    <2> QED BY <1>5, <2>1 DEF ExitPrepare, CtlTypeOK, CtlStates, MaintSteps,
       Committing, SnapFollowsRow, OneOwner, MaintOwners, Demoted,
       NoStaleAdmission, Admitting
  <1>6. CASE ExitSwap(c)
    <2>1. /\ Publishing' = Publishing
          /\ \A d \in Publishing : want'[d] = want[d]
          /\ UNCHANGED <<db, snap, stale>>
      BY <1>6 DEF ExitSwap, CtlTypeOK, Publishing
    <2>2. SnapFollowsRow'
      BY <2>1 DEF SnapFollowsRow
    <2>3. NoStaleAdmission'
      BY <1>6, <2>1 DEF ExitSwap, NoStaleAdmission, Admitting, Demoted
    <2> QED BY <1>6, <2>2, <2>3 DEF ExitSwap, CtlTypeOK, CtlStates, MaintSteps,
       Committing, OneOwner, MaintOwners, Demoted
  <1> QED BY <1>1, <1>2, <1>3, <1>4, <1>5, <1>6

\* A step of the coordinator alone leaves the controller as it was.
LEMMA CtlStutterInv == ASSUME CtlInv, UNCHANGED ctlVars PROVE CtlInv'
  BY DEF CtlInv, ctlVars, CtlTypeOK, Committing, SnapFollowsRow, Publishing,
     OneOwner, Demoted, NoStaleAdmission, Admitting

LEMMA RNextInv == RInv /\ [Next]_vars => RInv'
  <1> SUFFICES ASSUME RInv, [Next]_vars PROVE RInv'
    OBVIOUS
  <1>1. CASE Restart
    BY <1>1, RestartInv
  <1>2. CASE Next /\ ~Restart
    <2>1. IInv'
      BY <1>2, CoordStep, NextInv DEF RInv
    <2>2. ASSUME NEW c \in Callers, Call(c) PROVE CtlInv'
      BY <2>2, SetInv, MaintInv DEF Call, RInv
    <2>3. ASSUME NEW c \in Callers, CtlStep(c) PROVE CtlInv'
      BY <2>3, SetInv, PublishInv, DrainInv, SpawnInv, MaintInv DEF CtlStep, RInv
    <2>4. ASSUME NEW c \in Callers, GateStep(c) PROVE CtlInv'
      BY <2>4, CtlStutterInv DEF GateStep, RInv
    <2>5. ASSUME NEW j \in Jobs, LeaseStep(j) PROVE CtlInv'
      BY <2>5, CtlStutterInv DEF LeaseStep, RInv
    <2>6. ASSUME StrayStep PROVE CtlInv'
      BY <2>6, CtlStutterInv DEF StrayStep, RInv
    <2>7. CtlInv'
      BY <1>2, <2>2, <2>3, <2>4, <2>5, <2>6 DEF Next
    <2> QED BY <2>1, <2>7 DEF RInv
  <1>3. CASE UNCHANGED vars
    BY <1>3, StutterInv, CtlStutterInv DEF vars, RInv
  <1> QED BY <1>1, <1>2, <1>3

LEMMA RInductive == Spec => []RInv
  BY CtlInitInv, RNextInv, PTL DEF Spec

-----------------------------------------------------------------------------
(* Every value the controller leaves behind is of its type.                *)
THEOREM TypeCorrect == Spec => []TypeOK
  <1>1. RInv => TypeOK
    BY DEF RInv, IInv, CtlInv, CtlTypeOK, TypeOK
  <1> QED BY <1>1, RInductive, PTL

(* What requests read is the durable row, but for the one Set that has     *)
(* committed and not yet published, with any number of concurrent Sets and *)
(* restarts.                                                               *)
THEOREM SnapFollowsRowAlways == Spec => []SnapFollowsRow
  <1>1. RInv => SnapFollowsRow
    BY DEF RInv, CtlInv
  <1> QED BY <1>1, RInductive, PTL

(* No interleaving of Set and ExitMaintenance admits traffic on health     *)
(* conclusions from before the last stop.                                  *)
THEOREM NoStaleAdmissionAlways == Spec => []NoStaleAdmission
  <1>1. RInv => NoStaleAdmission
    BY DEF RInv, CtlInv
  <1> QED BY <1>1, RInductive, PTL

(* The guarantees of the synthetic gate survive its use by the controller, *)
(* restarts included.                                                      *)
THEOREM GateStaysSafe == Spec => []GateIsSafe
  <1>1. RInv => DrainedIsEmpty /\ HeldIsCancelled
    BY DEF RInv, IInv, Parents, CurrentUnused, HeldIsCancelled, Broadcasting,
       CoordTypeOK, Counted
  <1>2. RInv => GateIsSafe
    BY <1>1 DEF GateIsSafe
  <1> QED BY <1>2, RInductive, PTL

(* The published state moves one durable revision at a time.               *)
THEOREM PublishDurableAlways == Spec => PublishDurable
  <1>1. RInv /\ [Next]_vars =>
          [snap' # snap => snap' = db' /\ snap'.revision = snap.revision + 1]_vars
    <2> SUFFICES ASSUME RInv, Next, snap' # snap
                 PROVE  snap' = db' /\ snap'.revision = snap.revision + 1
      OBVIOUS
    <2>1. CASE Restart
      BY <2>1 DEF Restart, RInv, CtlInv, SnapFollowsRow
    <2>2. CASE \E c \in Callers : PublishPaused(c) \/ PublishRunning(c)
      BY <2>2 DEF PublishPaused, PublishRunning, RInv, CtlInv, SnapFollowsRow,
         Publishing
    <2>3. CASE ~Restart /\ ~\E c \in Callers : PublishPaused(c) \/ PublishRunning(c)
      BY <2>3 DEF Next, Call, CtlStep, GateStep, LeaseStep, StrayStep, ctlVars,
         SetCheck, EnterMaintenance, SetCommit, SetFails, Drained, DrainFailed,
         MarkPending, SpawnDrain, PrepareResume, Resumed, ClearPending,
         DrainCheck, DrainRetry, Entered, ExitRead, ExitPrepare, ExitSwap, Exited
    <2> QED BY <2>1, <2>2, <2>3
  <1> QED BY <1>1, RInductive, PTL DEF Spec, PublishDurable

(***************************************************************************)
(* The mails about findings, by themselves.                                *)
(***************************************************************************)

Severities == {"low", "critical"}
CallerRows == [pc : {"idle", "flush", "policy", "send"}, key : Identities \cup {Nobody},
               severity : Severities]
MailTypes ==
    /\ revision \in DOMAIN Configs
    /\ last \in [Identities -> {"absent", "reserved", "recent", "old"}]
    /\ pending \in [Identities -> [count : Nat, severity : Severities]]
    /\ inFlight \subseteq Identities
    /\ window \in {"zero", "open", "due"} /\ timer \in {"off", "set"} /\ fired \in BOOLEAN
    /\ digest \in [by : Notifiers \cup {Clock, Nobody}, keys : SUBSET Identities,
                   count : [Identities -> Nat], covered : SUBSET Identities,
                   revision : DOMAIN Configs]
    /\ caller \in [Notifiers -> CallerRows]
    /\ owed \subseteq Identities /\ since \subseteq owed

(* Who sends a mail at once has its identity for himself, and it is known    *)
(* and not yet mailed.                                                       *)
Sending(c) == caller[c].pc = "send"
Immediate ==
    /\ \A c \in Notifiers : caller[c].pc # "idle" => caller[c].key \in Identities
    /\ \A c \in Notifiers : Sending(c) =>
          /\ caller[c].key \in inFlight \ digest.keys
          /\ last[caller[c].key] \notin {"absent", "recent"}
    /\ \A c, d \in Notifiers : Sending(c) /\ Sending(d) /\ caller[c].key = caller[d].key => c = d

(* The digest under way has its identities for itself too; what has come     *)
(* since is counted on top of what it took.                                  *)
Digest ==
    /\ digest.by = Nobody => digest.keys = {}
    /\ digest.by \in Notifiers => caller[digest.by].pc = "flush"
    /\ digest.keys \subseteq inFlight
    /\ \A k \in digest.keys :
          /\ 0 < digest.count[k] /\ digest.count[k] <= pending[k].count
          /\ last[k] = "recent" => k \in digest.covered
          /\ k \in since => digest.count[k] < pending[k].count

(* Who waits is known, and the known are within the limit.                   *)
Kept == {k \in Identities : last[k] # "absent"}
KnownFit ==
    /\ Waiting \subseteq Kept
    /\ IsFiniteSet(Kept) /\ Cardinality(Kept) <= MaxIdentities

WindowFits == ~Flushing /\ Waiting = {} => window = "zero"

MailInv ==
    /\ MailTypes /\ Immediate /\ Digest /\ KnownFit /\ WindowFits
    /\ NothingForgotten /\ DigestHasTimer

-----------------------------------------------------------------------------
LEMMA MailTypesAre ==
    ASSUME MailTypes
    PROVE  /\ \A k \in Identities : /\ pending[k].count \in Nat /\ pending[k].severity \in Severities
                                    /\ pending[k] = [count |-> pending[k].count,
                                                     severity |-> pending[k].severity]
                                    /\ digest.count[k] \in Nat
           /\ digest.keys \subseteq Identities /\ digest.by \in Notifiers \cup {Clock, Nobody}
           /\ \A c \in Notifiers : /\ caller[c].pc \in {"idle", "flush", "policy", "send"}
                                   /\ caller[c].severity \in Severities
BY DEF MailTypes, CallerRows

\* Making room keeps whoever waits or is being mailed about.
LEMMA Pruning ==
    ASSUME MailTypes, KnownFit
    PROVE  /\ Pruned \in [Identities -> {"absent", "reserved", "recent", "old"}]
           /\ \A k \in Identities : Pruned[k] \in {last[k], "absent"}
           /\ \A k \in Waiting \cup inFlight : Pruned[k] = last[k]
           /\ \A k \in Identities : last[k] = "recent" => Pruned[k] = "recent"
           /\ Known \subseteq Kept /\ IsFiniteSet(Known) /\ Cardinality(Known) <= MaxIdentities
           /\ Cardinality(Known) \in Nat
<1>1. /\ Pruned \in [Identities -> {"absent", "reserved", "recent", "old"}]
      /\ \A k \in Identities : Pruned[k] \in {last[k], "absent"}
      /\ \A k \in Waiting \cup inFlight : Pruned[k] = last[k]
      /\ \A k \in Identities : last[k] = "recent" => Pruned[k] = "recent"
    BY DEF MailTypes, Pruned, Waiting
<1>2. Known \subseteq Kept
    BY <1>1 DEF Known, Kept
<1>3. IsFiniteSet(Kept) /\ Cardinality(Kept) <= MaxIdentities
    BY DEF KnownFit
<1>4. IsFiniteSet(Known) /\ Cardinality(Known) <= Cardinality(Kept)
    BY <1>2, <1>3, FS_Subset
<1>5. Cardinality(Known) \in Nat /\ Cardinality(Kept) \in Nat /\ MaxIdentities \in Nat
    BY <1>3, <1>4, FS_CardinalityType, MailAssumption
<1> QED
    BY <1>1, <1>2, <1>3, <1>4, <1>5

\* Whoever is admitted is known afterwards, and there was room.
LEMMA MailAdmitting ==
    ASSUME MailTypes, KnownFit, NEW k \in Identities, last' = Admitted(k)
    PROVE  /\ last' \in [Identities -> {"absent", "reserved", "recent", "old"}]
           /\ \A i \in Waiting \cup inFlight : last[i] # "absent" => last'[i] = last[i]
           /\ \A i \in Identities : last'[i] = "recent" <=> last[i] = "recent"
           /\ Admits(k) => last'[k] # "absent"
           /\ Admits(k) /\ Pruned[k] # "recent" => last'[k] # "recent"
           /\ IsFiniteSet(Kept)' /\ (Cardinality(Kept) <= MaxIdentities)'
<1>1. /\ Pruned \in [Identities -> {"absent", "reserved", "recent", "old"}]
      /\ \A i \in Identities : Pruned[i] \in {last[i], "absent"}
      /\ \A i \in Waiting \cup inFlight : Pruned[i] = last[i]
      /\ \A i \in Identities : last[i] = "recent" => Pruned[i] = "recent"
      /\ IsFiniteSet(Known) /\ Cardinality(Known) <= MaxIdentities /\ Cardinality(Known) \in Nat
    BY Pruning
<1>2. Known = {i \in Identities : Pruned[i] # "absent"}
    BY DEF Known
<1>3. CASE k \in Known \/ ~Admits(k)
    <2>1. last' = Pruned
        BY <1>3 DEF Admitted
    <2>2. Kept' = Known
        BY <1>2, <2>1 DEF Kept
    <2>3. Admits(k) => k \in Known
        BY <1>3
    <2> QED
        BY <1>1, <1>2, <2>1, <2>2, <2>3
<1>4. CASE k \notin Known /\ Admits(k)
    <2>1. last' = [Pruned EXCEPT ![k] = "reserved"]
        BY <1>4 DEF Admitted
    <2>2. Kept' = Known \cup {k}
        BY <1>1, <1>2, <2>1 DEF Kept
    <2>3. Cardinality(Known) < MaxIdentities
        BY <1>4 DEF Admits
    <2>4. /\ IsFiniteSet(Known \cup {k})
          /\ Cardinality(Known \cup {k}) = Cardinality(Known) + 1
        BY <1>1, <1>4, FS_AddElement
    <2>5. MaxIdentities \in Nat
        BY MailAssumption
    <2>6. Cardinality(Known \cup {k}) <= MaxIdentities
        BY <1>1, <2>3, <2>4, <2>5
    <2>7. Pruned[k] = "absent" /\ last[k] # "recent"
        BY <1>1, <1>2, <1>4
    <2> QED
        BY <1>1, <2>1, <2>2, <2>4, <2>6, <2>7
<1> QED
    BY <1>3, <1>4

\* Fewer are known.
LEMMA FewerKnown ==
    ASSUME KnownFit, Kept' \subseteq Kept
    PROVE  IsFiniteSet(Kept)' /\ (Cardinality(Kept) <= MaxIdentities)'
<1>1. IsFiniteSet(Kept) /\ Cardinality(Kept) <= MaxIdentities
    BY DEF KnownFit
<1>2. PICK S : S = Kept'
    OBVIOUS
<1>3. IsFiniteSet(S) /\ Cardinality(S) <= Cardinality(Kept)
    BY <1>1, <1>2, FS_Subset
<1>4. Cardinality(S) \in Nat /\ Cardinality(Kept) \in Nat /\ MaxIdentities \in Nat
    BY <1>1, <1>3, FS_CardinalityType, MailAssumption
<1>5. Cardinality(S) <= MaxIdentities
    BY <1>1, <1>3, <1>4
<1> QED
    BY <1>2, <1>3, <1>5

LEMMA InitMail == MailInit => MailInv
<1> SUFFICES ASSUME MailInit PROVE MailInv
    OBVIOUS
<1>1. Waiting = {} /\ ~Flushing /\ Kept = {}
    BY DEF MailInit, Waiting, Flushing, Kept, Empty, NoDigest
<1> QED
    <2>1. MailTypes
        <3>1. /\ digest \in [by : Notifiers \cup {Clock, Nobody}, keys : SUBSET Identities,
                             count : [Identities -> Nat], covered : SUBSET Identities,
                             revision : DOMAIN Configs]
              /\ revision \in DOMAIN Configs
            BY MailAssumption DEF MailInit, NoDigest
        <3>2. pending \in [Identities -> [count : Nat, severity : Severities]]
            BY DEF MailInit, Empty, Severities
        <3>3. caller \in [Notifiers -> CallerRows]
            BY DEF MailInit, Idle, Severities, CallerRows
        <3> QED
            BY <3>1, <3>2, <3>3 DEF MailInit, MailTypes
    <2>2. Cardinality({}) = 0 /\ IsFiniteSet({}) /\ MaxIdentities \in Nat
        BY FS_EmptySet, MailAssumption
    <2>3. KnownFit
        BY <1>1, <2>2 DEF KnownFit
    <2>4. Immediate
        BY DEF MailInit, Immediate, Sending, Idle
    <2>5. Digest
        BY MailAssumption DEF MailInit, Digest, NoDigest, Nobody
    <2> QED
        BY <1>1, <2>1, <2>3, <2>4, <2>5 DEF MailInit, MailInv, WindowFits, NothingForgotten, DigestHasTimer

\* The types of a digest that begins.
LEMMA CapturedTypes ==
    ASSUME MailInv, NEW by \in Notifiers \cup {Clock}, Captures(by),
           fired' \in BOOLEAN,
           caller' \in [Notifiers -> CallerRows]
    PROVE  MailTypes'
<1>1. MailTypes
    BY DEF MailInv
<1>2. PICK keys \in SUBSET Identities : keys = Waiting \ inFlight
    BY DEF Waiting
<1>3. PICK count \in [Identities -> Nat] : count = [k \in Identities |-> pending[k].count]
    BY <1>1, MailTypesAre
<1>4. PICK covered \in SUBSET Identities : covered = {k \in keys : last[k] = "recent"}
    OBVIOUS
<1>5. CASE keys = {}
    BY <1>1, <1>2, <1>5 DEF Captures, Rearm, MailTypes
<1>6. CASE keys # {}
    <2>1. /\ digest' = [by |-> by, keys |-> keys, count |-> count, covered |-> covered,
                        revision |-> revision]
          /\ inFlight' = inFlight \cup keys /\ since' = {}
          /\ UNCHANGED <<revision, last, pending, owed, window, timer>>
        BY <1>2, <1>3, <1>4, <1>6 DEF Captures
    <2>2. digest' \in [by : Notifiers \cup {Clock, Nobody}, keys : SUBSET Identities,
                       count : [Identities -> Nat], covered : SUBSET Identities,
                       revision : DOMAIN Configs]
        BY <1>1, <2>1 DEF MailTypes
    <2> QED
        BY <1>1, <2>1, <2>2 DEF MailTypes
<1> QED
    BY <1>5, <1>6

\* A digest begins, or finds everything in flight; who was sending still is.
LEMMA Capturing ==
    ASSUME MailInv, NEW by \in Notifiers \cup {Clock}, Captures(by),
           MailTypes', fired' = FALSE \/ fired' = fired,
           by \in Notifiers /\ Waiting \ inFlight # {} => caller'[by].pc = "flush",
           \A c \in Notifiers : caller'[c].pc # "idle" => caller'[c].key \in Identities,
           \A c \in Notifiers : caller'[c].pc = "send" => caller'[c] = caller[c]
    PROVE  MailInv'
<1>1. /\ ~Flushing /\ Waiting # {} /\ digest.keys = {} /\ digest.by = Nobody
      /\ UNCHANGED <<revision, last, pending, owed>>
      /\ Waiting' = Waiting /\ Kept' = Kept /\ Waiting \subseteq Identities
    BY DEF Captures, Flushing, MailInv, Digest, Waiting, Kept
<1>2. KnownFit' /\ NothingForgotten' /\ (Waiting' = {} => FALSE)
    BY <1>1 DEF KnownFit, NothingForgotten, MailInv
<1>3. by # Nobody
    BY MailAssumption DEF Clock, Nobody
<1>4. CASE Waiting \ inFlight = {}
    <2>1. UNCHANGED <<inFlight, digest, since>> /\ window' = "open" /\ timer' = "set"
        BY <1>4 DEF Captures, Rearm
    <2>2. Immediate'
        BY <1>1, <2>1 DEF Immediate, MailInv, Sending
    <2>3. Digest'
        BY <1>1, <1>3, <2>1, MailAssumption DEF Digest, Clock, Nobody
    <2> QED
        BY <1>2, <2>1, <2>2, <2>3 DEF MailInv, WindowFits, DigestHasTimer
<1>5. CASE Waiting \ inFlight # {}
    <2>1. PICK keys : keys = Waiting \ inFlight
        OBVIOUS
    <2>2. /\ inFlight' = inFlight \cup keys /\ since' = {}
          /\ digest' = [by |-> by, keys |-> keys,
                        count |-> [k \in Identities |-> pending[k].count],
                        covered |-> {k \in keys : last[k] = "recent"}, revision |-> revision]
        BY <1>5, <2>1 DEF Captures
    <2>3. /\ digest'.by = by /\ digest'.keys = keys
          /\ \A k \in Identities : digest'.count[k] = pending[k].count
          /\ \A k \in keys : last[k] = "recent" => k \in digest'.covered
        BY <2>2
    <2>4. Flushing'
        BY <1>3, <2>3 DEF Flushing
    <2>5. Immediate'
        <3>1. \A c \in Notifiers : Sending(c)' =>
                  /\ Sending(c) /\ caller'[c].key = caller[c].key
                  /\ caller[c].key \in inFlight
            BY <1>1 DEF Sending, Immediate, MailInv
        <3> QED
            BY <1>1, <2>1, <2>2, <2>3, <3>1 DEF Immediate, MailInv
    <2>6. Digest'
        <3>1. \A k \in keys : pending[k].count > 0 /\ pending[k].count \in Nat /\ k \in Identities
            BY <2>1, MailTypesAre DEF MailInv, Waiting
        <3> QED
            BY <1>1, <1>3, <1>5, <2>2, <2>3, <3>1 DEF Digest
    <2> QED
        BY <1>2, <2>4, <2>5, <2>6 DEF MailInv, WindowFits, DigestHasTimer
<1> QED
    BY <1>4, <1>5

\* What a step of a caller leaves alone when it neither mails nor queues.
LEMMA CallerMoves ==
    ASSUME MailInv, NEW c \in Notifiers, NEW r, caller' = [caller EXCEPT ![c] = r],
           r \in CallerRows, r.pc # "send",
           r.pc # "idle" => r.key \in Identities
    PROVE  /\ caller' \in [Notifiers -> CallerRows]
           /\ caller'[c] = r /\ \A d \in Notifiers \ {c} : caller'[d] = caller[d]
           /\ \A d \in Notifiers : caller'[d].pc # "idle" => caller'[d].key \in Identities
           /\ \A d \in Notifiers : caller'[d].pc = "send" => d # c /\ caller'[d] = caller[d]
<1>1. caller \in [Notifiers -> CallerRows]
    BY DEF MailInv, MailTypes
<1>2. \A d \in Notifiers : caller[d].pc # "idle" => caller[d].key \in Identities
    BY DEF MailInv, Immediate
<1> QED
    BY <1>1, <1>2

LEMMA Gated ==
    ASSUME MailInv, NEW c \in Notifiers, NEW k \in Identities, NEW severity \in Severities,
           Gate(c, k, severity)
    PROVE  /\ caller' \in [Notifiers -> CallerRows]
           /\ \A d \in Notifiers \ {c} : caller'[d] = caller[d]
           /\ \A d \in Notifiers : caller'[d].pc # "idle" => caller'[d].key \in Identities
           /\ \A d \in Notifiers : caller'[d].pc = "send" => d # c /\ caller'[d] = caller[d]
<1>1. PICK r : r = IF Passes(revision, severity)
                   THEN [pc |-> "policy", key |-> k, severity |-> severity] ELSE Idle
    OBVIOUS
<1>2. /\ caller' = [caller EXCEPT ![c] = r]
      /\ r \in CallerRows /\ r.pc # "send"
      /\ r.pc # "idle" => r.key \in Identities
    BY <1>1 DEF Gate, Idle, Severities, CallerRows
<1> QED
    BY <1>2, CallerMoves

\* A step of a caller that leaves the mails alone.
LEMMA Beside ==
    ASSUME MailInv, NEW c \in Notifiers, caller[c].pc \in {"idle", "policy"},
           UNCHANGED <<revision, last, pending, inFlight, digest, window, timer, fired, owed, since>>,
           caller' \in [Notifiers -> CallerRows],
           \A d \in Notifiers \ {c} : caller'[d] = caller[d],
           \A d \in Notifiers : caller'[d].pc # "idle" => caller'[d].key \in Identities,
           \A d \in Notifiers : caller'[d].pc = "send" => d # c /\ caller'[d] = caller[d]
    PROVE  MailInv'
<1>1. MailTypes'
    BY DEF MailInv, MailTypes
<1>2. Waiting' = Waiting /\ Kept' = Kept /\ (Flushing' <=> Flushing)
    BY DEF Waiting, Kept, Flushing
<1>3. Immediate'
    BY DEF MailInv, Immediate, Sending
<1>4. Digest'
    BY DEF MailInv, Digest
<1> QED
    BY <1>1, <1>2, <1>3, <1>4 DEF MailInv, KnownFit, WindowFits, NothingForgotten, DigestHasTimer

LEMMA MaybeNotifyKeeps ==
    ASSUME MailInv, NEW c \in Notifiers, NEW k \in Identities, NEW severity \in Severities,
           MaybeNotify(c, k, severity)
    PROVE  MailInv'
<1>1. caller[c].pc = "idle"
    BY DEF MaybeNotify
<1>2. CASE IsDue /\ ~Flushing
    <2>1. Captures(c) /\ fired' = fired
        BY <1>2 DEF MaybeNotify
    <2>2. CASE Waiting \ inFlight = {}
        <3>1. Gate(c, k, severity)
            BY <1>2, <2>2 DEF MaybeNotify
        <3>2. UNCHANGED <<inFlight, digest, since, revision, last, pending, owed>>
              /\ window' = "open" /\ timer' = "set"
            BY <2>1, <2>2 DEF Captures, Rearm
        <3>3. MailTypes'
            BY <2>1, <3>1, <3>2, Gated DEF MailInv, MailTypes
        <3> QED
            BY <2>1, <2>2, <3>1, <3>3, Gated, Capturing
    <2>3. CASE Waiting \ inFlight # {}
        <3>1. PICK r : r = [pc |-> "flush", key |-> k, severity |-> severity]
            OBVIOUS
        <3>2. /\ caller' = [caller EXCEPT ![c] = r] /\ r.pc = "flush" /\ r.key = k
              /\ r \in CallerRows
            BY <1>2, <2>3, <3>1 DEF MaybeNotify, CallerRows
        <3>3. /\ caller' \in [Notifiers -> CallerRows]
              /\ caller'[c].pc = "flush"
              /\ \A d \in Notifiers : caller'[d].pc # "idle" => caller'[d].key \in Identities
              /\ \A d \in Notifiers : caller'[d].pc = "send" => caller'[d] = caller[d]
            BY <3>2, CallerMoves
        <3>4. MailTypes'
            <4>1. fired' \in BOOLEAN
                BY <2>1 DEF MailInv, MailTypes
            <4> QED
                BY <2>1, <3>3, <4>1, CapturedTypes
        <3> QED
            BY <2>1, <3>3, <3>4, Capturing
    <2> QED
        BY <2>2, <2>3
<1>3. CASE ~(IsDue /\ ~Flushing)
    <2>1. /\ Gate(c, k, severity)
          /\ UNCHANGED <<revision, last, pending, inFlight, digest, window, timer, fired, owed, since>>
        BY <1>3 DEF MaybeNotify
    <2> QED
        BY <1>1, <2>1, Gated, Beside
<1> QED
    BY <1>2, <1>3

LEMMA IgnoredKeeps ==
    ASSUME MailInv, NEW c \in Notifiers, Ignored(c)
    PROVE  MailInv'
<1>1. Idle \in CallerRows /\ Idle.pc = "idle"
    BY DEF Idle, Severities, CallerRows
<1>2. /\ caller[c].pc \in {"idle", "policy"} /\ caller' = [caller EXCEPT ![c] = Idle]
      /\ UNCHANGED <<revision, last, pending, inFlight, digest, window, timer, fired, owed, since>>
    BY DEF Ignored
<1> QED
    BY <1>1, <1>2, CallerMoves, Beside

LEMMA QueueDigestKeeps ==
    ASSUME MailInv, NEW c \in Notifiers, QueueDigest(c)
    PROVE  MailInv'
<1>1. PICK k \in Identities, s \in Severities : k = caller[c].key /\ s = caller[c].severity
    BY MailTypesAre DEF MailInv, Immediate, QueueDigest
<1>2. /\ caller[c].pc = "policy" /\ last' = Admitted(k) /\ caller' = [caller EXCEPT ![c] = Idle]
      /\ UNCHANGED <<revision, inFlight, digest, fired>>
    BY <1>1 DEF QueueDigest
<1>3. Idle \in CallerRows /\ Idle.pc = "idle"
    BY DEF Idle, Severities, CallerRows
<1>4. /\ caller' \in [Notifiers -> CallerRows]
      /\ \A d \in Notifiers \ {c} : caller'[d] = caller[d]
      /\ \A d \in Notifiers : caller'[d].pc # "idle" => caller'[d].key \in Identities
      /\ \A d \in Notifiers : caller'[d].pc = "send" => d # c /\ caller'[d] = caller[d]
    BY <1>2, <1>3, CallerMoves
<1>5. /\ last' \in [Identities -> {"absent", "reserved", "recent", "old"}]
      /\ \A i \in Waiting \cup inFlight : last[i] # "absent" => last'[i] = last[i]
      /\ \A i \in Identities : last'[i] = "recent" <=> last[i] = "recent"
      /\ Admits(k) => last'[k] # "absent"
      /\ IsFiniteSet(Kept)' /\ (Cardinality(Kept) <= MaxIdentities)'
    BY <1>2, MailAdmitting DEF MailInv
<1>6. Immediate'
    <2>1. \A d \in Notifiers : Sending(d)' =>
             /\ Sending(d) /\ caller'[d].key = caller[d].key /\ caller[d].key \in inFlight
             /\ last'[caller[d].key] = last[caller[d].key]
        BY <1>4, <1>5 DEF Sending, MailInv, Immediate
    <2> QED
        BY <1>2, <1>4, <2>1 DEF MailInv, Immediate
<1>7. Flushing' <=> Flushing
    BY <1>2 DEF Flushing
<1>8. CASE ~Admits(k) \/ last'[k] = "recent"
    <2>1. UNCHANGED <<pending, window, timer, owed, since>>
        BY <1>1, <1>8 DEF QueueDigest
    <2>2. MailTypes'
        BY <1>2, <1>4, <1>5, <2>1 DEF MailInv, MailTypes
    <2>3. Waiting' = Waiting
        BY <2>1 DEF Waiting
    <2>4. KnownFit'
        BY <1>5, <2>3 DEF MailInv, KnownFit, Kept, Waiting
    <2>5. Digest'
        <3>1. \A i \in digest.keys : i \in Identities /\ (last'[i] = "recent" => last[i] = "recent")
            BY <1>5, MailTypesAre DEF MailInv
        <3> QED
            BY <1>2, <1>4, <2>1, <3>1 DEF MailInv, Digest
    <2> QED
        BY <1>2, <1>6, <1>7, <2>1, <2>2, <2>3, <2>4, <2>5
           DEF MailInv, WindowFits, NothingForgotten, DigestHasTimer
<1>9. CASE Admits(k) /\ last'[k] # "recent"
    <2>1. PICK n : n = IF k \in Waiting THEN [pending[k] EXCEPT !.count = pending[k].count + 1]
                       ELSE [count |-> 1, severity |-> s]
        OBVIOUS
    <2>2. /\ pending' = [pending EXCEPT ![k] = n]
          /\ owed' = owed \cup {k} /\ since' = since \cup {k}
          /\ IF k \notin Waiting /\ window = "zero"
             THEN window' = "open" /\ timer' = "set" ELSE UNCHANGED <<window, timer>>
        BY <1>1, <1>9, <2>1 DEF QueueDigest, Rearm
    <2>3. /\ n \in [count : Nat, severity : Severities] /\ n.count > 0
          /\ k \in Waiting => n.count = pending[k].count + 1
        <3>1. /\ pending[k].count \in Nat /\ pending[k].severity \in Severities
              /\ pending[k] = [count |-> pending[k].count, severity |-> pending[k].severity]
            BY MailTypesAre DEF MailInv
        <3>2. CASE k \in Waiting
            <4>1. n = [count |-> pending[k].count + 1, severity |-> pending[k].severity]
                BY <2>1, <3>1, <3>2
            <4> QED
                BY <3>1, <4>1
        <3>3. CASE k \notin Waiting
            BY <2>1, <3>3
        <3> QED
            BY <3>2, <3>3
    <2>4. /\ pending' \in [Identities -> [count : Nat, severity : Severities]]
          /\ pending'[k] = n /\ \A i \in Identities \ {k} : pending'[i] = pending[i]
        BY <2>2, <2>3 DEF MailInv, MailTypes
    <2>5. MailTypes'
        BY <1>2, <1>4, <1>5, <2>2, <2>4 DEF MailInv, MailTypes
    <2>6. Waiting' = Waiting \cup {k}
        BY <2>3, <2>4 DEF Waiting
    <2>7. KnownFit'
        BY <1>5, <1>9, <2>6 DEF MailInv, KnownFit, Kept, Waiting
    <2>8. Digest'
        <3>1. digest.keys \subseteq Waiting
            <4>1. \A i \in digest.keys : i \in Identities /\ pending[i].count \in Nat
                                          /\ digest.count[i] \in Nat
                BY MailTypesAre DEF MailInv
            <4>2. \A i \in digest.keys : 0 < digest.count[i] /\ digest.count[i] <= pending[i].count
                BY DEF MailInv, Digest
            <4> QED
                BY <4>1, <4>2 DEF Waiting
        <3>2. \A i \in digest.keys :
                 /\ i \in Identities /\ (last'[i] = "recent" => last[i] = "recent")
                 /\ pending'[i].count = IF i = k THEN pending[k].count + 1 ELSE pending[i].count
                 /\ pending[i].count \in Nat /\ digest.count[i] \in Nat
            BY <1>5, <2>3, <2>4, <3>1, MailTypesAre DEF MailInv
        <3>3. \A i \in digest.keys :
                 /\ 0 < digest.count[i] /\ digest.count[i] <= pending[i].count
                 /\ last[i] = "recent" => i \in digest.covered
                 /\ i \in since => digest.count[i] < pending[i].count
            BY DEF MailInv, Digest
        <3>4. \A i \in digest.keys :
                 /\ 0 < digest.count[i] /\ digest.count[i] <= pending'[i].count
                 /\ last'[i] = "recent" => i \in digest.covered
                 /\ i \in since' => digest.count[i] < pending'[i].count
            BY <2>2, <3>2, <3>3
        <3> QED
            BY <1>2, <1>4, <3>4 DEF MailInv, Digest
    <2>9. DigestHasTimer' /\ WindowFits' /\ NothingForgotten'
        BY <1>2, <1>7, <2>2, <2>6 DEF MailInv, DigestHasTimer, WindowFits, NothingForgotten
    <2> QED
        BY <1>6, <2>5, <2>7, <2>8, <2>9 DEF MailInv
<1> QED
    BY <1>8, <1>9

LEMMA NotifyImmediateKeeps ==
    ASSUME MailInv, NEW c \in Notifiers, NotifyImmediate(c)
    PROVE  MailInv'
<1>1. PICK k \in Identities : k = caller[c].key
    BY MailTypesAre DEF MailInv, Immediate, NotifyImmediate
<1>2. /\ caller[c].pc = "policy" /\ last' = Admitted(k)
      /\ UNCHANGED <<revision, pending, digest, window, timer, fired, owed, since>>
    BY <1>1 DEF NotifyImmediate
<1>3. /\ last' \in [Identities -> {"absent", "reserved", "recent", "old"}]
      /\ \A i \in Waiting \cup inFlight : last[i] # "absent" => last'[i] = last[i]
      /\ \A i \in Identities : last'[i] = "recent" <=> last[i] = "recent"
      /\ Admits(k) => last'[k] # "absent"
      /\ Admits(k) /\ Pruned[k] # "recent" => last'[k] # "recent"
      /\ IsFiniteSet(Kept)' /\ (Cardinality(Kept) <= MaxIdentities)'
    BY <1>2, MailAdmitting DEF MailInv
<1>4. Waiting' = Waiting /\ (Flushing' <=> Flushing)
    BY <1>2 DEF Waiting, Flushing
<1>5. KnownFit'
    BY <1>3, <1>4 DEF MailInv, KnownFit, Kept, Waiting
<1>6. WindowFits' /\ NothingForgotten' /\ DigestHasTimer'
    BY <1>2, <1>4 DEF MailInv, WindowFits, NothingForgotten, DigestHasTimer
<1>7. /\ inFlight \subseteq inFlight' /\ inFlight' \subseteq Identities
      /\ \A i \in digest.keys : i \in Identities /\ (last'[i] = "recent" => last[i] = "recent")
    BY <1>1, <1>3, MailTypesAre DEF MailInv, MailTypes, NotifyImmediate
<1>8. \A d \in Notifiers : Sending(d) =>
         /\ d # c /\ caller[d].key \in inFlight \ digest.keys
         /\ last'[caller[d].key] = last[caller[d].key]
         /\ last[caller[d].key] \notin {"absent", "recent"}
    BY <1>2, <1>3 DEF MailInv, Immediate, Sending
<1>9. CASE Admits(k) /\ MayMail(k)
    <2>1. PICK r : r = [pc |-> "send", key |-> k, severity |-> caller[c].severity]
        OBVIOUS
    <2>2. inFlight' = inFlight \cup {k} /\ caller' = [caller EXCEPT ![c] = r]
        BY <1>1, <1>9, <2>1 DEF NotifyImmediate
    <2>3. /\ r \in CallerRows
          /\ r.pc = "send" /\ r.key = k
        BY <2>1, MailTypesAre DEF MailInv, CallerRows
    <2>4. /\ caller' \in [Notifiers -> CallerRows]
          /\ caller'[c] = r /\ \A d \in Notifiers \ {c} : caller'[d] = caller[d]
        BY <2>2, <2>3 DEF MailInv, MailTypes
    <2>5. k \notin inFlight /\ k \notin digest.keys /\ last'[k] \notin {"absent", "recent"}
        BY <1>3, <1>9 DEF MayMail, MailInv, Digest
    <2>6. Immediate'
        <3>1. \A d \in Notifiers : caller'[d].pc # "idle" => caller'[d].key \in Identities
            BY <2>3, <2>4 DEF MailInv, Immediate
        <3>2. \A d \in Notifiers : Sending(d)' =>
                 IF d = c THEN caller'[d].key = k
                 ELSE Sending(d) /\ caller'[d].key = caller[d].key /\ caller[d].key # k
            BY <1>8, <2>3, <2>4, <2>5 DEF Sending
        <3> QED
            BY <1>2, <1>8, <2>2, <2>5, <3>1, <3>2 DEF MailInv, Immediate
    <2>7. Digest'
        BY <1>2, <1>7, <2>4 DEF MailInv, Digest
    <2>8. MailTypes'
        BY <1>2, <1>3, <1>7, <2>4 DEF MailInv, MailTypes
    <2> QED
        BY <1>5, <1>6, <2>6, <2>7, <2>8 DEF MailInv
<1>10. CASE ~(Admits(k) /\ MayMail(k))
    <2>1. caller' = [caller EXCEPT ![c] = Idle] /\ inFlight' = inFlight
        BY <1>1, <1>10 DEF NotifyImmediate
    <2>2. Idle \in CallerRows /\ Idle.pc = "idle"
        BY DEF Idle, Severities, CallerRows
    <2>3. /\ caller' \in [Notifiers -> CallerRows]
          /\ \A d \in Notifiers \ {c} : caller'[d] = caller[d]
          /\ \A d \in Notifiers : caller'[d].pc # "idle" => caller'[d].key \in Identities
          /\ \A d \in Notifiers : caller'[d].pc = "send" => d # c /\ caller'[d] = caller[d]
        BY <2>1, <2>2, CallerMoves
    <2>4. Immediate'
        BY <1>2, <1>8, <2>1, <2>3 DEF MailInv, Immediate, Sending
    <2>5. Digest'
        BY <1>2, <1>7, <2>1, <2>3 DEF MailInv, Digest
    <2>6. MailTypes'
        BY <1>2, <1>3, <2>1, <2>3 DEF MailInv, MailTypes
    <2> QED
        BY <1>5, <1>6, <2>4, <2>5, <2>6 DEF MailInv
<1> QED
    BY <1>9, <1>10

\* A mail sent at once is over, delivered or not.
LEMMA MailOver ==
    ASSUME MailInv, NEW c \in Notifiers, caller[c].pc = "send",
           caller' = [caller EXCEPT ![c] = Idle], inFlight' = inFlight \ {caller[c].key},
           UNCHANGED <<revision, pending, digest, window, timer, fired, owed, since>>,
           last' \in [Identities -> {"absent", "reserved", "recent", "old"}],
           \A i \in Identities \ {caller[c].key} : last'[i] = last[i],
           last'[caller[c].key] = "absent" => caller[c].key \notin Waiting
    PROVE  MailInv'
<1>1. PICK k \in Identities : k = caller[c].key
    BY DEF MailInv, Immediate
<1>2. k \in inFlight /\ k \notin digest.keys /\ last[k] # "absent"
    BY <1>1 DEF MailInv, Immediate, Sending
<1>3. Idle \in CallerRows /\ Idle.pc = "idle"
    BY DEF Idle, Severities, CallerRows
<1>4. /\ caller' \in [Notifiers -> CallerRows]
      /\ \A d \in Notifiers \ {c} : caller'[d] = caller[d]
      /\ \A d \in Notifiers : caller'[d].pc # "idle" => caller'[d].key \in Identities
      /\ \A d \in Notifiers : caller'[d].pc = "send" => d # c /\ caller'[d] = caller[d]
    BY <1>3, CallerMoves
<1>5. Waiting' = Waiting /\ (Flushing' <=> Flushing)
    BY DEF Waiting, Flushing
<1>6. Kept' \subseteq Kept
    BY <1>1, <1>2 DEF Kept
<1>7. KnownFit'
    <2>1. IsFiniteSet(Kept)' /\ (Cardinality(Kept) <= MaxIdentities)'
        BY <1>6, FewerKnown DEF MailInv
    <2> QED
        BY <1>1, <1>5, <2>1 DEF MailInv, KnownFit, Kept, Waiting
<1>8. Immediate'
    <2>1. \A d \in Notifiers : Sending(d)' =>
             /\ Sending(d) /\ caller'[d].key = caller[d].key /\ caller[d].key # k
             /\ caller[d].key \in Identities
        BY <1>1, <1>4 DEF Sending, MailInv, Immediate
    <2> QED
        BY <1>1, <1>4, <2>1 DEF MailInv, Immediate
<1>9. Digest'
    <2>1. \A i \in digest.keys : i \in Identities /\ last'[i] = last[i]
        BY <1>1, <1>2, MailTypesAre DEF MailInv
    <2> QED
        BY <1>1, <1>2, <1>4, <2>1 DEF MailInv, Digest
<1>10. MailTypes'
    BY <1>4 DEF MailInv, MailTypes
<1> QED
    BY <1>5, <1>7, <1>8, <1>9, <1>10
       DEF MailInv, WindowFits, NothingForgotten, DigestHasTimer

LEMMA DeliveredKeeps ==
    ASSUME MailInv, NEW c \in Notifiers, Delivered(c) \/ NotDelivered(c)
    PROVE  MailInv'
<1>1. PICK k \in Identities : k = caller[c].key
    BY DEF MailInv, Immediate, Delivered, NotDelivered
<1>2. /\ caller[c].pc = "send"
      /\ caller' = [caller EXCEPT ![c] = Idle] /\ inFlight' = inFlight \ {caller[c].key}
      /\ UNCHANGED <<revision, pending, digest, window, timer, fired, owed, since>>
    BY DEF Delivered, NotDelivered
<1>3. /\ last' \in [Identities -> {"absent", "reserved", "recent", "old"}]
      /\ \A i \in Identities \ {k} : last'[i] = last[i]
      /\ last'[k] = "absent" => k \notin Waiting
    <2>1. last[k] # "absent" /\ last \in [Identities -> {"absent", "reserved", "recent", "old"}]
        BY <1>1, <1>2 DEF MailInv, MailTypes, Immediate, Sending
    <2> QED
        BY <1>1, <2>1 DEF Delivered, NotDelivered
<1> QED
    BY <1>1, <1>2, <1>3, MailOver

\* What a digest that was settled leaves waiting.
LEMMA Settling ==
    ASSUME MailInv, pending' = DigestSettled
    PROVE  /\ pending' \in [Identities -> [count : Nat, severity : Severities]]
           /\ Waiting' \subseteq Waiting
           /\ \A k \in Identities \ digest.keys : pending'[k] = pending[k]
           /\ \A k \in digest.keys : /\ Rest(k) \in Nat
                                     /\ k \in Waiting' <=> Rest(k) > 0
                                     /\ k \in since => Rest(k) > 0
<1>1. ASSUME NEW k \in digest.keys
      PROVE  /\ k \in Identities /\ Rest(k) \in Nat /\ (k \in since => Rest(k) > 0)
             /\ k \in Waiting
    <2>1. k \in Identities /\ pending[k].count \in Nat /\ digest.count[k] \in Nat
        BY <1>1, MailTypesAre DEF MailInv
    <2>2. /\ 0 < digest.count[k] /\ digest.count[k] <= pending[k].count
          /\ k \in since => digest.count[k] < pending[k].count
        BY <1>1 DEF MailInv, Digest
    <2> QED
        BY <2>1, <2>2 DEF Rest, Waiting
<1>2. /\ \A k \in Identities \ digest.keys : pending'[k] = pending[k]
      /\ \A k \in digest.keys : pending'[k] = IF Rest(k) > 0 THEN [pending[k] EXCEPT !.count = Rest(k)]
                                              ELSE Empty
      /\ DOMAIN pending' = Identities /\ pending' = [k \in Identities |-> pending'[k]]
    BY <1>1 DEF DigestSettled
<1>3. ASSUME NEW k \in digest.keys
      PROVE  /\ pending'[k] \in [count : Nat, severity : Severities]
             /\ pending'[k].count = IF Rest(k) > 0 THEN Rest(k) ELSE 0
    <2>1. /\ pending[k] = [count |-> pending[k].count, severity |-> pending[k].severity]
          /\ pending[k].severity \in Severities
        BY <1>1, <1>3, MailTypesAre DEF MailInv
    <2>2. CASE Rest(k) > 0
        <3>1. pending'[k] = [count |-> Rest(k), severity |-> pending[k].severity]
            BY <1>2, <2>1, <2>2
        <3> QED
            BY <1>1, <2>1, <2>2, <3>1
    <2>3. CASE ~(Rest(k) > 0)
        <3>1. pending'[k] = Empty
            BY <1>2, <1>3, <2>3, Zenon
        <3>2. Empty \in [count : Nat, severity : Severities] /\ Empty.count = 0
            BY DEF Empty, Severities
        <3> QED
            BY <2>3, <3>1, <3>2
    <2> QED
        BY <2>2, <2>3
<1>4. \A k \in Identities \ digest.keys : pending[k] \in [count : Nat, severity : Severities]
    BY DEF MailInv, MailTypes
<1>5. pending' \in [Identities -> [count : Nat, severity : Severities]]
    BY <1>1, <1>2, <1>3, <1>4
<1>6. \A k \in digest.keys : k \in Waiting' <=> Rest(k) > 0
    BY <1>1, <1>3 DEF Waiting
<1>7. Waiting' \subseteq Waiting
    BY <1>1, <1>2 DEF Waiting
<1> QED
    BY <1>1, <1>2, <1>5, <1>6, <1>7

\* Either way, nobody who waits is forgotten.
LEMMA Deciding ==
    ASSUME MailInv, FlushDone \/ FlushFails, since' = {}
    PROVE  /\ pending' \in [Identities -> [count : Nat, severity : Severities]]
           /\ last' \in [Identities -> {"absent", "reserved", "recent", "old"}]
           /\ owed' \subseteq Identities /\ owed' \subseteq Waiting'
           /\ \A k \in Identities \ digest.keys : last'[k] = last[k]
           /\ KnownFit'
<1>1. MailTypes /\ KnownFit /\ since \subseteq owed /\ owed \subseteq Waiting
      /\ digest.keys \subseteq Identities /\ owed \subseteq Identities
    BY MailTypesAre DEF MailInv, MailTypes, NothingForgotten
<1>2. CASE FlushDone
    <2>1. PICK drop \in SUBSET Candidates :
             /\ pending' = DigestSettled
             /\ last' = [k \in Identities |->
                           IF k \in Candidates \ drop THEN "recent"
                           ELSE IF k \in digest.keys /\ last[k] = "reserved" /\ Rest(k) <= 0
                                THEN "absent" ELSE last[k]]
             /\ owed' = (owed \ digest.keys) \cup since
        BY <1>2 DEF FlushDone
    <2>2. Candidates \subseteq digest.keys
        BY DEF Candidates
    <2>3. /\ pending' \in [Identities -> [count : Nat, severity : Severities]]
          /\ Waiting' \subseteq Waiting
          /\ \A k \in Identities \ digest.keys : pending'[k] = pending[k]
          /\ \A k \in digest.keys : /\ Rest(k) \in Nat /\ (k \in Waiting' <=> Rest(k) > 0)
                                    /\ k \in since => Rest(k) > 0
        BY <2>1, Settling
    <2>4. /\ last' \in [Identities -> {"absent", "reserved", "recent", "old"}]
          /\ \A k \in Identities \ digest.keys : last'[k] = last[k]
        BY <1>1, <2>1, <2>2 DEF MailTypes
    <2>5. \A k \in Identities \ digest.keys : k \in Waiting => k \in Waiting'
        BY <2>3 DEF Waiting
    <2>6. owed' \subseteq Waiting'
        BY <1>1, <2>1, <2>3, <2>5
    <2>7. digest.keys \subseteq Waiting
        <3>1. \A k \in digest.keys : /\ 0 < digest.count[k] /\ digest.count[k] <= pending[k].count
                                     /\ pending[k].count \in Nat /\ digest.count[k] \in Nat
            BY <1>1, MailTypesAre DEF MailInv, Digest
        <3> QED
            BY <1>1, <3>1 DEF Waiting
    <2>8. Waiting \subseteq Kept
        BY DEF MailInv, KnownFit
    <2>9. Kept' \subseteq Kept
        BY <1>1, <2>1, <2>2, <2>7, <2>8 DEF Kept
    <2>10. Waiting' \subseteq Kept'
        <3>1. ASSUME NEW k \in Waiting'
              PROVE  last'[k] # "absent" /\ k \in Identities
            <4>1. k \in Identities /\ last[k] # "absent"
                BY <2>3, <2>8, <3>1 DEF Kept
            <4>2. k \in digest.keys => ~(Rest(k) <= 0)
                BY <2>3, <3>1
            <4> QED
                BY <2>1, <4>1, <4>2
        <3> QED
            BY <3>1 DEF Kept
    <2>11. KnownFit'
        BY <1>1, <2>9, <2>10, FewerKnown DEF KnownFit
    <2>12. owed' \subseteq Identities
        BY <1>1, <2>1
    <2> QED
        BY <2>3, <2>4, <2>6, <2>11, <2>12
<1>3. CASE FlushFails
    <2>1. UNCHANGED <<pending, last, owed>>
        BY <1>3 DEF FlushFails
    <2> QED
        BY <1>1, <2>1 DEF KnownFit, Waiting, Kept, MailTypes
<1> QED
    BY <1>2, <1>3

LEMMA FlushReturnsKeeps ==
    ASSUME MailInv, FlushReturns
    PROVE  MailInv'
<1>1. /\ Flushing /\ (FlushDone \/ FlushFails) /\ inFlight' = inFlight \ digest.keys
      /\ digest' = NoDigest /\ since' = {} /\ UNCHANGED <<revision, fired>>
      /\ window' = IF \E k \in Identities : pending'[k].count > 0 THEN "open" ELSE "zero"
      /\ timer' = IF window' = "zero" THEN "off" ELSE "set"
    BY DEF FlushReturns, FlushEnds, Rearm
<1>2. /\ pending' \in [Identities -> [count : Nat, severity : Severities]]
      /\ last' \in [Identities -> {"absent", "reserved", "recent", "old"}]
      /\ owed' \subseteq Identities /\ owed' \subseteq Waiting'
      /\ \A k \in Identities \ digest.keys : last'[k] = last[k]
      /\ KnownFit'
    BY <1>1, Deciding
<1>3. /\ caller' \in [Notifiers -> CallerRows]
      /\ \A d \in Notifiers : caller'[d].pc # "idle" => caller'[d].key \in Identities
      /\ \A d \in Notifiers : caller'[d].pc = "send" => caller'[d] = caller[d]
    <2>1. CASE digest.by = Clock
        BY <2>1 DEF FlushReturns, MailInv, MailTypes, Immediate
    <2>2. CASE digest.by # Clock
        <3>1. digest.by \in Notifiers
            BY <1>1, <2>2, MailTypesAre DEF Flushing, MailInv
        <3>2. /\ caller[digest.by].pc = "flush" /\ caller[digest.by].key \in Identities
              /\ caller[digest.by].severity \in Severities
            BY <3>1, MailTypesAre DEF MailInv, Digest, Immediate
        <3>3. PICK c \in Notifiers, k \in Identities, s \in Severities :
                 c = digest.by /\ k = caller[digest.by].key /\ s = caller[digest.by].severity
            BY <3>1, <3>2
        <3>4. Gate(c, k, s)
            BY <2>2, <3>3 DEF FlushReturns
        <3> QED
            BY <3>4, Gated
    <2> QED
        BY <2>1, <2>2
<1>4. /\ digest'.by = Nobody /\ digest'.keys = {}
      /\ digest' \in [by : Notifiers \cup {Clock, Nobody}, keys : SUBSET Identities,
                      count : [Identities -> Nat], covered : SUBSET Identities,
                      revision : DOMAIN Configs]
    BY <1>1, MailAssumption DEF NoDigest
<1>5. MailTypes'
    BY <1>1, <1>2, <1>3, <1>4 DEF MailInv, MailTypes
<1>6. Immediate'
    <2>1. \A d \in Notifiers : Sending(d)' =>
             /\ Sending(d) /\ caller'[d].key = caller[d].key
             /\ caller[d].key \in Identities \ digest.keys
        BY <1>3 DEF Sending, MailInv, Immediate
    <2> QED
        BY <1>1, <1>2, <1>3, <1>4, <2>1 DEF MailInv, Immediate
<1>7. Digest'
    BY <1>4, MailAssumption DEF Digest
<1>8. WindowFits' /\ DigestHasTimer'
    BY <1>1 DEF WindowFits, DigestHasTimer, Waiting
<1> QED
    BY <1>2, <1>5, <1>6, <1>7, <1>8 DEF MailInv, NothingForgotten

\* What moves time and settings only.
LEMMA TimeKeeps ==
    ASSUME MailInv, TimerFires \/ WindowOver \/ (\E r \in DOMAIN Configs : SetConfig(r))
    PROVE  MailInv'
<1>1. UNCHANGED <<last, pending, inFlight, digest, caller, owed, since>>
    BY DEF TimerFires, WindowOver, SetConfig
<1>2. /\ Waiting' = Waiting /\ Kept' = Kept /\ (Flushing' <=> Flushing)
    BY <1>1 DEF Waiting, Kept, Flushing
<1>3. MailTypes'
    BY <1>1 DEF MailInv, MailTypes, TimerFires, WindowOver, SetConfig, Rearm
<1>4. Immediate' /\ Digest'
    BY <1>1 DEF MailInv, Immediate, Digest, Sending
<1>5. KnownFit' /\ NothingForgotten'
    BY <1>1, <1>2 DEF MailInv, KnownFit, NothingForgotten
<1>6. WindowFits' /\ DigestHasTimer'
    <2>1. CASE TimerFires
        BY <1>2, <2>1 DEF MailInv, WindowFits, DigestHasTimer, TimerFires
    <2>2. CASE WindowOver
        BY <1>2, <2>2 DEF MailInv, WindowFits, DigestHasTimer, WindowOver
    <2>3. CASE \E r \in DOMAIN Configs : SetConfig(r)
        <3>1. /\ window' \in (IF window = "zero" THEN {"zero"} ELSE {"open", "due"})
              /\ timer' = IF window' = "zero" THEN "off" ELSE "set"
              /\ fired' = fired
            BY <2>3 DEF SetConfig, Rearm
        <3> QED
            BY <1>2, <3>1 DEF MailInv, WindowFits, DigestHasTimer
    <2> QED
        BY <2>1, <2>2, <2>3
<1> QED
    BY <1>3, <1>4, <1>5, <1>6 DEF MailInv

LEMMA CallbackKeeps ==
    ASSUME MailInv, Callback
    PROVE  MailInv'
<1>1. fired /\ fired' = FALSE /\ caller' = caller
    BY DEF Callback
<1>2. CASE IsDue /\ ~Flushing
    <2>1. Captures(Clock)
        BY <1>2 DEF Callback
    <2>2. caller' \in [Notifiers -> CallerRows]
        BY <1>1 DEF MailInv, MailTypes
    <2>3. MailTypes'
        BY <1>1, <2>1, <2>2, CapturedTypes
    <2>4. Clock \notin Notifiers
        BY MailAssumption
    <2>5. \A c \in Notifiers : caller'[c].pc # "idle" => caller'[c].key \in Identities
        BY <1>1 DEF MailInv, Immediate
    <2> QED
        BY <1>1, <2>1, <2>3, <2>4, <2>5, Capturing
<1>3. CASE ~(IsDue /\ ~Flushing)
    <2>1. UNCHANGED <<revision, last, pending, inFlight, digest, window, timer, owed, since>>
        BY <1>3 DEF Callback
    <2>2. MailTypes'
        BY <1>1, <2>1 DEF MailInv, MailTypes
    <2>3. Waiting' = Waiting /\ Kept' = Kept /\ (Flushing' <=> Flushing)
        BY <2>1 DEF Waiting, Kept, Flushing
    <2>4. Immediate' /\ Digest'
        BY <1>1, <2>1 DEF MailInv, Immediate, Digest, Sending
    <2>5. WindowFits' /\ KnownFit' /\ NothingForgotten'
        BY <2>1, <2>3 DEF MailInv, WindowFits, KnownFit, NothingForgotten
    <2>6. DigestHasTimer'
        BY <1>3, <2>1, <2>3 DEF MailInv, DigestHasTimer, IsDue
    <2> QED
        BY <2>2, <2>4, <2>5, <2>6 DEF MailInv
<1> QED
    BY <1>2, <1>3

LEMMA RateLimitOverKeeps ==
    ASSUME MailInv, NEW k \in Identities, RateLimitOver(k)
    PROVE  MailInv'
<1>1. /\ last[k] = "recent" /\ last' = [last EXCEPT ![k] = "old"]
      /\ UNCHANGED <<revision, pending, inFlight, digest, window, timer, fired, caller, owed, since>>
    BY DEF RateLimitOver
<1>2. /\ last' \in [Identities -> {"absent", "reserved", "recent", "old"}]
      /\ \A i \in Identities : /\ last'[i] = "absent" <=> last[i] = "absent"
                               /\ last'[i] = "recent" => last[i] = "recent"
    BY <1>1 DEF MailInv, MailTypes
<1>3. MailTypes'
    BY <1>1, <1>2 DEF MailInv, MailTypes
<1>4. Waiting' = Waiting /\ Kept' = Kept /\ (Flushing' <=> Flushing)
    BY <1>1, <1>2 DEF Waiting, Kept, Flushing
<1>5. Immediate'
    BY <1>1, <1>2 DEF MailInv, Immediate, Sending
<1>6. Digest'
    <2>1. digest.keys \subseteq Identities
        BY MailTypesAre DEF MailInv
    <2> QED
        BY <1>1, <1>2, <2>1 DEF MailInv, Digest
<1> QED
    BY <1>1, <1>3, <1>4, <1>5, <1>6
       DEF MailInv, KnownFit, WindowFits, NothingForgotten, DigestHasTimer

LEMMA NextMail == MailInv /\ [MailNext]_mailVars => MailInv'
<1> SUFFICES ASSUME MailInv, [MailNext]_mailVars PROVE MailInv'
    OBVIOUS
<1>1. ASSUME NEW c \in Notifiers, Notify(c)
      PROVE  MailInv'
    <2>1. CASE \E k \in Identities, severity \in {"low", "critical"} : MaybeNotify(c, k, severity)
        BY <2>1, MaybeNotifyKeeps DEF Severities
    <2> QED
        BY <1>1, <2>1, IgnoredKeeps, QueueDigestKeeps, NotifyImmediateKeeps, DeliveredKeeps
           DEF Notify
<1>2. CASE UNCHANGED mailVars
    <2>1. UNCHANGED <<revision, last, pending, inFlight, digest, window, timer, fired,
                      caller, owed, since>>
        BY <1>2 DEF mailVars
    <2>2. Waiting' = Waiting /\ Kept' = Kept /\ (Flushing' <=> Flushing)
        BY <2>1 DEF Waiting, Kept, Flushing
    <2>3. MailTypes' /\ Immediate' /\ Digest'
        BY <2>1 DEF MailInv, MailTypes, Immediate, Digest, Sending
    <2> QED
        BY <2>1, <2>2, <2>3 DEF MailInv, KnownFit, WindowFits, NothingForgotten, DigestHasTimer
<1> QED
    BY <1>1, <1>2, FlushReturnsKeeps, TimeKeeps, CallbackKeeps, RateLimitOverKeeps DEF MailNext

LEMMA MailInductive == MailSpec => []MailInv
BY InitMail, NextMail, PTL DEF MailSpec

(* No finding that was accepted for a mail is forgotten, no identity is in   *)
(* two mails of its window, somebody will always send the digest that waits, *)
(* and the identities stay within their limit, for any number of identities, *)
(* callers and settings.                                                     *)
THEOREM MailIsKeptAlways == MailSpec => []MailIsKept
<1>1. MailInv => MailIsKept
    <2> SUFFICES ASSUME MailInv PROVE MailIsKept
        OBVIOUS
    <2>1. ASSUME NEW k \in Identities
          PROVE  Cardinality(Senders(k)) <= 1 /\ (Senders(k) # {} => last[k] # "recent")
        <3>1. CASE k \in Candidates
            <4>1. k \in digest.keys /\ k \notin digest.covered
                BY <3>1 DEF Candidates
            <4>2. Senders(k) = {digest.by}
                BY <3>1, <4>1 DEF Senders, MailInv, Immediate, Sending
            <4>3. Cardinality({digest.by}) = 1
                BY FS_Singleton
            <4> QED
                BY <4>1, <4>2, <4>3 DEF MailInv, Digest
        <3>2. CASE k \notin Candidates
            <4>1. Senders(k) = {c \in Notifiers : Sending(c) /\ caller[c].key = k}
                BY <3>2 DEF Senders, Sending
            <4>2. CASE Senders(k) = {}
                BY <4>2, FS_EmptySet
            <4>3. CASE Senders(k) # {}
                <5>1. PICK c \in Notifiers : Sending(c) /\ caller[c].key = k
                    BY <4>1, <4>3
                <5>2. Senders(k) = {c}
                    BY <4>1, <5>1 DEF MailInv, Immediate
                <5>3. Cardinality({c}) = 1
                    BY FS_Singleton
                <5> QED
                    BY <5>1, <5>2, <5>3 DEF MailInv, Immediate
            <4> QED
                BY <4>2, <4>3
        <3> QED
            BY <3>1, <3>2
    <2> QED
        BY <2>1 DEF MailInv, MailIsKept, OneMailPerWindow, KnownFit, IdentitiesBounded, Kept
<1> QED
    BY <1>1, MailInductive, PTL
=============================================================================
