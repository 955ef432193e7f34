------------------------------- MODULE RunState -------------------------------
(***************************************************************************)
(* The service switch (internal/runstate/controller.go) on top of the      *)
(* synthetic gate.                                                         *)
(*                                                                         *)
(* The user's intent, running or paused with a revision, is a row of the   *)
(* database; snap is what every request reads; maintenance is an overlay   *)
(* kept in memory only.  Set, EnterMaintenance, ExitMaintenance and the    *)
(* background drain hold no lock across their steps: they are serialized   *)
(* only by the compare-and-set of the database row and of the maintenance  *)
(* flag, so each of them is modelled step by step on its own goroutine.    *)
(***************************************************************************)
EXTENDS SyntheticCoordinator

CONSTANTS
    Drains,      \* background drain goroutines, a subset of Callers
    MayRestart,  \* whether the process may die and start again
    MaxRevision  \* bound: no Set starts once the row reached this revision

ASSUME RunStateAssumption == /\ Drains \subseteq Callers
                             /\ MayRestart \in BOOLEAN
                             /\ MaxRevision \in Nat \ {0}

Clients == Callers \ Drains
RunStates == {"running", "paused"}

VARIABLES
    db,            \* the run_state row: persisted state and revision
    snap,          \* snap: the snapshot the hot path reads
    drainPending,  \* drainPending: a pause whose drain did not finish
    maintenance,   \* maintenance: the overlay
    ctl,           \* where each controller goroutine is
    want,          \* its local: the snapshot it means to publish, or has read
    stale          \* history: positive health conclusions survive from before
                   \* the service last stopped admitting

ctlVars == <<db, snap, drainPending, maintenance, ctl, want, stale>>
vars == <<coordVars, ctlVars>>

Snapshots == [state : RunStates, revision : 1..MaxRevision]
NoSnap == [state |-> "none", revision |-> 0]

SetSteps == {"commit", "publishPaused", "draining", "markPending", "spawn",
             "prepare", "publishRunning", "reopening", "clearPending"}
MaintSteps == {"enterCancel", "inMaintenance", "exitPrepare", "exitSwap",
               "exitReopening"}
DrainSteps == {"check", "draining", "clearPending", "sleep"}
CtlStates == {"idle"} \cup SetSteps \cup MaintSteps \cup DrainSteps

\* Admitting(): the only condition under which new model traffic is accepted.
Admitting == ~maintenance /\ snap.state = "running"

Goto(c, s) == ctl' = [ctl EXCEPT ![c] = s]
Finish(c) == /\ Goto(c, "idle")
             /\ want' = [want EXCEPT ![c] = NoSnap]

\* NewController, NewSyntheticCoordinator and the start of main.
Init ==
    /\ db \in [state : RunStates, revision : {1}]
    /\ CoordInit(db.state = "running")
    /\ snap = db
    /\ drainPending = FALSE
    /\ maintenance = FALSE
    /\ ctl = [c \in Callers |-> "idle"]
    /\ want = [c \in Callers |-> NoSnap]
    /\ stale = FALSE

-----------------------------------------------------------------------------
(* Set.                                                                    *)

\* A revision other than the current one is a conflict and an equal state a
\* no-op: both return without changing anything.
SetCheck(c, s) ==
    /\ ctl[c] = "idle"
    /\ snap.revision < MaxRevision
    /\ snap.state # s
    /\ want' = [want EXCEPT ![c] = [state |-> s, revision |-> snap.revision]]
    /\ Goto(c, "commit")
    /\ UNCHANGED <<db, snap, drainPending, maintenance, stale, coordVars>>

\* Mutant: the row is written whatever its revision.
SetCommitBlind(c) ==
    /\ ctl[c] = "commit"
    /\ db.revision < MaxRevision
    /\ db' = [state |-> want[c].state, revision |-> db.revision + 1]
    /\ want' = [want EXCEPT ![c] = db']
    /\ Goto(c, IF want[c].state = "paused" THEN "publishPaused" ELSE "prepare")
    /\ UNCHANGED <<snap, drainPending, maintenance, stale, coordVars>>

\* SetRunStateWithRevision: the row changes only if its revision is the
\* expected one.
SetCommit(c) ==
    /\ ctl[c] = "commit"
    /\ db.revision = want[c].revision
    /\ db' = [state |-> want[c].state, revision |-> db.revision + 1]
    /\ want' = [want EXCEPT ![c] = db']
    /\ Goto(c, IF want[c].state = "paused" THEN "publishPaused" ELSE "prepare")
    /\ UNCHANGED <<snap, drainPending, maintenance, stale, coordVars>>

\* A conflict found by the store, or any database error.
SetFails(c) ==
    /\ ctl[c] = "commit"
    /\ Finish(c)
    /\ UNCHANGED <<db, snap, drainPending, maintenance, stale, coordVars>>

\* Pausing publishes first, then shuts the gate and drains.
PublishPaused(c) ==
    /\ ctl[c] = "publishPaused"
    /\ snap' = want[c]
    /\ stale' = (stale \/ Admitting)
    /\ Goto(c, "draining")
    /\ CancelCall(c)
    /\ UNCHANGED <<db, drainPending, maintenance, want>>

Drained(c) ==
    /\ ctl[c] = "draining"
    /\ call[c] = "drained"
    /\ CancelReturn(c)
    /\ Goto(c, "clearPending")
    /\ UNCHANGED <<db, snap, drainPending, maintenance, want, stale>>

DrainFailed(c) ==
    /\ ctl[c] = "draining"
    /\ call[c] = "timedout"
    /\ CancelReturn(c)
    /\ Goto(c, IF c \in Drains THEN "sleep" ELSE "markPending")
    /\ UNCHANGED <<db, snap, drainPending, maintenance, want, stale>>

MarkPending(c) ==
    /\ ctl[c] = "markPending"
    /\ drainPending' = TRUE
    /\ Goto(c, "spawn")
    /\ UNCHANGED <<db, snap, maintenance, want, stale, coordVars>>

\* Mutant: the goroutine is not started.
SpawnDrainNone(c) ==
    /\ ctl[c] = "spawn"
    /\ Finish(c)
    /\ UNCHANGED <<db, snap, drainPending, maintenance, stale, coordVars>>

\* startBackgroundDrain; |Drains| bounds how many of them run at once.
SpawnDrain(c) ==
    /\ ctl[c] = "spawn"
    /\ \E d \in Drains :
          /\ ctl[d] = "idle"
          /\ ctl' = [ctl EXCEPT ![c] = "idle", ![d] = "check"]
    /\ want' = [want EXCEPT ![c] = NoSnap]
    /\ UNCHANGED <<db, snap, drainPending, maintenance, stale, coordVars>>

\* Resuming demotes while the snapshot still says paused, publishes, and
\* only then opens the gate.
PrepareResume(c) ==
    /\ ctl[c] = "prepare"
    /\ stale' = FALSE
    /\ Goto(c, "publishRunning")
    /\ UNCHANGED <<db, snap, drainPending, maintenance, want, coordVars>>

PublishRunning(c) ==
    /\ ctl[c] = "publishRunning"
    /\ snap' = want[c]
    /\ Goto(c, "reopening")
    /\ ResumeCall(c)
    /\ UNCHANGED <<db, drainPending, maintenance, want, stale>>

Resumed(c) ==
    /\ ctl[c] = "reopening"
    /\ call[c] = "idle"
    /\ Goto(c, "clearPending")
    /\ UNCHANGED <<db, snap, drainPending, maintenance, want, stale, coordVars>>

ClearPending(c) ==
    /\ ctl[c] = "clearPending"
    /\ drainPending' = FALSE
    /\ Finish(c)
    /\ UNCHANGED <<db, snap, maintenance, stale, coordVars>>

-----------------------------------------------------------------------------
(* The background drain.                                                   *)

DrainCheck(d) ==
    /\ d \in Drains
    /\ ctl[d] = "check"
    /\ IF drainPending
         THEN Goto(d, "draining") /\ CancelCall(d)
         ELSE Goto(d, "idle") /\ UNCHANGED coordVars
    /\ UNCHANGED <<db, snap, drainPending, maintenance, want, stale>>

DrainRetry(d) ==
    /\ ctl[d] = "sleep"
    /\ Goto(d, "check")
    /\ UNCHANGED <<db, snap, drainPending, maintenance, want, stale, coordVars>>

-----------------------------------------------------------------------------
(* EnterMaintenance and ExitMaintenance.                                   *)

\* Entering twice is an error and changes nothing.
EnterMaintenance(c) ==
    /\ ctl[c] = "idle"
    /\ ~maintenance
    /\ maintenance' = TRUE
    /\ stale' = (stale \/ Admitting)
    /\ Goto(c, "enterCancel")
    /\ CancelCall(c)
    /\ UNCHANGED <<db, snap, drainPending, want>>

\* The result of the cancellation is ignored.
Entered(c) ==
    /\ ctl[c] = "enterCancel"
    /\ CancelReturn(c)
    /\ Goto(c, "inMaintenance")
    /\ UNCHANGED <<db, snap, drainPending, maintenance, want, stale>>

\* Mutant: the exit does not demote before it admits again.
ExitReadKeeps(c) ==
    /\ ctl[c] = "inMaintenance"
    /\ maintenance
    /\ want' = [want EXCEPT ![c] = snap]
    /\ Goto(c, "exitSwap")
    /\ UNCHANGED <<db, snap, drainPending, maintenance, stale, coordVars>>

\* The state that decides the rest of the exit is read here, once.
ExitRead(c) ==
    /\ ctl[c] = "inMaintenance"
    /\ maintenance
    /\ want' = [want EXCEPT ![c] = snap]
    /\ Goto(c, IF snap.state = "running" THEN "exitPrepare" ELSE "exitSwap")
    /\ UNCHANGED <<db, snap, drainPending, maintenance, stale, coordVars>>

ExitPrepare(c) ==
    /\ ctl[c] = "exitPrepare"
    /\ stale' = FALSE
    /\ Goto(c, "exitSwap")
    /\ UNCHANGED <<db, snap, drainPending, maintenance, want, coordVars>>

ExitSwap(c) ==
    /\ ctl[c] = "exitSwap"
    /\ maintenance
    /\ maintenance' = FALSE
    /\ IF want[c].state = "running"
         THEN /\ Goto(c, "exitReopening")
              /\ ResumeCall(c)
              /\ UNCHANGED want
         ELSE Finish(c) /\ UNCHANGED coordVars
    /\ UNCHANGED <<db, snap, drainPending, stale>>

Exited(c) ==
    /\ ctl[c] = "exitReopening"
    /\ call[c] = "idle"
    /\ Finish(c)
    /\ UNCHANGED <<db, snap, drainPending, maintenance, stale, coordVars>>

-----------------------------------------------------------------------------
\* The process dies at any point and starts again on the same database; main
\* demotes before it serves.
Restart ==
    /\ MayRestart
    /\ CoordRestart(db.state = "running")
    /\ snap' = db
    /\ drainPending' = FALSE
    /\ maintenance' = FALSE
    /\ ctl' = [c \in Callers |-> "idle"]
    /\ want' = [c \in Callers |-> NoSnap]
    /\ stale' = FALSE
    /\ UNCHANGED db

CtlStep(c) ==
    \/ SetCommit(c) \/ SetFails(c)
    \/ PublishPaused(c) \/ Drained(c) \/ DrainFailed(c)
    \/ MarkPending(c) \/ SpawnDrain(c)
    \/ PrepareResume(c) \/ PublishRunning(c) \/ Resumed(c) \/ ClearPending(c)
    \/ DrainCheck(c) \/ DrainRetry(c)
    \/ Entered(c) \/ ExitRead(c) \/ ExitPrepare(c) \/ ExitSwap(c) \/ Exited(c)

\* A background drain waits 30 seconds for contexts already cancelled: it
\* times out because a lease is still out, not because Wait() is slow.
GateStep(c) ==
    /\ \/ CancelStep(c) /\ (c \in Drains /\ Leases = {} => call'[c] # "timedout")
       \/ ResumeCheck(c) \/ ResumeOpen(c)
    /\ UNCHANGED ctlVars

Call(c) ==
    /\ c \in Clients
    /\ \/ \E s \in RunStates : SetCheck(c, s)
       \/ EnterMaintenance(c)

LeaseStep(j) == JobStep(j) /\ UNCHANGED ctlVars
StrayStep == (StrayEnter \/ StrayReturn) /\ UNCHANGED ctlVars

Next ==
    \/ /\ ~panicked
       /\ \/ \E c \in Callers : Call(c) \/ CtlStep(c) \/ GateStep(c)
          \/ \E j \in Jobs : LeaseStep(j)
          \/ StrayStep
    \/ Restart

Spec == Init /\ [][Next]_vars

(* Goroutines that can run do run, and an attempt ends: it is bounded by   *)
(* its timeouts.  No fairness on what clients ask for, nor on restarts.    *)
Fairness ==
    /\ \A c \in Callers : /\ WF_vars(~panicked /\ CtlStep(c))
                          /\ WF_vars(~panicked /\ GateStep(c))
    /\ \A j \in Jobs : WF_vars(~panicked /\ job[j] # "idle" /\ LeaseStep(j))

FairSpec == Spec /\ Fairness

-----------------------------------------------------------------------------
(* Properties.                                                             *)

TypeOK ==
    /\ CoordTypeOK
    /\ db \in Snapshots
    /\ snap \in Snapshots
    /\ drainPending \in BOOLEAN
    /\ maintenance \in BOOLEAN
    /\ ctl \in [Callers -> CtlStates]
    /\ want \in [Callers -> Snapshots \cup {NoSnap}]
    /\ stale \in BOOLEAN

(* What the hot path reads is the database row, except between the commit  *)
(* and the publication of one Set, the only one that can be there: a       *)
(* second Set commits only on top of a published row, whatever the order   *)
(* in which its precheck and the first one's steps happen.                 *)
Publishing == {c \in Callers :
                 ctl[c] \in {"publishPaused", "prepare", "publishRunning"}}
SnapFollowsRow ==
    \/ snap = db /\ Publishing = {}
    \/ /\ snap.revision + 1 = db.revision
       /\ snap.state # db.state
       /\ \E c \in Publishing : Publishing = {c} /\ want[c] = db

(* No request is admitted on conclusions from before the last stop: every  *)
(* way back to Admitting, through Set or through ExitMaintenance, in any   *)
(* interleaving of the two, has demoted them first.                        *)
NoStaleAdmission == Admitting => ~stale

(* The published state moves one revision at a time, and only to a row     *)
(* that is already durable; a restart is no exception.                     *)
PublishDurable ==
    [][snap' # snap => /\ snap' = db'
                       /\ snap'.revision = snap.revision + 1]_vars

(* A pause that could not drain is not forgotten: the background drain     *)
(* (or a resume) clears the pending mark in the end, as long as nobody     *)
(* enters and leaves maintenance for ever, which reopens the gate under it.*)
NeverHeldAgain == <>[](\A c \in Callers : ctl[c] \notin MaintSteps)
PendingClears ==
    NeverHeldAgain => (drainPending ~> (~drainPending \/ panicked))

\* No Set, maintenance transition or background drain is under way.
Settled == \A c \in Callers : ctl[c] = "idle"

(* Running means that tasks run: with nothing under way, a service that is *)
(* running and not in maintenance admits synthetic probes.                 *)
RunningIsOpen == Settled /\ Admitting => open

(* Paused means that synthetic probes are refused: with nothing under way, *)
(* the gate of a paused service is shut.                                   *)
PausedIsShut == Settled /\ snap.state = "paused" => ~open
=============================================================================
