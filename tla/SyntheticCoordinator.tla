------------------------- MODULE SyntheticCoordinator -------------------------
(***************************************************************************)
(* The process-wide gate of synthetic probes                               *)
(* (internal/probe/synthetic_coordinator.go).                              *)
(*                                                                         *)
(* Every synthetic attempt takes a lease before it sends.  A caller that   *)
(* pauses the service shuts the gate, replaces and cancels the root        *)
(* context all leases descend from, and waits until the WaitGroup of       *)
(* leases is empty or its own context expires.  Resuming reopens the gate. *)
(* None of these operations excludes another: the gate is an atomic flag,  *)
(* the mutex covers only the root, and the WaitGroup is shared, so the     *)
(* steps below are the steps between which goroutines interleave.          *)
(***************************************************************************)
EXTENDS Naturals, FiniteSets

CONSTANTS
    Jobs,      \* synthetic attempts: one Executor.Execute call each
    Callers    \* goroutines that cancel, resume or close

ASSUME CallersAssumption ==
    {"none", "current", "cancelled"} \cap Callers = {}

VARIABLES
    open,        \* open: the gate lets new leases in
    closed,      \* closed: Close was called, the gate never opens again
    job,         \* where each AcquireSynthetic call, and then its lease, is
    parent,      \* the root context each counted job descends from: the
                 \* current one, the one a caller has swapped out and not
                 \* cancelled yet (named by that caller), or a cancelled one
    call,        \* where each CancelSynthetic / Close call is
    waiter,      \* the goroutine of each call that sits in leases.Wait()
    strays,      \* states of Wait() goroutines whose call gave up waiting
    reopened,    \* history: opened again since this CancelSynthetic shut it
    panicked     \* WaitGroup misuse detected: the process is gone

coordVars == <<open, closed, job, parent, call, waiter, strays, reopened,
               panicked>>

-----------------------------------------------------------------------------
(* leases sync.WaitGroup: a job is counted from Add(1) to Done().          *)
Counted == {"leased", "confirmed", "held"}
Leases == {j \in Jobs : job[j] \in Counted}

JobStates == {"idle", "entering"} \cup Counted
CallStates == {"idle", "shut", "swap", "broadcast", "drain", "drained",
               "timedout", "resume", "reopen",
               "closing", "closeGate", "closeRoot", "closeWait", "closed"}
Cancelling == {"swap", "broadcast", "drain", "drained"}
WaiterStates == {"none", "starting", "blocked", "woken", "done"}

\* NewSyntheticCoordinator
CoordInit(isOpen) ==
    /\ open = isOpen
    /\ closed = FALSE
    /\ job = [j \in Jobs |-> "idle"]
    /\ parent = [j \in Jobs |-> "none"]
    /\ call = [c \in Callers |-> "idle"]
    /\ waiter = [c \in Callers |-> "none"]
    /\ strays = {}
    /\ reopened = [c \in Callers |-> FALSE]
    /\ panicked = FALSE

\* NewSyntheticCoordinator of the process that replaces a dead one.
CoordRestart(isOpen) ==
    /\ open' = isOpen
    /\ closed' = FALSE
    /\ job' = [j \in Jobs |-> "idle"]
    /\ parent' = [j \in Jobs |-> "none"]
    /\ call' = [c \in Callers |-> "idle"]
    /\ waiter' = [c \in Callers |-> "none"]
    /\ strays' = {}
    /\ reopened' = [c \in Callers |-> FALSE]
    /\ panicked' = FALSE

-----------------------------------------------------------------------------
(* AcquireSynthetic and release.                                           *)

\* The first look at the gate takes no lock; a rejected call changes nothing.
AcquireEnter(j) ==
    /\ job[j] = "idle"
    /\ ~closed /\ open
    /\ job' = [job EXCEPT ![j] = "entering"]
    /\ UNCHANGED <<open, closed, parent, call, waiter, strays, reopened,
                   panicked>>

\* Mutant: the lease is counted without looking at the gate again.
AcquireLeaseUnchecked(j) ==
    /\ job[j] = "entering"
    /\ job' = [job EXCEPT ![j] = "leased"]
    /\ parent' = [parent EXCEPT ![j] = "current"]
    /\ UNCHANGED <<open, closed, call, waiter, strays, reopened, panicked>>

\* The second look, the root and leases.Add(1), all under mu.
AcquireLease(j) ==
    /\ job[j] = "entering"
    /\ IF ~closed /\ open
         THEN /\ job' = [job EXCEPT ![j] = "leased"]
              /\ parent' = [parent EXCEPT ![j] = "current"]
         ELSE /\ job' = [job EXCEPT ![j] = "idle"]
              /\ UNCHANGED parent
    /\ UNCHANGED <<open, closed, call, waiter, strays, reopened, panicked>>

\* leases.Done(): the last one wakes every goroutine blocked in Wait().
Done(j) ==
    /\ job' = [job EXCEPT ![j] = "idle"]
    /\ parent' = [parent EXCEPT ![j] = "none"]
    /\ IF Leases = {j}
         THEN /\ waiter' = [c \in Callers |->
                     IF waiter[c] = "blocked" THEN "woken" ELSE waiter[c]]
              /\ strays' = {IF s = "blocked" THEN "woken" ELSE s : s \in strays}
         ELSE UNCHANGED <<waiter, strays>>
    /\ UNCHANGED <<open, closed, call, reopened, panicked>>

\* The third look: the gate may have shut since the lease was counted.
AcquireConfirm(j) ==
    /\ job[j] = "leased"
    /\ open /\ ~closed
    /\ job' = [job EXCEPT ![j] = "confirmed"]
    /\ UNCHANGED <<open, closed, parent, call, waiter, strays, reopened,
                   panicked>>

\* The last look: the child context is not done yet, the lease is granted.
AcquireGrant(j) ==
    /\ job[j] = "confirmed"
    /\ parent[j] # "cancelled"
    /\ job' = [job EXCEPT ![j] = "held"]
    /\ UNCHANGED <<open, closed, parent, call, waiter, strays, reopened,
                   panicked>>

\* AcquireSynthetic rejects after counting: shut gate, or a child context
\* that is done because its root or the caller's own context is.
AcquireReject(j) ==
    /\ \/ job[j] = "leased" /\ (~open \/ closed)
       \/ job[j] = "confirmed"
    /\ Done(j)

\* The holder finishes its attempt, cancelled or not.
Release(j) ==
    /\ job[j] = "held"
    /\ Done(j)

JobStep(j) ==
    \/ AcquireEnter(j) \/ AcquireLease(j) \/ AcquireConfirm(j)
    \/ AcquireGrant(j) \/ AcquireReject(j) \/ Release(j)

-----------------------------------------------------------------------------
(* CancelSynthetic.                                                        *)

CancelCall(c) ==
    /\ call[c] = "idle"
    /\ call' = [call EXCEPT ![c] = "shut"]
    /\ UNCHANGED <<open, closed, job, parent, waiter, strays, reopened,
                   panicked>>

\* open.Store(false), before anything that can wait.
CancelShut(c) ==
    /\ call[c] = "shut"
    /\ open' = FALSE
    /\ reopened' = [reopened EXCEPT ![c] = FALSE]
    /\ call' = [call EXCEPT ![c] = "swap"]
    /\ UNCHANGED <<closed, job, parent, waiter, strays, panicked>>

Reparent(from, to) ==
    parent' = [j \in Jobs |-> IF parent[j] = from THEN to ELSE parent[j]]

\* Under mu: remember the old cancel function and install a fresh root.
CancelSwap(c) ==
    /\ call[c] = "swap"
    /\ Reparent("current", c)
    /\ call' = [call EXCEPT ![c] = "broadcast"]
    /\ UNCHANGED <<open, closed, job, waiter, strays, reopened,
                   panicked>>

\* oldCancel(), then a goroutine is started for leases.Wait().
CancelBroadcast(c) ==
    /\ call[c] = "broadcast"
    /\ Reparent(c, "cancelled")
    /\ waiter' = [waiter EXCEPT ![c] = "starting"]
    /\ call' = [call EXCEPT ![c] = "drain"]
    /\ UNCHANGED <<open, closed, job, strays, reopened, panicked>>

\* leases.Wait(): an empty group lets it through, otherwise it blocks.
WaiterEnter(c) ==
    /\ waiter[c] = "starting"
    /\ waiter' = [waiter EXCEPT ![c] = IF Leases = {} THEN "done" ELSE "blocked"]
    /\ UNCHANGED <<open, closed, job, parent, call, strays, reopened,
                   panicked>>

\* Woken, Wait() re-reads the group: a lease added meanwhile is a misuse.
WaiterReturn(c) ==
    /\ waiter[c] = "woken"
    /\ IF Leases = {}
         THEN /\ waiter' = [waiter EXCEPT ![c] = "done"]
              /\ UNCHANGED panicked
         ELSE /\ panicked' = TRUE
              /\ UNCHANGED waiter
    /\ UNCHANGED <<open, closed, job, parent, call, strays, reopened>>

CancelDrained(c) ==
    /\ call[c] = "drain"
    /\ waiter[c] = "done"
    /\ waiter' = [waiter EXCEPT ![c] = "none"]
    /\ call' = [call EXCEPT ![c] = "drained"]
    /\ UNCHANGED <<open, closed, job, parent, strays, reopened, panicked>>

\* ctx.Done(): the caller leaves, its Wait() goroutine stays behind.
CancelTimeout(c) ==
    /\ call[c] = "drain"
    /\ waiter' = [waiter EXCEPT ![c] = "none"]
    /\ strays' = strays \cup ({waiter[c]} \ {"done"})
    /\ reopened' = [reopened EXCEPT ![c] = FALSE]
    /\ call' = [call EXCEPT ![c] = "timedout"]
    /\ UNCHANGED <<open, closed, job, parent, panicked>>

\* The goroutines left behind go through the same Wait().
StrayEnter ==
    /\ "starting" \in strays
    /\ strays' = (strays \ {"starting"})
                    \cup (IF Leases = {} THEN {} ELSE {"blocked"})
    /\ UNCHANGED <<open, closed, job, parent, call, waiter, reopened,
                   panicked>>

StrayReturn ==
    /\ "woken" \in strays
    /\ IF Leases = {}
         THEN /\ strays' = strays \ {"woken"}
              /\ UNCHANGED panicked
         ELSE /\ panicked' = TRUE
              /\ UNCHANGED strays
    /\ UNCHANGED <<open, closed, job, parent, call, waiter, reopened>>

CancelReturn(c) ==
    /\ call[c] \in {"drained", "timedout"}
    /\ call' = [call EXCEPT ![c] = "idle"]
    /\ reopened' = [reopened EXCEPT ![c] = FALSE]
    /\ UNCHANGED <<open, closed, job, parent, waiter, strays, panicked>>

CancelStep(c) ==
    \/ CancelShut(c) \/ CancelSwap(c) \/ CancelBroadcast(c)
    \/ WaiterEnter(c) \/ WaiterReturn(c)
    \/ CancelDrained(c) \/ CancelTimeout(c)

-----------------------------------------------------------------------------
(* ResumeGradually.                                                        *)

ResumeCall(c) ==
    /\ call[c] = "idle"
    /\ call' = [call EXCEPT ![c] = "resume"]
    /\ UNCHANGED <<open, closed, job, parent, waiter, strays, reopened,
                   panicked>>

\* if closed.Load() return
ResumeCheck(c) ==
    /\ call[c] = "resume"
    /\ call' = [call EXCEPT ![c] = IF closed THEN "idle" ELSE "reopen"]
    /\ UNCHANGED <<open, closed, job, parent, waiter, strays, reopened,
                   panicked>>

\* open.Store(true)
ResumeOpen(c) ==
    /\ call[c] = "reopen"
    /\ open' = TRUE
    /\ reopened' = [d \in Callers |-> call[d] \in Cancelling]
    /\ call' = [call EXCEPT ![c] = "idle"]
    /\ UNCHANGED <<closed, job, parent, waiter, strays, panicked>>

-----------------------------------------------------------------------------
(* Close.                                                                  *)

CloseCall(c) ==
    /\ call[c] = "idle"
    /\ call' = [call EXCEPT ![c] = "closing"]
    /\ UNCHANGED <<open, closed, job, parent, waiter, strays, reopened,
                   panicked>>

CloseFlag(c) ==
    /\ call[c] = "closing"
    /\ closed' = TRUE
    /\ call' = [call EXCEPT ![c] = "closeGate"]
    /\ UNCHANGED <<open, job, parent, waiter, strays, reopened, panicked>>

CloseGate(c) ==
    /\ call[c] = "closeGate"
    /\ open' = FALSE
    /\ call' = [call EXCEPT ![c] = "closeRoot"]
    /\ UNCHANGED <<closed, job, parent, waiter, strays, reopened,
                   panicked>>

\* Reads rootCancel under mu and runs it; Close does not install a new root.
CloseRoot(c) ==
    /\ call[c] = "closeRoot"
    /\ Reparent("current", "cancelled")
    /\ waiter' = [waiter EXCEPT ![c] = "starting"]
    /\ call' = [call EXCEPT ![c] = "closeWait"]
    /\ UNCHANGED <<open, closed, job, strays, reopened, panicked>>

\* leases.Wait() on the caller's own goroutine, with no timeout.
CloseDone(c) ==
    /\ call[c] = "closeWait"
    /\ waiter[c] = "done"
    /\ waiter' = [waiter EXCEPT ![c] = "none"]
    /\ call' = [call EXCEPT ![c] = "closed"]
    /\ UNCHANGED <<open, closed, job, parent, strays, reopened, panicked>>

CallStep(c) ==
    \/ CancelStep(c) \/ CancelReturn(c)
    \/ ResumeCheck(c) \/ ResumeOpen(c)
    \/ CloseFlag(c) \/ CloseGate(c) \/ CloseRoot(c) \/ CloseDone(c)

-----------------------------------------------------------------------------
CoordNext ==
    /\ ~panicked
    /\ \/ \E j \in Jobs : JobStep(j)
       \/ \E c \in Callers : \/ CancelCall(c) \/ ResumeCall(c) \/ CloseCall(c)
                             \/ CallStep(c)
       \/ StrayEnter \/ StrayReturn

CoordSpec == (\E b \in BOOLEAN : CoordInit(b)) /\ [][CoordNext]_coordVars

(* An attempt is bounded by its timeouts and its context, so it ends; a    *)
(* goroutine that can run does run.  Nobody has to call anything.          *)
CoordFairness ==
    /\ \A j \in Jobs : /\ WF_coordVars(~panicked /\ AcquireLease(j))
                       /\ WF_coordVars(~panicked /\ AcquireConfirm(j))
                       /\ WF_coordVars(~panicked /\ AcquireReject(j))
                       /\ WF_coordVars(~panicked /\ Release(j))
    /\ \A c \in Callers : WF_coordVars(~panicked /\ CallStep(c))

CoordFairSpec == CoordSpec /\ CoordFairness

-----------------------------------------------------------------------------
(* Properties.                                                             *)

CoordTypeOK ==
    /\ open \in BOOLEAN
    /\ closed \in BOOLEAN
    /\ job \in [Jobs -> JobStates]
    /\ parent \in [Jobs -> {"none", "current", "cancelled"} \cup Callers]
    /\ call \in [Callers -> CallStates]
    /\ waiter \in [Callers -> WaiterStates]
    /\ strays \subseteq {"starting", "blocked", "woken"}
    /\ reopened \in [Callers -> BOOLEAN]
    /\ panicked \in BOOLEAN

(* A CancelSynthetic that reported success really drained: unless somebody *)
(* opened the gate again since this call shut it, no job is counted, none  *)
(* holds a lease and none can be on its way to one.  This is what the key  *)
(* rotation relies on when it takes the nil error as leave to rewrap.      *)
DrainedIsEmpty ==
    \A c \in Callers :
        call[c] = "drained" /\ ~reopened[c] => Leases = {}

(* The "third path" the comment of AcquireSynthetic excludes: with the     *)
(* gate shut and every CancelSynthetic past its broadcast, a job that did  *)
(* get a lease has had its context cancelled.                              *)
Broadcasting == \E c \in Callers : call[c] \in {"swap", "broadcast", "closeRoot"}
HeldIsCancelled ==
    ~open /\ ~Broadcasting =>
        \A j \in Jobs : job[j] = "held" => parent[j] = "cancelled"

(* What whoever stops the service relies on: the two together.             *)
GateIsSafe == DrainedIsEmpty /\ HeldIsCancelled

(* Close is final: once it has returned no lease is counted, and none ever *)
(* will be, even when a ResumeGradually that looked at closed before Close *)
(* set it opens the gate afterwards.                                       *)
CloseIsFinal == \A c \in Callers : call[c] = "closed" => Leases = {}

(* Close waits without a timeout, so it must be able to return: unless the *)
(* process dies, every Close comes to an end.                              *)
CloseReturns == \A c \in Callers : call[c] = "closing" ~> (call[c] = "closed" \/ panicked)

(* "panic-isolated, safe to call again": no sequence of legal calls makes  *)
(* the WaitGroup panic, which would happen on a goroutine nobody recovers. *)
NoWaitGroupPanic == ~panicked
=============================================================================
