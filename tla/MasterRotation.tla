----------------------------- MODULE MasterRotation -----------------------------
(***************************************************************************)
(* How a Master Key rotation gets the process quiet before it rewraps a    *)
(* secret (internal/api/credentials.go postBeginMasterRotation, with the   *)
(* quiescer cmd/relay-gate/main.go hands it).  It composes the maintenance *)
(* overlay, the fence around administrative writes, the synthetic gate and *)
(* the fence around proxied requests, and takes them in that order.        *)
(*                                                                         *)
(* What happens between the phases prepared and cleaned is one step here   *)
(* (KeyRotation has its own module), and so are Set and CancelSynthetic    *)
(* (RunState and SyntheticCoordinator have theirs).                        *)
(***************************************************************************)
CONSTANTS
    Admins,     \* administrative write requests
    Proxies,    \* proxied model requests
    Rotators,   \* requests to rotate-master
    Attempts    \* synthetic attempts

VARIABLES
    overlay,       \* the overlay of runstate.Controller
    running,       \* the persisted run state
    gate, leases,  \* the synthetic gate and the leases that are out
    admin,         \* where each administrative write is
    proxy,         \* where each proxied request is
    rot,           \* where each rotation request is
    held,          \* a rotation ended without leave to exit maintenance
    writesFrozen, writers, writesIdle, writesDrain,      \* Server.mutations
    proxyFrozen, handlers, proxyIdle, proxyDrain         \* Handler.admission

writesVars == <<writesFrozen, writers, writesIdle, writesDrain>>
proxyVars == <<proxyFrozen, handlers, proxyIdle, proxyDrain>>
synthVars == <<gate, leases>>
stateVars == <<overlay, running, held>>
masterVars == <<stateVars, synthVars, admin, proxy, rot, writesVars, proxyVars>>

Writes == INSTANCE AdmissionFence WITH
    Workers <- Admins, Drainers <- Rotators, WaitsWhenEmpty <- TRUE,
    frozen <- writesFrozen, inside <- writers,
    idle <- writesIdle, drain <- writesDrain

Requests == INSTANCE AdmissionFence WITH
    Workers <- Proxies, Drainers <- Rotators, WaitsWhenEmpty <- FALSE,
    frozen <- proxyFrozen, inside <- handlers,
    idle <- proxyIdle, drain <- proxyDrain

MasterInit ==
    /\ overlay = FALSE
    /\ running \in BOOLEAN
    /\ gate = running
    /\ leases = {}
    /\ admin = [a \in Admins |-> "away"]
    /\ proxy = [p \in Proxies |-> "away"]
    /\ rot = [r \in Rotators |-> "idle"]
    /\ held = FALSE
    /\ Writes!FenceInit
    /\ Requests!FenceInit

-----------------------------------------------------------------------------
(* guardMutations: two looks, first at the overlay, then at the fence.     *)

AdminCheck(a) ==
    /\ admin[a] = "away"
    /\ ~overlay
    /\ admin' = [admin EXCEPT ![a] = "checked"]
    /\ UNCHANGED <<stateVars, synthVars, proxy, rot, writesVars, proxyVars>>

AdminEnter(a) ==
    /\ admin[a] = "checked"
    /\ \/ /\ Writes!Enter(a)
          /\ admin' = [admin EXCEPT ![a] = "in"]
       \/ /\ writesFrozen
          /\ admin' = [admin EXCEPT ![a] = "away"]
          /\ UNCHANGED writesVars
    /\ UNCHANGED <<stateVars, synthVars, proxy, rot, proxyVars>>

\* The one administrative write that matters here: PUT state, which shuts or
\* opens the gate whether or not the service is in maintenance.
AdminSet(a, s) ==
    /\ admin[a] = "in"
    /\ running' = s
    /\ gate' = s
    /\ UNCHANGED <<overlay, held, leases, admin, proxy, rot, writesVars,
                   proxyVars>>

AdminLeave(a) ==
    /\ admin[a] = "in"
    /\ Writes!Leave(a)
    /\ admin' = [admin EXCEPT ![a] = "away"]
    /\ UNCHANGED <<stateVars, synthVars, proxy, rot, proxyVars>>

-----------------------------------------------------------------------------
(* withAdmission, then the service switch of the preamble: the fence comes *)
(* first here.                                                             *)

ProxyEnter(p) ==
    /\ proxy[p] = "away"
    /\ Requests!Enter(p)
    /\ proxy' = [proxy EXCEPT ![p] = "in"]
    /\ UNCHANGED <<stateVars, synthVars, admin, rot, writesVars>>

ProxyAdmit(p) ==
    /\ proxy[p] = "in"
    /\ ~overlay /\ running
    /\ proxy' = [proxy EXCEPT ![p] = "forwarding"]
    /\ UNCHANGED <<stateVars, synthVars, admin, rot, writesVars, proxyVars>>

\* Refused, failed or done.
ProxyLeave(p) ==
    /\ proxy[p] \in {"in", "forwarding"}
    /\ Requests!Leave(p)
    /\ proxy' = [proxy EXCEPT ![p] = "away"]
    /\ UNCHANGED <<stateVars, synthVars, admin, rot, writesVars>>

-----------------------------------------------------------------------------
(* Synthetic attempts, as far as the gate's contract tells.                *)

Acquire(j) ==
    /\ gate
    /\ j \notin leases
    /\ leases' = leases \cup {j}
    /\ UNCHANGED <<stateVars, gate, admin, proxy, rot, writesVars, proxyVars>>

ReleaseLease(j) ==
    /\ j \in leases
    /\ leases' = leases \ {j}
    /\ UNCHANGED <<stateVars, gate, admin, proxy, rot, writesVars, proxyVars>>

-----------------------------------------------------------------------------
(* postBeginMasterRotation.                                                *)

GoesTo(r, s) == rot' = [rot EXCEPT ![r] = s]

\* EnterMaintenance lets one rotation in; the others get a conflict.
TakeMaintenance(r) ==
    /\ rot[r] = "idle"
    /\ ~overlay
    /\ overlay' = TRUE
    /\ GoesTo(r, "entering")
    /\ UNCHANGED <<running, held, synthVars, admin, proxy, writesVars, proxyVars>>

\* EnterMaintenance cancels the synthetic jobs and ignores the outcome.
EnterCancel(r) ==
    /\ rot[r] = "entering"
    /\ gate' = FALSE
    /\ GoesTo(r, "freezing")
    /\ UNCHANGED <<stateVars, leases, admin, proxy, writesVars, proxyVars>>

FreezeWrites(r) ==
    /\ rot[r] = "freezing"
    /\ Writes!Freeze(r)
    /\ GoesTo(r, "writesWait")
    /\ UNCHANGED <<stateVars, synthVars, admin, proxy, proxyVars>>

WritesDrained(r) ==
    /\ rot[r] = "writesWait"
    /\ \/ Writes!Drained(r) /\ GoesTo(r, "runtime")
       \/ Writes!Expire(r) /\ GoesTo(r, "leave")
    /\ UNCHANGED <<stateVars, synthVars, admin, proxy, proxyVars>>

\* Mutant: the quiescer relies on the gate EnterMaintenance has shut.
CancelSyntheticOnce(r) ==
    /\ rot[r] = "runtime"
    /\ GoesTo(r, "draining")
    /\ UNCHANGED <<stateVars, synthVars, admin, proxy, writesVars, proxyVars>>

\* The quiescer: CancelSynthetic, and this time it must have drained.
CancelSynthetic(r) ==
    /\ rot[r] = "runtime"
    /\ gate' = FALSE
    /\ GoesTo(r, "draining")
    /\ UNCHANGED <<stateVars, leases, admin, proxy, writesVars, proxyVars>>

SyntheticDrained(r) ==
    /\ rot[r] = "draining"
    /\ \/ leases = {} /\ GoesTo(r, "quiesce")
       \/ GoesTo(r, "releaseWrites")
    /\ UNCHANGED <<stateVars, synthVars, admin, proxy, writesVars, proxyVars>>

Quiesce(r) ==
    /\ rot[r] = "quiesce"
    /\ Requests!Freeze(r)
    /\ GoesTo(r, IF handlers = {} THEN "flush" ELSE "proxyWait")
    /\ UNCHANGED <<stateVars, synthVars, admin, proxy, writesVars>>

ProxyDrained(r) ==
    /\ rot[r] = "proxyWait"
    /\ \/ Requests!Drained(r) /\ GoesTo(r, "flush")
       \/ Requests!Expire(r) /\ GoesTo(r, "releaseWrites")
    /\ UNCHANGED <<stateVars, synthVars, admin, proxy, writesVars>>

\* The background writers are flushed; one that fails reopens the fence.
Flush(r) ==
    /\ rot[r] = "flush"
    /\ \/ GoesTo(r, "rewrap") /\ UNCHANGED proxyVars
       \/ Requests!Release(r) /\ GoesTo(r, "releaseWrites")
    /\ UNCHANGED <<stateVars, synthVars, admin, proxy, writesVars>>

\* From BeginRotation to ForgetRetired.  A failure that leaves the keyring and
\* the database between two keys keeps maintenance, any other end does not.
RewrapSecrets(r) ==
    /\ rot[r] = "rewrap"
    /\ held' \in BOOLEAN
    /\ GoesTo(r, "releaseProxy")
    /\ UNCHANGED <<overlay, running, synthVars, admin, proxy, writesVars,
                   proxyVars>>

\* The deferred calls, last one first.
ReleaseProxy(r) ==
    /\ rot[r] = "releaseProxy"
    /\ Requests!Release(r)
    /\ GoesTo(r, "releaseWrites")
    /\ UNCHANGED <<stateVars, synthVars, admin, proxy, writesVars>>

ReleaseWrites(r) ==
    /\ rot[r] = "releaseWrites"
    /\ Writes!Release(r)
    /\ GoesTo(r, "leave")
    /\ UNCHANGED <<stateVars, synthVars, admin, proxy, proxyVars>>

\* ExitMaintenance reopens the gate of a running service.
LeaveMaintenance(r) ==
    /\ rot[r] = "leave"
    /\ IF held
         THEN UNCHANGED <<overlay, gate>>
         ELSE /\ overlay' = FALSE
              /\ gate' = (gate \/ running)
    /\ GoesTo(r, "idle")
    /\ UNCHANGED <<running, held, leases, admin, proxy, writesVars, proxyVars>>

Rotate(r) ==
    \/ EnterCancel(r) \/ FreezeWrites(r) \/ WritesDrained(r)
    \/ CancelSynthetic(r) \/ SyntheticDrained(r)
    \/ Quiesce(r) \/ ProxyDrained(r) \/ Flush(r) \/ RewrapSecrets(r)
    \/ ReleaseProxy(r) \/ ReleaseWrites(r) \/ LeaveMaintenance(r)

MasterNext ==
    \/ \E a \in Admins : \/ AdminCheck(a) \/ AdminEnter(a) \/ AdminLeave(a)
                         \/ \E s \in BOOLEAN : AdminSet(a, s)
    \/ \E p \in Proxies : ProxyEnter(p) \/ ProxyAdmit(p) \/ ProxyLeave(p)
    \/ \E j \in Attempts : Acquire(j) \/ ReleaseLease(j)
    \/ \E r \in Rotators : TakeMaintenance(r) \/ Rotate(r)

MasterSpec == MasterInit /\ [][MasterNext]_masterVars

(* A rotation that can take its next step takes it: its drains run under   *)
(* one 30-second context, so a wait that cannot succeed expires.  Nothing  *)
(* is assumed of the requests.                                             *)
MasterFairSpec == MasterSpec /\ \A r \in Rotators : WF_masterVars(Rotate(r))

-----------------------------------------------------------------------------
(* Properties.                                                             *)

RotSteps == {"idle", "entering", "freezing", "writesWait", "runtime",
             "draining", "quiesce", "proxyWait", "flush", "rewrap",
             "releaseProxy", "releaseWrites", "leave"}

MasterTypeOK ==
    /\ overlay \in BOOLEAN /\ running \in BOOLEAN /\ held \in BOOLEAN
    /\ gate \in BOOLEAN
    /\ leases \subseteq Attempts
    /\ admin \in [Admins -> {"away", "checked", "in"}]
    /\ proxy \in [Proxies -> {"away", "in", "forwarding"}]
    /\ rot \in [Rotators -> RotSteps]
    /\ Writes!FenceTypeOK
    /\ Requests!FenceTypeOK

(* Secrets are rewrapped only in a quiet process: no administrative write, *)
(* no proxied request and no synthetic attempt is anywhere in its code,    *)
(* and none can start.  The order matters: a PUT state that was let in     *)
(* before maintenance may still reopen the gate EnterMaintenance shut, so  *)
(* the gate is shut again once the writes are out.                         *)
QuietRewrap ==
    \A r \in Rotators : rot[r] = "rewrap" =>
        /\ overlay /\ ~gate
        /\ leases = {} /\ writers = {} /\ handlers = {}

(* A rotation that had to keep maintenance lets go of both fences all the  *)
(* same; the overlay alone must then keep requests from going upstream     *)
(* with secrets sealed under a key the process does not use.               *)
NoTrafficWhileHeld ==
    held => overlay /\ \A p \in Proxies : proxy[p] # "forwarding"

(* The two together: what a rotation promises about the rest of the process. *)
RotationIsQuiet == QuietRewrap /\ NoTrafficWhileHeld

(* No rotation, however it ended, leaves a fence frozen behind it.         *)
NothingLeftFrozen == ~overlay => ~writesFrozen /\ ~proxyFrozen

(* A rotation request ends and gives the service back, unless it has to    *)
(* hold it for a restart.                                                  *)
MaintenanceEnds == overlay ~> (~overlay \/ held)

(* "No administrative writes during maintenance": once a rotation had to   *)
(* keep maintenance, no write is let in any more.                          *)
NoWriteWhileHeld ==
    held /\ (\A r \in Rotators : rot[r] = "idle") => writers = {}
=============================================================================
