----------------------------- MODULE Observations -----------------------------
(* What the gateway believes about one upstream and one endpoint of a route. *)
(*                                                                           *)
(* A probe or a request captures an order and the configuration it is sent   *)
(* under, ends with an outcome, and is recorded: one transaction reduces it  *)
(* into the reachability row of the upstream and the capability row of the   *)
(* endpoint (store/capability.go, health/observation_reducer.go), then       *)
(* ResultRecorder hands the committed rows to the two registries that the    *)
(* hot path reads.  Edits, re-enabling, calibration, pause and restart act   *)
(* on the same rows and registries in between.                               *)
EXTENDS Integers, FiniteSets

CONSTANTS
    Executions,        \* concurrent probes and observed requests
    Outcomes,          \* of "ok", "down", "config" and "unread"
    Carries,           \* sets of expectations carried: "reach", "cap"
    FailThreshold,     \* policy.UnreachableThreshold
    OkThreshold,       \* policy.ReachableThreshold
    MaxObservations,   \* bound: observations in a behaviour
    MaxRev             \* bound: revisions of the configuration

\* The reducer refuses thresholds that are not positive, and concludes nothing.
ASSUME ThresholdsAssumption ==
    FailThreshold \in Nat \ {0} /\ OkThreshold \in Nat \ {0}
ASSUME OutcomesAssumption == Outcomes \subseteq {"ok", "down", "config", "unread"}
ASSUME CarriesAssumption  == Carries \subseteq SUBSET {"reach", "cap"}
ASSUME BoundsAssumption   == MaxObservations \in Nat /\ MaxRev \in Nat

VARIABLES
    rev,         \* revision of the stored configuration; a token is a revision
                 \* and a selector
    carry,       \* the expectations of this behaviour; each row is reduced
                 \* alone, so following one of them loses nothing
    pub,         \* the revision livecfg has published
    admin,       \* the administrative write under way
    bound,       \* the tracker holds the route, under some generation
    last,        \* the last order handed out
    exec,        \* the executions
    reach, cap,  \* the rows upstream_reachability and endpoint_capability
    mreach, mcap,\* ReachabilityTracker.rows and CapabilityRegistry.rows
    clearing,    \* a calibration has committed and not cleared the registry
    evidence     \* history: what this revision counted for the upstream

obsVars == <<rev, carry, pub, admin, bound, last, exec, reach, cap, mreach,
             mcap, clearing, evidence>>
rows   == <<reach, cap>>
memory == <<mreach, mcap>>
config == <<rev, carry, pub, admin, bound>>

Triggers  == {"probe", "manual", "real"}
Selector(t) == IF t = "real" THEN "real" ELSE "l2"
States    == {"unknown", "supported", "transient", "config_error"}

(* A row that does not exist has revision 0.                                 *)
NoReach == [rev |-> 0, sel |-> "l2", order |-> 0, state |-> "unknown",
            oks |-> 0, fails |-> 0]
NoCap   == [rev |-> 0, sel |-> "l2", order |-> 0, state |-> "unknown",
            real |-> 0]
Entry(row) == [rev |-> row.rev, sel |-> row.sel, order |-> row.order,
               state |-> row.state]
NoEntry == Entry(NoCap)
NoExec  == [pc |-> "idle", trigger |-> "probe", rev |-> 0, order |-> 0,
            outcome |-> "ok", kept |-> TRUE, reach |-> NoEntry, cap |-> NoEntry]

ObsInit ==
    /\ rev = 1 /\ pub = 1 /\ carry \in Carries
    /\ admin = [kind |-> "none", step |-> "idle"]
    /\ bound = FALSE /\ last = 0
    /\ exec = [x \in Executions |-> NoExec]
    /\ reach = NoReach /\ cap = NoCap /\ mreach = NoEntry /\ mcap = NoEntry
    /\ clearing = FALSE /\ evidence = {}

-----------------------------------------------------------------------------
(* The reducers: pure functions of a prior row and an execution.             *)

Reachable(e)  == e.outcome # "down"
Verdict(e)    == CASE e.outcome = "ok" -> "supported"
                   [] e.outcome = "down" -> "transient"
                   [] OTHER -> "config_error"

Capped(n, k) == IF n < k THEN n ELSE k   \* a count past its threshold

(* ReduceReachability: any response counts for the upstream, and one success *)
(* short of the threshold takes an unreachable upstream only to unknown.     *)
ReduceReachability(prior, e) ==
    LET oks   == Capped(prior.oks + 1, OkThreshold)
        fails == Capped(prior.fails + 1, FailThreshold)
    IN  IF Reachable(e)
        THEN [prior EXCEPT !.oks = oks, !.fails = 0,
                 !.state = IF oks >= OkThreshold \/ prior.state = "reachable"
                           THEN "reachable" ELSE "unknown"]
        ELSE [prior EXCEPT !.oks = 0, !.fails = fails,
                 !.state = IF fails >= FailThreshold
                           THEN "unreachable" ELSE prior.state]

(* ReduceCapability: an ignored outcome copies the row, and a config_error   *)
(* of the same token yields only to a manual test.                           *)
ReduceCapability(prior, e) ==
    IF \/ e.outcome = "unread"
       \/ /\ prior.state = "config_error" /\ prior.rev = e.rev
          /\ prior.sel = Selector(e.trigger)
          /\ e.trigger # "manual" /\ Verdict(e) # "config_error"
    THEN prior
    ELSE [prior EXCEPT
            !.state = Verdict(e),
            !.real  = IF e.trigger = "real" /\ e.outcome = "ok" THEN e.rev
                      ELSE @]

(* The expectation is checked against the stored configuration, and the row  *)
(* against the order.                                                        *)
Disposition(kind, row, e) ==
    CASE kind \notin carry         -> "not_applicable"
      [] e.rev # rev             -> "config_stale"
      [] row.order >= e.order    -> "superseded"
      [] OTHER                   -> "current"

(* Mutant: the counts of the old address are the start of the new ones.      *)
CommittedReachAny(e) ==
    [ReduceReachability(reach, e) EXCEPT
       !.rev = e.rev, !.sel = Selector(e.trigger), !.order = e.order]

(* reduceReachabilityTx: a row of another network revision is no start.      *)
CommittedReach(e) ==
    LET prior == IF reach.rev = e.rev THEN reach ELSE NoReach
    IN  [ReduceReachability(prior, e) EXCEPT
           !.rev = e.rev, !.sel = Selector(e.trigger), !.order = e.order]

(* Mutant: an error seen under the token of the other selector is not known. *)
CommittedCapByToken(e) ==
    [ReduceCapability(cap, e) EXCEPT
       !.rev = e.rev, !.sel = Selector(e.trigger), !.order = e.order]

(* reduceCapabilityTx: the row is the start whatever it was observed under;  *)
(* a sticky error of this configuration is given the token of the other      *)
(* selector, so that the reducer knows it.                                   *)
CommittedCap(e) ==
    LET prior == IF cap.state = "config_error" /\ cap.rev = e.rev
                 THEN [cap EXCEPT !.sel = Selector(e.trigger)] ELSE cap
    IN  [ReduceCapability(prior, e) EXCEPT
           !.rev = e.rev, !.sel = Selector(e.trigger), !.order = e.order]

-----------------------------------------------------------------------------
(* One execution.                                                            *)

(* The order and the expectation are taken before anything is sent.          *)
Start(x, t) ==
    /\ exec[x].pc = "idle" /\ last < MaxObservations
    /\ t = "manual" => "cap" \in carry       \* a probe like any, for the other row
    /\ last' = last + 1
    /\ exec' = [exec EXCEPT ![x] =
                  [NoExec EXCEPT !.pc = "sent", !.trigger = t, !.rev = pub,
                                 !.order = last + 1]]
    /\ UNCHANGED <<config, rows, memory, clearing, evidence>>

(* Tracker.generation is a counter that is read once and compared once, so   *)
(* the model keeps only whether it is still what the execution read.  A      *)
(* route the tracker does not hold reads 0 whenever it is asked.             *)
Moved == [x \in Executions |->
            [exec[x] EXCEPT !.kept = @ /\ exec[x].pc \in {"idle", "sent"}]]

(* The routing or the probing of a route binds a generation to it.           *)
Bind ==
    /\ "cap" \in carry
    /\ ~bound /\ bound' = TRUE
    /\ exec' = Moved
    /\ UNCHANGED <<rev, carry, pub, admin, last, rows, memory, clearing, evidence>>

(* ResultRecorder.Record notes the generation before it commits.  "unread"   *)
(* is a probe's response whose content coding is not understood.             *)
Finish(x, o) ==
    /\ exec[x].pc = "sent"
    /\ o = "unread" => exec[x].trigger # "real"
    /\ o \in {"config", "unread"} => "cap" \in carry    \* a response like any
    /\ exec' = [exec EXCEPT ![x].pc = "record", ![x].outcome = o]
    /\ UNCHANGED <<config, last, rows, memory, clearing, evidence>>

(* A cancelled probe cannot begin its transaction, a cancelled request       *)
(* carries no expectation, a transaction may fail: nothing is concluded.     *)
Abandon(x) ==
    /\ exec[x].pc \in {"sent", "record"}
    /\ exec' = [exec EXCEPT ![x] = NoExec]
    /\ UNCHANGED <<config, last, rows, memory, clearing, evidence>>

(* CommitProbeObservation.                                                   *)
Commit(x) ==
    LET e == exec[x]
        r == Disposition("reach", reach, e)
        c == Disposition("cap", cap, e)
        newReach == IF r = "current" THEN CommittedReach(e) ELSE reach
        newCap   == IF c = "current" THEN CommittedCap(e) ELSE cap
    IN  /\ e.pc = "record"
        /\ reach' = newReach /\ cap' = newCap
        /\ exec' = [exec EXCEPT ![x] =
                      [NoExec EXCEPT
                         !.pc = "apply", !.kept = e.kept,
                         !.reach = IF r = "current" THEN Entry(newReach) ELSE NoEntry,
                         !.cap   = IF c = "current" THEN Entry(newCap) ELSE NoEntry]]
        /\ evidence' = IF r = "current"
                       THEN evidence \cup {[order |-> e.order,
                                            failed |-> ~Reachable(e)]}
                       ELSE evidence
        /\ UNCHANGED <<config, last, memory, clearing>>

(* The registries take a row of the same token only if it is newer, and one  *)
(* of another token always.                                                  *)
Supersedes(row, old) ==
    ~(old.rev = row.rev /\ old.sel = row.sel /\ old.order >= row.order)

(* ReachabilityTracker.ApplyCommitted: also the row must be of the published *)
(* configuration; a snapshot that is being rebuilt is not waited for.        *)
ApplyReach(x) ==
    /\ exec[x].pc = "apply"
    /\ LET row == exec[x].reach
       IN  \/ /\ row.rev = pub /\ Supersedes(row, mreach)
              /\ mreach' = row
           \/ /\ row.rev # pub \/ ~Supersedes(row, mreach)
                 \/ admin.step = "stored"
              /\ UNCHANGED mreach
    /\ exec' = [exec EXCEPT ![x].pc = "applyCap"]
    /\ UNCHANGED <<config, last, rows, mcap, clearing, evidence>>

(* CapabilityRegistry.applyCommitted, under the generation of Record.        *)
ApplyCap(x) ==
    /\ exec[x].pc = "applyCap"
    /\ LET row == exec[x].cap
       IN  mcap' = IF row.rev # 0 /\ exec[x].kept /\ Supersedes(row, mcap)
                   THEN row ELSE mcap
    /\ exec' = [exec EXCEPT ![x] = NoExec]
    /\ UNCHANGED <<config, last, rows, mreach, clearing, evidence>>
-----------------------------------------------------------------------------
(* What else acts on the rows and the registries.                            *)

(* An edit that changes the token: stored, published, then forgotten by the  *)
(* tracker, the capability registry and the reachability tracker in turn.    *)
EditStore ==
    /\ admin.step = "idle" /\ rev < MaxRev
    /\ rev' = rev + 1 /\ evidence' = {}
    /\ admin' = [kind |-> "edit", step |-> "stored"]
    /\ UNCHANGED <<carry, pub, bound, last, exec, rows, memory, clearing>>

(* Re-enabling deletes a stored config_error in the same transaction; the    *)
(* token does not change.                                                    *)
ReenableStore ==
    /\ "cap" \in carry
    /\ admin.step = "idle"
    /\ cap' = IF cap.state = "config_error" THEN NoCap ELSE cap
    /\ admin' = [kind |-> "enable", step |-> "stored"]
    /\ UNCHANGED <<rev, carry, pub, bound, last, exec, reach, memory, clearing, evidence>>

Publish ==
    /\ admin.step = "stored"
    /\ pub' = rev /\ admin' = [admin EXCEPT !.step = "published"]
    /\ UNCHANGED <<rev, carry, bound, last, exec, rows, memory, clearing,
                   evidence>>

ForgetRoute ==
    /\ admin.step = "published"
    /\ bound' = FALSE /\ admin' = [admin EXCEPT !.step = "forgotten"]
    /\ exec' = IF bound THEN Moved ELSE exec
    /\ UNCHANGED <<rev, carry, pub, last, rows, memory, clearing, evidence>>

InvalidateScope ==
    /\ admin.step = "forgotten"
    /\ mcap' = NoEntry
    /\ admin' = [admin EXCEPT !.step =
                   IF admin.kind = "edit" THEN "cleared" ELSE "idle"]
    /\ UNCHANGED <<rev, carry, pub, bound, last, exec, rows, mreach, clearing, evidence>>

InvalidateReach ==
    /\ admin.step = "cleared"
    /\ mreach' = NoEntry /\ admin' = [admin EXCEPT !.step = "idle"]
    /\ UNCHANGED <<rev, carry, pub, bound, last, exec, rows, mcap, clearing, evidence>>

(* A calibration that ran out of candidates writes config_error under the    *)
(* current token and keeps the order of the row, then clears the registry.   *)
CalibrationFails ==
    /\ "cap" \in carry
    /\ ~clearing /\ clearing' = TRUE
    /\ cap' = [cap EXCEPT !.rev = rev, !.sel = "l2", !.state = "config_error"]
    /\ UNCHANGED <<config, last, exec, reach, memory, evidence>>

InvalidateAfterCalibration ==
    /\ clearing /\ clearing' = FALSE
    /\ mcap' = NoEntry
    /\ UNCHANGED <<config, last, exec, rows, mreach, evidence>>

(* PrepareResume: positive conclusions go, negative ones stay.               *)
DemotePositive ==
    /\ mreach' = IF mreach.state = "reachable" THEN NoEntry ELSE mreach
    /\ mcap' = IF mcap.state = "supported" THEN NoEntry ELSE mcap
    /\ UNCHANGED <<config, last, exec, rows, clearing, evidence>>

(* RestoreConfigErrors, RestoreRealSuccesses, RestoreNegatives: rows of the  *)
(* current token only, and no positive conclusion.                           *)
Restored ==
    IF cap.rev # rev THEN NoEntry
    ELSE IF cap.state = "config_error" THEN Entry(cap)
    ELSE IF cap.state = "supported" /\ cap.real = rev
         THEN [Entry(cap) EXCEPT !.state = "unknown"]
    ELSE NoEntry

Restart ==
    /\ pub' = rev /\ admin' = [kind |-> "none", step |-> "idle"]
    /\ bound' = FALSE
    /\ exec' = [x \in Executions |-> NoExec]
    /\ clearing' = FALSE
    /\ mcap' = Restored
    /\ mreach' = IF reach.rev = rev /\ reach.state = "unreachable"
                 THEN Entry(reach) ELSE NoEntry
    /\ UNCHANGED <<rev, carry, last, rows, evidence>>

ObsNext ==
    \/ \E x \in Executions :
          \/ \E t \in Triggers : Start(x, t)
          \/ \E o \in Outcomes : Finish(x, o)
          \/ Abandon(x) \/ Commit(x) \/ ApplyReach(x) \/ ApplyCap(x)
    \/ Bind \/ EditStore \/ ReenableStore \/ Publish \/ ForgetRoute
    \/ InvalidateScope \/ InvalidateReach
    \/ CalibrationFails \/ InvalidateAfterCalibration
    \/ DemotePositive \/ Restart

ObsSpec == ObsInit /\ [][ObsNext]_obsVars
-----------------------------------------------------------------------------
(* An upstream is held unreachable only while the newest observations of its *)
(* current address, by order and not by arrival, are failures, and as many   *)
(* as the threshold asks; in the row and in what the router reads.           *)
NewestFailed(n) ==
    LET seen == {v \in evidence : v.order <= n}
    IN  \E F \in SUBSET seen :
           /\ Cardinality(F) = FailThreshold
           /\ \A f \in F : f.failed
           /\ \A v \in seen \ F : \A f \in F : v.order < f.order
UnreachableIsEarned ==
    \A row \in {Entry(reach), mreach} :
       row.rev = rev /\ row.state = "unreachable" => NewestFailed(row.order)

(* Nobody but an operator, a changed configuration or a re-enabled route     *)
(* takes a config_error out of the row: not a success of the other kind of   *)
(* traffic, whose token differs.                                             *)
StickyHeld ==
    [][cap.state = "config_error" /\ cap'.state # "config_error"
         => \/ cap.rev # rev
            \/ admin'.kind = "enable" /\ admin' # admin
            \/ \E x \in Executions : exec[x].pc = "record"
                  /\ exec'[x].pc = "apply" /\ exec[x].trigger = "manual"]_obsVars

(* Once an edit is done the router reads no reachability of the old address, *)
(* however late an observation of it is applied.                             *)
ReachSettled ==
    admin.step = "idle" /\ mreach.rev # 0 => mreach.rev = rev

(* Both: what the router believes of an upstream is earned, and by the       *)
(* address it has now.                                                       *)
ReachIsEarned == UnreachableIsEarned /\ ReachSettled

(* An ignored outcome leaves the conclusion of the row where it was: it does *)
(* not give the row of one configuration the token of another.               *)
IgnoredLeavesRow ==
    [][\A x \in Executions :
          exec[x].pc = "record" /\ exec'[x].pc = "apply"
          /\ exec[x].outcome = "unread" /\ cap.rev # cap'.rev
          => cap'.state = "unknown"]_obsVars

(* Applying a committed row does not take the registry back to an older      *)
(* observation of the same configuration.                                    *)
NewestKept ==
    [][(\E x \in Executions : exec[x].pc = "applyCap" /\ exec'[x].pc = "idle")
       /\ mcap.rev # 0 /\ mcap'.rev = mcap.rev => mcap'.order >= mcap.order]_obsVars

(* Once an edit is done no conclusion of the old configuration is left in    *)
(* the registry.                                                             *)
CapSettled ==
    admin.step = "idle" /\ mcap.rev # 0 => mcap.rev = rev
=============================================================================
