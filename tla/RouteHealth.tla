------------------------------- MODULE RouteHealth -------------------------------
(***************************************************************************)
(* What the gateway believes of one route, and who may change it.          *)
(*                                                                         *)
(* The row of the route in health.Tracker (internal/health) is read and    *)
(* written by proxied requests (internal/router, internal/proxy), by the   *)
(* observation each of them leaves to the single persistence worker        *)
(* (internal/probe/traffic.go), by the scheduled L2 probe of the route and *)
(* L1 probe of its station (internal/probe/scheduler.go), and is forgotten *)
(* by an edit of the configuration (internal/api, internal/livecfg), all   *)
(* of them on goroutines that share no lock.  What keeps the row right is  *)
(* that every attempt carries the configuration it read, the generation of *)
(* the row it was bound to and an observation order, and that these are    *)
(* compared when its conclusion comes in.                                  *)
(*                                                                         *)
(* Rows of different routes share nothing, so there is one route here.     *)
(***************************************************************************)
EXTENDS Integers, FiniteSets

CONSTANTS
    Requests,       \* proxied requests
    Probes,         \* scheduled L2 probes of the route
    Stations,       \* scheduled L1 probes of its upstream
    Editors,        \* administrative edits of what the route stands for
    NoOne,
    Limit,          \* max_concurrency, 0 when there is none
    FailThreshold,
    OKThreshold,
    Moves,          \* TRUE: an edit points the route at another upstream, and
                    \* the evidence on the old upstream is still current;
                    \* FALSE: it changes the upstream the route points at
    MaxEdits, MaxOrders, MaxPolicy   \* bounds of the run

ASSUME RouteAssumption ==
    /\ NoOne \notin Requests
    /\ Requests \cap Probes = {} /\ Requests \cap Stations = {}
    /\ Probes \cap Stations = {}
    /\ IsFiniteSet(Requests)
    /\ Limit \in Nat
    /\ FailThreshold \in Nat \ {0} /\ OKThreshold \in Nat \ {0}
    /\ Moves \in BOOLEAN
    /\ MaxEdits \in Nat /\ MaxOrders \in Nat /\ MaxPolicy \in Nat

Actors == Requests \cup Probes \cup Stations

VARIABLES
    db,          \* the configuration the database holds, numbered by edits
    pub,         \* the configuration livecfg has published
    ready,       \* probeReady: it may be used to judge evidence
    policy,      \* the health settings in force, numbered by changes
    edit,        \* where each edit is
    capOrder,    \* last_observation_order of the route's capability row
    reachOrder,  \* last_observation_order of the upstream's reachability row
    seq,         \* the last observation order given out
    gen,         \* generation of the route's row, 0 when there is none
    gens,        \* nextGen
    inflight,    \* inFlight of the row
    health,      \* its conclusion, counters and cooldown
    last,        \* history: the report the row has applied last
    gate,        \* RecoveryGate.held
    handle,      \* what each request holds of it: none, live, or lost
    cfg, bound, order, armed, outcome,   \* of the attempt each actor makes
    pc,          \* where each actor is
    note         \* where the observation it left is

config == <<db, pub, ready, policy, edit>>
stored == <<capOrder, reachOrder, seq>>
row == <<gen, gens, inflight, health, last>>
gating == <<gate, handle>>
attempt == <<cfg, bound, order, armed, outcome>>
flow == <<pc, note>>
vars == <<config, stored, row, gating, attempt, flow>>

States == {"unknown", "alive", "recovering", "dead"}
Healths == [state: States, ok: 0..OKThreshold, fail: 0..FailThreshold,
            cooling: BOOLEAN, policy: Nat]
Fresh == [state |-> "unknown", ok |-> 0, fail |-> 0, cooling |-> FALSE,
          policy |-> 0]
Nothing == [cfg |-> 0, order |-> 0]

Init ==
    /\ db = 1 /\ pub = 1 /\ ready = TRUE /\ policy = 1
    /\ edit = [e \in Editors |-> "idle"]
    /\ capOrder = 0 /\ reachOrder = 0 /\ seq = 0
    /\ gen = 0 /\ gens = 0 /\ inflight = 0
    /\ health = Fresh /\ last = Nothing
    /\ gate = NoOne
    /\ handle = [r \in Requests |-> "none"]
    /\ cfg = [a \in Actors |-> 1]
    /\ bound = [a \in Actors |-> 0]
    /\ order = [a \in Actors |-> 0]
    /\ armed = [a \in Actors |-> FALSE]
    /\ outcome = [a \in Actors |-> "ignored"]
    /\ pc = [a \in Actors |-> "idle"]
    /\ note = [a \in Actors |-> "none"]

Goto(a, s) == pc' = [pc EXCEPT ![a] = s]

-----------------------------------------------------------------------------
(* The row.                                                                *)

\* get(): a row is made when it is asked for, under a generation never used.
Got == IF gen = 0 THEN gens + 1 ELSE gen
Get == gen' = Got /\ gens' = IF gen = 0 THEN gens + 1 ELSE gens

\* TryAcquire: one critical section looks at the limit and takes a slot.
TryAcquire(r) ==
    /\ Limit = 0 \/ inflight < Limit
    /\ Get
    /\ inflight' = inflight + 1
    /\ bound' = [bound EXCEPT ![r] = Got]
    /\ UNCHANGED <<health, last>>

Refused ==
    /\ Limit # 0 /\ inflight >= Limit
    /\ Get
    /\ UNCHANGED <<inflight, health, last, bound>>

\* Its release handle: a row made since does not owe this slot.
FreeSlot(r) ==
    /\ pc[r] = "freeSlot"
    /\ inflight' = IF gen = bound[r] /\ inflight > 0 THEN inflight - 1 ELSE inflight
    /\ Goto(r, IF handle[r] = "none" THEN "idle" ELSE "freeGate")
    /\ UNCHANGED <<config, stored, gen, gens, health, last, gating, attempt, note>>

\* A report finds thresholds changed since the last one: it starts over.
Rebased(h) ==
    IF h.policy \notin {0, policy} THEN Fresh ELSE h

AtMost(n, bnd) == IF n > bnd THEN bnd ELSE n

\* An attempt let through to try a dead route, as every L2 probe is.
Trial(a) == armed[a] \/ a \in Probes

\* Mutant: any success revives a dead route.
AfterAnyOK(h, a) ==
    [state |-> IF a \in Requests THEN "alive" ELSE "recovering",
     ok |-> AtMost(h.ok + 1, OKThreshold), fail |-> 0, cooling |-> FALSE,
     policy |-> policy]

\* applyOK: a dead route leaves dead only for such an attempt; a real success
\* makes it alive at once, the success of a probe only after OKThreshold.
AfterOK(h, a) ==
    LET ok == AtMost(h.ok + 1, OKThreshold)
        enough == a \in Requests \/ (h.state # "dead" /\ ok >= OKThreshold)
    IN [state |-> IF h.state = "dead" /\ ~Trial(a) THEN "dead"
                  ELSE IF enough THEN "alive"
                  ELSE IF h.state = "dead" THEN "recovering" ELSE h.state,
        ok |-> ok, fail |-> 0, cooling |-> FALSE, policy |-> policy]

AfterFailure(h, a) ==
    LET fail == AtMost(h.fail + 1, FailThreshold)
    IN [state |-> IF outcome[a] = "fatal" \/ fail >= FailThreshold
                  THEN "dead" ELSE h.state,
        ok |-> 0, fail |-> fail, cooling |-> h.cooling, policy |-> policy]

AfterLimit(h) ==
    [state |-> h.state, ok |-> h.ok, fail |-> 0, cooling |-> TRUE,
     policy |-> policy]

\* Report, for the outcome of actor a.
Concluded(a) ==
    LET h == Rebased(health)
    IN IF outcome[a] = "ok" THEN AfterOK(h, a)
       ELSE IF outcome[a] = "limited" THEN AfterLimit(h)
       ELSE AfterFailure(h, a)

-----------------------------------------------------------------------------
(* A proxied request: selection, gates, send, release.                     *)

\* The preamble reads the published configuration once, for all attempts.  An
\* actor starts again when its last observation is through (a bound).
Read(r) ==
    /\ pc[r] = "idle" /\ note[r] = "none"
    /\ cfg' = [cfg EXCEPT ![r] = pub]
    /\ armed' = [armed EXCEPT ![r] = FALSE]
    /\ Goto(r, "select")
    /\ UNCHANGED <<config, stored, row, gating, bound, order, outcome, note>>

\* viableBuckets: a route that is neither dead nor cooling down is a candidate.
\* DeadRoutesFor: a dead one may be tried when there is no candidate left.
Select(r) ==
    /\ pc[r] = "select"
    /\ Goto(r, IF health.cooling THEN "idle"
               ELSE IF health.state = "dead" THEN "halfGate" ELSE "slot")
    /\ UNCHANGED <<config, stored, row, gating, attempt, note>>

Take(r) ==
    /\ pc[r] = "slot"
    /\ \/ TryAcquire(r) /\ Goto(r, "wrap")
       \/ Refused /\ Goto(r, "idle")
    /\ UNCHANGED <<config, stored, gating, cfg, order, armed, outcome, note>>

\* wrapRecoveryIfNeeded: a route that is recovering by now needs the gate too.
Wrap(r) ==
    /\ pc[r] = "wrap"
    /\ Goto(r, IF health.state = "recovering" THEN "gate" ELSE "send")
    /\ UNCHANGED <<config, stored, row, gating, attempt, note>>

\* RecoveryGate.TryAcquire.
TakeGate(r) ==
    /\ gate = NoOne
    /\ gate' = r
    /\ handle' = [handle EXCEPT ![r] = "live"]

WrapGate(r) ==
    /\ pc[r] = "gate"
    /\ \/ TakeGate(r) /\ Goto(r, "send")
       \/ gate # NoOne /\ UNCHANGED gating /\ Goto(r, "freeSlot")
    /\ UNCHANGED <<config, stored, row, attempt, note>>

\* halfOpen takes the gate first and the slot second.
HalfGate(r) ==
    /\ pc[r] = "halfGate"
    /\ \/ TakeGate(r) /\ Goto(r, "halfSlot")
       \/ gate # NoOne /\ UNCHANGED gating /\ Goto(r, "idle")
    /\ UNCHANGED <<config, stored, row, attempt, note>>

HalfSlot(r) ==
    /\ pc[r] = "halfSlot"
    /\ \/ /\ TryAcquire(r)
          /\ armed' = [armed EXCEPT ![r] = TRUE]
          /\ Goto(r, "send")
       \/ Refused /\ Goto(r, "freeGate") /\ UNCHANGED armed
    /\ UNCHANGED <<config, stored, gating, cfg, order, outcome, note>>

\* Not sent after all: a local failure, or halfOpenStillEnabled says no.
GiveUp(r) ==
    /\ pc[r] = "send"
    /\ Goto(r, "freeSlot")
    /\ UNCHANGED <<config, stored, row, gating, attempt, note>>

\* PrepareAttempt gives the attempt its order; without one (0) it is sent and
\* not observed.
Prepare(r) ==
    /\ pc[r] = "send"
    /\ \/ seq < MaxOrders /\ seq' = seq + 1
       \/ UNCHANGED seq
    /\ order' = [order EXCEPT ![r] = IF seq' = seq THEN 0 ELSE seq']
    /\ Goto(r, "sent")
    /\ UNCHANGED <<config, capOrder, reachOrder, row, gating, cfg, bound, armed,
                   outcome, note>>

\* The attempt ends and its observation is queued, unless the queue is full;
\* only then are the slot and the gate given back.
Finish(r) ==
    /\ pc[r] = "sent"
    /\ \E o \in {"ok", "failed", "limited", "unreached", "ignored"} :
          outcome' = [outcome EXCEPT ![r] = o]
    /\ \/ order[r] # 0 /\ note' = [note EXCEPT ![r] = "queued"]
       \/ UNCHANGED note
    /\ Goto(r, "freeSlot")
    /\ UNCHANGED <<config, stored, row, gating, cfg, bound, order, armed>>

\* Mutant: the release opens the gate whoever holds it by now.
FreeGateAnyone(r) ==
    /\ pc[r] = "freeGate"
    /\ gate' = NoOne
    /\ handle' = [handle EXCEPT ![r] = "none"]
    /\ Goto(r, "idle")
    /\ UNCHANGED <<config, stored, row, attempt, note>>

\* The gate's release handle does nothing once the gate has been forgotten.
FreeGate(r) ==
    /\ pc[r] = "freeGate"
    /\ gate' = IF gate = r /\ handle[r] = "live" THEN NoOne ELSE gate
    /\ handle' = [handle EXCEPT ![r] = "none"]
    /\ Goto(r, "idle")
    /\ UNCHANGED <<config, stored, row, attempt, note>>

Request(r) ==
    \/ Read(r) \/ Select(r) \/ Take(r) \/ Wrap(r) \/ WrapGate(r)
    \/ HalfGate(r) \/ HalfSlot(r) \/ GiveUp(r) \/ Prepare(r) \/ Finish(r)
    \/ FreeSlot(r) \/ FreeGate(r)

-----------------------------------------------------------------------------
(* The scheduled probes.                                                   *)

\* A tick reads the configuration and finds a probe due.
Tick(p) ==
    /\ pc[p] = "idle" /\ note[p] = "none"
    /\ cfg' = [cfg EXCEPT ![p] = pub]
    /\ Goto(p, "claim")
    /\ UNCHANGED <<config, stored, row, gating, bound, order, armed, outcome, note>>

\* ClaimL2 keeps off a route that is cooling down; an L1 probe takes the
\* generations of all routes of its station instead.
Claim(p) ==
    /\ pc[p] = "claim"
    /\ Get
    /\ \/ /\ p \in Stations \/ ~health.cooling
          /\ bound' = [bound EXCEPT ![p] = Got]
          /\ Goto(p, "attach")
       \/ /\ p \in Probes /\ health.cooling
          /\ UNCHANGED bound
          /\ Goto(p, "idle")
    /\ UNCHANGED <<config, stored, inflight, health, last, gating, cfg, order,
                   armed, outcome, note>>

\* Evidence counts if what it was gathered with is what is published: for a
\* capability the whole route, for reachability the upstream alone.
Fits(c, a, onRoute) == c = cfg[a] \/ (~onRoute /\ Moves)

\* attachExpectations: nothing is sent for a configuration that has gone.
Attach(p) ==
    /\ pc[p] = "attach"
    /\ IF ready /\ Fits(pub, p, p \in Probes) /\ seq < MaxOrders
         THEN /\ seq' = seq + 1
              /\ order' = [order EXCEPT ![p] = seq']
              /\ Goto(p, "sent")
         ELSE UNCHANGED <<seq, order>> /\ Goto(p, "idle")
    /\ UNCHANGED <<config, capOrder, reachOrder, row, gating, cfg, bound, armed,
                   outcome, note>>

\* A station's L1 tells of its routes only that it could not be reached.
Conclude(p) ==
    /\ pc[p] = "sent"
    /\ \E o \in IF p \in Stations THEN {"unreached", "ignored"}
                ELSE {"ok", "failed", "limited", "fatal", "ignored"} :
          outcome' = [outcome EXCEPT ![p] = o]
    /\ note' = [note EXCEPT ![p] = "queued"]
    /\ Goto(p, "idle")
    /\ UNCHANGED <<config, stored, row, gating, cfg, bound, order, armed>>

Probe(p) == Tick(p) \/ Claim(p) \/ Attach(p) \/ Conclude(p)

-----------------------------------------------------------------------------
(* What becomes of an observation.                                         *)

\* A real answer and an L2 probe are evidence on the route, the failure to
\* connect of a request and an L1 probe are evidence on the upstream.
OnRoute(a) ==
    a \in Probes \/ (a \in Requests /\ outcome[a] \notin {"unreached", "ignored"})

\* The persistence worker takes one observation of a request at a time.
WorkerFree(a) ==
    a \in Requests =>
        \A r \in Requests : note[r] \notin {"recorded", "checked"}

\* Mutant: the transaction does not compare the configuration.
RecordAnyConfig(a) ==
    /\ note[a] = "queued" /\ WorkerFree(a)
    /\ LET reached == order[a] > reachOrder
           capable == OnRoute(a) /\ order[a] > capOrder
       IN /\ reachOrder' = IF reached THEN order[a] ELSE reachOrder
          /\ capOrder' = IF capable THEN order[a] ELSE capOrder
          /\ note' = [note EXCEPT ![a] =
                         IF outcome[a] # "ignored" /\ (IF OnRoute(a) THEN capable ELSE reached)
                         THEN "recorded" ELSE "none"]
    /\ UNCHANGED <<config, seq, row, gating, attempt, pc>>

\* CommitProbeObservation: one transaction compares the configuration with the
\* database and the order with the two rows, and updates what is current.
Record(a) ==
    /\ note[a] = "queued" /\ WorkerFree(a)
    /\ LET reached == Fits(db, a, FALSE) /\ order[a] > reachOrder
           capable == OnRoute(a) /\ Fits(db, a, TRUE) /\ order[a] > capOrder
       IN /\ reachOrder' = IF reached THEN order[a] ELSE reachOrder
          /\ capOrder' = IF capable THEN order[a] ELSE capOrder
          /\ note' = [note EXCEPT ![a] =
                         IF outcome[a] # "ignored" /\ (IF OnRoute(a) THEN capable ELSE reached)
                         THEN "recorded" ELSE "none"]
    /\ UNCHANGED <<config, seq, row, gating, attempt, pc>>

\* capabilityHealthCurrent, reachabilityHealthCurrent: the commit may be old
\* by now, so the published configuration is compared as well.
CheckConfig(a) ==
    /\ note[a] = "recorded"
    /\ note' = [note EXCEPT ![a] =
                   IF ready /\ Fits(pub, a, OnRoute(a)) THEN "checked" ELSE "none"]
    /\ UNCHANGED <<config, stored, row, gating, attempt, pc>>

\* Lost on the way: the queue, the database, a capability that is not
\* supported in spite of the success.
Drop(a) ==
    /\ note[a] \in {"queued", "recorded"}
    /\ note' = [note EXCEPT ![a] = "none"]
    /\ UNCHANGED <<config, stored, row, gating, attempt, pc>>

\* Tracker.Report: only the row the attempt was bound to takes the conclusion.
Report(a) ==
    /\ note[a] = "checked"
    /\ IF gen = bound[a]
         THEN /\ health' = Concluded(a)
              /\ last' = [cfg |-> cfg[a], order |-> order[a]]
         ELSE UNCHANGED <<health, last>>
    /\ note' = [note EXCEPT ![a] = "none"]
    /\ UNCHANGED <<config, stored, gen, gens, inflight, gating, attempt, pc>>

Observation(a) == Record(a) \/ CheckConfig(a) \/ Drop(a) \/ Report(a)

-----------------------------------------------------------------------------
(* An edit: the row, what is kept in memory, then what is published.       *)

Commit(e) ==
    /\ edit[e] = "idle" /\ db <= MaxEdits
    /\ db' = db + 1
    /\ edit' = [edit EXCEPT ![e] = "forget"]
    /\ UNCHANGED <<pub, ready, policy, stored, row, gating, attempt, flow>>

\* Tracker.Forget.
ForgetRow(e) ==
    /\ edit[e] = "forget"
    /\ gen' = 0 /\ inflight' = 0 /\ health' = Fresh /\ last' = Nothing
    /\ edit' = [edit EXCEPT ![e] = "gate"]
    /\ UNCHANGED <<db, pub, ready, policy, stored, gens, gating, attempt, flow>>

\* RecoveryGate.Forget; its holder keeps a handle that is worth nothing.
ForgetGate(e) ==
    /\ edit[e] = "gate"
    /\ gate' = NoOne
    /\ handle' = [r \in Requests |-> IF handle[r] = "live" THEN "lost" ELSE handle[r]]
    /\ edit' = [edit EXCEPT ![e] = "invalidate"]
    /\ UNCHANGED <<db, pub, ready, policy, stored, row, attempt, flow>>

Invalidate(e) ==
    /\ edit[e] = "invalidate"
    /\ ready' = FALSE
    /\ edit' = [edit EXCEPT ![e] = "refresh"]
    /\ UNCHANGED <<db, pub, policy, stored, row, gating, attempt, flow>>

\* A refresh that fails leaves it to a later reload.
Refresh(e) ==
    /\ edit[e] = "refresh"
    /\ \/ pub' = db /\ ready' = TRUE
       \/ ready' = FALSE /\ UNCHANGED pub
    /\ edit' = [edit EXCEPT ![e] = "idle"]
    /\ UNCHANGED <<db, policy, stored, row, gating, attempt, flow>>

Edit(e) ==
    Commit(e) \/ ForgetRow(e) \/ ForgetGate(e) \/ Invalidate(e) \/ Refresh(e)

-----------------------------------------------------------------------------
(* What else happens to the row.                                           *)

\* livecfg reloads when its copy has expired.
Reload ==
    /\ pub' = db /\ ready' = TRUE
    /\ UNCHANGED <<db, policy, edit, stored, row, gating, attempt, flow>>

\* TriggerL1, TriggerL2 and the completion of a probe make the row they miss.
Touch ==
    /\ gen = 0 /\ Get
    /\ UNCHANGED <<config, stored, inflight, health, last, gating, attempt, flow>>

\* The cooldown is over.
Thaw ==
    /\ health.cooling
    /\ health' = [state |-> health.state, ok |-> health.ok, fail |-> health.fail,
                  cooling |-> FALSE, policy |-> health.policy]
    /\ UNCHANGED <<config, stored, gen, gens, inflight, last, gating, attempt, flow>>

\* DemotePositiveConclusions, before the service admits again.
Demote ==
    /\ health.state = "alive"
    /\ health' = [state |-> "unknown", ok |-> 0, fail |-> health.fail,
                  cooling |-> health.cooling, policy |-> health.policy]
    /\ UNCHANGED <<config, stored, gen, gens, inflight, last, gating, attempt, flow>>

ChangePolicy ==
    /\ policy <= MaxPolicy
    /\ policy' = policy + 1
    /\ UNCHANGED <<db, pub, ready, edit, stored, row, gating, attempt, flow>>

Next ==
    \/ \E r \in Requests : Request(r)
    \/ \E p \in Probes \cup Stations : Probe(p)
    \/ \E a \in Actors : Observation(a)
    \/ \E e \in Editors : Edit(e)
    \/ Reload \/ Touch \/ Thaw \/ Demote \/ ChangePolicy

Spec == Init /\ [][Next]_vars

-----------------------------------------------------------------------------
(* Properties.                                                             *)

RequestSteps == {"idle", "select", "slot", "wrap", "gate", "halfGate",
                 "halfSlot", "send", "sent", "freeSlot", "freeGate"}
ProbeSteps == {"idle", "claim", "attach", "sent"}
Outcomes == {"ok", "failed", "limited", "unreached", "fatal", "ignored"}

TypeOK ==
    /\ db \in Nat \ {0} /\ pub \in Nat \ {0} /\ ready \in BOOLEAN
    /\ policy \in Nat \ {0}
    /\ edit \in [Editors -> {"idle", "forget", "gate", "invalidate", "refresh"}]
    /\ capOrder \in Nat /\ reachOrder \in Nat /\ seq \in Nat
    /\ gen \in Nat /\ gens \in Nat /\ inflight \in Nat
    /\ health \in Healths
    /\ last \in [cfg: Nat, order: Nat]
    /\ gate \in Requests \cup {NoOne}
    /\ handle \in [Requests -> {"none", "live", "lost"}]
    /\ cfg \in [Actors -> Nat \ {0}] /\ bound \in [Actors -> Nat]
    /\ order \in [Actors -> Nat] /\ armed \in [Actors -> BOOLEAN]
    /\ outcome \in [Actors -> Outcomes]
    /\ pc \in [Actors -> RequestSteps \cup ProbeSteps]
    /\ note \in [Actors -> {"none", "queued", "recorded", "checked"}]

\* The requests that hold a slot, each of the row it was bound to.
Holding == {r \in Requests : pc[r] \in {"wrap", "gate", "send", "sent", "freeSlot"}}
Owed == {r \in Holding : bound[r] = gen}

(* The slots a row counts are those its requests hold: across any sequence *)
(* of acquires, edits and late releases none leaks, which would shut the   *)
(* route for ever, and none is given back twice, which would let more than *)
(* Limit requests in.                                                      *)
SlotsMatch ==
    /\ gen # 0 => inflight = Cardinality(Owed)
    /\ Limit # 0 => inflight <= Limit

(* A request whose handle of the recovery gate has not been forgotten has  *)
(* the gate, and nobody has it otherwise: no release, however late, drops  *)
(* the hold of another request, and none leaves the gate shut.             *)
GateKept == \A r \in Requests : gate = r <=> handle[r] = "live"

(* The slots and the gate of the row belong to the requests that hold them.*)
AdmissionKept == SlotsMatch /\ GateKept

(* A late result does not cover a new configuration: outside the moment    *)
(* between the commit of an edit and the forgetting of the row, what the   *)
(* row says was gathered with the configuration the database holds.        *)
Forgetting == \E e \in Editors : edit[e] = "forget"
EvidenceIsCurrent == last.cfg # 0 /\ ~Forgetting => last.cfg = db

(* A dead route stays dead until the edit that forgets it, an attempt that *)
(* was let through to try it, or the first report under new thresholds.    *)
Revival ==
    /\ health.state = "dead" /\ health'.state # "dead" /\ gen' = gen
    /\ health.policy \in {0, policy}
    => \E a \in Actors : note[a] = "checked" /\ Trial(a) /\ outcome[a] = "ok"
DeadNeedsArmed == [][Revival]_vars

(* A late result does not cover a newer observation either: within one row *)
(* reports are applied in the order of their observations.                 *)
NewestWins == [][gen' = gen => last'.order >= last.order]_vars

(* At most one half-open attempt is under way on the row.                  *)
HalfOpen == {r \in Owed : armed[r] /\ pc[r] \in {"send", "sent"}}
HalfOpenAlone == \A q, r \in HalfOpen : q = r
=============================================================================
