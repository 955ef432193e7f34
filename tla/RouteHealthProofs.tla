---------------------------- MODULE RouteHealthProofs ----------------------------
(***************************************************************************)
(* Proofs about RouteHealth, for any number of requests, probes, stations  *)
(* and edits, any limit and any thresholds.                                *)
(*                                                                         *)
(* Everything rests on one fact about generations: a row that is made has  *)
(* a generation above every bound one (Rows), so that whatever was bound   *)
(* before an edit can no longer match the row after it.                    *)
(***************************************************************************)
EXTENDS RouteHealth, FiniteSetTheorems, TLAPS

(***************************************************************************)
(* The inductive invariant.                                                *)
(***************************************************************************)

\* An actor whose observation is still on its way starts no other attempt.
Bound ==
    /\ gen \in 0..gens
    /\ \A a \in Actors : bound[a] \in 0..gens
    /\ \A r \in Holding : bound[r] # 0
    /\ \A p \in Probes \cup Stations : pc[p] \in {"attach", "sent"} => bound[p] # 0
    /\ \A a \in Actors : note[a] # "none" =>
          bound[a] # 0 /\ pc[a] \in {"idle", "freeSlot", "freeGate"}
    /\ gen = 0 => health = Fresh

Slots ==
    /\ inflight = Cardinality(Owed)
    /\ Limit # 0 => inflight <= Limit

(***************************************************************************)
(* Operators of the row.                                                   *)
(***************************************************************************)

LEMMA AtMostBounded ==
    ASSUME NEW n \in Nat, NEW bnd \in Nat
    PROVE  AtMost(n, bnd) \in 0..bnd
BY DEF AtMost

\* A conclusion is a conclusion, whatever it is drawn from.
LEMMA ConcludedInHealths ==
    ASSUME TypeOK, NEW a \in Actors
    PROVE  Concluded(a) \in Healths
<1> DEFINE h == Rebased(health)
<1>1. h \in Healths
    BY RouteAssumption DEF TypeOK, Rebased, Fresh, Healths, States
<1>2. /\ h.ok + 1 \in Nat /\ h.fail + 1 \in Nat
      /\ OKThreshold \in Nat /\ FailThreshold \in Nat /\ policy \in Nat
    BY <1>1, RouteAssumption DEF Healths, TypeOK
<1> HIDE DEF h
<1>3. /\ AtMost(h.ok + 1, OKThreshold) \in 0..OKThreshold
      /\ AtMost(h.fail + 1, FailThreshold) \in 0..FailThreshold
    BY <1>2, AtMostBounded
<1>4. AfterLimit(h) \in Healths
    BY <1>1, <1>2 DEF AfterLimit, Healths
<1>5. AfterFailure(h, a) \in Healths
    <2> DEFINE f == AtMost(h.fail + 1, FailThreshold)
    <2>1. f \in 0..FailThreshold
        BY <1>3
    <2> HIDE DEF f
    <2>2. (IF outcome[a] = "fatal" \/ f >= FailThreshold THEN "dead" ELSE h.state)
             \in States
        BY <1>1 DEF Healths, States
    <2>3. 0 \in 0..OKThreshold /\ h.cooling \in BOOLEAN
        BY <1>1, <1>2 DEF Healths
    <2> QED BY <1>2, <2>1, <2>2, <2>3 DEF AfterFailure, Healths, f
<1>6. AfterOK(h, a) \in Healths
    <2> DEFINE k == AtMost(h.ok + 1, OKThreshold)
               s == IF h.state = "dead" /\ ~Trial(a) THEN "dead"
                    ELSE IF a \in Requests \/ (h.state # "dead" /\ k >= OKThreshold)
                         THEN "alive"
                    ELSE IF h.state = "dead" THEN "recovering" ELSE h.state
    <2>1. k \in 0..OKThreshold
        BY <1>3
    <2>2. s \in States
        BY <1>1 DEF Healths, States
    <2>3. AfterOK(h, a) = [state |-> s, ok |-> k, fail |-> 0, cooling |-> FALSE,
                           policy |-> policy]
        BY DEF AfterOK
    <2> HIDE DEF k, s
    <2>4. 0 \in 0..FailThreshold
        BY <1>2
    <2> QED BY <1>2, <2>1, <2>2, <2>3, <2>4 DEF Healths
<1> QED BY <1>4, <1>5, <1>6 DEF Concluded, h

(***************************************************************************)
(* Every variable keeps its type.                                          *)
(***************************************************************************)

LEMMA InitType == Init => TypeOK
BY RouteAssumption
   DEF Init, TypeOK, Fresh, Nothing, Healths, States, RequestSteps, ProbeSteps, Outcomes

LEMMA RequestType ==
    ASSUME TypeOK, NEW r \in Requests, Request(r)
    PROVE  TypeOK'
<1> r \in Actors
    BY DEF Actors
<1> USE DEF TypeOK, Goto, RequestSteps, config, stored, row, gating, attempt, flow
<1>1. CASE Read(r)
    BY <1>1 DEF Read
<1>2. CASE Select(r)
    BY <1>2 DEF Select
<1>3. CASE Take(r)
    BY <1>3 DEF Take, TryAcquire, Refused, Get, Got
<1>4. CASE Wrap(r)
    BY <1>4 DEF Wrap
<1>5. CASE WrapGate(r)
    BY <1>5 DEF WrapGate, TakeGate
<1>6. CASE HalfGate(r)
    BY <1>6 DEF HalfGate, TakeGate
<1>7. CASE HalfSlot(r)
    <2>1. UNCHANGED <<config, stored, gating, cfg, order, outcome, note>>
        BY <1>7 DEF HalfSlot
    <2>2. CASE TryAcquire(r) /\ armed' = [armed EXCEPT ![r] = TRUE] /\ Goto(r, "send")
        BY <2>1, <2>2 DEF TryAcquire, Get, Got
    <2>3. CASE Refused /\ Goto(r, "freeGate") /\ UNCHANGED armed
        BY <2>1, <2>3 DEF Refused, Get, Got
    <2> QED BY <1>7, <2>2, <2>3 DEF HalfSlot
<1>8. CASE GiveUp(r)
    BY <1>8 DEF GiveUp
<1>9. CASE Prepare(r)
    BY <1>9 DEF Prepare
<1>10. CASE Finish(r)
    BY <1>10 DEF Finish, Outcomes
<1>11. CASE FreeSlot(r)
    BY <1>11 DEF FreeSlot
<1>12. CASE FreeGate(r)
    BY <1>12 DEF FreeGate
<1> QED BY <1>1, <1>2, <1>3, <1>4, <1>5, <1>6, <1>7, <1>8, <1>9, <1>10, <1>11, <1>12 DEF Request

LEMMA ProbeType ==
    ASSUME TypeOK, NEW p \in Probes \cup Stations, Probe(p)
    PROVE  TypeOK'
<1> p \in Actors
    BY DEF Actors
<1> USE DEF TypeOK, Goto, ProbeSteps, config, stored, row, gating, attempt, flow
<1>1. CASE Tick(p)
    BY <1>1 DEF Tick
<1>2. CASE Claim(p)
    BY <1>2 DEF Claim, Get, Got
<1>3. CASE Attach(p)
    BY <1>3 DEF Attach
<1>4. CASE Conclude(p)
    BY <1>4 DEF Conclude, Outcomes
<1> QED BY <1>1, <1>2, <1>3, <1>4 DEF Probe

LEMMA ObservationType ==
    ASSUME TypeOK, NEW a \in Actors, Observation(a)
    PROVE  TypeOK'
<1> USE DEF TypeOK, config, stored, row, gating, attempt, flow
<1>1. CASE Record(a)
    BY <1>1 DEF Record
<1>2. CASE CheckConfig(a)
    BY <1>2 DEF CheckConfig
<1>3. CASE Drop(a)
    BY <1>3 DEF Drop
<1>4. CASE Report(a)
    <2>1. Concluded(a) \in Healths
        BY ConcludedInHealths
    <2>2. [cfg |-> cfg[a], order |-> order[a]] \in [cfg: Nat, order: Nat]
        OBVIOUS
    <2> QED BY <1>4, <2>1, <2>2 DEF Report
<1> QED BY <1>1, <1>2, <1>3, <1>4 DEF Observation

LEMMA EditType ==
    ASSUME TypeOK, NEW e \in Editors, Edit(e)
    PROVE  TypeOK'
<1> USE DEF TypeOK, config, stored, row, gating, attempt, flow
<1>1. CASE Commit(e)
    BY <1>1 DEF Commit
<1>2. CASE ForgetRow(e)
    <2>1. Fresh \in Healths /\ Nothing \in [cfg: Nat, order: Nat]
        BY RouteAssumption DEF Fresh, Nothing, Healths, States
    <2> QED BY <1>2, <2>1 DEF ForgetRow
<1>3. CASE ForgetGate(e)
    BY <1>3 DEF ForgetGate
<1>4. CASE Invalidate(e)
    BY <1>4 DEF Invalidate
<1>5. CASE Refresh(e)
    BY <1>5 DEF Refresh
<1> QED BY <1>1, <1>2, <1>3, <1>4, <1>5 DEF Edit

LEMMA RowType ==
    ASSUME TypeOK, Reload \/ Touch \/ Thaw \/ Demote \/ ChangePolicy
    PROVE  TypeOK'
<1> USE DEF TypeOK, config, stored, row, gating, attempt, flow
<1>1. CASE Reload
    BY <1>1 DEF Reload
<1>2. CASE Touch
    BY <1>2 DEF Touch, Get, Got
<1>3. CASE Thaw
    BY <1>3 DEF Thaw, Healths
<1>4. CASE Demote
    BY <1>4, RouteAssumption DEF Demote, Healths, States
<1>5. CASE ChangePolicy
    BY <1>5 DEF ChangePolicy
<1> QED BY <1>1, <1>2, <1>3, <1>4, <1>5

LEMMA StepType == TypeOK /\ [Next]_vars => TypeOK'
<1> SUFFICES ASSUME TypeOK, [Next]_vars PROVE TypeOK'
    OBVIOUS
<1>1. CASE UNCHANGED vars
    BY <1>1 DEF TypeOK, vars, config, stored, row, gating, attempt, flow
<1> QED BY <1>1, RequestType, ProbeType, ObservationType, EditType, RowType DEF Next

(* Every variable keeps its type: in particular a slot is never given back *)
(* when none is taken, and no counter of the row passes its threshold.     *)
THEOREM TypeCorrect == Spec => []TypeOK
BY InitType, StepType, PTL DEF Spec

(***************************************************************************)
(* The recovery gate.                                                      *)
(***************************************************************************)

LEMMA GateStep == TypeOK /\ GateKept /\ [Next]_vars => GateKept'
<1> SUFFICES ASSUME TypeOK, GateKept, [Next]_vars PROVE GateKept'
    OBVIOUS
<1>0. ASSUME UNCHANGED gating PROVE GateKept'
    BY <1>0 DEF GateKept, gating
<1>1. ASSUME NEW r \in Requests, TakeGate(r) PROVE GateKept'
    BY <1>1, RouteAssumption DEF TakeGate, GateKept, TypeOK
<1>2. ASSUME NEW r \in Requests, Request(r) PROVE GateKept'
    <2>1. CASE WrapGate(r)
        BY <1>0, <1>1, <2>1 DEF WrapGate
    <2>2. CASE HalfGate(r)
        BY <1>0, <1>1, <2>2 DEF HalfGate
    <2>3. CASE FreeGate(r)
        BY <2>3, RouteAssumption DEF FreeGate, GateKept, TypeOK
    <2>4. CASE Read(r) \/ Select(r) \/ Take(r) \/ Wrap(r) \/ HalfSlot(r)
        BY <1>0, <2>4 DEF Read, Select, Take, Wrap, HalfSlot
    <2>5. CASE GiveUp(r) \/ Prepare(r) \/ Finish(r) \/ FreeSlot(r)
        BY <1>0, <2>5 DEF GiveUp, Prepare, Finish, FreeSlot
    <2> QED BY <1>2, <2>1, <2>2, <2>3, <2>4, <2>5 DEF Request
<1>3. ASSUME NEW p \in Probes \cup Stations, Probe(p) PROVE GateKept'
    BY <1>0, <1>3 DEF Probe, Tick, Claim, Attach, Conclude
<1>4. ASSUME NEW a \in Actors, Observation(a) PROVE GateKept'
    BY <1>0, <1>4 DEF Observation, Record, CheckConfig, Drop, Report
<1>5. ASSUME NEW e \in Editors, Edit(e) PROVE GateKept'
    <2>1. CASE ForgetGate(e)
        BY <2>1, RouteAssumption DEF ForgetGate, GateKept, TypeOK
    <2>2. CASE Commit(e) \/ ForgetRow(e) \/ Invalidate(e) \/ Refresh(e)
        BY <1>0, <2>2 DEF Commit, ForgetRow, Invalidate, Refresh
    <2> QED BY <1>5, <2>1, <2>2 DEF Edit
<1>6. CASE Reload \/ Touch \/ Thaw \/ Demote \/ ChangePolicy
    BY <1>0, <1>6 DEF Reload, Touch, Thaw, Demote, ChangePolicy
<1>7. CASE UNCHANGED vars
    BY <1>0, <1>7 DEF vars
<1> QED BY <1>2, <1>3, <1>4, <1>5, <1>6, <1>7 DEF Next

(* Whoever has the recovery gate is the one whose handle still counts, so   *)
(* no late release drops the hold of another request and none leaves the    *)
(* gate shut behind it.                                                     *)
THEOREM GateKeptAlways == Spec => []GateKept
<1>1. Init => GateKept
    BY RouteAssumption DEF Init, GateKept
<1> QED BY <1>1, TypeCorrect, GateStep, PTL DEF Spec

(***************************************************************************)
(* Generations.                                                            *)
(***************************************************************************)

LEMMA RequestBound ==
    ASSUME TypeOK, Bound, NEW r \in Requests, Request(r)
    PROVE  Bound'
<1> r \in Actors
    BY DEF Actors
<1>0. \A p \in Probes \cup Stations : p # r
    BY RouteAssumption
<1> USE <1>0 DEF TypeOK, Bound, Goto, Holding, config, stored, row, gating, attempt, flow
<1>1. CASE Read(r)
    BY <1>1 DEF Read
<1>2. CASE Select(r)
    BY <1>2 DEF Select
<1>3. CASE Take(r)
    <2>1. UNCHANGED <<config, stored, gating, cfg, order, armed, outcome, note>>
        BY <1>3 DEF Take
    <2>2. pc[r] = "slot" /\ note[r] = "none"
        BY <1>3 DEF Take
    <2>3. CASE TryAcquire(r) /\ Goto(r, "wrap")
        BY <2>1, <2>2, <2>3 DEF TryAcquire, Get, Got
    <2>4. CASE Refused /\ Goto(r, "idle")
        BY <2>1, <2>2, <2>4 DEF Refused, Get, Got
    <2> QED BY <1>3, <2>3, <2>4 DEF Take
<1>4. CASE Wrap(r)
    BY <1>4 DEF Wrap
<1>5. CASE WrapGate(r)
    <2>1. pc[r] = "gate" /\ UNCHANGED <<config, stored, row, attempt, note>>
        BY <1>5 DEF WrapGate
    <2>2. CASE Goto(r, "send")
        BY <2>1, <2>2
    <2>3. CASE Goto(r, "freeSlot")
        BY <2>1, <2>3
    <2> QED BY <1>5, <2>2, <2>3 DEF WrapGate
<1>6. CASE HalfGate(r)
    <2>1. pc[r] = "halfGate" /\ UNCHANGED <<config, stored, row, attempt, note>>
        BY <1>6 DEF HalfGate
    <2>2. CASE Goto(r, "halfSlot")
        BY <2>1, <2>2
    <2>3. CASE Goto(r, "idle")
        BY <2>1, <2>3
    <2> QED BY <1>6, <2>2, <2>3 DEF HalfGate
<1>7. CASE HalfSlot(r)
    <2>1. UNCHANGED <<config, stored, gating, cfg, order, outcome, note>>
        BY <1>7 DEF HalfSlot
    <2>2. pc[r] = "halfSlot" /\ note[r] = "none"
        BY <1>7 DEF HalfSlot
    <2>3. CASE TryAcquire(r) /\ Goto(r, "send")
        BY <2>1, <2>2, <2>3 DEF TryAcquire, Get, Got
    <2>4. CASE Refused /\ Goto(r, "freeGate")
        BY <2>1, <2>2, <2>4 DEF Refused, Get, Got
    <2> QED BY <1>7, <2>3, <2>4 DEF HalfSlot
<1>8. CASE GiveUp(r)
    BY <1>8 DEF GiveUp
<1>9. CASE Prepare(r)
    BY <1>9 DEF Prepare
<1>10. CASE Finish(r)
    BY <1>10 DEF Finish
<1>11. CASE FreeSlot(r)
    BY <1>11 DEF FreeSlot
<1>12. CASE FreeGate(r)
    BY <1>12 DEF FreeGate
<1> QED BY <1>1, <1>2, <1>3, <1>4, <1>5, <1>6, <1>7, <1>8, <1>9, <1>10, <1>11, <1>12 DEF Request

LEMMA ProbeBound ==
    ASSUME TypeOK, Bound, NEW p \in Probes \cup Stations, Probe(p)
    PROVE  Bound'
<1> p \in Actors
    BY DEF Actors
<1>0. p \notin Requests
    BY RouteAssumption
<1> USE <1>0 DEF TypeOK, Bound, Goto, Holding, config, stored, row, gating, attempt, flow
<1>1. CASE Tick(p)
    BY <1>1 DEF Tick
<1>2. CASE Claim(p)
    <2>1. /\ pc[p] = "claim" /\ note[p] = "none" /\ Get
          /\ UNCHANGED <<config, stored, inflight, health, last, gating, cfg, order,
                         armed, outcome, note>>
        BY <1>2 DEF Claim
    <2>2. CASE bound' = [bound EXCEPT ![p] = Got] /\ Goto(p, "attach")
        BY <2>1, <2>2 DEF Get, Got
    <2>3. CASE UNCHANGED bound /\ Goto(p, "idle")
        BY <2>1, <2>3 DEF Get, Got
    <2> QED BY <1>2, <2>2, <2>3 DEF Claim
<1>3. CASE Attach(p)
    <2>1. /\ pc[p] = "attach" /\ note[p] = "none"
          /\ UNCHANGED <<config, capOrder, reachOrder, row, gating, cfg, bound, armed,
                         outcome, note>>
        BY <1>3 DEF Attach
    <2>2. CASE Goto(p, "sent")
        BY <2>1, <2>2
    <2>3. CASE Goto(p, "idle")
        BY <2>1, <2>3
    <2> QED BY <1>3, <2>2, <2>3 DEF Attach
<1>4. CASE Conclude(p)
    BY <1>4 DEF Conclude
<1> QED BY <1>1, <1>2, <1>3, <1>4 DEF Probe

LEMMA ObservationBound ==
    ASSUME TypeOK, Bound, NEW a \in Actors, Observation(a)
    PROVE  Bound'
<1> USE DEF TypeOK, Bound, Holding, config, stored, row, gating, attempt, flow
<1>1. CASE Record(a)
    BY <1>1 DEF Record
<1>2. CASE CheckConfig(a)
    BY <1>2 DEF CheckConfig
<1>3. CASE Drop(a)
    BY <1>3 DEF Drop
<1>4. CASE Report(a)
    BY <1>4 DEF Report
<1> QED BY <1>1, <1>2, <1>3, <1>4 DEF Observation

LEMMA OtherBound ==
    ASSUME TypeOK, Bound,
           \/ \E e \in Editors : Edit(e)
           \/ Reload \/ Touch \/ Thaw \/ Demote \/ ChangePolicy
           \/ UNCHANGED vars
    PROVE  Bound'
<1> USE DEF TypeOK, Bound, Holding, vars, config, stored, row, gating, attempt, flow
<1>1. ASSUME NEW e \in Editors, Edit(e) PROVE Bound'
    BY <1>1 DEF Edit, Commit, ForgetRow, ForgetGate, Invalidate, Refresh
<1>2. CASE Reload \/ ChangePolicy \/ UNCHANGED vars
    BY <1>2 DEF Reload, ChangePolicy
<1>3. CASE Touch
    BY <1>3 DEF Touch, Get, Got
<1>4. CASE Thaw \/ Demote
    <2>1. gen # 0
        BY <1>4 DEF Thaw, Demote, Fresh
    <2> QED BY <1>4, <2>1 DEF Thaw, Demote
<1> QED BY <1>1, <1>2, <1>3, <1>4

LEMMA BoundStep == TypeOK /\ Bound /\ [Next]_vars => Bound'
BY RequestBound, ProbeBound, ObservationBound, OtherBound DEF Next

THEOREM BoundAlways == Spec => []Bound
<1>1. Init => Bound
    BY RouteAssumption DEF Init, Bound, Actors, Holding
<1> QED BY <1>1, TypeCorrect, BoundStep, PTL DEF Spec

(***************************************************************************)
(* Slots.                                                                  *)
(***************************************************************************)

LEMMA OwedFinite == IsFiniteSet(Owed)
<1>1. Owed \subseteq Requests
    BY DEF Owed, Holding
<1> QED BY <1>1, RouteAssumption, FS_Subset

\* While there is no row nothing is owed to it.
LEMMA NothingOwed == Bound /\ gen = 0 => Owed = {}
BY DEF Bound, Owed

\* A step that leaves the row, and who holds what of it, alone.
LEMMA SlotsKept ==
    ASSUME Slots, UNCHANGED inflight, Owed' = Owed
    PROVE  Slots'
BY DEF Slots

\* A row made on the way has an empty account, as the missing one had.
LEMMA SlotsGot ==
    ASSUME TypeOK, Bound, Slots, Get, UNCHANGED inflight,
           Holding' = Holding, \A r \in Holding : bound'[r] = bound[r]
    PROVE  Slots'
<1>1. CASE gen # 0
    <2>1. Owed' = Owed
        BY <1>1 DEF Owed, Get, Got
    <2> QED BY <2>1, SlotsKept
<1>2. CASE gen = 0
    <2>1. Owed = {} /\ gen' \notin 0..gens
        BY <1>2, NothingOwed DEF Get, Got, TypeOK
    <2>2. \A r \in Holding : bound[r] \in 0..gens
        BY DEF Bound, Holding, Actors
    <2>3. Owed' = {}
        BY <2>1, <2>2 DEF Owed
    <2> QED BY <2>1, <2>3, SlotsKept
<1> QED BY <1>1, <1>2

LEMMA SlotTaken ==
    ASSUME TypeOK, Bound, Slots, NEW r \in Requests, r \notin Holding,
           TryAcquire(r), Holding' = Holding \cup {r}
    PROVE  Slots'
<1>1. /\ gen' = Got /\ bound' = [bound EXCEPT ![r] = Got]
      /\ inflight' = inflight + 1
    BY DEF TryAcquire, Get
<1>2. bound'[r] = gen' /\ \A q \in Requests \ {r} : bound'[q] = bound[q]
    BY <1>1 DEF TypeOK, Actors
<1>3. \A q \in Holding : bound[q] \in 1..gens
    BY DEF Bound, Holding, Actors, TypeOK
<1>4. \A q \in Holding : bound[q] = gen' <=> bound[q] = gen
    BY <1>1, <1>3 DEF Got, TypeOK
<1>5. Owed' = Owed \cup {r} /\ r \notin Owed
    BY <1>2, <1>4 DEF Owed, Holding
<1>6. Cardinality(Owed') = Cardinality(Owed) + 1
    BY <1>5, OwedFinite, FS_AddElement
<1>7. Limit # 0 => inflight + 1 <= Limit
    BY RouteAssumption DEF TryAcquire, TypeOK
<1> QED BY <1>1, <1>6, <1>7 DEF Slots

LEMMA SlotFreed ==
    ASSUME TypeOK, Bound, Slots, NEW r \in Requests, FreeSlot(r)
    PROVE  Slots'
<1>1. /\ pc[r] = "freeSlot" /\ UNCHANGED <<gen, bound>>
      /\ inflight' = IF gen = bound[r] /\ inflight > 0 THEN inflight - 1 ELSE inflight
      /\ Goto(r, "idle") \/ Goto(r, "freeGate")
    BY DEF FreeSlot, attempt
<1>2. r \in Holding /\ Holding' = Holding \ {r}
    BY <1>1 DEF Goto, Holding, TypeOK, Actors
<1>3. Owed' = Owed \ {r}
    BY <1>1, <1>2 DEF Owed
<1>4. inflight = Cardinality(Owed) /\ inflight \in Nat
    BY DEF Slots, TypeOK
<1>5. CASE gen = bound[r]
    <2>1. r \in Owed
        BY <1>2, <1>5 DEF Owed
    <2>2. Cardinality(Owed') = Cardinality(Owed) - 1
        BY <1>3, <2>1, OwedFinite, FS_RemoveElement
    <2>3. Cardinality(Owed) # 0
        BY <2>1, OwedFinite, FS_EmptySet
    <2>4. inflight' = inflight - 1
        BY <1>1, <1>4, <1>5, <2>3
    <2> QED BY <1>4, <2>2, <2>4, RouteAssumption DEF Slots
<1>6. CASE gen # bound[r]
    <2>1. Owed' = Owed
        BY <1>3, <1>6 DEF Owed
    <2> QED BY <1>1, <1>6, <2>1, SlotsKept
<1> QED BY <1>5, <1>6

LEMMA SlotsStep == TypeOK /\ Bound /\ Slots /\ [Next]_vars => Slots'
<1> SUFFICES ASSUME TypeOK, Bound, Slots, [Next]_vars PROVE Slots'
    OBVIOUS
<1>0. ASSUME UNCHANGED <<gen, inflight, bound>>, Holding' = Holding PROVE Slots'
    BY <1>0, SlotsKept DEF Owed
<1>1. ASSUME NEW r \in Requests, Request(r) PROVE Slots'
    <2> USE DEF Goto, Holding, TypeOK, Actors
    <2>1. CASE Read(r) \/ Select(r) \/ Wrap(r)
        <3>1. UNCHANGED <<gen, inflight, bound>>
            BY <2>1 DEF Read, Select, Wrap, row, attempt
        <3>2. CASE Read(r)
            BY <1>0, <3>1, <3>2 DEF Read
        <3>3. CASE Select(r)
            BY <1>0, <3>1, <3>3 DEF Select
        <3>4. CASE Wrap(r)
            BY <1>0, <3>1, <3>4 DEF Wrap
        <3> QED BY <2>1, <3>2, <3>3, <3>4
    <2>2. CASE GiveUp(r) \/ Prepare(r) \/ Finish(r)
        <3>1. UNCHANGED <<gen, inflight, bound>>
            BY <2>2 DEF GiveUp, Prepare, Finish, row, attempt
        <3>2. CASE GiveUp(r)
            BY <1>0, <3>1, <3>2 DEF GiveUp
        <3>3. CASE Prepare(r)
            BY <1>0, <3>1, <3>3 DEF Prepare
        <3>4. CASE Finish(r)
            BY <1>0, <3>1, <3>4 DEF Finish
        <3> QED BY <2>2, <3>2, <3>3, <3>4
    <2>3. CASE WrapGate(r) \/ HalfGate(r)
        <3>1. UNCHANGED <<gen, inflight, bound>>
            BY <2>3 DEF WrapGate, HalfGate, row, attempt
        <3>2. CASE pc[r] = "gate" /\ (Goto(r, "send") \/ Goto(r, "freeSlot"))
            BY <1>0, <3>1, <3>2
        <3>3. CASE pc[r] = "halfGate" /\ (Goto(r, "halfSlot") \/ Goto(r, "idle"))
            BY <1>0, <3>1, <3>3
        <3> QED BY <2>3, <3>2, <3>3 DEF WrapGate, HalfGate
    <2>4. CASE FreeGate(r)
        <3>1. UNCHANGED <<gen, inflight, bound>>
            BY <2>4 DEF FreeGate, row, attempt
        <3>2. pc[r] = "freeGate" /\ Goto(r, "idle")
            BY <2>4 DEF FreeGate
        <3> QED BY <1>0, <3>1, <3>2
    <2>5. CASE FreeSlot(r)
        BY <2>5, SlotFreed
    <2>6. CASE Take(r)
        <3>1. CASE TryAcquire(r) /\ Goto(r, "wrap")
            <4>1. r \notin Holding /\ Holding' = Holding \cup {r}
                BY <2>6, <3>1 DEF Take
            <4> QED BY <3>1, <4>1, SlotTaken
        <3>2. CASE Refused /\ Goto(r, "idle")
            <4>1. Holding' = Holding
                BY <2>6, <3>2 DEF Take
            <4> QED BY <3>2, <4>1, SlotsGot DEF Refused
        <3> QED BY <2>6, <3>1, <3>2 DEF Take
    <2>7. CASE HalfSlot(r)
        <3>1. CASE TryAcquire(r) /\ Goto(r, "send")
            <4>1. r \notin Holding /\ Holding' = Holding \cup {r}
                BY <2>7, <3>1 DEF HalfSlot
            <4> QED BY <3>1, <4>1, SlotTaken
        <3>2. CASE Refused /\ Goto(r, "freeGate")
            <4>1. Holding' = Holding
                BY <2>7, <3>2 DEF HalfSlot
            <4> QED BY <3>2, <4>1, SlotsGot DEF Refused
        <3> QED BY <2>7, <3>1, <3>2 DEF HalfSlot
    <2> QED BY <1>1, <2>1, <2>2, <2>3, <2>4, <2>5, <2>6, <2>7 DEF Request
<1>2. ASSUME NEW p \in Probes \cup Stations, Probe(p) PROVE Slots'
    <2>0. p \notin Requests
        BY RouteAssumption
    <2> USE <2>0 DEF Goto, Holding, TypeOK, Actors
    <2>1. CASE Tick(p) \/ Attach(p) \/ Conclude(p)
        BY <1>0, <2>1 DEF Tick, Attach, Conclude, row
    <2>2. CASE Claim(p)
        <3>1. Get /\ UNCHANGED inflight
            BY <2>2 DEF Claim
        <3>2. Holding' = Holding
            BY <2>2 DEF Claim
        <3>3. \A r \in Requests : bound'[r] = bound[r]
            BY <2>2 DEF Claim
        <3> QED BY <3>1, <3>2, <3>3, SlotsGot
    <2> QED BY <1>2, <2>1, <2>2 DEF Probe
<1>3. ASSUME NEW a \in Actors, Observation(a) PROVE Slots'
    BY <1>0, <1>3 DEF Observation, Record, CheckConfig, Drop, Report, Holding, row, attempt
<1>4. ASSUME NEW e \in Editors, Edit(e) PROVE Slots'
    <2>1. CASE ForgetRow(e)
        <3>1. gen' = 0 /\ inflight' = 0 /\ UNCHANGED <<bound, pc>>
            BY <2>1 DEF ForgetRow, attempt, flow
        <3>2. \A r \in Holding : bound[r] # 0
            BY DEF Bound
        <3>3. Owed' = {}
            BY <3>1, <3>2 DEF Owed, Holding
        <3> QED BY <3>1, <3>3, FS_EmptySet, RouteAssumption DEF Slots
    <2>2. CASE Commit(e) \/ ForgetGate(e) \/ Invalidate(e) \/ Refresh(e)
        BY <1>0, <2>2
           DEF Commit, ForgetGate, Invalidate, Refresh, Holding, row, attempt, flow
    <2> QED BY <1>4, <2>1, <2>2 DEF Edit
<1>5. CASE Touch
    <2>1. Get /\ UNCHANGED <<inflight, bound, pc>>
        BY <1>5 DEF Touch, attempt, flow
    <2> QED BY <2>1, SlotsGot DEF Holding
<1>6. CASE Reload \/ Thaw \/ Demote \/ ChangePolicy
    BY <1>0, <1>6 DEF Reload, Thaw, Demote, ChangePolicy, Holding, row, attempt, flow
<1>7. CASE UNCHANGED vars
    BY <1>0, <1>7 DEF vars, Holding, row, attempt, flow
<1> QED BY <1>1, <1>2, <1>3, <1>4, <1>5, <1>6, <1>7 DEF Next

(* The slots a row counts are those its requests hold, however many rows   *)
(* the route has had and however late a slot of an old one is given back,  *)
(* and they are never more than the limit.                                 *)
THEOREM SlotsMatchAlways == Spec => []SlotsMatch
<1>1. Init => Slots
    <2> SUFFICES ASSUME Init PROVE Slots
        OBVIOUS
    <2>1. Owed = {}
        BY DEF Init, Owed, Holding, Actors
    <2> QED BY <2>1, FS_EmptySet, RouteAssumption DEF Init, Slots
<1>2. Slots => SlotsMatch
    BY DEF Slots, SlotsMatch
<1> QED BY <1>1, <1>2, TypeCorrect, BoundAlways, SlotsStep, PTL DEF Spec

(***************************************************************************)
(* Late results.                                                           *)
(***************************************************************************)

\* What has been recorded, and will be reported to the row there is, was
\* gathered with the configuration the database still holds.
Current ==
    ~Forgetting => \A a \in Actors :
        note[a] \in {"recorded", "checked"} /\ bound[a] = gen => cfg[a] = db

Evidence == EvidenceIsCurrent /\ Current

LEMMA EvidenceKept ==
    ASSUME TypeOK, Bound, Evidence, UNCHANGED <<db, edit, note, last>>,
           \A a \in Actors : note[a] # "none" => bound'[a] = bound[a] /\ cfg'[a] = cfg[a],
           gen' = gen \/ gen' \notin 0..gens
    PROVE  Evidence'
<1>1. Forgetting' = Forgetting
    BY DEF Forgetting
<1>2. \A a \in Actors : note[a] # "none" /\ bound'[a] = gen' => bound[a] = gen
    BY DEF Bound
<1>3. Current'
    BY <1>1, <1>2 DEF Evidence, Current
<1>4. EvidenceIsCurrent'
    BY <1>1 DEF Evidence, EvidenceIsCurrent
<1> QED BY <1>3, <1>4 DEF Evidence

LEMMA GetFresh ==
    ASSUME TypeOK, Get
    PROVE  gen' = gen \/ gen' \notin 0..gens
BY DEF Get, Got, TypeOK

\* No actor that starts or sends an attempt has an observation on its way.
LEMMA BusyHasNoNote ==
    ASSUME Bound, NEW a \in Actors, pc[a] \notin {"idle", "freeSlot", "freeGate"}
    PROVE  note[a] = "none"
BY DEF Bound

LEMMA RequestEvidence ==
    ASSUME TypeOK, Bound, Evidence, NEW r \in Requests, Request(r)
    PROVE  Evidence'
<1> r \in Actors
    BY DEF Actors
<1> USE DEF config, stored, row, gating, attempt, flow
<1>1. CASE Read(r)
    BY <1>1, EvidenceKept DEF Read, TypeOK
<1>2. CASE Take(r)
    <2>1. note[r] = "none" /\ Get
        BY <1>2, BusyHasNoNote DEF Take, TryAcquire, Refused
    <2>2. /\ UNCHANGED <<db, edit, note, last, cfg>>
          /\ \A a \in Actors \ {r} : bound'[a] = bound[a]
        BY <1>2 DEF Take, TryAcquire, Refused, TypeOK
    <2> QED BY <2>1, <2>2, GetFresh, EvidenceKept
<1>3. CASE HalfSlot(r)
    <2>1. note[r] = "none" /\ Get
        BY <1>3, BusyHasNoNote DEF HalfSlot, TryAcquire, Refused
    <2>2. /\ UNCHANGED <<db, edit, note, last, cfg>>
          /\ \A a \in Actors \ {r} : bound'[a] = bound[a]
        BY <1>3 DEF HalfSlot, TryAcquire, Refused, TypeOK
    <2> QED BY <2>1, <2>2, GetFresh, EvidenceKept
<1>4. CASE Finish(r)
    <2>1. /\ UNCHANGED <<db, edit, gen, bound, cfg, last>>
          /\ \A a \in Actors : note'[a] = note[a] \/ note'[a] = "queued"
        BY <1>4 DEF Finish, TypeOK
    <2> QED BY <2>1 DEF Evidence, EvidenceIsCurrent, Current, Forgetting
<1>5. CASE Select(r) \/ Wrap(r) \/ WrapGate(r) \/ HalfGate(r)
    BY <1>5, EvidenceKept DEF Select, Wrap, WrapGate, HalfGate
<1>6. CASE GiveUp(r) \/ Prepare(r) \/ FreeSlot(r) \/ FreeGate(r)
    BY <1>6, EvidenceKept DEF GiveUp, Prepare, FreeSlot, FreeGate
<1> QED BY <1>1, <1>2, <1>3, <1>4, <1>5, <1>6 DEF Request

LEMMA ProbeEvidence ==
    ASSUME TypeOK, Bound, Evidence, NEW p \in Probes \cup Stations, Probe(p)
    PROVE  Evidence'
<1> p \in Actors
    BY DEF Actors
<1> USE DEF config, stored, row, gating, attempt, flow
<1>1. CASE Tick(p)
    BY <1>1, EvidenceKept DEF Tick, TypeOK
<1>2. CASE Claim(p)
    <2>1. note[p] = "none" /\ Get
        BY <1>2, BusyHasNoNote DEF Claim
    <2>2. /\ UNCHANGED <<db, edit, note, last, cfg>>
          /\ \A a \in Actors \ {p} : bound'[a] = bound[a]
        BY <1>2 DEF Claim, TypeOK
    <2> QED BY <2>1, <2>2, GetFresh, EvidenceKept
<1>3. CASE Attach(p)
    BY <1>3, EvidenceKept DEF Attach
<1>4. CASE Conclude(p)
    <2>1. /\ UNCHANGED <<db, edit, gen, bound, cfg, last>>
          /\ \A a \in Actors : note'[a] = note[a] \/ note'[a] = "queued"
        BY <1>4 DEF Conclude, TypeOK
    <2> QED BY <2>1 DEF Evidence, EvidenceIsCurrent, Current, Forgetting
<1> QED BY <1>1, <1>2, <1>3, <1>4 DEF Probe

LEMMA ObservationEvidence ==
    ASSUME TypeOK, Bound, Evidence, Moves = FALSE, NEW a \in Actors, Observation(a)
    PROVE  Evidence'
<1> USE DEF config, stored, row, gating, attempt, flow, Forgetting
<1>1. CASE Record(a)
    <2>1. /\ UNCHANGED <<db, edit, gen, bound, cfg, last>>
          /\ \A b \in Actors \ {a} : note'[b] = note[b]
        BY <1>1 DEF Record, TypeOK
    <2>2. note'[a] = "recorded" => cfg[a] = db
        BY <1>1 DEF Record, Fits, TypeOK
    <2>3. note'[a] \in {"recorded", "none"}
        BY <1>1 DEF Record, TypeOK
    <2> QED BY <2>1, <2>2, <2>3 DEF Evidence, EvidenceIsCurrent, Current
<1>2. CASE CheckConfig(a) \/ Drop(a)
    <2>1. /\ UNCHANGED <<db, edit, gen, bound, cfg, last>>
          /\ \A b \in Actors \ {a} : note'[b] = note[b]
          /\ note'[a] = "none" \/ note[a] = "recorded"
        BY <1>2 DEF CheckConfig, Drop, TypeOK
    <2> QED BY <2>1 DEF Evidence, EvidenceIsCurrent, Current
<1>3. CASE Report(a)
    <2>1. /\ UNCHANGED <<db, edit, gen, bound, cfg>>
          /\ \A b \in Actors : note'[b] = note[b] \/ note'[b] = "none"
        BY <1>3 DEF Report, TypeOK
    <2>2. Current'
        BY <2>1 DEF Evidence, Current
    <2>3. \/ gen = bound[a] /\ last'.cfg = cfg[a] /\ note[a] = "checked"
          \/ last' = last
        BY <1>3 DEF Report
    <2>4. EvidenceIsCurrent'
        BY <2>1, <2>3 DEF Evidence, EvidenceIsCurrent, Current
    <2> QED BY <2>2, <2>4 DEF Evidence
<1> QED BY <1>1, <1>2, <1>3 DEF Observation

LEMMA EditEvidence ==
    ASSUME TypeOK, Bound, Evidence, NEW e \in Editors, Edit(e)
    PROVE  Evidence'
<1> USE DEF config, stored, row, gating, attempt, flow
<1>1. CASE Commit(e)
    <2>1. edit'[e] = "forget"
        BY <1>1 DEF Commit, TypeOK
    <2> QED BY <2>1 DEF Evidence, EvidenceIsCurrent, Current, Forgetting
<1>2. CASE ForgetRow(e)
    <2>1. gen' = 0 /\ last'.cfg = 0 /\ UNCHANGED <<note, bound>>
        BY <1>2 DEF ForgetRow, Nothing
    <2>2. \A a \in Actors : note[a] # "none" => bound'[a] # gen'
        BY <2>1 DEF Bound
    <2> QED BY <2>1, <2>2 DEF Evidence, EvidenceIsCurrent, Current
<1>3. CASE ForgetGate(e) \/ Invalidate(e) \/ Refresh(e)
    <2>1. UNCHANGED <<db, gen, bound, cfg, note, last>>
        BY <1>3 DEF ForgetGate, Invalidate, Refresh
    <2>2. /\ edit[e] # "forget" /\ edit'[e] # "forget"
          /\ \A f \in Editors \ {e} : edit'[f] = edit[f]
        BY <1>3 DEF ForgetGate, Invalidate, Refresh, TypeOK
    <2>3. Forgetting' = Forgetting
        BY <2>2 DEF Forgetting
    <2> QED BY <2>1, <2>3 DEF Evidence, EvidenceIsCurrent, Current
<1> QED BY <1>1, <1>2, <1>3 DEF Edit

LEMMA RowEvidence ==
    ASSUME TypeOK, Bound, Evidence,
           Reload \/ Touch \/ Thaw \/ Demote \/ ChangePolicy \/ UNCHANGED vars
    PROVE  Evidence'
<1> USE DEF vars, config, stored, row, gating, attempt, flow
<1>1. CASE Touch
    BY <1>1, GetFresh, EvidenceKept DEF Touch
<1>2. CASE Reload \/ Thaw \/ Demote \/ ChangePolicy \/ UNCHANGED vars
    BY <1>2, EvidenceKept DEF Reload, Thaw, Demote, ChangePolicy
<1> QED BY <1>1, <1>2

(* When the evidence on the old upstream is not current for the new one, a *)
(* late result never covers a new configuration: outside the moment between*)
(* the commit of an edit and the forgetting of the row, whatever the row   *)
(* says was gathered with what the database holds.                         *)
THEOREM EvidenceAlways ==
    ASSUME Moves = FALSE
    PROVE  Spec => []EvidenceIsCurrent
<1>1. Init => Evidence
    BY DEF Init, Evidence, EvidenceIsCurrent, Current, Nothing
<1>2. TypeOK /\ Bound /\ Evidence /\ [Next]_vars => Evidence'
    BY RequestEvidence, ProbeEvidence, ObservationEvidence, EditEvidence, RowEvidence
       DEF Next
<1>3. Evidence => EvidenceIsCurrent
    BY DEF Evidence
<1> QED BY <1>1, <1>2, <1>3, TypeCorrect, BoundAlways, PTL DEF Spec

(* Both together: whoever is let in is let out once, for any number of     *)
(* requests, probes and edits.                                             *)
THEOREM AdmissionKeptAlways == Spec => []AdmissionKept
    BY SlotsMatchAlways, GateKeptAlways, PTL DEF AdmissionKept

(***************************************************************************)
(* Dead routes.                                                            *)
(***************************************************************************)

\* Only a report takes a row out of dead, short of forgetting it.
LEMMA DeadStep ==
    ASSUME TypeOK, Bound, [Next]_vars, health.policy \in {0, policy},
           health.state = "dead", health'.state # "dead", gen' = gen
    PROVE  \E a \in Actors : note[a] = "checked" /\ Trial(a) /\ outcome[a] = "ok"
<1>0. health' # health /\ gen # 0
    BY DEF Bound, Fresh
<1> USE DEF vars, config, stored, row, gating, attempt, flow
<1>1. ASSUME NEW r \in Requests, Request(r) PROVE FALSE
    BY <1>0, <1>1 DEF Request, Read, Select, Take, TryAcquire, Refused, Wrap, WrapGate,
                HalfGate, HalfSlot, GiveUp, Prepare, Finish, FreeSlot, FreeGate
<1>2. ASSUME NEW p \in Probes \cup Stations, Probe(p) PROVE FALSE
    BY <1>0, <1>2 DEF Probe, Tick, Claim, Attach, Conclude
<1>3. ASSUME NEW a \in Actors, Observation(a)
      PROVE  note[a] = "checked" /\ Trial(a) /\ outcome[a] = "ok"
    <2>1. note[a] = "checked" /\ health' = Concluded(a)
        BY <1>0, <1>3 DEF Observation, Record, CheckConfig, Drop, Report
    <2>2. Rebased(health) = health
        BY DEF Rebased
    <2>3. outcome[a] = "ok"
        BY <2>1, <2>2 DEF Concluded, AfterFailure, AfterLimit
    <2>4. Trial(a)
        BY <2>1, <2>2, <2>3 DEF Concluded, AfterOK
    <2> QED BY <2>1, <2>3, <2>4
<1>4. ASSUME NEW e \in Editors, Edit(e) PROVE FALSE
    BY <1>0, <1>4 DEF Edit, Commit, ForgetRow, ForgetGate, Invalidate, Refresh
<1>5. CASE Reload \/ Touch \/ Thaw \/ Demote \/ ChangePolicy \/ UNCHANGED vars
    BY <1>0, <1>5 DEF Reload, Touch, Thaw, Demote, ChangePolicy
<1> QED BY <1>1, <1>2, <1>3, <1>4, <1>5 DEF Next

(* While the thresholds are those of its last report, a dead route is      *)
(* revived only by the success of an attempt that was let through to try   *)
(* it, or by the edit that forgets the row.                                *)
THEOREM DeadAlways == Spec => DeadNeedsArmed
<1>1. TypeOK /\ Bound /\ [Next]_vars => [Revival]_vars
    BY DeadStep DEF Revival
<1> QED BY <1>1, TypeCorrect, BoundAlways, PTL DEF Spec, DeadNeedsArmed
=============================================================================
