------------------------------ MODULE Scheduler ------------------------------
(* The scheduler of synthetic probes (probe/scheduler.go and its parts).     *)
(*                                                                           *)
(* One goroutine ticks: it reads a snapshot of the configuration, drops what *)
(* the snapshot no longer has, and walks the routes; for each it may start a *)
(* probe of the upstream (L1, shared by the routes of the upstream) and a    *)
(* probe of the route's model (L2).  Probes run in goroutines of their own   *)
(* and report, reschedule, release their marks and look for a pending        *)
(* trigger, each under a lock of its own.  Administrative writes forget and  *)
(* trigger in between, a call at a time.                                     *)
EXTENDS Integers, Sequences, FiniteSets, SequencesExt

CONSTANTS
    Routes, Ups,   \* identifiers, which a re-created row uses again
    Shapes,        \* the instances, see below
    Slots,         \* bound: probes of one target alive at one time, see shape
    MayIgnore      \* an L2 probe may end without a conclusion though it was sent

(* A hold is a fresh number; the model names it by what it is taken for and  *)
(* uses a name again once nothing has it.                                    *)
Holds  == (Routes \cup Ups) \X (1 .. Slots)
NoHold == <<>>
ASSUME TargetAssumption == Routes \cap Ups = {}
ASSUME RoutesAssumption == IsFiniteSet(Routes)
ASSUME ShapesAssumption ==
    \A s \in Shapes : /\ s.up \in [Routes -> Ups]
                      /\ s.limit \in Nat /\ s.edits \in Nat /\ s.pauses \in Nat

(* shape.up takes routes to upstreams, shape.limit is GlobalL2Concurrency;   *)
(* shape.kinds says which of the two kinds of probes are followed, and    *)
(* shape.timed whether time is: if not, a route may be due or not whenever   *)
(* it is asked, and conclusions, which only set the intervals, are left out. *)
(* shape.edits and shape.pauses bound the administrative writes and the      *)
(* pauses, and shape.slots the probes of one target alive at one time.       *)
VARIABLES
    shape,
    conf,        \* the published configuration: [route, ups]
    admin,       \* the calls an administrative write still has to make
    gate,        \* the run state, and how far its resume has come
    seen,        \* lastRunning
    tick,        \* the ticking goroutine: [todo, part, eligible]
    due1, due2,  \* nextL1At and nextL2At of the tracker, relative to now
    health,      \* the tracker's conclusion about a route
    reachOK,     \* ReachabilityTracker.OK
    mark1,       \* inflightL1
    busy,        \* busyUp
    mark2,       \* inflightL2
    count,       \* l2Inflight
    scheduled,   \* l1Scheduled
    pend1, pend2,\* pendingL1 and pendingL2
    ramp,        \* the wave of first probes after a resume
    probes,      \* the goroutines, by hold
    left         \* bounds not used up

marks == <<mark1, busy, mark2, count>>
pend  == <<pend1, pend2>>
due   == <<due1, due2>>
run   == <<gate, seen, ramp>>
vars  == <<shape, conf, admin, run, tick, due, health, reachOK, marks, scheduled,
           pend, probes, left>>

Up(r)      == shape.up[r]
RoutesOf(u) == {r \in Routes : Up(r) = u}
On(r)      == conf.route[r] = "on"
Target(h)  == h[1]
IsL1(h)    == Target(h) \in Ups
UpOf(h)    == IF IsL1(h) THEN Target(h) ELSE Up(Target(h))
Idle == [pc |-> "idle", live |-> {}, with |-> {}, ramp |-> FALSE, was |-> FALSE]

Held == {mark1[u] : u \in Ups} \cup {busy[u] : u \in Ups} \cup {mark2[r] : r \in Routes}
          \cup {ramp.held[u] : u \in Ups}
Fresh(x) == {h \in Holds : Target(h) = x /\ h[2] <= shape.slots /\ probes[h].pc = "idle"} \ Held
NextHold(x) == CHOOSE h \in Fresh(x) : TRUE

FirstDue(k) == IF k \notin shape.kinds THEN "never"
               ELSE IF shape.timed THEN "now" ELSE "any"

Init ==
    /\ shape \in Shapes
    /\ conf = [route |-> [r \in Routes |-> "on"], ups |-> Ups]
    /\ admin = <<>> /\ gate = "running" /\ seen = "running"
    /\ tick = [todo |-> <<>>, part |-> "idle", eligible |-> {}]
    /\ due1 = [r \in Routes |-> FirstDue("l1")]
    /\ due2 = [r \in Routes |-> FirstDue("l2")]
    /\ health = [r \in Routes |-> "unknown"]
    /\ reachOK = [u \in Ups |-> TRUE]
    /\ mark1 = [u \in Ups |-> NoHold] /\ busy = [u \in Ups |-> NoHold]
    /\ mark2 = [r \in Routes |-> NoHold] /\ count = 0
    /\ scheduled = {} /\ pend1 = {} /\ pend2 = {}
    /\ ramp = [on |-> FALSE, done |-> {}, held |-> [u \in Ups |-> NoHold]]
    /\ probes = [h \in Holds |-> Idle]
    /\ left = [edits |-> shape.edits, pauses |-> shape.pauses]

-----------------------------------------------------------------------------
(* Time.  What is due again after an interval is "fresh", then "soon" until  *)
(* a whole tick has gone by after the marks are released, since an interval  *)
(* is many ticks, then "later" until it is over.  An unknown route has no    *)
(* interval.                                                                 *)

Unknown(r)   == health[r] \in {"unknown", "failing"}
Interval2(r) == IF Unknown(r) THEN "now" ELSE "fresh"
Interval1(r) == IF Unknown(r) /\ due2[r] = "now" THEN "now" ELSE "fresh"
Aged(d) == [r \in Routes |->
              IF mark2[r] # NoHold \/ mark1[Up(r)] # NoHold THEN d[r]
              ELSE IF d[r] = "fresh" THEN "soon"
              ELSE IF d[r] = "soon" THEN "later" ELSE d[r]]

ElapseL1(r) ==
    /\ due1[r] = "later" /\ due1' = [due1 EXCEPT ![r] = "now"]
    /\ UNCHANGED <<shape, conf, admin, run, tick, due2, health, reachOK, marks,
                   scheduled, pend, probes, left>>
ElapseL2(r) ==
    /\ due2[r] = "later" /\ due2' = [due2 EXCEPT ![r] = "now"]
    /\ UNCHANGED <<shape, conf, admin, run, tick, due1, health, reachOK, marks,
                   scheduled, pend, probes, left>>

IsDue(d, r)  == d[r] \in {"now", "any"}
NotDue(d, r) == d[r] # "now"     \* "any" is both

(* Times are set only where they are kept.                                   *)
SetDue1(d) == due1' = IF shape.timed /\ "l1" \in shape.kinds THEN d ELSE due1
SetDue2(d) == due2' = IF shape.timed /\ "l2" \in shape.kinds THEN d ELSE due2
SetHealth(f) == health' = IF shape.timed THEN f ELSE health

(* TriggerL2 and TriggerL1 of a set of routes.                               *)
Now(d, R) == [r \in Routes |-> IF r \in R THEN "now" ELSE d[r]]

-----------------------------------------------------------------------------
(* The tick.                                                                 *)

Admitting == gate \in {"running", "opened"}

OnPaused ==
    /\ tick.part = "idle" /\ ~Admitting
    /\ seen = "running" /\ seen' = "paused"
    /\ UNCHANGED <<shape, conf, admin, gate, ramp, tick, due, health, reachOK,
                   marks, scheduled, pend, probes, left>>

(* PrepareResume: positive conclusions go, the next probes are spread out.   *)
Demoted == [r \in Routes |-> IF health[r] = "alive" THEN "unknown" ELSE health[r]]
Spread  == [r \in Routes |-> "later"]
NewRamp == [on |-> TRUE, done |-> {}, held |-> [u \in Ups |-> NoHold]]

Gone == {r \in Routes : conf.route[r] = "gone"}

(* Mutant: the mark of the upstream is left to the probe of the route.       *)
DroppedKeepsBusy(R, U) ==
    LET lost == {mark2[r] : r \in R} \ {NoHold}
    IN  /\ mark2' = [r \in Routes |-> IF r \in R THEN NoHold ELSE mark2[r]]
        /\ count' = count - Cardinality(lost)
        /\ busy'  = [u \in Ups |-> IF u \in U THEN NoHold ELSE busy[u]]
        /\ mark1' = [u \in Ups |-> IF u \in U THEN NoHold ELSE mark1[u]]

(* gcRemoved: the marks of a route or an upstream the snapshot does not have. *)
Dropped(R, U) ==
    LET lost == {mark2[r] : r \in R} \ {NoHold}
    IN  /\ mark2' = [r \in Routes |-> IF r \in R THEN NoHold ELSE mark2[r]]
        /\ count' = count - Cardinality(lost)
        /\ busy'  = [u \in Ups |-> IF u \in U \/ busy[u] \in lost THEN NoHold ELSE busy[u]]
        /\ mark1' = [u \in Ups |-> IF u \in U THEN NoHold ELSE mark1[u]]

(* Forgetting a route drops its conclusion, and what probes under way may    *)
(* still say about it.                                                       *)
Forgotten(R) ==
    /\ SetHealth([r \in Routes |-> IF r \in R THEN "unknown" ELSE health[r]])
    /\ probes' = IF shape.timed
                 THEN [h \in Holds |-> [probes[h] EXCEPT !.live = @ \ R]] ELSE probes

TickStart ==
    LET resumed == seen = "paused" IN
    /\ tick.part = "idle" /\ Admitting
    /\ seen' = "running" /\ gate' = gate
    /\ ramp' = IF resumed THEN NewRamp ELSE ramp
    /\ SetDue1(IF resumed THEN Spread ELSE Aged(due1))
    /\ SetDue2(IF resumed THEN Spread ELSE Aged(due2))
    /\ SetHealth([r \in Routes |->
                    IF r \in Gone THEN "unknown"
                    ELSE IF resumed THEN Demoted[r] ELSE health[r]])
    /\ probes' = IF shape.timed
                 THEN [h \in Holds |-> [probes[h] EXCEPT !.live = @ \ Gone]] ELSE probes
    /\ Dropped(Gone, Ups \ conf.ups)
    /\ pend1' = pend1 \cap conf.ups /\ pend2' = pend2 \ Gone
    /\ scheduled' = {}
    /\ tick' = [todo |-> SetToSeq({r \in Routes : On(r)}), part |-> "l1",
                eligible |-> {Up(r) : r \in {q \in Routes : On(q)}}]
    /\ UNCHANGED <<shape, conf, admin, reachOK, left>>

R1 == Head(tick.todo)
U1 == Up(R1)
AtL1 == tick.part = "l1" /\ tick.todo # <<>>
AtL2 == tick.part = "l2"
ToL2    == tick' = [tick EXCEPT !.part = "l2"]
ToRoute == tick' = [tick EXCEPT !.part = "l1", !.todo = Tail(@)]
Ramping(u) == ramp.on /\ u \notin ramp.done
InRamp == {u \in Ups : ramp.held[u] # NoHold}

NotDueL1 ==
    /\ AtL1 /\ NotDue(due1, R1) /\ ToL2
    /\ UNCHANGED <<shape, conf, admin, run, due, health, reachOK, marks,
                   scheduled, pend, probes, left>>

(* The wave is full: the claim is taken back.                                *)
RampFull ==
    /\ AtL1 /\ IsDue(due1, R1) /\ Ramping(U1)
    /\ Cardinality(InRamp) >= shape.limit /\ ToL2
    /\ UNCHANGED <<shape, conf, admin, run, due, health, reachOK, marks,
                   scheduled, pend, probes, left>>

MayBeginL1 ==
    /\ AtL1 /\ IsDue(due1, R1)
    /\ Ramping(U1) => Cardinality(InRamp) < shape.limit

BeginL1 ==
    /\ MayBeginL1 /\ U1 \notin scheduled /\ mark1[U1] = NoHold /\ Fresh(U1) # {}
    /\ SetDue1([due1 EXCEPT ![R1] = Interval1(R1)])
    /\ scheduled' = scheduled \cup {U1}
    /\ mark1' = [mark1 EXCEPT ![U1] = NextHold(U1)]
    /\ probes' = [probes EXCEPT ![NextHold(U1)] =
                    [Idle EXCEPT !.pc = "armed", !.ramp = Ramping(U1),
                                 !.with = IF shape.timed THEN {R1} ELSE {}]]
    /\ ramp' = IF Ramping(U1)
               THEN [ramp EXCEPT !.done = @ \cup {U1}, !.held[U1] = NextHold(U1)]
               ELSE ramp
    /\ ToL2
    /\ UNCHANGED <<shape, conf, admin, gate, seen, due2, health, reachOK, busy,
                   mark2, count, pend, left>>

(* followL1: the route is rescheduled with the probe that is under way, if   *)
(* that one has not rescheduled yet.                                         *)
FollowL1 ==
    /\ MayBeginL1 /\ (U1 \in scheduled \/ mark1[U1] # NoHold)
    /\ SetDue1([due1 EXCEPT ![R1] = Interval1(R1)])
    /\ probes' = [h \in Holds |->
                    IF shape.timed /\ h = mark1[U1]
                       /\ probes[h].pc \in {"armed", "sent", "finish"}
                    THEN [probes[h] EXCEPT !.with = @ \cup {R1}] ELSE probes[h]]
    /\ ToL2
    /\ UNCHANGED <<shape, conf, admin, run, due2, health, reachOK, marks,
                   scheduled, pend, left>>

SkipL2 ==
    /\ AtL2 /\ (~reachOK[U1] \/ NotDue(due2, R1)) /\ ToRoute
    /\ UNCHANGED <<shape, conf, admin, run, due, health, reachOK, marks,
                   scheduled, pend, probes, left>>

(* tryPiggyback: a recent success of a request stands in for the probe.      *)
Piggyback ==
    /\ AtL2 /\ reachOK[U1] /\ IsDue(due2, R1) /\ health[R1] # "dead"
    /\ SetDue2([due2 EXCEPT ![R1] = "fresh"]) /\ ToRoute
    /\ UNCHANGED <<shape, conf, admin, run, due1, health, reachOK, marks,
                   scheduled, pend, probes, left>>

CanBeginL2(r) == busy[Up(r)] = NoHold /\ mark2[r] = NoHold /\ count < shape.limit

BeginL2 ==
    /\ AtL2 /\ reachOK[U1] /\ IsDue(due2, R1) /\ CanBeginL2(R1) /\ Fresh(R1) # {}
    /\ SetDue2([due2 EXCEPT ![R1] = Interval2(R1)])
    /\ count' = count + 1
    /\ busy'  = [busy EXCEPT ![U1] = NextHold(R1)]
    /\ mark2' = [mark2 EXCEPT ![R1] = NextHold(R1)]
    /\ probes' = [probes EXCEPT ![NextHold(R1)] =
                    [Idle EXCEPT !.pc = "armed", !.live = {R1}]]
    /\ ToRoute
    /\ UNCHANGED <<shape, conf, admin, run, due1, health, reachOK, mark1,
                   scheduled, pend, left>>

(* No room: the claim is taken back, and the next tick tries again.          *)
RefuseL2 ==
    /\ AtL2 /\ reachOK[U1] /\ IsDue(due2, R1) /\ ~CanBeginL2(R1) /\ ToRoute
    /\ UNCHANGED <<shape, conf, admin, run, due, health, reachOK, marks,
                   scheduled, pend, probes, left>>

(* finishResumeRamp.                                                         *)
TickEnd ==
    /\ tick.part = "l1" /\ tick.todo = <<>>
    /\ tick' = [tick EXCEPT !.part = "idle", !.eligible = {}]
    /\ ramp' = IF ramp.on /\ tick.eligible \subseteq ramp.done
               THEN [ramp EXCEPT !.on = FALSE, !.done = {}] ELSE ramp
    /\ UNCHANGED <<shape, conf, admin, gate, seen, due, health, reachOK, marks,
                   scheduled, pend, probes, left>>

Tick == \/ OnPaused \/ TickStart \/ TickEnd
        \/ NotDueL1 \/ RampFull \/ BeginL1 \/ FollowL1
        \/ SkipL2 \/ Piggyback \/ BeginL2 \/ RefuseL2

-----------------------------------------------------------------------------
(* The goroutine of a probe.                                                 *)

At(h, kind, pc) == probes[h].pc = pc /\ IsL1(h) = (kind = "l1")
To(h, pc)       == [probes EXCEPT ![h].pc = pc]

(* The last look before sending: the target is still enabled and the service *)
(* admits probes; otherwise nothing is sent and nothing concluded.           *)
MaySend(h) == /\ gate = "running" /\ UpOf(h) \in conf.ups
              /\ ~IsL1(h) => On(Target(h))

Send(h) ==
    LET p == probes[h]
        targets == {r \in RoutesOf(UpOf(h)) : On(r) /\ shape.timed}
    IN  /\ p.pc = "armed"
        /\ \/ /\ MaySend(h)
              /\ probes' = [probes EXCEPT ![h] =
                    [p EXCEPT !.pc = "sent", !.was = ~reachOK[UpOf(h)],
                              !.live = IF IsL1(h) THEN targets ELSE @]]
           \/ ~MaySend(h) /\ probes' = To(h, "finish")
        /\ UNCHANGED <<shape, conf, admin, run, tick, due, health, reachOK, marks,
                       scheduled, pend, left>>

(* Two failures in a row are enough, whatever reports them.                  *)
Failed(R) == [r \in Routes |->
                IF r \notin R THEN health[r]
                ELSE IF health[r] = "unknown" THEN "failing" ELSE "dead"]
Dead(u) == {r \in RoutesOf(u) : On(r) /\ health[r] = "dead"}

(* Nothing is concluded: the pause cancelled it, or it is of an old          *)
(* configuration, or what came cannot be read.                               *)
Ignored(h) ==
    /\ probes[h].pc = "sent"
    /\ MayIgnore \/ gate # "running" \/ probes[h].live = {} \/ IsL1(h)
    /\ probes' = To(h, "finish")
    /\ UNCHANGED <<shape, conf, admin, run, tick, due, health, reachOK, marks,
                   scheduled, pend, left>>

(* runL1: any response makes the upstream reachable, and wakes its dead      *)
(* routes if it was not.                                                     *)
Reached(h) ==
    LET u == UpOf(h) IN
    /\ At(h, "l1", "sent")
    /\ reachOK' = [reachOK EXCEPT ![u] = TRUE]
    /\ SetDue2(IF probes[h].was THEN Now(due2, Dead(u)) ELSE due2)
    /\ probes' = To(h, "finish")
    /\ UNCHANGED <<shape, conf, admin, run, tick, due1, health, marks,
                   scheduled, pend, left>>

(* propagateL1Failure: only to the routes noted before it was sent.          *)
Unreached(h) ==
    /\ At(h, "l1", "sent")
    /\ \E ok \in BOOLEAN : reachOK' = [reachOK EXCEPT ![UpOf(h)] = @ /\ ok]
    /\ SetHealth(Failed(probes[h].live))
    /\ probes' = To(h, "finish")
    /\ UNCHANGED <<shape, conf, admin, run, tick, due, marks, scheduled, pend, left>>

(* runL2 and, for a response, OnReachabilityRecovered.                       *)
Answered(h) ==
    LET p == probes[h] IN
    /\ At(h, "l2", "sent") /\ p.live # {}
    /\ SetHealth([health EXCEPT ![Target(h)] = "alive"])
    /\ reachOK' = [reachOK EXCEPT ![UpOf(h)] = TRUE]
    /\ SetDue2(IF reachOK[UpOf(h)] THEN due2 ELSE Now(due2, Dead(UpOf(h))))
    /\ probes' = To(h, "finish")
    /\ UNCHANGED <<shape, conf, admin, run, tick, due1, marks, scheduled, pend, left>>

Refused(h) ==
    /\ At(h, "l2", "sent") /\ probes[h].live # {}
    /\ SetHealth(Failed({Target(h)}))
    /\ probes' = To(h, "finish")
    /\ UNCHANGED <<shape, conf, admin, run, tick, due, reachOK, marks, scheduled, pend, left>>

CompleteL1(h) ==
    LET p == probes[h]
        next(r) == IF Unknown(r) /\ ~reachOK[UpOf(h)] THEN "fresh" ELSE Interval1(r)
    IN  /\ At(h, "l1", "finish")
        /\ SetDue1([r \in Routes |-> IF r \in p.with THEN next(r) ELSE due1[r]])
        /\ probes' = [probes EXCEPT ![h].pc = "ended", ![h].with = {}]
        /\ UNCHANGED <<shape, conf, admin, run, tick, due2, health, reachOK, marks,
                       scheduled, pend, left>>

CompleteL2(h) ==
    /\ At(h, "l2", "finish")
    /\ SetDue2([due2 EXCEPT ![Target(h)] = Interval2(Target(h))])
    /\ probes' = To(h, "ended")
    /\ UNCHANGED <<shape, conf, admin, run, tick, due1, health, reachOK, marks,
                   scheduled, pend, left>>

(* Mutant: whatever mark is there goes.                                      *)
EndL1AnyHold(h) ==
    /\ At(h, "l1", "ended")
    /\ mark1' = [mark1 EXCEPT ![UpOf(h)] = NoHold]
    /\ probes' = To(h, "note")
    /\ UNCHANGED <<shape, conf, admin, run, tick, due, health, reachOK, busy, mark2,
                   count, scheduled, pend, left>>

(* endL1 and endL2: the marks go only if they are this probe's.              *)
EndL1(h) ==
    LET u == UpOf(h) IN
    /\ At(h, "l1", "ended")
    /\ mark1' = IF mark1[u] = h THEN [mark1 EXCEPT ![u] = NoHold] ELSE mark1
    /\ probes' = To(h, IF mark1[u] = h THEN "note" ELSE "ramp")
    /\ UNCHANGED <<shape, conf, admin, run, tick, due, health, reachOK, busy, mark2,
                   count, scheduled, pend, left>>

EndL2(h) ==
    LET own == mark2[Target(h)] = h IN
    /\ At(h, "l2", "ended")
    /\ mark2' = IF own THEN [mark2 EXCEPT ![Target(h)] = NoHold] ELSE mark2
    /\ count' = IF own THEN count - 1 ELSE count
    /\ busy'  = IF busy[UpOf(h)] = h THEN [busy EXCEPT ![UpOf(h)] = NoHold] ELSE busy
    /\ probes' = IF own THEN To(h, "note") ELSE [probes EXCEPT ![h] = Idle]
    /\ UNCHANGED <<shape, conf, admin, run, tick, due, health, reachOK, mark1,
                   scheduled, pend, left>>

(* noteL1Finished: a trigger that came meanwhile invalidates the upstream.   *)
NoteL1(h) ==
    LET u == UpOf(h)
        probed == {r \in RoutesOf(u) : mark2[r] # NoHold}
    IN  /\ At(h, "l1", "note")
        /\ pend1' = pend1 \ {u}
        /\ IF u \in pend1
           THEN /\ reachOK' = [reachOK EXCEPT ![u] = TRUE]
                /\ pend2' = pend2 \cup probed
                /\ SetDue1(Now(due1, RoutesOf(u) \ probed))
                /\ SetDue2(Now(due2, RoutesOf(u) \ probed))
           ELSE UNCHANGED <<reachOK, pend2, due>>
        /\ probes' = To(h, "ramp")
        /\ UNCHANGED <<shape, conf, admin, run, tick, health, marks, scheduled, left>>

NoteL2(h) ==
    LET r == Target(h) IN
    /\ At(h, "l2", "note")
    /\ pend2' = pend2 \ {r}
    /\ SetDue2(IF r \in pend2 THEN Now(due2, {r}) ELSE due2)
    /\ probes' = [probes EXCEPT ![h] = Idle]
    /\ UNCHANGED <<shape, conf, admin, run, tick, due1, health, reachOK, marks,
                   scheduled, pend1, left>>

(* noteResumeL1Ended.                                                        *)
LeaveRamp(h) ==
    LET u == UpOf(h) IN
    /\ At(h, "l1", "ramp")
    /\ ramp' = IF probes[h].ramp /\ ramp.held[u] = h
               THEN [ramp EXCEPT !.held[u] = NoHold] ELSE ramp
    /\ probes' = [probes EXCEPT ![h] = Idle]
    /\ UNCHANGED <<shape, conf, admin, gate, seen, tick, due, health, reachOK, marks,
                   scheduled, pend, left>>

Probe(h) == \/ Send(h) \/ Ignored(h) \/ Reached(h) \/ Unreached(h)
            \/ Answered(h) \/ Refused(h)
            \/ CompleteL1(h) \/ EndL1(h) \/ NoteL1(h) \/ LeaveRamp(h)
            \/ CompleteL2(h) \/ EndL2(h) \/ NoteL2(h)
-----------------------------------------------------------------------------
(* Administrative writes: the row first, then one call after another.        *)

Calls(name, R) ==      \* a call for each route, in order
    [i \in 1 .. Cardinality(R) |-> <<name, SetToSeq(R)[i]>>]

Write(newConf, calls) ==
    /\ admin = <<>> /\ left.edits > 0
    /\ left' = [left EXCEPT !.edits = @ - 1]
    /\ conf' = newConf /\ admin' = calls
    /\ UNCHANGED <<shape, run, tick, due, health, reachOK, marks, scheduled, pend,
                   probes>>

EditRoute(r) ==        \* its model or its endpoint changes
    On(r) /\ Write(conf, << <<"reset", r>>, <<"look2", r>> >>)
DisableRoute(r) ==
    On(r) /\ Write([conf EXCEPT !.route[r] = "off"], <<>>)
EnableRoute(r) ==
    /\ conf.route[r] = "off"
    /\ Write([conf EXCEPT !.route[r] = "on"], << <<"reset", r>> >>)
DeleteRoute(r) ==
    /\ conf.route[r] # "gone"
    /\ Write([conf EXCEPT !.route[r] = "gone"],
             << <<"drop2", r>>, <<"unpend2", r>>, <<"reset", r>>, <<"look2", r>> >>)
CreateRoute(r) ==
    /\ conf.route[r] = "gone"
    /\ Write([route |-> [conf.route EXCEPT ![r] = "on"], ups |-> conf.ups \cup {Up(r)}],
             << <<"reset", r>>, <<"look2", r>> >>)
EditUpstream(u) ==
    LET R == {r \in RoutesOf(u) : conf.route[r] # "gone"}
    IN  /\ u \in conf.ups
        /\ Write(conf, Calls("reset", R) \o << <<"look1", u>> >> \o Calls("look2", R))
DeleteUpstream(u) ==
    LET R == {r \in RoutesOf(u) : conf.route[r] # "gone"}
    IN  /\ u \in conf.ups
        /\ Write([route |-> [r \in Routes |-> IF r \in R THEN "gone" ELSE conf.route[r]],
                  ups |-> conf.ups \ {u}],
                 << <<"drop1", u>>, <<"unpend1", u>> >> \o Calls("drop2", R)
                   \o Calls("unpend2", R) \o Calls("reset", R) \o << <<"look1", u>> >>)

Call(name) == admin # <<>> /\ Head(admin)[1] = name
Arg  == Head(admin)[2]
Done == admin' = Tail(admin)

(* ForgetUpstream and ForgetRoute, under Scheduler.mu and then under the     *)
(* lock of the pending marks.                                                *)
DropUpstream ==
    /\ Call("drop1") /\ Done
    /\ mark1' = [mark1 EXCEPT ![Arg] = NoHold] /\ busy' = [busy EXCEPT ![Arg] = NoHold]
    /\ scheduled' = scheduled \ {Arg}
    /\ UNCHANGED <<shape, conf, run, tick, due, health, reachOK, mark2, count, pend,
                   probes, left>>
DropRoute ==
    /\ Call("drop2") /\ Done /\ Dropped({Arg}, {})
    /\ UNCHANGED <<shape, conf, run, tick, due, health, reachOK, scheduled, pend,
                   probes, left>>
Unpend ==
    /\ Call("unpend1") \/ Call("unpend2")
    /\ Done /\ pend1' = pend1 \ {Arg} /\ pend2' = pend2 \ {Arg}
    /\ UNCHANGED <<shape, conf, run, tick, due, health, reachOK, marks, scheduled,
                   probes, left>>

(* Tracker.Forget: a route the tracker does not know is due at once.         *)
Reset ==
    /\ Call("reset") /\ Done /\ Forgotten({Arg})
    /\ SetDue1(Now(due1, {Arg})) /\ SetDue2(Now(due2, {Arg}))
    /\ UNCHANGED <<shape, conf, run, tick, reachOK, marks, scheduled, pend, left>>

(* InvalidateRoute and Trigger: the marks are read under one lock and acted  *)
(* upon under another.                                                       *)
Look ==
    /\ \/ Call("look2") /\ admin' = <<IF mark2[Arg] # NoHold THEN <<"mark2", Arg>>
                                      ELSE <<"trigger", Arg>> >> \o Tail(admin)
       \/ Call("look1") /\ admin' = (IF mark1[Arg] # NoHold THEN << <<"mark1", Arg>> >>
                                     ELSE <<>>) \o Tail(admin)
    /\ reachOK' = IF Call("look1") THEN [reachOK EXCEPT ![Arg] = TRUE] ELSE reachOK
    /\ UNCHANGED <<shape, conf, run, tick, due, health, marks, scheduled, pend,
                   probes, left>>
Mark ==
    /\ \/ Call("mark1") /\ pend1' = pend1 \cup {Arg} /\ UNCHANGED pend2
       \/ Call("mark2") /\ pend2' = pend2 \cup {Arg} /\ UNCHANGED pend1
    /\ Done
    /\ UNCHANGED <<shape, conf, run, tick, due, health, reachOK, marks, scheduled,
                   probes, left>>
TriggerRoute ==
    /\ Call("trigger") /\ Done
    /\ SetDue1(Now(due1, {Arg})) /\ SetDue2(Now(due2, {Arg}))
    /\ UNCHANGED <<shape, conf, run, tick, health, reachOK, marks, scheduled, pend,
                   probes, left>>

AdminCall == \/ DropUpstream \/ DropRoute \/ Unpend \/ Reset \/ Look \/ Mark
             \/ TriggerRoute
AdminWrite ==
    \/ \E r \in Routes : \/ EditRoute(r) \/ DisableRoute(r) \/ EnableRoute(r)
                         \/ DeleteRoute(r) \/ CreateRoute(r)
    \/ \E u \in Ups : EditUpstream(u) \/ DeleteUpstream(u)

(* Controller.Set: pause; and resume in three steps, the last of which opens *)
(* the admission of probes and starts the wave.                              *)
Pause ==
    /\ gate = "running" /\ left.pauses > 0
    /\ gate' = "paused" /\ left' = [left EXCEPT !.pauses = @ - 1]
    /\ UNCHANGED <<shape, conf, admin, seen, ramp, tick, due, health, reachOK, marks,
                   scheduled, pend, probes>>
PrepareResume ==
    /\ gate = "paused" /\ gate' = "prepared"
    /\ SetHealth(Demoted) /\ SetDue1(Spread) /\ SetDue2(Spread)
    /\ UNCHANGED <<shape, conf, admin, seen, ramp, tick, reachOK, marks, scheduled,
                   pend, probes, left>>
OpenGate ==
    /\ gate = "prepared" /\ gate' = "opened"
    /\ UNCHANGED <<shape, conf, admin, seen, ramp, tick, due, health, reachOK, marks,
                   scheduled, pend, probes, left>>
ResumeGradually ==
    /\ gate = "opened" /\ gate' = "running"
    /\ seen' = "running" /\ ramp' = NewRamp
    /\ UNCHANGED <<shape, conf, admin, tick, due, health, reachOK, marks, scheduled,
                   pend, probes, left>>
Resume == PrepareResume \/ OpenGate \/ ResumeGradually

Next == \/ Tick \/ \E h \in Holds : Probe(h)
        \/ \E r \in Routes : ElapseL1(r) \/ ElapseL2(r)
        \/ AdminWrite \/ AdminCall \/ Pause \/ Resume

(* The ticker fires and a goroutine goes on; a probe has a deadline; a       *)
(* handler that has begun makes its calls.                                   *)
Fairness == /\ WF_vars(Tick) /\ \A h \in Holds : WF_vars(Probe(h))
            /\ WF_vars(AdminCall) /\ WF_vars(Resume)
Spec == Init /\ [][Next]_vars
FairSpec == Spec /\ Fairness
-----------------------------------------------------------------------------
Alive(h) == probes[h].pc \notin {"idle", "note", "ramp"}

(* A mark is held by a probe that is still under way and will release it,    *)
(* whatever was deleted and created again meanwhile: no upstream and no      *)
(* route is shut out of probing for good.                                    *)
MarksHaveOwners ==
    /\ \A r \in Routes : mark2[r] # NoHold =>
          Alive(mark2[r]) /\ Target(mark2[r]) = r
    /\ \A u \in Ups : mark1[u] # NoHold => Alive(mark1[u]) /\ Target(mark1[u]) = u
    /\ \A u \in Ups : busy[u] # NoHold =>
          Alive(busy[u]) /\ UpOf(busy[u]) = u /\ mark2[Target(busy[u])] = busy[u]

(* The number of L2 probes counted against the limit is the number of routes *)
(* marked, and the routes of one existing upstream are probed one at a time; *)
(* a probe of a deleted route no longer counts.  The third write may end     *)
(* this: a tick that goes on with its old snapshot marks a route after it    *)
(* was deleted, deleting the upstream takes the mark of the upstream only,   *)
(* and when the upstream is there again another of its routes is probed      *)
(* beside it.                                                                *)
Edits == shape.edits - left.edits
MarkedOf(u) == {r \in RoutesOf(u) : mark2[r] # NoHold}
LimitKept ==
    /\ count = Cardinality({r \in Routes : mark2[r] # NoHold})
    /\ count <= shape.limit
    /\ Edits <= 2 =>
          \A u \in conf.ups : Cardinality(MarkedOf(u)) <= 1

(* Both: the marks and the count are those of the probes under way.          *)
MarksAddUp == MarksHaveOwners /\ LimitKept

(* A probe that ends takes no mark that is not its own.                      *)
OwnMarkOnly ==
    [][\A h \in Holds : probes[h].pc = "ended" /\ probes'[h].pc # "ended" =>
          /\ \A r \in Routes : mark2[r] # h => mark2'[r] = mark2[r]
          /\ \A u \in Ups : /\ mark1[u] # h => mark1'[u] = mark1[u]
                            /\ busy[u] # h => busy'[u] = busy[u]]_vars

DueNow(r) == due2[r] = "now"
Served(r) == \/ mark2[r] # NoHold \/ ~DueNow(r)
             \/ ~On(r) \/ ~reachOK[Up(r)] \/ gate # "running"

(* A route that is due is probed, or a request's success stands in for it,   *)
(* however often the others are due: unless it is disabled, its upstream is  *)
(* unreachable or the service is paused.                                     *)
DueIsServed == \A r \in Routes : DueNow(r) ~> Served(r)

(* A trigger that is held back is held back for a probe under way, whose end *)
(* makes it good.                                                            *)
PendingHasProbe ==
    \A r \in pend2 : \E h \in Holds : probes[h].pc # "idle" /\ Target(h) = r

(* The first probes after a resume come no more than the limit at a time.    *)
RampBounded ==
    Cardinality({h \in Holds : probes[h].ramp /\ probes[h].pc = "sent"}) <= shape.limit
=============================================================================
