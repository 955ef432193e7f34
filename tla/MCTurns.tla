------------------------------ MODULE MCTurns ------------------------------
(* Who waits gets its turn, side by side and small: the scheduler with time, *)
(* where what is due has to be served; the sequencer, whose callers sleep;   *)
(* and the recorders and the passive scan, whose flushes and ends have to    *)
(* return.  A behaviour is of one of the four.                               *)
EXTENDS Sequencer, PassiveScan, TLC

CONSTANTS s1, s2, p1,     \* callers of Sequencer
          r1, r2, u1, u2, \* routes and upstreams of Scheduler
          q1, q2, q3      \* requests of Records

VARIABLES part,
          \* of Scheduler
          shape, conf, admin, gate, lastRunning, tick, due1, due2, health,
          reachOK, mark1, busy, mark2, count, scheduled, pend1, pend2, ramp,
          probes, left,
          \* of Records
          recording, samples, logs, quota, handler, lines, writer, tally, stop,
          flush, bounds

svars == <<shape, conf, admin, gate, lastRunning, tick, due1, due2, health,
           reachOK, mark1, busy, mark2, count, scheduled, pend1, pend2, ramp,
           probes, left>>

recordVars == <<recording, samples, logs, quota, handler, lines, writer, tally,
                stop, flush, bounds>>

(* Two routes of one upstream or of two, with time; no edits, no pauses, and *)
(* the goroutine of a probe ends before the next of its target starts.       *)
Turn(station, limit) ==
    [up |-> station, limit |-> limit, kinds |-> {"l2"}, timed |-> TRUE,
     edits |-> 0, pauses |-> 0, slots |-> 1]
Turns == {Turn([r \in {r1, r2} |-> u1], 2), Turn(r1 :> u1 @@ r2 :> u2, 1)}

S == INSTANCE Scheduler WITH
        Routes <- {r1, r2}, Ups <- {u1, u2},
        Shapes <- Turns, Slots <- 1, MayIgnore <- FALSE, seen <- lastRunning

(* Each recorder to its end, with a flush before, and one statement failing. *)
Ending(k) == [kinds |-> {k}, there |-> <<q2, q3>>, ends |-> TRUE,
              ages |-> FALSE, edits |-> 0, faults |-> 1]

L == INSTANCE Records WITH
        Requests <- {q1, q2, q3},
        Attempts <- q1 :> 2 @@ q2 :> 1 @@ q3 :> 1,
        Bodies <- q1 :> <<2, 1>> @@ q2 :> <<1>> @@ q3 :> <<1>>,
        Quotas <- <<6, 1>>, KeepSamples <- 1, KeepLogs <- 1, MaxPins <- 1,
        QueueSize <- 1, PruneEvery <- 1, Shapes <- {Ending("log"), Ending("sample")},
        shape <- recording, queue <- lines, count <- tally, left <- bounds

Schedules == part = "scheduler"
Draws     == part = "sequencer"
Records   == part = "records"
Scans     == part = "scan"

\* What does not move starts from one state.
PartsInit ==
    /\ Init /\ S!Init /\ L!Init /\ ScanInit
    /\ part \in {"scheduler", "sequencer", "records", "scan"}
    /\ ~Schedules => shape.limit = 1
    /\ ~Records => recording = Ending("log")

Drw(A) == Draws     /\ A /\ UNCHANGED <<part, svars, recordVars, scanVars>>
Sch(A) == Schedules /\ A /\ UNCHANGED <<part, vars, recordVars, scanVars>>
Rec(A) == Records   /\ A /\ UNCHANGED <<part, vars, svars, scanVars>>
Scn(A) == Scans     /\ A /\ UNCHANGED <<part, vars, svars, recordVars>>

PartsNext == Drw(NextStep) \/ Sch(S!Next) \/ Rec(L!Next) \/ Scn(ScanNext)

allVars == <<part, vars, svars, recordVars, scanVars>>

(* The fairness of each: as the parts exclude each other, and so do the      *)
(* kinds of an ending, fairness of a choice among them is fairness of each.  *)
(* The steps of one goroutine that exclude each other are one choice, too.   *)
Prefetch    == Reserve \/ ReserveFails \/ Deliver
Asks(c)     == TakeOrder(c) \/ Refuse(c) \/ Sleep(c)
Sends == \E k \in {"sample", "log"} : L!FlushSends(k)
Over  == \E k \in {"sample", "log"} : L!FlushOver(k)
PartsFair ==
    /\ WF_allVars(Drw(Prefetch) \/ Sch(S!Tick) \/ Rec(L!Writers) \/ Scn(Worker))
    /\ WF_allVars(Drw(AfterFunc(p1)) \/ Sch(S!AdminCall) \/ Rec(Over) \/ Scn(Closed))
    /\ WF_allVars(Drw(Asks(p1)) \/ Sch(S!Resume) \/ Scn(FlushOver))
    /\ WF_allVars(Drw(AfterFunc(s1)) \/ Sch(S!Probe(<<r1, 1>>)))
    /\ WF_allVars(Drw(AfterFunc(s2)) \/ Sch(S!Probe(<<r2, 1>>)))
    /\ WF_allVars(Drw(Asks(s1))) /\ WF_allVars(Drw(Asks(s2)))
    /\ SF_allVars(Rec(Sends) \/ Scn(FlushSends))

PartsSpec == PartsInit /\ [][PartsNext]_allVars /\ PartsFair

-----------------------------------------------------------------------------
(* A caller that sleeps wakes up (Sequencer: SleepersWake; a real request    *)
(* never sleeps), a route that is due is probed, however often the others    *)
(* are (Scheduler: DueIsServed), flushes return and what was closed ends     *)
(* (Records: RecordersEnd, PassiveScan: ObserverEnds).                       *)
WaitersServed ==
    /\ \/ pc[s1] = "asleep"
       \/ Schedules /\ S!DueNow(r1)
       \/ Records /\ L!Flushing
       \/ Scans /\ flushed.pc = "sending"
     ~> /\ pc[s1] # "asleep"
        /\ Schedules => S!Served(r1)
        /\ Records => ~L!Flushing
        /\ Scans => flushed.pc = "returned"
    /\ \/ pc[s2] = "asleep"
       \/ Schedules /\ S!DueNow(r2)
       \/ Records /\ stop.called
       \/ Scans /\ closing
     ~> /\ pc[s2] # "asleep"
        /\ Schedules => S!Served(r2)
        /\ Records => L!AllDone
        /\ Scans => ~closing
=============================================================================
