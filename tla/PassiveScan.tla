----------------------------- MODULE PassiveScan -----------------------------
(* security.Observer: copies of what upstreams answer, scanned one by one    *)
(* off the forwarding path (security/observer.go, security/capture.go).  A   *)
(* capture takes a slot before it keeps anything and gives it back when its  *)
(* job is scanned, dropped, or not to be scanned at all; a slot that is not  *)
(* given back is lost for good, and one given back twice blocks its giver    *)
(* with the observer's lock in hand.                                         *)
EXTENDS Naturals, FiniteSets, SequencesExt

CONSTANTS
    Captures,    \* responses that are captured
    QueueSize    \* of the channel, before the worker blocks whoever sends

VARIABLES
    capture,  \* none: admission was refused; open; completing; ended
    slots,    \* taken
    jobs,     \* the queue: jobs and barriers
    worker,   \* [pc, job]
    shut,     \* closed, set with stop under the lock
    closing,  \* Close waits for the worker
    flushed   \* Flush: [pc, covers]

scanVars == <<capture, slots, jobs, worker, shut, closing, flushed>>

Barrier == "barrier"
NoJob   == "none"

\* NewObserver takes sixty-four for a queue of no length.
ASSUME ScanAssumption ==
    /\ QueueSize \in Nat \ {0}
    /\ Barrier \notin Captures /\ NoJob \notin Captures

ScanInit ==
    /\ capture = [c \in Captures |-> "new"] /\ slots = 0 /\ jobs = <<>>
    /\ worker = [pc |-> "select", job |-> NoJob]
    /\ shut = FALSE /\ closing = FALSE
    /\ flushed = [pc |-> "no", covers |-> {}]

Release == slots > 0 /\ slots' = slots - 1

(* Wrap: the slots are one more than the queue is long.                      *)
Wrap(c) ==
    /\ capture[c] = "new"
    /\ IF shut \/ slots > QueueSize
       THEN capture' = [capture EXCEPT ![c] = "none"] /\ UNCHANGED slots
       ELSE capture' = [capture EXCEPT ![c] = "open"] /\ slots' = slots + 1
    /\ UNCHANGED <<jobs, worker, shut, closing, flushed>>

(* Complete, the first time: a response that was not committed gives its     *)
(* slot back; the job of one that was goes to the queue, with the lock of    *)
(* the observer but no longer that of the capture.                           *)
Discard(c) ==
    /\ capture[c] = "open" /\ Release
    /\ capture' = [capture EXCEPT ![c] = "ended"]
    /\ UNCHANGED <<jobs, worker, shut, closing, flushed>>
CommitCapture(c) ==
    /\ capture[c] = "open" /\ capture' = [capture EXCEPT ![c] = "completing"]
    /\ UNCHANGED <<slots, jobs, worker, shut, closing, flushed>>
EnqueueLate(c) ==       \* Mutant: the queue is not closed
    /\ capture[c] = "completing" /\ capture' = [capture EXCEPT ![c] = "ended"]
    /\ IF Len(jobs) = QueueSize THEN Release /\ UNCHANGED jobs
       ELSE jobs' = Append(jobs, c) /\ UNCHANGED slots
    /\ UNCHANGED <<worker, shut, closing, flushed>>
EnqueueOwned(c) ==
    /\ capture[c] = "completing" /\ capture' = [capture EXCEPT ![c] = "ended"]
    /\ IF shut \/ Len(jobs) = QueueSize THEN Release /\ UNCHANGED jobs
       ELSE jobs' = Append(jobs, c) /\ UNCHANGED slots
    /\ UNCHANGED <<worker, shut, closing, flushed>>

-----------------------------------------------------------------------------
(* The worker.  Once the observer is closed it may still take a job as       *)
(* usual; then it drains the queue and ends.                                 *)
TakeJob ==
    /\ worker.pc \in {"select", "drain"} /\ jobs # <<>>
    /\ jobs' = Tail(jobs)
    /\ IF Head(jobs) = Barrier
       THEN /\ flushed' = [flushed EXCEPT !.pc = IF @ = "waiting" THEN "returned" ELSE @]
            /\ UNCHANGED worker
       ELSE /\ worker' = [pc |-> IF worker.pc = "drain" THEN "last" ELSE "scan",
                          job |-> Head(jobs)]
            /\ UNCHANGED flushed
    /\ UNCHANGED <<capture, slots, shut, closing>>
Scan ==
    /\ worker.pc \in {"scan", "last"} /\ Release
    /\ worker' = [pc |-> IF worker.pc = "last" THEN "drain" ELSE "select", job |-> NoJob]
    /\ UNCHANGED <<capture, jobs, shut, closing, flushed>>
StopScan ==
    /\ worker.pc = "select" /\ shut /\ worker' = [worker EXCEPT !.pc = "drain"]
    /\ UNCHANGED <<capture, slots, jobs, shut, closing, flushed>>
Done ==
    /\ worker.pc = "drain" /\ jobs = <<>> /\ worker' = [worker EXCEPT !.pc = "done"]
    /\ UNCHANGED <<capture, slots, jobs, shut, closing, flushed>>
Worker == TakeJob \/ Scan \/ StopScan \/ Done

CloseScan ==
    /\ ~shut /\ shut' = TRUE /\ closing' = TRUE
    /\ UNCHANGED <<capture, slots, jobs, worker, flushed>>
Closed ==
    /\ closing /\ worker.pc = "done" /\ closing' = FALSE
    /\ UNCHANGED <<capture, slots, jobs, worker, shut, flushed>>

Flush ==
    /\ flushed.pc = "no"
    /\ flushed' = [pc |-> "sending", covers |-> {c \in Captures : capture[c] = "ended"}]
    /\ UNCHANGED <<capture, slots, jobs, worker, shut, closing>>
FlushSends ==
    /\ flushed.pc = "sending" /\ Len(jobs) < QueueSize
    /\ flushed' = [flushed EXCEPT !.pc = "waiting"] /\ jobs' = Append(jobs, Barrier)
    /\ UNCHANGED <<capture, slots, worker, shut, closing>>
FlushOver ==
    /\ flushed.pc \in {"sending", "waiting"} /\ worker.pc = "done"
    /\ flushed' = [flushed EXCEPT !.pc = "returned"]
    /\ UNCHANGED <<capture, slots, jobs, worker, shut, closing>>

Completes(c) == Discard(c) \/ CommitCapture(c) \/ EnqueueOwned(c)
ScanNext ==
    \/ \E c \in Captures : Wrap(c) \/ Completes(c)
    \/ Worker \/ CloseScan \/ Closed \/ Flush \/ FlushSends \/ FlushOver

ScanFairness == /\ WF_scanVars(Worker) /\ WF_scanVars(Closed)
                /\ WF_scanVars(FlushOver) /\ SF_scanVars(FlushSends)
ScanSpec == ScanInit /\ [][ScanNext]_scanVars /\ ScanFairness

-----------------------------------------------------------------------------
Holding(c) == capture[c] \in {"open", "completing"}
Queued     == ToSet(jobs) \ {Barrier}

ScanTypeOK ==
    /\ capture \in [Captures -> {"new", "none", "open", "completing", "ended"}]
    /\ slots \in 0 .. QueueSize + 1
    /\ jobs \in Seq(Captures \cup {Barrier}) /\ Len(jobs) <= QueueSize
    /\ worker \in [pc : {"select", "scan", "drain", "last", "done"},
                   job : Captures \cup {NoJob}]
    /\ shut \in BOOLEAN /\ closing \in BOOLEAN
    /\ flushed \in [pc : {"no", "sending", "waiting", "returned"},
                    covers : SUBSET Captures]

(* The slots taken are those of the open captures, of the jobs in the queue  *)
(* and of the one that is scanned: none is lost, none is given back twice,   *)
(* whatever is discarded, dropped or completed while the observer closes;    *)
(* and no giver finds none to give back.                                     *)
SlotsKept ==
    slots = Cardinality({c \in Captures : Holding(c)}) + Cardinality(Queued)
              + Cardinality({worker.job} \ {NoJob})

(* When the worker has ended, no job is left; when Flush has returned, none  *)
(* that was there before is.                                                 *)
ScansAreDone ==
    /\ worker.pc = "done" => Queued = {}
    /\ flushed.pc = "returned" => flushed.covers \cap (Queued \cup {worker.job}) = {}

CapturesAddUp == SlotsKept /\ ScansAreDone

(* Close and Flush return, although captures may stay open for ever.         *)
ObserverEnds == (closing ~> ~closing) /\ (flushed.pc = "sending" ~> flushed.pc = "returned")
=============================================================================
