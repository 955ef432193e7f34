---------------------------- MODULE TrafficObserver ----------------------------
(* The observers of proxied attempts and what they may hold: a fixed number  *)
(* of leases, one budget of copied bytes for the process, a bounded queue    *)
(* per attempt and one bounded queue of results (probe/traffic.go,           *)
(* traffic_decode.go, traffic_flush.go).                                     *)
(*                                                                           *)
(* The proxy hands over headers and chunks and never waits.  A worker per    *)
(* attempt reads its queue, decodes a compressed body through a reader of    *)
(* that queue, and submits one observation; the persistence worker records   *)
(* it.  A chunk is one byte; what is decoded from it is abstracted.          *)
EXTENDS Integers, Sequences, FiniteSets

CONSTANTS Attempts,
          Leases,       \* full observers at a time
          Budget,       \* bytes copied and not yet consumed, all attempts
          OwnBudget,    \* bytes one attempt may ever copy
          OwnQueue,     \* events one attempt may queue
          PersistQueue, \* results waiting for the persistence worker
          MaxChunks     \* bound: chunks of one answer

VARIABLES ob,        \* per attempt: what the proxy's side knows
          queue,     \* per attempt: the events for its worker
          wk,        \* per attempt: its worker
          copyBytes, leases, active, stopping,
          persist,   \* the results waiting to be recorded, and barriers
          result,    \* per attempt: what became of its observation
          run,       \* the persistence worker
          flush      \* one caller of Flush

vars == <<ob, queue, wk, copyBytes, leases, active, stopping, persist, result,
          run, flush>>
proxySide == <<ob, queue>>
service == <<persist, result, run, flush>>

Free == -1      \* nobody is inside TryChunk
Barrier == "barrier"

ASSUME TrafficAssumption ==
    /\ IsFiniteSet(Attempts) /\ Barrier \notin Attempts
    /\ Leases \in Nat /\ Budget \in Nat /\ OwnBudget \in Nat
    /\ OwnQueue \in Nat /\ PersistQueue \in Nat /\ MaxChunks \in Nat

NoWorker == [at |-> "none", back |-> "loop", held |-> 0, read |-> 0,
             failed |-> FALSE, eof |-> FALSE]

Init ==
    /\ ob = [a \in Attempts |->
              [phase |-> "none", full |-> FALSE, incomplete |-> FALSE,
               heads |-> FALSE, used |-> 0, wire |-> 0, cur |-> Free]]
    /\ queue = [a \in Attempts |-> <<>>]
    /\ wk = [a \in Attempts |-> NoWorker]
    /\ copyBytes = 0
    /\ leases = Leases
    /\ active = {}
    /\ stopping = FALSE
    /\ persist = <<>>
    /\ result = [a \in Attempts |-> "none"]
    /\ run = "up"
    /\ flush = [at |-> "none", idle |-> FALSE, covers |-> {}]

Stopped(a) == ob[a].phase = "finished"
Knows(a, o) == ob' = [ob EXCEPT ![a] = o]
Moves(a, w) == wk' = [wk EXCEPT ![a] = w]

(* queueCapabilityObservation: never waits; the select between the closed    *)
(* stop channel and a queue with room takes either.                          *)
Submit(a) ==
    \/ /\ Len(persist) < PersistQueue
       /\ persist' = Append(persist, a)
       /\ result' = [result EXCEPT ![a] = "queued"]
    \/ /\ stopping \/ Len(persist) = PersistQueue
       /\ result' = [result EXCEPT ![a] = "settled"]
       /\ UNCHANGED persist

-------------------------------------------------------------------------------
(* The proxy's side.                                                         *)

(* PrepareAttempt: without a lease the attempt is observed without its body. *)
PrepareAttempt(a) ==
    /\ ob[a].phase = "none" /\ ~stopping
    /\ IF leases > 0
       THEN /\ leases' = leases - 1
            /\ Knows(a, [ob[a] EXCEPT !.phase = "prepared", !.full = TRUE])
       ELSE /\ UNCHANGED leases
            /\ Knows(a, [ob[a] EXCEPT !.phase = "open"])
    /\ UNCHANGED <<queue, wk, copyBytes, active, stopping, service>>

(* Mutant: the lease of an attempt turned away is not given back.            *)
RegisterKeepsLease(a) ==
    /\ ob[a].phase = "prepared"
    /\ IF stopping
       THEN Knows(a, [ob[a] EXCEPT !.phase = "noop"]) /\ UNCHANGED <<wk, active>>
       ELSE /\ Knows(a, [ob[a] EXCEPT !.phase = "open"])
            /\ Moves(a, [wk[a] EXCEPT !.at = "loop"])
            /\ active' = active \cup {a}
    /\ UNCHANGED <<queue, copyBytes, leases, stopping, service>>

(* The stop channel was read before the lock: an attempt that comes late is  *)
(* turned away with its lease given back.                                    *)
Register(a) ==
    /\ ob[a].phase = "prepared"
    /\ IF stopping
       THEN /\ Knows(a, [ob[a] EXCEPT !.phase = "noop"])
            /\ leases' = leases + 1
            /\ UNCHANGED <<wk, active>>
       ELSE /\ Knows(a, [ob[a] EXCEPT !.phase = "open"])
            /\ Moves(a, [wk[a] EXCEPT !.at = "loop"])
            /\ active' = active \cup {a}
            /\ UNCHANGED leases
    /\ UNCHANGED <<queue, copyBytes, stopping, service>>

Mine(a) == ob[a].phase = "open" /\ ob[a].cur = Free

(* TryHeaders: too many of them, or a full queue, make it incomplete.        *)
TryHeaders(a) ==
    /\ Mine(a) /\ ~ob[a].heads
    /\ \/ /\ ob[a].full /\ Len(queue[a]) < OwnQueue
          /\ queue' = [queue EXCEPT ![a] = Append(@, "headers")]
          /\ Knows(a, [ob[a] EXCEPT !.heads = TRUE])
       \/ /\ Knows(a, [ob[a] EXCEPT !.heads = TRUE, !.incomplete = TRUE])
          /\ UNCHANGED queue
    /\ UNCHANGED <<wk, copyBytes, leases, active, stopping, service>>

(* TryChunk, up to the first load of the budget's counter.  A chunk of an    *)
(* attempt that is incomplete or has no lease is counted and left alone.     *)
TryChunk(a) ==
    /\ Mine(a) /\ ob[a].heads /\ ob[a].wire < MaxChunks
    /\ ob[a].full /\ ~ob[a].incomplete
    /\ LET o == [ob[a] EXCEPT !.wire = @ + 1] IN
       Knows(a, IF o.used + 1 > OwnBudget \/ copyBytes + 1 > Budget
                THEN [o EXCEPT !.incomplete = TRUE]
                ELSE [o EXCEPT !.cur = copyBytes])
    /\ UNCHANGED <<queue, wk, copyBytes, leases, active, stopping, service>>

(* A full queue gives the byte back within the same call.                    *)
Enqueue(a) ==
    IF Len(queue[a]) < OwnQueue
    THEN /\ copyBytes' = copyBytes + 1
         /\ queue' = [queue EXCEPT ![a] = Append(@, "chunk")]
         /\ Knows(a, [ob[a] EXCEPT !.cur = Free, !.used = @ + 1])
    ELSE /\ Knows(a, [ob[a] EXCEPT !.cur = Free, !.incomplete = TRUE])
         /\ UNCHANGED <<copyBytes, queue>>

(* The compare-and-swap, and the next load when it fails.                    *)
Reserve(a) ==
    /\ ob[a].cur # Free
    /\ CASE copyBytes = ob[a].cur -> Enqueue(a)
         [] copyBytes # ob[a].cur /\ copyBytes + 1 > Budget ->
              /\ Knows(a, [ob[a] EXCEPT !.cur = Free, !.incomplete = TRUE])
              /\ UNCHANGED <<copyBytes, queue>>
         [] OTHER -> /\ Knows(a, [ob[a] EXCEPT !.cur = copyBytes])
                     /\ UNCHANGED <<copyBytes, queue>>
    /\ UNCHANGED <<wk, leases, active, stopping, service>>

(* Finish, by the proxy or by the shutdown: once; it closes the attempt's    *)
(* stop channel, and submits itself only where there is no worker to do it.  *)
Finish(a) ==
    /\ Mine(a)
    /\ Knows(a, [ob[a] EXCEPT !.phase = "finished"])
    /\ IF ob[a].full THEN UNCHANGED <<persist, result>> ELSE Submit(a)
    /\ UNCHANGED <<queue, wk, copyBytes, leases, active, stopping, run, flush>>

-------------------------------------------------------------------------------
(* The worker of an attempt.                                                 *)

At(a, place) == wk[a].at = place

(* consume: a chunk is decoded unless decoding has failed, and its byte is   *)
(* given back on every path; the headers of a compressed answer hand the     *)
(* queue over to the decoder's reader.  A panic ends the loop.               *)
Consume(a) ==
    LET event == Head(queue[a])
        w == wk[a] IN
    /\ queue' = [queue EXCEPT ![a] = Tail(@)]
    /\ copyBytes' = IF event = "chunk" THEN copyBytes - 1 ELSE copyBytes
    /\ \/ Moves(a, [w EXCEPT !.read = IF event = "chunk" /\ ~w.failed THEN @ + 1
                                      ELSE @])
       \/ Moves(a, [w EXCEPT !.failed = TRUE])
       \/ event = "headers" /\ Moves(a, [w EXCEPT !.at = "poll", !.back = w.at])
       \/ Moves(a, [w EXCEPT !.at = "panic", !.failed = TRUE])

Take(a) ==
    /\ At(a, "loop") \/ At(a, "closing")
    /\ queue[a] # <<>>
    /\ Consume(a)
    /\ UNCHANGED <<ob, leases, active, stopping, service>>

(* The stop channel, then what is left in the queue.                         *)
SeeStop(a) ==
    /\ At(a, "loop") /\ Stopped(a)
    /\ Moves(a, [wk[a] EXCEPT !.at = "closing"])
    /\ UNCHANGED <<proxySide, copyBytes, leases, active, stopping, service>>

(* trafficQueueReader.Read: the queue is looked at first, the stop channel   *)
(* second, and only then does it wait for either.                            *)
Got(a) == IF Head(queue[a]) = "chunk"
          THEN [wk[a] EXCEPT !.at = "decode", !.held = 1]
          ELSE [wk[a] EXCEPT !.at = "poll"]

Poll(a) ==
    /\ At(a, "poll")
    /\ IF queue[a] # <<>>
       THEN Moves(a, Got(a)) /\ queue' = [queue EXCEPT ![a] = Tail(@)]
       ELSE Moves(a, [wk[a] EXCEPT !.at = "empty"]) /\ UNCHANGED queue
    /\ UNCHANGED <<ob, copyBytes, leases, active, stopping, service>>

PollStop(a) ==
    /\ At(a, "empty")
    /\ Moves(a, IF Stopped(a) THEN [wk[a] EXCEPT !.at = wk[a].back, !.eof = TRUE]
                ELSE [wk[a] EXCEPT !.at = "wait"])
    /\ UNCHANGED <<proxySide, copyBytes, leases, active, stopping, service>>

(* Mutant: the reader waits for the queue alone.                             *)
WaitQueue(a) ==
    /\ At(a, "wait")
    /\ queue[a] # <<>>
    /\ Moves(a, Got(a)) /\ queue' = [queue EXCEPT ![a] = Tail(@)]
    /\ UNCHANGED <<ob, copyBytes, leases, active, stopping, service>>

Wait(a) ==
    /\ At(a, "wait")
    /\ \/ /\ queue[a] # <<>>
          /\ Moves(a, Got(a)) /\ queue' = [queue EXCEPT ![a] = Tail(@)]
       \/ /\ Stopped(a)
          /\ Moves(a, [wk[a] EXCEPT !.at = "poll"]) /\ UNCHANGED queue
    /\ UNCHANGED <<ob, copyBytes, leases, active, stopping, service>>

(* The decoder has read the chunk: its byte is given back, and it goes on,   *)
(* gives up or panics.                                                       *)
Decode(a) ==
    /\ At(a, "decode")
    /\ copyBytes' = copyBytes - wk[a].held
    /\ LET w == [wk[a] EXCEPT !.held = 0] IN
       \/ Moves(a, [w EXCEPT !.at = "poll", !.read = @ + 1])
       \/ Moves(a, [w EXCEPT !.at = wk[a].back, !.failed = TRUE])
       \/ Moves(a, [w EXCEPT !.at = "panic", !.failed = TRUE])
    /\ UNCHANGED <<proxySide, leases, active, stopping, service>>

Chunks(q) == {i \in DOMAIN q : q[i] = "chunk"}

(* The deferred call, reached after the loop and after a panic: it waits for *)
(* the end of the attempt and empties the queue.                             *)
Leftovers(a) ==
    /\ \/ At(a, "panic") /\ Stopped(a)
       \/ At(a, "closing") /\ queue[a] = <<>>
    /\ copyBytes' = copyBytes - Cardinality(Chunks(queue[a]))
    /\ queue' = [queue EXCEPT ![a] = <<>>]
    /\ Moves(a, [wk[a] EXCEPT !.at = "lease"])
    /\ UNCHANGED <<ob, leases, active, stopping, service>>

(* active is empty for the first time since a Flush looked.                  *)
Idles == flush' = [flush EXCEPT !.idle = @ \/ (flush.at = "waiting" /\ active' = {})]

(* Mutant: the attempt leaves the active ones before it has submitted.       *)
GiveBackLeaves(a) ==
    /\ At(a, "lease")
    /\ leases' = leases + 1
    /\ active' = active \ {a} /\ Idles
    /\ Moves(a, [wk[a] EXCEPT !.at = "submit"])
    /\ UNCHANGED <<proxySide, copyBytes, stopping, persist, result, run>>

GiveBack(a) ==
    /\ At(a, "lease")
    /\ leases' = leases + 1
    /\ Moves(a, [wk[a] EXCEPT !.at = "submit"])
    /\ UNCHANGED <<proxySide, copyBytes, active, stopping, service>>

SubmitResult(a) ==
    /\ At(a, "submit")
    /\ Submit(a)
    /\ Moves(a, [wk[a] EXCEPT !.at = "leave"])
    /\ UNCHANGED <<proxySide, copyBytes, leases, active, stopping, run, flush>>

Leave(a) ==
    /\ At(a, "leave")
    /\ active' = active \ {a} /\ Idles
    /\ Moves(a, [NoWorker EXCEPT !.at = "gone"])
    /\ Knows(a, [ob[a] EXCEPT !.used = 0, !.wire = 0])
    /\ UNCHANGED <<queue, copyBytes, leases, stopping, persist, result, run>>

Worker(a) == \/ Take(a) \/ SeeStop(a) \/ Poll(a) \/ PollStop(a) \/ Wait(a)
             \/ Decode(a) \/ Leftovers(a) \/ GiveBack(a) \/ SubmitResult(a)
             \/ Leave(a)

-------------------------------------------------------------------------------
(* The persistence worker, the shutdown and a flush.                         *)

(* persistOne: recorded, or given up with an error or a panic: settled.      *)
PersistOne ==
    /\ run \in {"up", "draining"} /\ persist # <<>>
    /\ persist' = Tail(persist)
    /\ IF Head(persist) = Barrier
       THEN /\ flush' = [flush EXCEPT !.at = IF @ = "queued" THEN "ok" ELSE @]
            /\ UNCHANGED result
       ELSE /\ result' = [result EXCEPT ![Head(persist)] = "settled"]
            /\ UNCHANGED flush
    /\ UNCHANGED <<proxySide, wk, copyBytes, leases, active, stopping, run>>

(* Close or the end of the service: no more attempts, the active ones are    *)
(* finished (Finish), then a bounded wait for their workers.                 *)
Stop ==
    /\ run = "up"
    /\ run' = "stopping" /\ stopping' = TRUE
    /\ UNCHANGED <<proxySide, wk, copyBytes, leases, active, persist, result, flush>>

(* Two bounded waits: for the workers, then for the queue.                   *)
StopWaited ==
    /\ run \in {"stopping", "draining"}
    /\ run' = IF run = "stopping" THEN "draining" ELSE "down"
    /\ UNCHANGED <<proxySide, wk, copyBytes, leases, active, stopping, persist,
                   result, flush>>

(* Flush takes the channel that closes when the workers are gone, waits for  *)
(* it and sends a barrier through the queue.                                 *)
Flush ==
    /\ flush.at = "none"
    /\ flush' = [at |-> "waiting", idle |-> active = {},
                 covers |-> {a \in Attempts : Stopped(a)}]
    /\ UNCHANGED <<proxySide, wk, copyBytes, leases, active, stopping, persist,
                   result, run>>

FlushError == [at |-> "error", idle |-> FALSE, covers |-> {}]

FlushBarrier ==
    /\ flush.at = "waiting" /\ flush.idle
    /\ \/ /\ Len(persist) < PersistQueue
          /\ persist' = Append(persist, Barrier)
          /\ flush' = [flush EXCEPT !.at = "queued"]
       \/ /\ stopping
          /\ flush' = FlushError
          /\ UNCHANGED persist
    /\ UNCHANGED <<proxySide, wk, copyBytes, leases, active, stopping, result, run>>

(* The caller's deadline.                                                    *)
FlushGivesUp ==
    /\ flush.at \in {"waiting", "queued"}
    /\ flush' = FlushError
    /\ UNCHANGED <<proxySide, wk, copyBytes, leases, active, stopping, persist,
                   result, run>>

Next == \/ \E a \in Attempts :
              \/ PrepareAttempt(a) \/ Register(a) \/ TryHeaders(a) \/ TryChunk(a)
              \/ Reserve(a) \/ Finish(a) \/ Worker(a)
        \/ PersistOne \/ Stop \/ StopWaited
        \/ Flush \/ FlushBarrier \/ FlushGivesUp

(* A worker that can go on does: nothing is asked of the proxy.              *)
Spec == /\ Init /\ [][Next]_vars
        /\ \A a \in Attempts : WF_vars(Worker(a))

-------------------------------------------------------------------------------
Observers == [phase : {"none", "prepared", "open", "noop", "finished"},
              full : BOOLEAN, incomplete : BOOLEAN, heads : BOOLEAN,
              used : Nat, wire : Nat, cur : Int]
Workers == [at : {"none", "loop", "closing", "poll", "empty", "wait", "decode",
                  "panic", "lease", "submit", "leave", "gone"},
            back : {"loop", "closing"}, held : {0, 1}, read : Nat,
            failed : BOOLEAN, eof : BOOLEAN]
Events == {"headers", "chunk"}
Flushes == [at : {"none", "waiting", "queued", "ok", "error"}, idle : BOOLEAN,
            covers : SUBSET Attempts]

TypeOK ==
    /\ ob \in [Attempts -> Observers]
    /\ queue \in [Attempts -> Seq(Events)]
    /\ wk \in [Attempts -> Workers]
    /\ copyBytes \in Int /\ leases \in Int
    /\ active \subseteq Attempts /\ stopping \in BOOLEAN
    /\ persist \in Seq(Attempts \cup {Barrier})
    /\ result \in [Attempts -> {"none", "queued", "settled"}]
    /\ run \in {"up", "stopping", "draining", "down"}
    /\ flush \in Flushes

(* No queue and no attempt's share is above its limit.                       *)
WithinLimits ==
    /\ \A a \in Attempts : Len(queue[a]) <= OwnQueue /\ ob[a].used <= OwnBudget
    /\ Len(persist) <= PersistQueue

(* The bytes somebody holds: each by its place in a queue, or by place 0 in  *)
(* the hands of the decoder's reader.                                        *)
Held ==
    {h \in Attempts \X (0 .. OwnQueue) :
        IF h[2] = 0 THEN wk[h[1]].held = 1
        ELSE h[2] <= Len(queue[h[1]]) /\ queue[h[1]][h[2]] = "chunk"}

(* The counter is exactly the bytes that queues and readers hold, over       *)
(* decode failures, panics and shutdown, and never above the budget, however *)
(* many attempts load and swap it at once.                                   *)
BudgetKept ==
    /\ copyBytes = Cardinality(Held)
    /\ copyBytes <= Budget

(* Every lease is free or with one attempt that has not ended: none is lost  *)
(* to an attempt turned away by the shutdown or to a panic.                  *)
Lent == {a \in Attempts :
            \/ ob[a].phase = "prepared"
            \/ ob[a].full /\ wk[a].at \notin {"none", "submit", "leave", "gone"}}
LeasesKept == leases \in 0 .. Leases /\ leases + Cardinality(Lent) = Leases

(* The two accounts of what attempts borrow.                                 *)
AccountsKept == BudgetKept /\ LeasesKept

(* A flush that answers has seen the outcome of every attempt finished       *)
(* before it was called.                                                     *)
FlushCovers ==
    flush.at = "ok" =>
        \A a \in flush.covers : result[a] = "settled"

(* A finished attempt is submitted, once, whatever its worker was doing.     *)
Settles(a) == Stopped(a) ~> result[a] # "none"

(* docs/04 (P0-16): the worker drains the queue in order before it submits.  *)
(* A decoder that is told of the end has been given every chunk taken.       *)
DrainedBeforeEnd ==
    \A a \in Attempts : wk[a].eof /\ ~wk[a].failed => wk[a].read = ob[a].used
=============================================================================
