------------------------ MODULE TrafficObserverProofs ------------------------
(***************************************************************************)
(* What the observers of proxied attempts borrow and what a flush answers, *)
(* for any finite set of attempts and every limit.                         *)
(*                                                                         *)
(* The argument: the phase of an attempt says where its worker can be and  *)
(* what it still holds (Roles); the bytes and the leases are counted as    *)
(* sets of holders, one element at a time (BudgetKept, LeasesKept); and a  *)
(* result on its way is in the queue, ahead of a flush's barrier when the  *)
(* flush covers it (Results).                                              *)
(***************************************************************************)
EXTENDS TrafficObserver, FiniteSetTheorems, Functions, TLAPS

\* What the phase of an attempt and the place of its worker say of each other.
Role(a) ==
    /\ ob[a].phase = "none" => ~ob[a].full
    /\ ob[a].phase = "prepared" => ob[a].full
    /\ wk[a].at # "none" <=> ob[a].phase \in {"open", "finished"} /\ ob[a].full
    /\ wk[a].held = IF wk[a].at = "decode" THEN 1 ELSE 0
    /\ a \in active <=> wk[a].at \notin {"none", "gone"}
    /\ wk[a].at \in {"closing", "lease", "submit", "leave", "gone"} \/ wk[a].back = "closing"
         => ob[a].phase = "finished"
    /\ wk[a].at \in {"lease", "submit", "leave", "gone"} => queue[a] = <<>>
    /\ ob[a].cur # Free => /\ ob[a].phase = "open"
                           /\ ob[a].cur + 1 <= Budget
                           /\ ob[a].used + 1 <= OwnBudget
Roles == \A a \in Attempts : Role(a)

\* Where the result of an attempt is.
Result(a) ==
    /\ result[a] # "none" => ob[a].phase = "finished"
    /\ ob[a].phase = "finished" =>
         (result[a] = "none" <=> ob[a].full /\ wk[a].at \notin {"leave", "gone"})
    /\ result[a] = "queued" => \E i \in DOMAIN persist : persist[i] = a
    /\ \A i \in DOMAIN persist : persist[i] = a => result[a] # "none"

\* What a flush knows of the attempts it covers.
Flushed ==
    /\ \A a \in flush.covers : ob[a].phase = "finished"
    /\ flush.at = "waiting" /\ flush.idle =>
         \A a \in flush.covers : result[a] # "none"
    /\ flush.at \in {"none", "waiting"} =>
         \A i \in DOMAIN persist : persist[i] # Barrier
    /\ flush.at = "queued" =>
         \A i \in DOMAIN persist : persist[i] = Barrier =>
             \A a \in flush.covers :
                 \/ result[a] = "settled"
                 \/ \E j \in 1 .. i - 1 : persist[j] = a
    /\ flush.at = "ok" => \A a \in flush.covers : result[a] = "settled"
Results == (\A a \in Attempts : Result(a)) /\ Flushed

Inv == TypeOK /\ WithinLimits /\ Roles /\ BudgetKept /\ LeasesKept /\ Results
-----------------------------------------------------------------------------
\* What one call writes about its own attempt keeps the types of the others.
LEMMA OwnTypes ==
    ASSUME TypeOK, NEW a \in Attempts
    PROVE  /\ ob[a] \in Observers /\ wk[a] \in Workers
           /\ \A o \in Observers : Knows(a, o) => ob' \in [Attempts -> Observers]
           /\ \A w \in Workers : Moves(a, w) => wk' \in [Attempts -> Workers]
    BY DEF TypeOK, Knows, Moves

LEMMA BackType == ASSUME TypeOK, NEW a \in Attempts PROVE wk[a].back \in {"loop", "closing"}
    BY DEF TypeOK, Workers

LEMMA QueueTypes ==
    ASSUME TypeOK, NEW a \in Attempts
    PROVE  /\ [queue EXCEPT ![a] = Append(@, "headers")] \in [Attempts -> Seq(Events)]
           /\ [queue EXCEPT ![a] = Append(@, "chunk")] \in [Attempts -> Seq(Events)]
           /\ queue[a] # <<>> => /\ [queue EXCEPT ![a] = Tail(@)] \in [Attempts -> Seq(Events)]
                                /\ Head(queue[a]) \in Events
           /\ [queue EXCEPT ![a] = <<>>] \in [Attempts -> Seq(Events)]
    BY DEF TypeOK, Events

LEMMA SubmitTypes ==
    ASSUME TypeOK, NEW a \in Attempts, Submit(a)
    PROVE  /\ persist' \in Seq(Attempts \cup {Barrier})
           /\ result' \in [Attempts -> {"none", "queued", "settled"}]
<1>1. Append(persist, a) \in Seq(Attempts \cup {Barrier})
    BY DEF TypeOK
<1>2. persist' \in Seq(Attempts \cup {Barrier})
    BY <1>1 DEF Submit, TypeOK
<1>3. result' \in [Attempts -> {"none", "queued", "settled"}]
    BY DEF Submit, TypeOK
<1> QED
    BY <1>2, <1>3

LEMMA ChunksFinite ==
    ASSUME NEW q \in Seq(Events)
    PROVE  IsFiniteSet(Chunks(q)) /\ Cardinality(Chunks(q)) \in Nat
<1>1. IsFiniteSet(DOMAIN q) /\ Chunks(q) \in SUBSET (DOMAIN q)
    BY FS_Interval DEF Chunks
<1> QED
    BY <1>1, FS_Subset, FS_CardinalityType

LEMMA FreeInt == Free \in Int
    BY DEF Free

\* Field by field, the records stay in their sets.
LEMMA ObserverUpdates ==
    ASSUME NEW o \in Observers, NEW p \in {"none", "prepared", "open", "noop", "finished"},
           NEW n \in Int
    PROVE  /\ [o EXCEPT !.phase = p] \in Observers
           /\ [o EXCEPT !.phase = "prepared", !.full = TRUE] \in Observers
           /\ [o EXCEPT !.heads = TRUE] \in Observers
           /\ [o EXCEPT !.heads = TRUE, !.incomplete = TRUE] \in Observers
           /\ [o EXCEPT !.incomplete = TRUE] \in Observers
           /\ [o EXCEPT !.cur = n] \in Observers
           /\ [o EXCEPT !.cur = n, !.incomplete = TRUE] \in Observers
           /\ [o EXCEPT !.wire = @ + 1] \in Observers
           /\ [o EXCEPT !.cur = n, !.used = @ + 1] \in Observers
           /\ [o EXCEPT !.used = 0, !.wire = 0] \in Observers
<1>1. /\ [o EXCEPT !.phase = p] \in Observers
      /\ [o EXCEPT !.heads = TRUE] \in Observers
      /\ [o EXCEPT !.incomplete = TRUE] \in Observers
      /\ [o EXCEPT !.cur = n] \in Observers
    BY DEF Observers
<1>2. [o EXCEPT !.wire = @ + 1] \in Observers
    BY DEF Observers
<1>3. [o EXCEPT !.phase = "prepared", !.full = TRUE] \in Observers
    BY DEF Observers
<1>4. [o EXCEPT !.heads = TRUE, !.incomplete = TRUE] \in Observers
    BY DEF Observers
<1>5. [o EXCEPT !.cur = n, !.incomplete = TRUE] \in Observers
    BY DEF Observers
<1>6. [o EXCEPT !.cur = n, !.used = @ + 1] \in Observers
    <2>1. PICK k \in Observers : k = [o EXCEPT !.cur = n]
        BY DEF Observers
    <2>2. k.used = o.used
        BY <2>1 DEF Observers
    <2>3. [k EXCEPT !.used = k.used + 1] \in Observers
        BY DEF Observers
    <2> QED
        BY <2>1, <2>2, <2>3
<1>7. [o EXCEPT !.used = 0, !.wire = 0] \in Observers
    BY DEF Observers
<1> QED
    BY <1>1, <1>2, <1>3, <1>4, <1>5, <1>6, <1>7

LEMMA WorkerUpdates ==
    ASSUME NEW w \in Workers,
           NEW p \in {"none", "loop", "closing", "poll", "empty", "wait", "decode",
                      "panic", "lease", "submit", "leave", "gone"},
           NEW q \in {"loop", "closing"}
    PROVE  /\ [w EXCEPT !.at = p] \in Workers
           /\ [w EXCEPT !.read = @ + 1] \in Workers
           /\ [w EXCEPT !.failed = TRUE] \in Workers
           /\ [w EXCEPT !.at = p, !.back = q] \in Workers
           /\ [w EXCEPT !.at = p, !.eof = TRUE] \in Workers
           /\ [w EXCEPT !.at = p, !.failed = TRUE] \in Workers
           /\ [w EXCEPT !.at = p, !.read = @ + 1] \in Workers
           /\ [w EXCEPT !.held = 0] \in Workers
           /\ [w EXCEPT !.at = p, !.held = 1] \in Workers
           /\ NoWorker \in Workers
<1>1. /\ [w EXCEPT !.at = p] \in Workers
      /\ [w EXCEPT !.failed = TRUE] \in Workers
    BY DEF Workers
<1>2. \A k \in Workers : [k EXCEPT !.read = k.read + 1] \in Workers
    BY DEF Workers
<1>3. [w EXCEPT !.at = p, !.back = q] \in Workers
    BY DEF Workers
<1>4. [w EXCEPT !.at = p, !.eof = TRUE] \in Workers
    BY DEF Workers
<1>5. [w EXCEPT !.at = p, !.failed = TRUE] \in Workers
    BY DEF Workers
<1>6. [w EXCEPT !.at = p, !.read = @ + 1] \in Workers
    <2>1. PICK k \in Workers : k = [w EXCEPT !.at = p]
        BY DEF Workers
    <2>2. k.read = w.read
        BY <2>1 DEF Workers
    <2>3. [k EXCEPT !.read = k.read + 1] \in Workers
        BY <1>2
    <2> QED
        BY <2>1, <2>2, <2>3
<1>7. [w EXCEPT !.held = 0] \in Workers
    BY DEF Workers
<1>8. [w EXCEPT !.at = p, !.held = 1] \in Workers
    BY DEF Workers
<1>9. NoWorker \in Workers
    BY DEF Workers, NoWorker
<1> QED
    BY <1>1, <1>2, <1>3, <1>4, <1>5, <1>6, <1>7, <1>8, <1>9


-----------------------------------------------------------------------------
\* Types are kept by every step.
LEMMA TypeStep == ASSUME TypeOK, [Next]_vars PROVE TypeOK'
<1> USE FreeInt
<1>1. ASSUME NEW a \in Attempts, PrepareAttempt(a) PROVE TypeOK'
    <2>1. /\ [ob[a] EXCEPT !.phase = "prepared", !.full = TRUE] \in Observers
          /\ [ob[a] EXCEPT !.phase = "open"] \in Observers
        BY OwnTypes, ObserverUpdates
    <2>2. ob' \in [Attempts -> Observers]
        BY <1>1, <2>1, OwnTypes DEF PrepareAttempt
    <2>3. leases' \in Int
        BY <1>1 DEF PrepareAttempt, TypeOK
    <2> QED
        BY <1>1, <2>2, <2>3 DEF PrepareAttempt, TypeOK, service
<1>2. ASSUME NEW a \in Attempts, Register(a) PROVE TypeOK'
    <2>1. /\ [ob[a] EXCEPT !.phase = "noop"] \in Observers
          /\ [ob[a] EXCEPT !.phase = "open"] \in Observers
          /\ [wk[a] EXCEPT !.at = "loop"] \in Workers
        BY OwnTypes, ObserverUpdates, WorkerUpdates
    <2>2. ob' \in [Attempts -> Observers]
        BY <1>2, <2>1, OwnTypes DEF Register
    <2>3. wk' \in [Attempts -> Workers]
        BY <1>2, <2>1, OwnTypes DEF Register, TypeOK
    <2> QED
        BY <1>2, <2>2, <2>3 DEF Register, TypeOK, service
<1>3. ASSUME NEW a \in Attempts, TryHeaders(a) PROVE TypeOK'
    <2>1. /\ [ob[a] EXCEPT !.heads = TRUE] \in Observers
          /\ [ob[a] EXCEPT !.heads = TRUE, !.incomplete = TRUE] \in Observers
        BY OwnTypes, ObserverUpdates
    <2>2. ob' \in [Attempts -> Observers]
        BY <1>3, <2>1, OwnTypes DEF TryHeaders
    <2>3. queue' \in [Attempts -> Seq(Events)]
        BY <1>3, QueueTypes DEF TryHeaders, TypeOK
    <2> QED
        BY <1>3, <2>2, <2>3 DEF TryHeaders, TypeOK, service
<1>4. ASSUME NEW a \in Attempts, TryChunk(a) PROVE TypeOK'
    <2> DEFINE o == [ob[a] EXCEPT !.wire = @ + 1]
    <2>1. o \in Observers
        BY OwnTypes, ObserverUpdates
    <2>2. /\ [o EXCEPT !.incomplete = TRUE] \in Observers
          /\ [o EXCEPT !.cur = copyBytes] \in Observers
        BY <2>1, ObserverUpdates DEF TypeOK
    <2>3. ob' \in [Attempts -> Observers]
        BY <1>4, <2>2, OwnTypes DEF TryChunk
    <2> QED
        BY <1>4, <2>3 DEF TryChunk, TypeOK, service
<1>5. ASSUME NEW a \in Attempts, Reserve(a) PROVE TypeOK'
    <2>1. /\ [ob[a] EXCEPT !.cur = Free, !.used = @ + 1] \in Observers
          /\ [ob[a] EXCEPT !.cur = Free, !.incomplete = TRUE] \in Observers
          /\ [ob[a] EXCEPT !.cur = copyBytes] \in Observers
        BY OwnTypes, ObserverUpdates DEF TypeOK
    <2>2. ob' \in [Attempts -> Observers]
        BY <1>5, <2>1, OwnTypes DEF Reserve, Enqueue
    <2>3. queue' \in [Attempts -> Seq(Events)]
        BY <1>5, QueueTypes DEF Reserve, Enqueue, TypeOK
    <2>4. copyBytes' \in Int
        BY <1>5 DEF Reserve, Enqueue, TypeOK
    <2> QED
        BY <1>5, <2>2, <2>3, <2>4 DEF Reserve, TypeOK, service
<1>6. ASSUME NEW a \in Attempts, Finish(a) PROVE TypeOK'
    <2>1. [ob[a] EXCEPT !.phase = "finished"] \in Observers
        BY OwnTypes, ObserverUpdates
    <2>2. ob' \in [Attempts -> Observers]
        BY <1>6, <2>1, OwnTypes DEF Finish
    <2>3. /\ persist' \in Seq(Attempts \cup {Barrier})
          /\ result' \in [Attempts -> {"none", "queued", "settled"}]
        BY <1>6, SubmitTypes DEF Finish, TypeOK
    <2> QED
        BY <1>6, <2>2, <2>3 DEF Finish, TypeOK, service
<1>7. ASSUME NEW a \in Attempts, Take(a) PROVE TypeOK'
    <2>1. wk' \in [Attempts -> Workers]
        <3>1. /\ [wk[a] EXCEPT !.read = @ + 1] \in Workers
              /\ [wk[a] EXCEPT !.failed = TRUE] \in Workers
              /\ [wk[a] EXCEPT !.at = "panic", !.failed = TRUE] \in Workers
            BY OwnTypes, WorkerUpdates
        <3>2. At(a, "loop") \/ At(a, "closing") =>
                [wk[a] EXCEPT !.at = "poll", !.back = wk[a].at] \in Workers
            BY OwnTypes, WorkerUpdates DEF At
        <3>3. [wk[a] EXCEPT !.read = wk[a].read] \in Workers
            BY OwnTypes DEF Workers
        <3> QED
            BY <1>7, <3>1, <3>2, <3>3, OwnTypes DEF Take, Consume
    <2>2. queue' \in [Attempts -> Seq(Events)] /\ copyBytes' \in Int
        BY <1>7, QueueTypes DEF Take, Consume, TypeOK
    <2> QED
        BY <1>7, <2>1, <2>2 DEF Take, TypeOK, service, proxySide
<1>8. ASSUME NEW a \in Attempts, SeeStop(a) PROVE TypeOK'
    <2>1. wk' \in [Attempts -> Workers]
        BY <1>8, OwnTypes, WorkerUpdates DEF SeeStop
    <2> QED
        BY <1>8, <2>1 DEF SeeStop, TypeOK, service, proxySide
<1>9. ASSUME NEW a \in Attempts, Poll(a) PROVE TypeOK'
    <2>1. wk' \in [Attempts -> Workers]
        <3>1. /\ [wk[a] EXCEPT !.at = "decode", !.held = 1] \in Workers
              /\ [wk[a] EXCEPT !.at = "poll"] \in Workers
              /\ [wk[a] EXCEPT !.at = "empty"] \in Workers
            BY OwnTypes, WorkerUpdates
        <3>2. Got(a) \in Workers
            BY <3>1 DEF Got
        <3> QED
            BY <1>9, <3>1, <3>2, OwnTypes DEF Poll
    <2>2. queue' \in [Attempts -> Seq(Events)]
        BY <1>9, QueueTypes DEF Poll, TypeOK
    <2> QED
        BY <1>9, <2>1, <2>2 DEF Poll, TypeOK, service, proxySide
<1>10. ASSUME NEW a \in Attempts, PollStop(a) PROVE TypeOK'
    <2>1. wk' \in [Attempts -> Workers]
        <3>1. /\ [wk[a] EXCEPT !.at = wk[a].back, !.eof = TRUE] \in Workers
              /\ [wk[a] EXCEPT !.at = "wait"] \in Workers
            BY OwnTypes, WorkerUpdates, BackType
        <3> QED
            BY <1>10, <3>1, OwnTypes DEF PollStop
    <2> QED
        BY <1>10, <2>1 DEF PollStop, TypeOK, service, proxySide
<1>11. ASSUME NEW a \in Attempts, Wait(a) PROVE TypeOK'
    <2>1. wk' \in [Attempts -> Workers]
        <3>1. /\ [wk[a] EXCEPT !.at = "decode", !.held = 1] \in Workers
              /\ [wk[a] EXCEPT !.at = "poll"] \in Workers
              /\ [wk[a] EXCEPT !.at = "empty"] \in Workers
            BY OwnTypes, WorkerUpdates
        <3>2. Got(a) \in Workers
            BY <3>1 DEF Got
        <3> QED
            BY <1>11, <3>1, <3>2, OwnTypes DEF Wait
    <2>2. queue' \in [Attempts -> Seq(Events)]
        BY <1>11, QueueTypes DEF Wait, TypeOK
    <2> QED
        BY <1>11, <2>1, <2>2 DEF Wait, TypeOK, service, proxySide
<1>12. ASSUME NEW a \in Attempts, Decode(a) PROVE TypeOK'
    <2>1. wk' \in [Attempts -> Workers]
        <3> DEFINE w == [wk[a] EXCEPT !.held = 0]
        <3>1. w \in Workers
            BY OwnTypes, WorkerUpdates
        <3>2. /\ [w EXCEPT !.at = "poll", !.read = @ + 1] \in Workers
              /\ [w EXCEPT !.at = wk[a].back, !.failed = TRUE] \in Workers
              /\ [w EXCEPT !.at = "panic", !.failed = TRUE] \in Workers
            BY <3>1, OwnTypes, WorkerUpdates, BackType
        <3> QED
            BY <1>12, <3>2, OwnTypes DEF Decode
    <2>2. copyBytes' \in Int
        <3>1. wk[a].held \in Int
            BY OwnTypes DEF Workers
        <3> QED
            BY <1>12, <3>1 DEF Decode, TypeOK
    <2> QED
        BY <1>12, <2>1, <2>2 DEF Decode, TypeOK, service, proxySide
<1>13. ASSUME NEW a \in Attempts, Leftovers(a) PROVE TypeOK'
    <2>1. wk' \in [Attempts -> Workers]
        BY <1>13, OwnTypes, WorkerUpdates DEF Leftovers
    <2>2. queue' \in [Attempts -> Seq(Events)]
        BY <1>13, QueueTypes DEF Leftovers
    <2>3. Cardinality(Chunks(queue[a])) \in Nat
        BY ChunksFinite DEF TypeOK
    <2>4. copyBytes' \in Int
        BY <1>13, <2>3 DEF Leftovers, TypeOK
    <2> QED
        BY <1>13, <2>1, <2>2, <2>4 DEF Leftovers, TypeOK, service, proxySide
<1>14. ASSUME NEW a \in Attempts, GiveBack(a) PROVE TypeOK'
    <2>1. wk' \in [Attempts -> Workers]
        BY <1>14, OwnTypes, WorkerUpdates DEF GiveBack
    <2> QED
        BY <1>14, <2>1 DEF GiveBack, TypeOK, service, proxySide
<1>15. ASSUME NEW a \in Attempts, SubmitResult(a) PROVE TypeOK'
    <2>1. wk' \in [Attempts -> Workers]
        BY <1>15, OwnTypes, WorkerUpdates DEF SubmitResult
    <2>2. /\ persist' \in Seq(Attempts \cup {Barrier})
          /\ result' \in [Attempts -> {"none", "queued", "settled"}]
        BY <1>15, SubmitTypes DEF SubmitResult, TypeOK
    <2> QED
        BY <1>15, <2>1, <2>2 DEF SubmitResult, TypeOK, service, proxySide
<1>16. ASSUME NEW a \in Attempts, Leave(a) PROVE TypeOK'
    <2>1. wk' \in [Attempts -> Workers]
        <3>1. [NoWorker EXCEPT !.at = "gone"] \in Workers
            BY OwnTypes, WorkerUpdates
        <3> QED
            BY <1>16, <3>1, OwnTypes DEF Leave
    <2>2. ob' \in [Attempts -> Observers]
        BY <1>16, OwnTypes, ObserverUpdates DEF Leave
    <2>3. flush' \in Flushes
        BY <1>16 DEF Leave, Idles, TypeOK, Flushes
    <2> QED
        BY <1>16, <2>1, <2>2, <2>3 DEF Leave, TypeOK, service, proxySide
<1>17. CASE PersistOne
    <2>1. persist' \in Seq(Attempts \cup {Barrier}) /\ Head(persist) \in Attempts \cup {Barrier}
        BY <1>17 DEF PersistOne, TypeOK
    <2>2. result' \in [Attempts -> {"none", "queued", "settled"}]
        BY <1>17, <2>1 DEF PersistOne, TypeOK
    <2>3. flush' \in Flushes
        BY <1>17 DEF PersistOne, TypeOK, Flushes
    <2> QED
        BY <1>17, <2>1, <2>2, <2>3 DEF PersistOne, TypeOK, proxySide
<1>18. CASE Stop
    BY <1>18 DEF TypeOK, Stop, service, proxySide
<1>19. CASE StopWaited
    BY <1>19 DEF TypeOK, StopWaited, service, proxySide
<1>20. CASE Flush
    <2>1. flush' \in Flushes
        BY <1>20 DEF Flush, TypeOK, Flushes
    <2> QED
        BY <1>20, <2>1 DEF Flush, TypeOK, proxySide
<1>21. CASE FlushBarrier
    <2>1. flush' \in Flushes
        <3>1. FlushError \in Flushes
            BY DEF FlushError, Flushes
        <3>2. [flush EXCEPT !.at = "queued"] \in Flushes
            BY DEF TypeOK, Flushes
        <3> QED
            BY <1>21, <3>1, <3>2 DEF FlushBarrier
    <2>2. persist' \in Seq(Attempts \cup {Barrier})
        <3>1. Append(persist, Barrier) \in Seq(Attempts \cup {Barrier})
            BY DEF TypeOK
        <3> QED
            BY <1>21, <3>1 DEF FlushBarrier, TypeOK
    <2> QED
        BY <1>21, <2>1, <2>2 DEF FlushBarrier, TypeOK, proxySide
<1>22. CASE FlushGivesUp
    <2>1. flush' \in Flushes
        BY <1>22 DEF FlushGivesUp, TypeOK, Flushes, FlushError
    <2> QED
        BY <1>22, <2>1 DEF FlushGivesUp, TypeOK, proxySide
<1>23. CASE UNCHANGED vars
    BY <1>23 DEF TypeOK, vars
<1> QED
    BY <1>1, <1>2, <1>3, <1>4, <1>5, <1>6, <1>7, <1>8, <1>9, <1>10, <1>11, <1>12, <1>13, <1>14, <1>15, <1>16, <1>17, <1>18, <1>19, <1>20, <1>21, <1>22, <1>23 DEF Next, Worker


-----------------------------------------------------------------------------
\* A call about one attempt leaves what is known of the others alone.
Untouched(a) ==
    \A b \in Attempts \ {a} :
        /\ ob'[b] = ob[b] /\ wk'[b] = wk[b] /\ queue'[b] = queue[b]
        /\ b \in active' <=> b \in active
Call(a) == \/ PrepareAttempt(a) \/ Register(a) \/ TryHeaders(a) \/ TryChunk(a)
           \/ Reserve(a) \/ Finish(a) \/ Worker(a)

LEMMA OwnOnly == ASSUME TypeOK, NEW a \in Attempts, Call(a) PROVE Untouched(a)
<1>1. CASE PrepareAttempt(a)
    BY <1>1 DEF TypeOK, Untouched, Knows, Moves, proxySide, PrepareAttempt
<1>2. CASE Register(a)
    BY <1>2 DEF TypeOK, Untouched, Knows, Moves, proxySide, Register
<1>3. CASE TryHeaders(a)
    BY <1>3 DEF TypeOK, Untouched, Knows, Moves, proxySide, TryHeaders
<1>4. CASE TryChunk(a)
    BY <1>4 DEF TypeOK, Untouched, Knows, Moves, proxySide, TryChunk
<1>5. CASE Reserve(a)
    BY <1>5 DEF TypeOK, Untouched, Knows, Moves, proxySide, Reserve, Enqueue
<1>6. CASE Finish(a)
    BY <1>6 DEF TypeOK, Untouched, Knows, Moves, proxySide, Finish
<1>7. CASE Take(a)
    BY <1>7 DEF TypeOK, Untouched, Knows, Moves, proxySide, Take, Consume, At
<1>8. CASE SeeStop(a)
    BY <1>8 DEF TypeOK, Untouched, Knows, Moves, proxySide, SeeStop
<1>9. CASE Poll(a)
    BY <1>9 DEF TypeOK, Untouched, Knows, Moves, proxySide, Poll
<1>10. CASE PollStop(a)
    BY <1>10 DEF TypeOK, Untouched, Knows, Moves, proxySide, PollStop
<1>11. CASE Wait(a)
    BY <1>11 DEF TypeOK, Untouched, Knows, Moves, proxySide, Wait
<1>12. CASE Decode(a)
    BY <1>12 DEF TypeOK, Untouched, Knows, Moves, proxySide, Decode
<1>13. CASE Leftovers(a)
    BY <1>13 DEF TypeOK, Untouched, Knows, Moves, proxySide, Leftovers
<1>14. CASE GiveBack(a)
    BY <1>14 DEF TypeOK, Untouched, Knows, Moves, proxySide, GiveBack
<1>15. CASE SubmitResult(a)
    BY <1>15 DEF TypeOK, Untouched, Knows, Moves, proxySide, SubmitResult
<1>16. CASE Leave(a)
    BY <1>16 DEF TypeOK, Untouched, Knows, Moves, proxySide, Leave
<1> QED
    BY <1>1, <1>2, <1>3, <1>4, <1>5, <1>6, <1>7, <1>8, <1>9, <1>10, <1>11, <1>12, <1>13, <1>14, <1>15, <1>16 DEF Call, Worker


\* The role of the attempt that is called.
LEMMA OwnRole == ASSUME TypeOK, Roles, NEW a \in Attempts, Call(a) PROVE Role(a)'
<1> USE DEF Role
<1>0. Role(a) /\ ob[a] \in Observers /\ wk[a] \in Workers
    BY DEF Roles, TypeOK
<1>1. CASE PrepareAttempt(a)
    <2>1. /\ ob'[a].cur = ob[a].cur /\ ob'[a].used = ob[a].used
          /\ \/ ob'[a].phase = "prepared" /\ ob'[a].full = TRUE
             \/ ob'[a].phase = "open" /\ ob'[a].full = ob[a].full
        <3>1. CASE Knows(a, [ob[a] EXCEPT !.phase = "prepared", !.full = TRUE])
            BY <3>1, <1>0 DEF Knows, TypeOK, Observers
        <3>2. CASE Knows(a, [ob[a] EXCEPT !.phase = "open"])
            BY <3>2, <1>0 DEF Knows, TypeOK, Observers
        <3> QED
            BY <1>1, <3>1, <3>2 DEF PrepareAttempt
    <2>2. wk'[a] = wk[a] /\ queue'[a] = queue[a] /\ active' = active /\ ob[a].phase = "none"
        BY <1>1 DEF PrepareAttempt
    <2> QED
        BY <1>0, <2>1, <2>2
<1>2. CASE Register(a)
    <2>1. CASE stopping
        <3>1. /\ ob'[a].phase = "noop" /\ ob'[a].full = ob[a].full
              /\ ob'[a].cur = ob[a].cur /\ ob'[a].used = ob[a].used
            BY <1>2, <2>1, <1>0 DEF Register, Knows, TypeOK, Observers
        <3>2. wk'[a] = wk[a] /\ queue'[a] = queue[a] /\ active' = active /\ ob[a].phase = "prepared"
            BY <1>2, <2>1 DEF Register
        <3> QED
            BY <1>0, <3>1, <3>2
    <2>2. CASE ~stopping
        <3>1. /\ ob'[a].phase = "open" /\ ob'[a].full = ob[a].full
              /\ ob'[a].cur = ob[a].cur /\ ob'[a].used = ob[a].used
            BY <1>2, <2>2, <1>0 DEF Register, Knows, TypeOK, Observers
        <3>2. wk'[a].at = "loop" /\ wk'[a].held = wk[a].held /\ wk'[a].back = wk[a].back
            BY <1>2, <2>2, <1>0 DEF Register, Moves, TypeOK, Workers
        <3>3. queue'[a] = queue[a] /\ active' = active \cup {a} /\ ob[a].phase = "prepared"
            BY <1>2, <2>2 DEF Register
        <3> QED
            BY <1>0, <3>1, <3>2, <3>3
    <2> QED
        BY <2>1, <2>2
<1>3. CASE TryHeaders(a)
    <2>1. /\ ob'[a].phase = ob[a].phase /\ ob'[a].full = ob[a].full
          /\ ob'[a].cur = ob[a].cur /\ ob'[a].used = ob[a].used
        <3>1. CASE Knows(a, [ob[a] EXCEPT !.heads = TRUE])
            BY <3>1, <1>0 DEF Knows, TypeOK, Observers
        <3>2. CASE Knows(a, [ob[a] EXCEPT !.heads = TRUE, !.incomplete = TRUE])
            BY <3>2, <1>0 DEF Knows, TypeOK, Observers
        <3> QED
            BY <1>3, <3>1, <3>2 DEF TryHeaders
    <2>2. wk'[a] = wk[a] /\ active' = active /\ ob[a].phase = "open"
        BY <1>3 DEF TryHeaders, Mine
    <2> QED
        BY <1>0, <2>1, <2>2
<1>4. CASE TryChunk(a)
    <2> DEFINE o == [ob[a] EXCEPT !.wire = @ + 1]
    <2>1. /\ o \in Observers /\ o.phase = ob[a].phase /\ o.full = ob[a].full
          /\ o.cur = ob[a].cur /\ o.used = ob[a].used
        <3>1. o \in Observers
            BY <1>0 DEF Observers
        <3> QED
            BY <3>1, <1>0 DEF Observers
    <2>2. ob'[a] = IF o.used + 1 > OwnBudget \/ copyBytes + 1 > Budget
                   THEN [o EXCEPT !.incomplete = TRUE] ELSE [o EXCEPT !.cur = copyBytes]
        BY <1>4 DEF TryChunk, Knows, TypeOK
    <2> HIDE DEF o
    <2>3. /\ ob'[a].phase = o.phase /\ ob'[a].full = o.full /\ ob'[a].used = o.used
          /\ \/ ob'[a].cur = o.cur
             \/ /\ ob'[a].cur = copyBytes
                /\ ~(o.used + 1 > OwnBudget) /\ ~(copyBytes + 1 > Budget)
        BY <2>1, <2>2 DEF Observers
    <2>4. wk'[a] = wk[a] /\ queue'[a] = queue[a] /\ active' = active /\ ob[a].phase = "open"
        BY <1>4 DEF TryChunk, Mine
    <2>5. o.used \in Int /\ copyBytes \in Int
        BY <2>1 DEF Observers, TypeOK
    <2> QED
        BY <1>0, <2>1, <2>3, <2>4, <2>5, TrafficAssumption
<1>5. CASE Reserve(a)
    <2>1. /\ ob'[a].phase = ob[a].phase /\ ob'[a].full = ob[a].full
          /\ \/ ob'[a].cur = Free
             \/ /\ ob'[a].cur = copyBytes /\ copyBytes + 1 <= Budget
                /\ ob'[a].used = ob[a].used
        <3>1. CASE Knows(a, [ob[a] EXCEPT !.cur = Free, !.used = @ + 1])
            BY <3>1, <1>0 DEF Knows, TypeOK, Observers
        <3>2. CASE Knows(a, [ob[a] EXCEPT !.cur = Free, !.incomplete = TRUE])
            BY <3>2, <1>0 DEF Knows, TypeOK, Observers
        <3>3. CASE Knows(a, [ob[a] EXCEPT !.cur = copyBytes]) /\ ~(copyBytes + 1 > Budget)
            BY <3>3, <1>0, TrafficAssumption DEF Knows, TypeOK, Observers
        <3> QED
            BY <1>5, <3>1, <3>2, <3>3 DEF Reserve, Enqueue
    <2>2. wk'[a] = wk[a] /\ active' = active /\ ob[a].cur # Free
        BY <1>5 DEF Reserve
    <2> QED
        BY <1>0, <2>1, <2>2
<1>6. CASE Finish(a)
    BY <1>0, <1>6 DEF TypeOK, Observers, Workers, Knows, Moves, Free, proxySide, Finish, Mine
<1>7. CASE Take(a)
    <2>1. /\ wk'[a].held = wk[a].held
          /\ \/ wk'[a].at = wk[a].at /\ wk'[a].back = wk[a].back
             \/ wk'[a].at = "poll" /\ wk'[a].back = wk[a].at
             \/ wk'[a].at = "panic" /\ wk'[a].back = wk[a].back
        <3>1. CASE \E k \in Nat : Moves(a, [wk[a] EXCEPT !.read = k])
            BY <3>1, <1>0 DEF Moves, TypeOK, Workers
        <3>2. CASE Moves(a, [wk[a] EXCEPT !.failed = TRUE])
            BY <3>2, <1>0 DEF Moves, TypeOK, Workers
        <3>3. CASE Moves(a, [wk[a] EXCEPT !.at = "poll", !.back = wk[a].at])
            BY <3>3, <1>0 DEF Moves, TypeOK, Workers
        <3>4. CASE Moves(a, [wk[a] EXCEPT !.at = "panic", !.failed = TRUE])
            BY <3>4, <1>0 DEF Moves, TypeOK, Workers
        <3>5. wk[a].read \in Nat /\ wk[a].read + 1 \in Nat
            BY <1>0 DEF Workers
        <3> QED
            BY <1>7, <3>1, <3>2, <3>3, <3>4, <3>5 DEF Take, Consume

    <2>2. ob'[a] = ob[a] /\ active' = active /\ wk[a].at \in {"loop", "closing"}
        BY <1>7 DEF Take, At
    <2> QED
        BY <1>0, <2>1, <2>2
<1>8. CASE SeeStop(a)
    BY <1>0, <1>8 DEF TypeOK, Observers, Workers, Knows, Moves, Free, proxySide, SeeStop, At, Stopped
<1>9. CASE Poll(a)
    <2>1. /\ wk'[a].back = wk[a].back
          /\ \/ wk'[a].at = "decode" /\ wk'[a].held = 1
             \/ wk'[a].at \in {"poll", "empty"} /\ wk'[a].held = wk[a].held
        <3>1. CASE Moves(a, [wk[a] EXCEPT !.at = "decode", !.held = 1])
            BY <3>1, <1>0 DEF Moves, TypeOK, Workers
        <3>2. CASE Moves(a, [wk[a] EXCEPT !.at = "poll"]) \/ Moves(a, [wk[a] EXCEPT !.at = "empty"])
            BY <3>2, <1>0 DEF Moves, TypeOK, Workers
        <3> QED
            BY <1>9, <3>1, <3>2 DEF Poll, Got

    <2>2. ob'[a] = ob[a] /\ active' = active /\ wk[a].at = "poll"
        BY <1>9 DEF Poll, At
    <2> QED
        BY <1>0, <2>1, <2>2
<1>10. CASE PollStop(a)
    BY <1>0, <1>10 DEF TypeOK, Observers, Workers, Knows, Moves, Free, proxySide, PollStop, At, Stopped
<1>11. CASE Wait(a)
    <2>1. /\ wk'[a].back = wk[a].back
          /\ \/ wk'[a].at = "decode" /\ wk'[a].held = 1
             \/ wk'[a].at \in {"poll", "empty"} /\ wk'[a].held = wk[a].held
        <3>1. CASE Moves(a, [wk[a] EXCEPT !.at = "decode", !.held = 1])
            BY <3>1, <1>0 DEF Moves, TypeOK, Workers
        <3>2. CASE Moves(a, [wk[a] EXCEPT !.at = "poll"]) \/ Moves(a, [wk[a] EXCEPT !.at = "empty"])
            BY <3>2, <1>0 DEF Moves, TypeOK, Workers
        <3> QED
            BY <1>11, <3>1, <3>2 DEF Wait, Got

    <2>2. ob'[a] = ob[a] /\ active' = active /\ wk[a].at = "wait"
        BY <1>11 DEF Wait, At
    <2> QED
        BY <1>0, <2>1, <2>2
<1>12. CASE Decode(a)
    <2> DEFINE w == [wk[a] EXCEPT !.held = 0]
    <2>1. w \in Workers /\ w.held = 0 /\ w.back = wk[a].back /\ w.read + 1 \in Nat
        BY <1>0 DEF Workers
    <2>2. /\ wk[a].back \in {"loop", "closing"}
          /\ \/ wk'[a] = [w EXCEPT !.at = "poll", !.read = @ + 1]
             \/ wk'[a] = [w EXCEPT !.at = wk[a].back, !.failed = TRUE]
             \/ wk'[a] = [w EXCEPT !.at = "panic", !.failed = TRUE]
        BY <1>12, BackType DEF Decode, Moves, TypeOK
    <2> HIDE DEF w
    <2>3. /\ wk'[a].back = wk[a].back /\ wk'[a].held = 0
          /\ wk'[a].at \in {"poll", "panic", wk[a].back}
        BY <2>1, <2>2 DEF Workers
    <2>4. ob'[a] = ob[a] /\ queue'[a] = queue[a] /\ active' = active /\ wk[a].at = "decode"
        BY <1>12 DEF Decode, At, proxySide
    <2> QED
        BY <1>0, <2>2, <2>3, <2>4
<1>13. CASE Leftovers(a)
    BY <1>0, <1>13 DEF TypeOK, Observers, Workers, Knows, Moves, Free, proxySide, Leftovers, At, Stopped
<1>14. CASE GiveBack(a)
    BY <1>0, <1>14 DEF TypeOK, Observers, Workers, Knows, Moves, Free, proxySide, GiveBack, At
<1>15. CASE SubmitResult(a)
    BY <1>0, <1>15 DEF TypeOK, Observers, Workers, Knows, Moves, Free, proxySide, SubmitResult, At
<1>16. CASE Leave(a)
    BY <1>0, <1>16 DEF TypeOK, Observers, Workers, Knows, Moves, Free, proxySide, Leave, At, NoWorker
<1> QED
    BY <1>1, <1>2, <1>3, <1>4, <1>5, <1>6, <1>7, <1>8, <1>9, <1>10, <1>11, <1>12, <1>13, <1>14, <1>15, <1>16 DEF Call, Worker


LEMMA RolesStep == ASSUME TypeOK, Roles, [Next]_vars PROVE Roles'
<1>1. ASSUME NEW a \in Attempts, Call(a) PROVE Roles'
    BY <1>1, OwnOnly, OwnRole DEF Roles, Role, Untouched
<1>2. CASE UNCHANGED <<ob, wk, queue, active>>
    BY <1>2 DEF Roles, Role
<1> QED
    BY <1>1, <1>2 DEF Next, Call, PersistOne, Stop, StopWaited, Flush, FlushBarrier,
       FlushGivesUp, vars, proxySide


-----------------------------------------------------------------------------
\* The limits of one attempt.
LEMMA OwnLimits ==
    ASSUME TypeOK, WithinLimits, Roles, NEW a \in Attempts, Call(a)
    PROVE  Len(queue'[a]) <= OwnQueue /\ ob'[a].used <= OwnBudget
<1>1. /\ ob[a] \in Observers /\ queue[a] \in Seq(Events) /\ Role(a)
      /\ Len(queue[a]) <= OwnQueue /\ ob[a].used <= OwnBudget
    BY DEF TypeOK, WithinLimits, Roles
<1>2. Len(queue'[a]) <= OwnQueue
    <2>1. CASE queue'[a] = queue[a]
        BY <1>1, <2>1
    <2>2. CASE queue'[a] = <<>>
        BY <2>2, TrafficAssumption
    <2>3. CASE queue[a] # <<>> /\ queue'[a] = Tail(queue[a])
        BY <1>1, <2>3, TrafficAssumption
    <2>4. CASE Len(queue[a]) < OwnQueue /\ \E e \in Events : queue'[a] = Append(queue[a], e)
        BY <1>1, <2>4, TrafficAssumption
    <2> QED
        BY <2>1, <2>2, <2>3, <2>4 DEF TypeOK, Events, Call, Worker, PrepareAttempt, Register,
           TryHeaders, TryChunk, Reserve, Enqueue, Finish, Take, Consume, SeeStop, Poll,
           PollStop, Wait, Decode, Leftovers, GiveBack, SubmitResult, Leave, proxySide
<1>3. ob'[a].used <= OwnBudget
    <2>1. CASE Reserve(a)
        <3>1. ob[a].used + 1 <= OwnBudget /\ ob[a].used \in Nat
            BY <1>1, <2>1 DEF Reserve, Role, Observers
        <3>2. CASE Knows(a, [ob[a] EXCEPT !.cur = Free, !.used = @ + 1])
            BY <3>1, <3>2, <1>1 DEF Knows, TypeOK, Observers
        <3>3. CASE Knows(a, [ob[a] EXCEPT !.cur = Free, !.incomplete = TRUE])
            BY <3>3, <1>1 DEF Knows, TypeOK, Observers
        <3>4. CASE Knows(a, [ob[a] EXCEPT !.cur = copyBytes])
            BY <3>4, <1>1 DEF Knows, TypeOK, Observers
        <3> QED
            BY <2>1, <3>2, <3>3, <3>4 DEF Reserve, Enqueue
    <2>2. CASE Leave(a)
        BY <2>2, <1>1, TrafficAssumption DEF Leave, Knows, TypeOK, Observers
    <2>3. CASE TryChunk(a)
        <3> DEFINE o == [ob[a] EXCEPT !.wire = @ + 1]
        <3>1. o \in Observers /\ o.used = ob[a].used
            BY <1>1 DEF Observers
        <3>2. \/ ob'[a] = [o EXCEPT !.incomplete = TRUE]
              \/ ob'[a] = [o EXCEPT !.cur = copyBytes]
            BY <2>3 DEF TryChunk, Knows, TypeOK
        <3> HIDE DEF o
        <3> QED
            BY <1>1, <3>1, <3>2 DEF Observers
    <2>4. CASE PrepareAttempt(a) \/ Register(a) \/ Finish(a)
        <3>1. CASE Knows(a, [ob[a] EXCEPT !.phase = "prepared", !.full = TRUE])
            BY <3>1, <1>1 DEF Knows, TypeOK, Observers
        <3>2. CASE \E p \in {"open", "noop", "finished"} : Knows(a, [ob[a] EXCEPT !.phase = p])
            BY <3>2, <1>1 DEF Knows, TypeOK, Observers
        <3> QED
            BY <2>4, <3>1, <3>2 DEF PrepareAttempt, Register, Finish
    <2>5. CASE TryHeaders(a)
        <3>1. CASE Knows(a, [ob[a] EXCEPT !.heads = TRUE])
            BY <3>1, <1>1 DEF Knows, TypeOK, Observers
        <3>2. CASE Knows(a, [ob[a] EXCEPT !.heads = TRUE, !.incomplete = TRUE])
            BY <3>2, <1>1 DEF Knows, TypeOK, Observers
        <3> QED
            BY <2>5, <3>1, <3>2 DEF TryHeaders
    <2>6. CASE ob' = ob
        BY <1>1, <2>6
    <2> QED
        BY <2>1, <2>2, <2>3, <2>4, <2>5, <2>6 DEF Call, Worker, Take, SeeStop, Poll,
           PollStop, Wait, Decode, Leftovers, GiveBack, SubmitResult, proxySide
<1> QED
    BY <1>2, <1>3

LEMMA PersistLimit ==
    ASSUME TypeOK, WithinLimits, [Next]_vars
    PROVE  Len(persist') <= PersistQueue
<1>1. CASE UNCHANGED persist
    BY <1>1 DEF WithinLimits
<1>2. CASE persist # <<>> /\ persist' = Tail(persist)
    BY <1>2, TrafficAssumption DEF WithinLimits, TypeOK
<1>3. CASE Len(persist) < PersistQueue
           /\ \E x \in Attempts \cup {Barrier} : persist' = Append(persist, x)
    BY <1>3, TrafficAssumption DEF TypeOK
<1>4. ASSUME NEW a \in Attempts, Submit(a) PROVE Len(persist') <= PersistQueue
    BY <1>1, <1>3, <1>4 DEF Submit
<1> QED
    BY <1>1, <1>2, <1>3, <1>4 DEF Next, Worker, PrepareAttempt, Register,
       TryHeaders, TryChunk, Reserve, Finish, Take, SeeStop, Poll, PollStop, Wait, Decode,
       Leftovers, GiveBack, SubmitResult, Leave, service, PersistOne, Stop, StopWaited,
       Flush, FlushBarrier, FlushGivesUp, vars

LEMMA LimitsStep ==
    ASSUME TypeOK, WithinLimits, Roles, [Next]_vars PROVE WithinLimits'
<1>1. ASSUME NEW a \in Attempts, Call(a) PROVE WithinLimits'
    BY <1>1, OwnOnly, OwnLimits, PersistLimit DEF WithinLimits, Untouched
<1>2. CASE UNCHANGED <<ob, queue>>
    BY <1>2, PersistLimit DEF WithinLimits
<1> QED
    BY <1>1, <1>2 DEF Next, Call, PersistOne, Stop, StopWaited, Flush, FlushBarrier,
       FlushGivesUp, vars, proxySide


-----------------------------------------------------------------------------
LEMMA HeldFinite == IsFiniteSet(Held)
<1>1. IsFiniteSet(Attempts \X (0 .. OwnQueue))
    <2>1. IsFiniteSet(0 .. OwnQueue)
        BY FS_Interval, TrafficAssumption
    <2> QED
        BY <2>1, FS_Product, TrafficAssumption
<1>2. Held \in SUBSET (Attempts \X (0 .. OwnQueue))
    BY DEF Held
<1> QED
    BY <1>1, <1>2, FS_Subset

\* Who holds what, with queues within their limit.
HeldIn(q, w) ==
    {h \in Attempts \X (0 .. OwnQueue) :
        IF h[2] = 0 THEN w[h[1]].held = 1
        ELSE h[2] <= Len(q[h[1]]) /\ q[h[1]][h[2]] = "chunk"}

LEMMA HeldIs ==
    ASSUME NEW q \in [Attempts -> Seq(Events)], NEW w,
           \A c \in Attempts : Len(q[c]) <= OwnQueue,
           NEW b \in Attempts, NEW i \in Nat
    PROVE  <<b, i>> \in HeldIn(q, w) <=>
             IF i = 0 THEN w[b].held = 1 ELSE i <= Len(q[b]) /\ q[b][i] = "chunk"
<1>1. Len(q[b]) \in Nat /\ Len(q[b]) <= OwnQueue
    OBVIOUS
<1>2. <<b, i>> \in HeldIn(q, w) <=>
        /\ i \in 0 .. OwnQueue
        /\ IF i = 0 THEN w[b].held = 1 ELSE i <= Len(q[b]) /\ q[b][i] = "chunk"
    BY DEF HeldIn
<1> QED
    BY <1>1, <1>2, TrafficAssumption

\* The bytes of one attempt that has moved up by one place are as many.
LEMMA MovedUp ==
    ASSUME NEW S \in SUBSET (Attempts \X Nat), NEW T \in SUBSET (Attempts \X Nat),
           IsFiniteSet(S), NEW a \in Attempts,
           \A b \in Attempts \ {a} : \A i \in Nat : <<b, i>> \in S <=> <<b, i>> \in T,
           \A i \in Nat : <<a, i>> \in S <=> <<a, i + 1>> \in T,
           <<a, 0>> \notin T
    PROVE  Cardinality(S) = Cardinality(T)
<1> DEFINE f == [h \in S |-> IF h[1] = a THEN <<a, h[2] + 1>> ELSE h]
<1>1. \A h \in S : f[h] \in T
    <2> SUFFICES ASSUME NEW b \in Attempts, NEW i \in Nat, <<b, i>> \in S
                 PROVE  f[<<b, i>>] \in T
        OBVIOUS
    <2> QED
        OBVIOUS
<1>2. \A g, h \in S : f[g] = f[h] => g = h
    <2> SUFFICES ASSUME NEW b \in Attempts, NEW i \in Nat, <<b, i>> \in S,
                        NEW c \in Attempts, NEW j \in Nat, <<c, j>> \in S,
                        f[<<b, i>>] = f[<<c, j>>]
                 PROVE  <<b, i>> = <<c, j>>
        OBVIOUS
    <2> QED
        OBVIOUS
<1>3. \A t \in T : \E h \in S : f[h] = t
    <2> SUFFICES ASSUME NEW t \in T PROVE \E h \in S : f[h] = t
        OBVIOUS
    <2>0. PICK b \in Attempts, j \in Nat : t = <<b, j>>
        OBVIOUS
    <2>1. CASE b # a
        BY <2>0, <2>1
    <2>2. CASE b = a
        <3>1. j - 1 \in Nat /\ (j - 1) + 1 = j
            BY <2>0, <2>2
        <3>2. <<a, j - 1>> \in S
            BY <2>0, <2>2, <3>1
        <3> QED
            BY <2>0, <2>2, <3>1, <3>2
    <2> QED
        BY <2>1, <2>2
<1>4. f \in Bijection(S, T)
    BY <1>1, <1>2, <1>3 DEF Bijection, Injection, Surjection, IsInjective
<1> QED
    BY <1>4, FS_Bijection DEF ExistsBijection


\* What a state and its successor must satisfy for the bytes to be counted.
Countable == TypeOK /\ WithinLimits /\ Roles

LEMMA HeldNow ==
    ASSUME Countable, NEW b \in Attempts, NEW i \in Nat
    PROVE  <<b, i>> \in Held <=>
             IF i = 0 THEN wk[b].at = "decode"
             ELSE i <= Len(queue[b]) /\ queue[b][i] = "chunk"
<1>1. Held = HeldIn(queue, wk)
    BY DEF Held, HeldIn
<1>2. /\ queue \in [Attempts -> Seq(Events)]
      /\ \A c \in Attempts : Len(queue[c]) <= OwnQueue
    BY DEF Countable, TypeOK, WithinLimits
<1>3. wk[b].held = 1 <=> wk[b].at = "decode"
    BY DEF Countable, Roles, Role
<1> QED
    BY <1>1, <1>2, <1>3, HeldIs

LEMMA HeldNext ==
    ASSUME Countable', NEW b \in Attempts, NEW i \in Nat
    PROVE  <<b, i>> \in Held' <=>
             IF i = 0 THEN wk'[b].at = "decode"
             ELSE i <= Len(queue'[b]) /\ queue'[b][i] = "chunk"
<1>1. Held' = HeldIn(queue', wk')
    BY DEF Held, HeldIn
<1>2. /\ queue' \in [Attempts -> Seq(Events)]
      /\ \A c \in Attempts : Len(queue'[c]) <= OwnQueue
    BY DEF Countable, TypeOK, WithinLimits
<1>3. wk'[b].held = 1 <=> wk'[b].at = "decode"
    BY DEF Countable, Roles, Role
<1> QED
    BY <1>1, <1>2, <1>3, HeldIs

LEMMA HeldPairs ==
    /\ Held \in SUBSET (Attempts \X Nat) /\ Held' \in SUBSET (Attempts \X Nat)
    /\ IsFiniteSet(Held')
<1>1. 0 .. OwnQueue \in SUBSET Nat
    BY TrafficAssumption
<1>2. Held' = HeldIn(queue', wk')
    BY DEF Held, HeldIn
<1>3. IsFiniteSet(Attempts \X (0 .. OwnQueue))
    <2>1. IsFiniteSet(0 .. OwnQueue)
        BY FS_Interval, TrafficAssumption
    <2> QED
        BY <2>1, FS_Product, TrafficAssumption
<1>4. HeldIn(queue', wk') \in SUBSET (Attempts \X (0 .. OwnQueue))
    BY DEF HeldIn
<1> QED
    BY <1>1, <1>2, <1>3, <1>4, FS_Subset DEF Held

\* A call changes at most the bytes of its attempt.
LEMMA HeldElsewhere ==
    ASSUME Countable, Countable', NEW a \in Attempts, Call(a)
    PROVE  \A b \in Attempts \ {a} : \A i \in Nat : <<b, i>> \in Held' <=> <<b, i>> \in Held
<1>1. Untouched(a)
    BY OwnOnly DEF Countable
<1> SUFFICES ASSUME NEW b \in Attempts \ {a}, NEW i \in Nat
             PROVE  <<b, i>> \in Held' <=> <<b, i>> \in Held
    OBVIOUS
<1>2. wk'[b] = wk[b] /\ queue'[b] = queue[b]
    BY <1>1 DEF Untouched
<1>3. b \in Attempts
    OBVIOUS
<1>4. <<b, i>> \in Held <=> IF i = 0 THEN wk[b].at = "decode"
                           ELSE i <= Len(queue[b]) /\ queue[b][i] = "chunk"
    BY <1>3, HeldNow
<1>5. <<b, i>> \in Held' <=> IF i = 0 THEN wk'[b].at = "decode"
                            ELSE i <= Len(queue'[b]) /\ queue'[b][i] = "chunk"
    BY <1>3, HeldNext
<1> QED
    BY <1>2, <1>4, <1>5

LEMMA HeldSame ==
    ASSUME Countable, Countable', NEW a \in Attempts, Call(a),
           \A i \in Nat : <<a, i>> \in Held' <=> <<a, i>> \in Held
    PROVE  Held' = Held
<1>1. \A b \in Attempts : \A i \in Nat : <<b, i>> \in Held' <=> <<b, i>> \in Held
    BY HeldElsewhere
<1> QED
    BY <1>1, HeldPairs


LEMMA BudgetSame ==
    ASSUME Countable, Countable', BudgetKept, NEW a \in Attempts, Call(a),
           UNCHANGED <<queue, copyBytes>>,
           wk[a].at = "decode" <=> wk'[a].at = "decode"
    PROVE  BudgetKept'
<1>1. \A i \in Nat : <<a, i>> \in Held' <=> <<a, i>> \in Held
    <2> SUFFICES ASSUME NEW i \in Nat PROVE <<a, i>> \in Held' <=> <<a, i>> \in Held
        OBVIOUS
    <2>1. <<a, i>> \in Held <=> IF i = 0 THEN wk[a].at = "decode"
                               ELSE i <= Len(queue[a]) /\ queue[a][i] = "chunk"
        BY HeldNow
    <2>2. <<a, i>> \in Held' <=> IF i = 0 THEN wk'[a].at = "decode"
                                ELSE i <= Len(queue'[a]) /\ queue'[a][i] = "chunk"
        BY HeldNext
    <2> QED
        BY <2>1, <2>2
<1>2. Held' = Held
    BY <1>1, HeldSame
<1> QED
    BY <1>2 DEF BudgetKept

\* A chunk is copied, or only its headers are queued.
LEMMA BudgetAppend ==
    ASSUME Countable, Countable', BudgetKept, NEW a \in Attempts, Call(a),
           NEW e \in Events, queue' = [queue EXCEPT ![a] = Append(@, e)], UNCHANGED wk,
           e = "headers" => copyBytes' = copyBytes,
           e = "chunk" => copyBytes' = copyBytes + 1 /\ copyBytes + 1 <= Budget
    PROVE  BudgetKept'
<1> DEFINE n == Len(queue[a]) + 1
<1>1. queue[a] \in Seq(Events) /\ queue'[a] = Append(queue[a], e) /\ n \in Nat \ {0}
      /\ Len(queue'[a]) = n /\ queue'[a][n] = e
      /\ \A i \in 1 .. Len(queue[a]) : queue'[a][i] = queue[a][i]
    BY DEF Countable, TypeOK
<1>2. \A i \in Nat : <<a, i>> \in Held' <=> <<a, i>> \in Held \/ (i = n /\ e = "chunk")
    <2> SUFFICES ASSUME NEW i \in Nat
                 PROVE  <<a, i>> \in Held' <=> <<a, i>> \in Held \/ (i = n /\ e = "chunk")
        OBVIOUS
    <2>1. <<a, i>> \in Held <=> IF i = 0 THEN wk[a].at = "decode"
                               ELSE i <= Len(queue[a]) /\ queue[a][i] = "chunk"
        BY HeldNow
    <2>2. <<a, i>> \in Held' <=> IF i = 0 THEN wk'[a].at = "decode"
                                ELSE i <= Len(queue'[a]) /\ queue'[a][i] = "chunk"
        BY HeldNext
    <2> QED
        BY <1>1, <2>1, <2>2
<1>3. <<a, n>> \notin Held
    BY <1>1, HeldNow
<1>4. CASE e = "chunk"
    <2>1. Held' = Held \cup {<<a, n>>}
        BY <1>1, <1>2, <1>4, HeldElsewhere, HeldPairs
    <2> QED
        BY <1>3, <1>4, <2>1, HeldFinite, FS_AddElement DEF BudgetKept
<1>5. CASE e = "headers"
    <2>1. Held' = Held
        BY <1>2, <1>5, HeldSame
    <2> QED
        BY <1>5, <2>1 DEF BudgetKept
<1> QED
    BY <1>4, <1>5 DEF Events


\* The first event is taken: its byte is given back at once, or it goes into
\* the hands of the reader.
LEMMA BudgetTail ==
    ASSUME Countable, Countable', BudgetKept, NEW a \in Attempts, Call(a),
           queue[a] # <<>>, queue' = [queue EXCEPT ![a] = Tail(@)], wk[a].at # "decode",
           \/ /\ wk'[a].at # "decode"
              /\ copyBytes' = IF Head(queue[a]) = "chunk" THEN copyBytes - 1 ELSE copyBytes
           \/ /\ wk'[a].at = "decode" <=> Head(queue[a]) = "chunk"
              /\ copyBytes' = copyBytes
    PROVE  BudgetKept'
<1> DEFINE kept == wk'[a].at = "decode" \/ Head(queue[a]) # "chunk"
           T == IF kept THEN Held ELSE Held \ {<<a, 1>>}
<1>1. /\ queue[a] \in Seq(Events) /\ Len(queue[a]) \in Nat \ {0}
      /\ queue'[a] = Tail(queue[a]) /\ Len(queue'[a]) = Len(queue[a]) - 1
      /\ \A i \in 1 .. Len(queue[a]) - 1 : queue'[a][i] = queue[a][i + 1]
      /\ Head(queue[a]) = queue[a][1]
    BY DEF Countable, TypeOK
<1>2. <<a, 1>> \in Held <=> Head(queue[a]) = "chunk"
    BY <1>1, HeldNow
<1>3. <<a, 0>> \notin T
    BY HeldNow
<1>4. \A i \in Nat : <<a, i>> \in Held' <=> <<a, i + 1>> \in T
    <2> SUFFICES ASSUME NEW i \in Nat PROVE <<a, i>> \in Held' <=> <<a, i + 1>> \in T
        OBVIOUS
    <2>1. <<a, i + 1>> \in Held <=> i + 1 <= Len(queue[a]) /\ queue[a][i + 1] = "chunk"
        BY HeldNow
    <2>2. <<a, i>> \in Held' <=> IF i = 0 THEN wk'[a].at = "decode"
                                ELSE i <= Len(queue'[a]) /\ queue'[a][i] = "chunk"
        BY HeldNext
    <2>3. CASE i = 0
        BY <1>1, <1>2, <2>2, <2>3
    <2>4. CASE i # 0
        <3>1. <<a, i>> \in Held' <=> <<a, i + 1>> \in Held
            BY <1>1, <2>1, <2>2, <2>4
        <3>2. <<a, i + 1>> # <<a, 1>>
            BY <2>4
        <3> QED
            BY <3>1, <3>2
    <2> QED
        BY <2>3, <2>4
<1>5. \A b \in Attempts \ {a} : \A i \in Nat : <<b, i>> \in Held' <=> <<b, i>> \in T
    BY HeldElsewhere
<1>6. T \in SUBSET (Attempts \X Nat)
    BY HeldPairs
<1> HIDE DEF T
<1>7. Cardinality(Held') = Cardinality(T)
    BY <1>3, <1>4, <1>5, <1>6, HeldPairs, MovedUp
<1>8. Cardinality(T) = IF kept THEN Cardinality(Held) ELSE Cardinality(Held) - 1
    BY <1>2, HeldFinite, FS_RemoveElement DEF T
<1>9. Cardinality(Held) \in Nat
    BY HeldFinite, FS_CardinalityType
<1> QED
    BY <1>7, <1>8, <1>9, TrafficAssumption DEF BudgetKept

\* The reader's byte is given back.
LEMMA BudgetDecode ==
    ASSUME Countable, Countable', BudgetKept, NEW a \in Attempts, Call(a),
           wk[a].at = "decode", wk'[a].at # "decode", UNCHANGED queue,
           copyBytes' = copyBytes - 1
    PROVE  BudgetKept'
<1>1. \A i \in Nat : <<a, i>> \in Held' <=> <<a, i>> \in Held /\ i # 0
    <2> SUFFICES ASSUME NEW i \in Nat PROVE <<a, i>> \in Held' <=> <<a, i>> \in Held /\ i # 0
        OBVIOUS
    <2>1. <<a, i>> \in Held <=> IF i = 0 THEN wk[a].at = "decode"
                               ELSE i <= Len(queue[a]) /\ queue[a][i] = "chunk"
        BY HeldNow
    <2>2. <<a, i>> \in Held' <=> IF i = 0 THEN wk'[a].at = "decode"
                                ELSE i <= Len(queue'[a]) /\ queue'[a][i] = "chunk"
        BY HeldNext
    <2> QED
        BY <2>1, <2>2
<1>2. <<a, 0>> \in Held
    BY HeldNow
<1>3. Held' = Held \ {<<a, 0>>}
    BY <1>1, HeldElsewhere, HeldPairs
<1>4. Cardinality(Held') = Cardinality(Held) - 1 /\ Cardinality(Held) \in Nat
    BY <1>2, <1>3, HeldFinite, FS_RemoveElement, FS_CardinalityType
<1> QED
    BY <1>4, TrafficAssumption DEF BudgetKept

\* What the queue still held is given back in one subtraction.
LEMMA BudgetLeftovers ==
    ASSUME Countable, Countable', BudgetKept, NEW a \in Attempts, Call(a),
           wk[a].at # "decode", wk'[a].at # "decode",
           queue' = [queue EXCEPT ![a] = <<>>],
           copyBytes' = copyBytes - Cardinality(Chunks(queue[a]))
    PROVE  BudgetKept'
<1> DEFINE T == {a} \X Chunks(queue[a])
<1>1. queue[a] \in Seq(Events) /\ queue'[a] = <<>>
    BY DEF Countable, TypeOK
<1>2. \A i \in Nat : i \in Chunks(queue[a]) <=> <<a, i>> \in Held
    <2> SUFFICES ASSUME NEW i \in Nat PROVE i \in Chunks(queue[a]) <=> <<a, i>> \in Held
        OBVIOUS
    <2>1. <<a, i>> \in Held <=> IF i = 0 THEN wk[a].at = "decode"
                               ELSE i <= Len(queue[a]) /\ queue[a][i] = "chunk"
        BY HeldNow
    <2> QED
        BY <1>1, <2>1 DEF Chunks
<1>3. \A i \in Nat : <<a, i>> \notin Held'
    <2> SUFFICES ASSUME NEW i \in Nat PROVE <<a, i>> \notin Held'
        OBVIOUS
    <2>1. <<a, i>> \in Held' <=> IF i = 0 THEN wk'[a].at = "decode"
                                ELSE i <= Len(queue'[a]) /\ queue'[a][i] = "chunk"
        BY HeldNext
    <2> QED
        BY <1>1, <2>1
<1>4. Chunks(queue[a]) \in SUBSET Nat
    BY <1>1 DEF Chunks
<1>5. T \in SUBSET Held
    BY <1>2, <1>4
<1>6. Held' = Held \ T
    BY <1>2, <1>3, HeldElsewhere, HeldPairs
<1>7. Cardinality(T) = Cardinality(Chunks(queue[a]))
    <2> DEFINE f == [i \in Chunks(queue[a]) |-> <<a, i>>]
    <2>1. f \in Bijection(Chunks(queue[a]), T)
        <3>1. \A i \in Chunks(queue[a]) : f[i] \in T
            OBVIOUS
        <3>2. \A i, j \in Chunks(queue[a]) : f[i] = f[j] => i = j
            OBVIOUS
        <3>3. \A t \in T : \E i \in Chunks(queue[a]) : f[i] = t
            OBVIOUS
        <3> HIDE DEF T
        <3> QED
            BY <3>1, <3>2, <3>3 DEF Bijection, Injection, Surjection, IsInjective
    <2>2. IsFiniteSet(Chunks(queue[a]))
        BY <1>1, ChunksFinite
    <2> QED
        BY <2>1, <2>2, FS_Bijection DEF ExistsBijection
<1> HIDE DEF T
<1>8. Cardinality(Held') = Cardinality(Held) - Cardinality(T)
    <2>1. Held \cap T = T
        BY <1>5
    <2> QED
        <3>1. Cardinality(Held \ T) = Cardinality(Held) - Cardinality(Held \cap T)
            BY HeldFinite, FS_Difference
        <3> QED
            BY <1>6, <2>1, <3>1
<1>9. Cardinality(Held) \in Nat /\ Cardinality(Chunks(queue[a])) \in Nat
    BY <1>1, HeldFinite, ChunksFinite, FS_CardinalityType
<1> QED
    BY <1>7, <1>8, <1>9, TrafficAssumption DEF BudgetKept


LEMMA BudgetStep ==
    ASSUME Countable, Countable', BudgetKept, [Next]_vars
    PROVE  BudgetKept'
<1>0. ASSUME NEW a \in Attempts
      PROVE  wk[a] \in Workers /\ ob[a] \in Observers /\ Role(a)
    BY DEF Countable, TypeOK, Roles
<1>1. ASSUME NEW a \in Attempts,
             PrepareAttempt(a) \/ TryChunk(a) \/ Finish(a)
      PROVE  BudgetKept'
    BY <1>1, BudgetSame DEF Call, PrepareAttempt, TryChunk, Finish
<1>2. ASSUME NEW a \in Attempts, Register(a) PROVE BudgetKept'
    <2>1. wk[a].at = "none"
        BY <1>2, <1>0 DEF Register, Role
    <2>2. UNCHANGED wk \/ Moves(a, [wk[a] EXCEPT !.at = "loop"])
        BY <1>2 DEF Register
    <2>3. wk'[a].at # "decode"
        BY <1>0, <2>1, <2>2 DEF Moves, Workers, Countable, TypeOK
    <2> QED
        BY <1>2, <2>1, <2>3, BudgetSame DEF Call, Register
<1>3. ASSUME NEW a \in Attempts, TryHeaders(a) PROVE BudgetKept'
    <2>1. CASE UNCHANGED queue
        BY <1>3, <2>1, BudgetSame DEF Call, TryHeaders
    <2>2. CASE queue' = [queue EXCEPT ![a] = Append(@, "headers")]
        <3>1. Call(a) /\ UNCHANGED <<wk, copyBytes>>
            BY <1>3 DEF Call, TryHeaders
        <3> QED
            BY <2>2, <3>1, BudgetAppend DEF Events
    <2> QED
        BY <1>3, <2>1, <2>2 DEF TryHeaders
<1>4. ASSUME NEW a \in Attempts, Reserve(a) PROVE BudgetKept'
    <2>1. CASE UNCHANGED <<queue, copyBytes>>
        BY <1>4, <2>1, BudgetSame DEF Call, Reserve
    <2>2. CASE Enqueue(a) /\ copyBytes = ob[a].cur /\ Len(queue[a]) < OwnQueue
        <3>1. Call(a) /\ UNCHANGED wk /\ copyBytes' = copyBytes + 1
              /\ queue' = [queue EXCEPT ![a] = Append(@, "chunk")]
            BY <1>4, <2>2 DEF Call, Reserve, Enqueue
        <3>2. copyBytes + 1 <= Budget
            BY <1>4, <1>0, <2>2 DEF Reserve, Role
        <3> QED
            BY <3>1, <3>2, BudgetAppend DEF Events
    <2> QED
        BY <1>4, <2>1, <2>2 DEF Reserve, Enqueue
<1>5. ASSUME NEW a \in Attempts, Take(a) PROVE BudgetKept'
    <2>1. wk[a].at # "decode"
        BY <1>5 DEF Take, At
    <2>2. wk'[a].at # "decode"
        <3>1. CASE \E k \in Nat : Moves(a, [wk[a] EXCEPT !.read = k])
            BY <3>1, <1>0, <2>1 DEF Moves, Workers, Countable, TypeOK
        <3>2. CASE Moves(a, [wk[a] EXCEPT !.failed = TRUE])
            BY <3>2, <1>0, <2>1 DEF Moves, Workers, Countable, TypeOK
        <3>3. CASE Moves(a, [wk[a] EXCEPT !.at = "poll", !.back = wk[a].at])
            BY <3>3, <1>0 DEF Moves, Workers, Countable, TypeOK
        <3>4. CASE Moves(a, [wk[a] EXCEPT !.at = "panic", !.failed = TRUE])
            BY <3>4, <1>0 DEF Moves, Workers, Countable, TypeOK
        <3>5. wk[a].read \in Nat /\ wk[a].read + 1 \in Nat
            BY <1>0 DEF Workers
        <3> QED
            BY <1>5, <3>1, <3>2, <3>3, <3>4, <3>5 DEF Take, Consume
    <2>3. /\ Call(a) /\ queue[a] # <<>> /\ queue' = [queue EXCEPT ![a] = Tail(@)]
          /\ copyBytes' = IF Head(queue[a]) = "chunk" THEN copyBytes - 1 ELSE copyBytes
        BY <1>5 DEF Call, Worker, Take, Consume
    <2> QED
        BY <2>1, <2>2, <2>3, BudgetTail
<1>6. ASSUME NEW a \in Attempts, Poll(a) \/ Wait(a) PROVE BudgetKept'
    <2>1. Call(a) /\ UNCHANGED copyBytes /\ wk[a].at # "decode"
        BY <1>6 DEF Call, Worker, Poll, Wait, At
    <2>2. CASE queue[a] # <<>> /\ Moves(a, Got(a)) /\ queue' = [queue EXCEPT ![a] = Tail(@)]
        <3>1. CASE Head(queue[a]) = "chunk"
            <4>1. wk'[a].at = "decode"
                BY <2>2, <3>1, <1>0 DEF Moves, Got, Workers, Countable, TypeOK
            <4> QED
                BY <2>1, <2>2, <3>1, <4>1, BudgetTail
        <3>2. CASE Head(queue[a]) # "chunk"
            <4>1. wk'[a].at = "poll"
                BY <2>2, <3>2, <1>0 DEF Moves, Got, Workers, Countable, TypeOK
            <4> QED
                BY <2>1, <2>2, <3>2, <4>1, BudgetTail
        <3> QED
            BY <3>1, <3>2
    <2>3. CASE UNCHANGED queue /\ \E p \in {"empty", "poll"} : Moves(a, [wk[a] EXCEPT !.at = p])
        <3>1. wk'[a].at # "decode"
            BY <2>3, <1>0 DEF Moves, Workers, Countable, TypeOK
        <3> QED
            BY <2>1, <2>3, <3>1, BudgetSame
    <2> QED
        BY <1>6, <2>2, <2>3 DEF Poll, Wait
<1>7. ASSUME NEW a \in Attempts, SeeStop(a) \/ GiveBack(a) \/ SubmitResult(a) PROVE BudgetKept'
    <2>1. Call(a) /\ UNCHANGED <<queue, copyBytes>> /\ wk[a].at # "decode"
        BY <1>7 DEF Call, Worker, SeeStop, GiveBack, SubmitResult, At, proxySide
    <2>2. \E p \in {"closing", "submit", "leave"} : Moves(a, [wk[a] EXCEPT !.at = p])
        BY <1>7 DEF SeeStop, GiveBack, SubmitResult
    <2>3. wk'[a].at # "decode"
        BY <2>2, <1>0 DEF Moves, Workers, Countable, TypeOK
    <2> QED
        BY <2>1, <2>3, BudgetSame
<1>8. ASSUME NEW a \in Attempts, PollStop(a) PROVE BudgetKept'
    <2>1. Call(a) /\ UNCHANGED <<queue, copyBytes>> /\ wk[a].at # "decode"
        BY <1>8 DEF Call, Worker, PollStop, At, proxySide
    <2>2. \/ Moves(a, [wk[a] EXCEPT !.at = wk[a].back, !.eof = TRUE])
          \/ Moves(a, [wk[a] EXCEPT !.at = "wait"])
        BY <1>8 DEF PollStop
    <2>3. wk'[a].at # "decode"
        BY <2>2, <1>0 DEF Moves, Workers, Countable, TypeOK
    <2> QED
        BY <2>1, <2>3, BudgetSame
<1>9. ASSUME NEW a \in Attempts, Decode(a) PROVE BudgetKept'
    <2>1. Call(a) /\ UNCHANGED queue /\ wk[a].at = "decode" /\ wk[a].held = 1
          /\ copyBytes' = copyBytes - 1
        BY <1>9, <1>0 DEF Call, Worker, Decode, At, proxySide, Role
    <2> DEFINE w == [wk[a] EXCEPT !.held = 0]
    <2>2. w \in Workers /\ wk[a].back \in {"loop", "closing"}
        BY <1>0 DEF Workers
    <2>3. \/ wk'[a] = [w EXCEPT !.at = "poll", !.read = @ + 1]
          \/ wk'[a] = [w EXCEPT !.at = wk[a].back, !.failed = TRUE]
          \/ wk'[a] = [w EXCEPT !.at = "panic", !.failed = TRUE]
        BY <1>9 DEF Decode, Moves, Countable, TypeOK
    <2> HIDE DEF w
    <2>4. wk'[a].at # "decode"
        BY <2>2, <2>3 DEF Workers
    <2> QED
        BY <2>1, <2>4, BudgetDecode
<1>10. ASSUME NEW a \in Attempts, Leftovers(a) PROVE BudgetKept'
    <2>1. wk'[a].at # "decode"
        BY <1>10, <1>0 DEF Leftovers, Moves, Workers, Countable, TypeOK
    <2> QED
        BY <1>10, <2>1, BudgetLeftovers DEF Call, Worker, Leftovers, At
<1>11. ASSUME NEW a \in Attempts, Leave(a) PROVE BudgetKept'
    <2>1. wk'[a].at # "decode"
        BY <1>11, <1>0 DEF Leave, Moves, NoWorker, Countable, TypeOK
    <2> QED
        BY <1>11, <2>1, BudgetSame DEF Call, Worker, Leave, At
<1>12. CASE UNCHANGED <<queue, wk, copyBytes>>
    BY <1>12 DEF BudgetKept, Held
<1> QED
    BY <1>1, <1>2, <1>3, <1>4, <1>5, <1>6, <1>7, <1>8, <1>9, <1>10, <1>11, <1>12
    DEF Next, Worker, PersistOne, Stop, StopWaited, Flush, FlushBarrier, FlushGivesUp,
        vars, proxySide


-----------------------------------------------------------------------------
\* Where an attempt and its worker go, one call at a time.
Busy == {"loop", "closing", "poll", "empty", "wait", "decode", "panic", "lease"}

LEMMA WorkerMoves ==
    ASSUME TypeOK, Roles, NEW a \in Attempts, Worker(a)
    PROVE  /\ ob'[a].phase = ob[a].phase /\ ob'[a].full = ob[a].full
           /\ \/ wk[a].at \in Busy /\ wk'[a].at \in Busy /\ ~GiveBack(a)
              \/ GiveBack(a) /\ wk[a].at = "lease" /\ wk'[a].at = "submit"
              \/ SubmitResult(a) /\ wk[a].at = "submit" /\ wk'[a].at = "leave"
              \/ Leave(a) /\ wk[a].at = "leave" /\ wk'[a].at = "gone"
<1>0. wk[a] \in Workers /\ ob[a] \in Observers /\ Role(a) /\ wk \in [Attempts -> Workers]
    BY DEF Roles, TypeOK
<1>2. CASE Leave(a)
    <2>1. ob'[a].phase = ob[a].phase /\ ob'[a].full = ob[a].full
        BY <1>2, <1>0 DEF Leave, Knows, TypeOK, Observers
    <2>2. wk'[a].at = "gone"
        BY <1>2, <1>0 DEF Leave, Moves, NoWorker
    <2> QED
        BY <1>2, <2>1, <2>2 DEF Leave, At
<1>3. ASSUME ~Leave(a) PROVE ob' = ob
    BY <1>3 DEF Worker, Take, SeeStop, Poll, PollStop, Wait, Decode, Leftovers, GiveBack,
       SubmitResult, proxySide
<1>4. CASE GiveBack(a)
    BY <1>4, <1>0 DEF GiveBack, At, Moves, Workers, proxySide
<1>5. CASE SubmitResult(a)
    BY <1>5, <1>0 DEF SubmitResult, At, Moves, Workers, proxySide
<1>6. CASE SeeStop(a)
    <2>1. wk[a].at = "loop" /\ wk'[a].at = "closing"
        BY <1>6, <1>0 DEF SeeStop, At, Moves, Workers
    <2> QED
        BY <1>0, <1>3, <1>6, <2>1 DEF Busy, GiveBack, At, Leave
<1>7. CASE Leftovers(a)
    <2>1. wk[a].at \in {"panic", "closing"} /\ wk'[a].at = "lease"
        BY <1>7, <1>0 DEF Leftovers, At, Moves, Workers
    <2> QED
        BY <1>0, <1>3, <1>7, <2>1 DEF Busy, GiveBack, At, Leave
<1>8. CASE Poll(a) \/ Wait(a)
    <2>1. wk[a].at \in {"poll", "wait"}
        BY <1>8 DEF Poll, Wait, At
    <2>2. wk'[a].at \in {"decode", "poll", "empty"}
        <3>1. CASE Moves(a, [wk[a] EXCEPT !.at = "decode", !.held = 1])
            BY <3>1, <1>0 DEF Moves, Workers
        <3>2. CASE \E p \in {"poll", "empty"} : Moves(a, [wk[a] EXCEPT !.at = p])
            BY <3>2, <1>0 DEF Moves, Workers
        <3> QED
            BY <1>8, <3>1, <3>2 DEF Poll, Wait, Got
    <2> QED
        BY <1>0, <1>3, <2>1, <2>2 DEF Busy, GiveBack, At, Leave
<1>9. CASE PollStop(a)
    <2>1. wk[a].at = "empty" /\ wk[a].back \in {"loop", "closing"}
        BY <1>9, <1>0 DEF PollStop, At, Workers
    <2>2. wk'[a].at \in {"loop", "closing", "wait"}
        <3>1. CASE Moves(a, [wk[a] EXCEPT !.at = wk[a].back, !.eof = TRUE])
            BY <3>1, <2>1, <1>0 DEF Moves, Workers
        <3>2. CASE Moves(a, [wk[a] EXCEPT !.at = "wait"])
            BY <3>2, <1>0 DEF Moves, Workers
        <3> QED
            BY <1>9, <3>1, <3>2 DEF PollStop
    <2> QED
        BY <1>0, <1>3, <2>1, <2>2 DEF Busy, GiveBack, At, Leave
<1>10. CASE Take(a)
    <2>1. wk[a].at \in {"loop", "closing"}
        BY <1>10 DEF Take, At
    <2>2. wk'[a].at \in {"loop", "closing", "poll", "panic"}
        <3>1. CASE \E k \in Nat : Moves(a, [wk[a] EXCEPT !.read = k])
            BY <3>1, <1>0, <2>1 DEF Moves, Workers
        <3>2. CASE Moves(a, [wk[a] EXCEPT !.failed = TRUE])
            BY <3>2, <1>0, <2>1 DEF Moves, Workers
        <3>3. CASE Moves(a, [wk[a] EXCEPT !.at = "poll", !.back = wk[a].at])
            BY <3>3, <1>0 DEF Moves, Workers
        <3>4. CASE Moves(a, [wk[a] EXCEPT !.at = "panic", !.failed = TRUE])
            BY <3>4, <1>0 DEF Moves, Workers
        <3>5. wk[a].read \in Nat /\ wk[a].read + 1 \in Nat
            BY <1>0 DEF Workers
        <3> QED
            BY <1>10, <3>1, <3>2, <3>3, <3>4, <3>5 DEF Take, Consume
    <2> QED
        BY <1>0, <1>3, <2>1, <2>2 DEF Busy, GiveBack, At, Leave
<1>11. CASE Decode(a)
    <2>1. wk[a].at = "decode"
        BY <1>11 DEF Decode, At
    <2> DEFINE w == [wk[a] EXCEPT !.held = 0]
    <2>2. w \in Workers /\ wk[a].back \in {"loop", "closing"}
        BY <1>0 DEF Workers
    <2>3. \/ wk'[a] = [w EXCEPT !.at = "poll", !.read = @ + 1]
          \/ wk'[a] = [w EXCEPT !.at = wk[a].back, !.failed = TRUE]
          \/ wk'[a] = [w EXCEPT !.at = "panic", !.failed = TRUE]
        BY <1>11, <1>0 DEF Decode, Moves
    <2> HIDE DEF w
    <2>4. wk'[a].at \in {"poll", "panic", "loop", "closing"}
        BY <2>2, <2>3 DEF Workers
    <2> QED
        BY <1>0, <1>3, <2>1, <2>4 DEF Busy, GiveBack, At, Leave
<1> QED
    BY <1>2, <1>4, <1>5, <1>6, <1>7, <1>8, <1>9, <1>10, <1>11 DEF Worker

\* The same for the proxy's calls.
LEMMA ProxyMoves ==
    ASSUME TypeOK, Roles, NEW a \in Attempts
    PROVE  /\ PrepareAttempt(a) =>
                /\ ob[a].phase = "none" /\ wk' = wk
                /\ \/ /\ ob'[a].phase = "prepared" /\ ob'[a].full
                      /\ leases > 0 /\ leases' = leases - 1
                   \/ ob'[a].phase = "open" /\ ~ob'[a].full /\ UNCHANGED leases
           /\ Register(a) =>
                /\ ob[a].phase = "prepared" /\ ob[a].full /\ ob'[a].full
                /\ \/ ob'[a].phase = "noop" /\ wk' = wk /\ leases' = leases + 1
                   \/ /\ ob'[a].phase = "open" /\ wk'[a].at = "loop"
                      /\ UNCHANGED leases
           /\ TryHeaders(a) \/ TryChunk(a) \/ Reserve(a) =>
                /\ ob'[a].phase = ob[a].phase /\ ob'[a].full = ob[a].full
                /\ UNCHANGED <<wk, leases>> /\ ob[a].phase = "open"
           /\ Finish(a) =>
                /\ ob[a].phase = "open" /\ ob'[a].phase = "finished"
                /\ ob'[a].full = ob[a].full /\ UNCHANGED <<wk, leases>>
<1>0. wk[a] \in Workers /\ ob[a] \in Observers /\ Role(a) /\ wk \in [Attempts -> Workers]
      /\ ob \in [Attempts -> Observers]
    BY DEF Roles, TypeOK
<1>1. ASSUME PrepareAttempt(a)
      PROVE  /\ ob[a].phase = "none" /\ wk' = wk
             /\ \/ /\ ob'[a].phase = "prepared" /\ ob'[a].full
                   /\ leases > 0 /\ leases' = leases - 1
                \/ ob'[a].phase = "open" /\ ~ob'[a].full /\ UNCHANGED leases
    <2>1. ob[a].phase = "none" /\ ~ob[a].full /\ wk' = wk
        BY <1>0, <1>1 DEF PrepareAttempt, Role
    <2>2. CASE leases > 0
        <3>1. ob'[a].phase = "prepared" /\ ob'[a].full = TRUE
            <4>1. Knows(a, [ob[a] EXCEPT !.phase = "prepared", !.full = TRUE])
                BY <1>1, <2>2 DEF PrepareAttempt
            <4> QED
                BY <1>0, <4>1 DEF Knows, Observers
        <3> QED
            BY <1>1, <2>1, <2>2, <3>1 DEF PrepareAttempt
    <2>3. CASE ~(leases > 0)
        <3>1. ob'[a].phase = "open" /\ ob'[a].full = ob[a].full
            BY <1>0, <1>1, <2>3 DEF PrepareAttempt, Knows, Observers
        <3> QED
            BY <1>1, <2>1, <2>3, <3>1 DEF PrepareAttempt
    <2> QED
        BY <2>2, <2>3
<1>2. ASSUME Register(a)
      PROVE  /\ ob[a].phase = "prepared" /\ ob[a].full /\ ob'[a].full
             /\ \/ ob'[a].phase = "noop" /\ wk' = wk /\ leases' = leases + 1
                \/ /\ ob'[a].phase = "open" /\ wk'[a].at = "loop"
                   /\ UNCHANGED leases
    <2>1. ob[a].phase = "prepared" /\ ob[a].full
        BY <1>0, <1>2 DEF Register, Role
    <2>2. CASE stopping
        <3>1. ob'[a].phase = "noop" /\ ob'[a].full = ob[a].full
            BY <1>0, <1>2, <2>2 DEF Register, Knows, Observers
        <3> QED
            BY <1>2, <2>1, <2>2, <3>1 DEF Register
    <2>3. CASE ~stopping
        <3>1. ob'[a].phase = "open" /\ ob'[a].full = ob[a].full
            BY <1>0, <1>2, <2>3 DEF Register, Knows, Observers
        <3>2. wk'[a].at = "loop"
            BY <1>0, <1>2, <2>3 DEF Register, Moves, Workers
        <3> QED
            BY <1>2, <2>1, <2>3, <3>1, <3>2 DEF Register
    <2> QED
        BY <2>2, <2>3
<1>3. ASSUME TryHeaders(a)
      PROVE  /\ ob'[a].phase = ob[a].phase /\ ob'[a].full = ob[a].full
             /\ UNCHANGED <<wk, leases>> /\ ob[a].phase = "open"
    <2>1. CASE Knows(a, [ob[a] EXCEPT !.heads = TRUE])
        BY <1>0, <1>3, <2>1 DEF TryHeaders, Mine, Knows, Observers
    <2>2. CASE Knows(a, [ob[a] EXCEPT !.heads = TRUE, !.incomplete = TRUE])
        BY <1>0, <1>3, <2>2 DEF TryHeaders, Mine, Knows, Observers
    <2> QED
        BY <1>3, <2>1, <2>2 DEF TryHeaders
<1>4. ASSUME TryChunk(a)
      PROVE  /\ ob'[a].phase = ob[a].phase /\ ob'[a].full = ob[a].full
             /\ UNCHANGED <<wk, leases>> /\ ob[a].phase = "open"
    <2> DEFINE o == [ob[a] EXCEPT !.wire = @ + 1]
    <2>1. o \in Observers /\ o.phase = ob[a].phase /\ o.full = ob[a].full
        BY <1>0 DEF Observers
    <2>2. ob'[a] = [o EXCEPT !.incomplete = TRUE] \/ ob'[a] = [o EXCEPT !.cur = copyBytes]
        BY <1>0, <1>4 DEF TryChunk, Knows
    <2> HIDE DEF o
    <2>3. ob'[a].phase = o.phase /\ ob'[a].full = o.full
        BY <2>1, <2>2 DEF Observers
    <2> QED
        BY <1>4, <2>1, <2>3 DEF TryChunk, Mine
<1>5. ASSUME Reserve(a)
      PROVE  /\ ob'[a].phase = ob[a].phase /\ ob'[a].full = ob[a].full
             /\ UNCHANGED <<wk, leases>> /\ ob[a].phase = "open"
    <2>1. ob[a].phase = "open" /\ UNCHANGED <<wk, leases>>
        BY <1>0, <1>5 DEF Reserve, Role
    <2>2. CASE Knows(a, [ob[a] EXCEPT !.cur = Free, !.used = @ + 1])
        BY <1>0, <2>1, <2>2 DEF Knows, Observers
    <2>3. CASE Knows(a, [ob[a] EXCEPT !.cur = Free, !.incomplete = TRUE])
        BY <1>0, <2>1, <2>3 DEF Knows, Observers
    <2>4. CASE Knows(a, [ob[a] EXCEPT !.cur = copyBytes])
        BY <1>0, <2>1, <2>4 DEF Knows, Observers
    <2> QED
        BY <1>5, <2>2, <2>3, <2>4 DEF Reserve, Enqueue
<1>6. ASSUME Finish(a)
      PROVE  /\ ob[a].phase = "open" /\ ob'[a].phase = "finished"
             /\ ob'[a].full = ob[a].full /\ UNCHANGED <<wk, leases>>
    BY <1>0, <1>6 DEF Finish, Mine, Knows, Observers
<1> QED
    BY <1>1, <1>2, <1>3, <1>4, <1>5, <1>6


\* A lease is with an attempt that is prepared or whose worker is busy.
LEMMA LentNow ==
    ASSUME TypeOK, Roles
    PROVE  \A a \in Attempts : a \in Lent <=> ob[a].phase = "prepared" \/ wk[a].at \in Busy
<1> SUFFICES ASSUME NEW a \in Attempts
             PROVE  a \in Lent <=> ob[a].phase = "prepared" \/ wk[a].at \in Busy
    OBVIOUS
<1>1. wk[a] \in Workers /\ Role(a)
    BY DEF TypeOK, Roles
<1>2. wk[a].at \in Busy \cup {"none", "submit", "leave", "gone"}
    BY <1>1 DEF Workers, Busy
<1>3. a \in Lent <=> (ob[a].phase = "prepared"
        \/ (ob[a].full /\ wk[a].at \notin {"none", "submit", "leave", "gone"}))
    BY DEF Lent
<1>4. wk[a].at # "none" => ob[a].full
    BY <1>1 DEF Role
<1> QED
    BY <1>2, <1>3, <1>4 DEF Busy

LEMMA LentNext ==
    ASSUME TypeOK', Roles'
    PROVE  \A a \in Attempts : a \in Lent' <=> ob'[a].phase = "prepared" \/ wk'[a].at \in Busy
<1> SUFFICES ASSUME NEW a \in Attempts
             PROVE  a \in Lent' <=> ob'[a].phase = "prepared" \/ wk'[a].at \in Busy
    OBVIOUS
<1>1. wk'[a] \in Workers /\ Role(a)'
    BY DEF TypeOK, Roles
<1>2. wk'[a].at \in Busy \cup {"none", "submit", "leave", "gone"}
    BY <1>1 DEF Workers, Busy
<1>3. a \in Lent' <=> (ob'[a].phase = "prepared"
        \/ (ob'[a].full /\ wk'[a].at \notin {"none", "submit", "leave", "gone"}))
    BY DEF Lent
<1>4. wk'[a].at # "none" => ob'[a].full
    BY <1>1 DEF Role
<1> QED
    BY <1>2, <1>3, <1>4 DEF Busy

LEMMA LeasesStep ==
    ASSUME Countable, Countable', LeasesKept, [Next]_vars
    PROVE  LeasesKept'
<1>0. /\ Lent \in SUBSET Attempts /\ Lent' \in SUBSET Attempts /\ IsFiniteSet(Lent)
      /\ leases \in Nat /\ Cardinality(Lent) \in Nat
    <2>1. Lent \in SUBSET Attempts /\ Lent' \in SUBSET Attempts
        BY DEF Lent
    <2>2. IsFiniteSet(Lent)
        BY <2>1, FS_Subset, TrafficAssumption
    <2>3. Cardinality(Lent) \in Nat
        BY <2>2, FS_CardinalityType
    <2> QED
        BY <2>1, <2>2, <2>3 DEF LeasesKept
<1>a. ASSUME NEW a \in Attempts, Call(a)
      PROVE  /\ \A b \in Attempts \ {a} : b \in Lent' <=> b \in Lent
             /\ a \in Lent <=> ob[a].phase = "prepared" \/ wk[a].at \in Busy
             /\ a \in Lent' <=> ob'[a].phase = "prepared" \/ wk'[a].at \in Busy
             /\ ob[a].phase # "finished" /\ ob[a].phase # "open" => wk[a].at = "none"
    <2>1. Untouched(a)
        BY <1>a, OwnOnly DEF Countable
    <2>2. Role(a)
        BY DEF Countable, Roles
    <2> QED
        BY <2>1, <2>2, LentNow, LentNext DEF Countable, Untouched, Role
<1>1. ASSUME NEW a \in Attempts, Call(a), UNCHANGED leases, a \in Lent' <=> a \in Lent
      PROVE  LeasesKept'
    <2>1. Lent' = Lent
        <3>1. \A b \in Attempts : b \in Lent' <=> b \in Lent
            BY <1>1, <1>a
        <3> QED
            BY <1>0, <3>1
    <2> QED
        BY <1>1, <2>1 DEF LeasesKept
<1>2. ASSUME NEW a \in Attempts, Call(a), a \notin Lent, a \in Lent', leases > 0,
             leases' = leases - 1
      PROVE  LeasesKept'
    <2>1. Lent' = Lent \cup {a}
        BY <1>0, <1>2, <1>a
    <2>2. Cardinality(Lent') = Cardinality(Lent) + 1
        BY <1>0, <1>2, <2>1, FS_AddElement
    <2> QED
        BY <1>0, <1>2, <2>2, TrafficAssumption DEF LeasesKept
<1>3. ASSUME NEW a \in Attempts, Call(a), a \in Lent, a \notin Lent', leases' = leases + 1
      PROVE  LeasesKept'
    <2>1. Lent' = Lent \ {a}
        BY <1>0, <1>3, <1>a
    <2>2. Cardinality(Lent') = Cardinality(Lent) - 1
        BY <1>0, <1>3, <2>1, FS_RemoveElement
    <2>3. Cardinality(Lent') \in Nat
        BY <1>0, <2>1, FS_RemoveElement, FS_CardinalityType
    <2> QED
        BY <1>0, <1>3, <2>2, <2>3, TrafficAssumption DEF LeasesKept
<1>4. ASSUME NEW a \in Attempts, PrepareAttempt(a) PROVE LeasesKept'
    <2>1. Call(a)
        BY <1>4 DEF Call
    <2>2. /\ ob[a].phase = "none" /\ wk' = wk
          /\ \/ /\ ob'[a].phase = "prepared"
                /\ leases > 0 /\ leases' = leases - 1
             \/ ob'[a].phase = "open" /\ UNCHANGED leases
        BY <1>4, ProxyMoves DEF Countable
    <2> QED
        BY <1>a, <1>1, <1>2, <2>1, <2>2 DEF Busy
<1>5. ASSUME NEW a \in Attempts, Register(a) PROVE LeasesKept'
    <2>1. Call(a)
        BY <1>5 DEF Call
    <2>2. /\ ob[a].phase = "prepared"
          /\ \/ ob'[a].phase = "noop" /\ wk' = wk /\ leases' = leases + 1
             \/ ob'[a].phase = "open" /\ wk'[a].at = "loop" /\ UNCHANGED leases
        BY <1>5, ProxyMoves DEF Countable
    <2> QED
        BY <1>a, <1>1, <1>3, <2>1, <2>2 DEF Busy
<1>6. ASSUME NEW a \in Attempts, TryHeaders(a) \/ TryChunk(a) \/ Reserve(a) \/ Finish(a)
      PROVE  LeasesKept'
    <2>1. Call(a)
        BY <1>6 DEF Call
    <2>2. /\ ob[a].phase = "open" /\ ob'[a].phase \in {"open", "finished"}
          /\ UNCHANGED <<wk, leases>>
        BY <1>6, ProxyMoves DEF Countable
    <2> QED
        BY <1>a, <1>1, <2>1, <2>2
<1>7. ASSUME NEW a \in Attempts, Worker(a) PROVE LeasesKept'
    <2>1. Call(a) /\ ob[a].phase # "prepared" /\ ob'[a].phase # "prepared"
        BY <1>7, WorkerMoves DEF Call, Countable, Roles, Role, Busy
    <2>2. CASE GiveBack(a)
        <3>1. wk[a].at = "lease" /\ wk'[a].at = "submit" /\ leases' = leases + 1
            BY <1>7, <2>2, WorkerMoves DEF Countable, GiveBack, At, SubmitResult, Leave
        <3> QED
            BY <1>a, <1>3, <2>1, <3>1 DEF Busy
    <2>3. CASE ~GiveBack(a)
        <3>1. wk[a].at \in Busy <=> wk'[a].at \in Busy
            BY <1>7, <2>3, WorkerMoves DEF Countable, Busy
        <3>2. UNCHANGED leases
            BY <1>7, <2>3 DEF Worker, Take, SeeStop, Poll, PollStop, Wait, Decode, Leftovers,
               SubmitResult, Leave
        <3> QED
            BY <1>a, <1>1, <2>1, <3>1, <3>2
    <2> QED
        BY <2>2, <2>3
<1>8. CASE UNCHANGED <<ob, wk, leases>>
    BY <1>8 DEF LeasesKept, Lent
<1> QED
    BY <1>4, <1>5, <1>6, <1>7, <1>8 DEF Next, PersistOne, Stop, StopWaited, Flush,
       FlushBarrier, FlushGivesUp, vars, proxySide


-----------------------------------------------------------------------------
\* A result is submitted once, when there is none.
Submits(a) == Submit(a) /\ ((Finish(a) /\ ~ob[a].full) \/ SubmitResult(a))

LEMMA SubmitsOnce ==
    ASSUME Countable, NEW a \in Attempts, Result(a), Submits(a)
    PROVE  /\ Call(a) /\ result[a] = "none" /\ UNCHANGED flush
           /\ ob'[a].phase = "finished" /\ ob'[a].full = ob[a].full
           /\ ob[a].full => wk'[a].at = "leave"
           /\ \/ persist' = Append(persist, a) /\ result' = [result EXCEPT ![a] = "queued"]
              \/ persist' = persist /\ result' = [result EXCEPT ![a] = "settled"]
<1>1. Role(a)
    BY DEF Countable, Roles
<1>2. CASE Finish(a) /\ ~ob[a].full
    BY <1>1, <1>2, ProxyMoves DEF Countable, Submits, Submit, Result, Call, Finish
<1>3. CASE SubmitResult(a)
    <2>1. wk[a].at = "submit" /\ UNCHANGED flush
        BY <1>3 DEF SubmitResult, At
    <2>2. ob[a].phase = "finished" /\ ob[a].full
        BY <1>1, <2>1 DEF Role
    <2>3. wk'[a].at = "leave" /\ ob'[a].phase = "finished" /\ ob'[a].full = ob[a].full
        BY <1>3, <2>1, <2>2, WorkerMoves DEF Countable, Worker, Busy, GiveBack, At, Leave
    <2> QED
        BY <1>3, <2>1, <2>2, <2>3 DEF Submits, Submit, Result, Call, Worker
<1> QED
    BY <1>2, <1>3 DEF Submits

LEMMA CallsSubmit ==
    ASSUME Countable, NEW a \in Attempts, Call(a)
    PROVE  Submits(a) \/ UNCHANGED <<persist, result>>
    BY DEF Call, Worker, Submits, PrepareAttempt, Register, TryHeaders, TryChunk, Reserve,
           Finish, Take, SeeStop, Poll, PollStop, Wait, Decode, Leftovers, GiveBack,
           SubmitResult, Leave, service

\* Where the results are is kept by every step.
LEMMA ResultStep ==
    ASSUME Countable, \A a \in Attempts : Result(a), [Next]_vars
    PROVE  (\A a \in Attempts : Result(a))'
<1>0. /\ result \in [Attempts -> {"none", "queued", "settled"}]
      /\ persist \in Seq(Attempts \cup {Barrier})
    BY DEF Countable, TypeOK
<1>1. ASSUME NEW a \in Attempts, Call(a), UNCHANGED <<persist, result>>, ~Submits(a)
      PROVE  (\A b \in Attempts : Result(b))'
    <2>1. Untouched(a) /\ Role(a)
        BY <1>1, OwnOnly DEF Countable, Roles
    <2>2. ASSUME NEW b \in Attempts \ {a} PROVE Result(b)'
        BY <1>1, <2>1, <2>2 DEF Untouched, Result
    <2>3. Result(a)'
        <3>1. CASE PrepareAttempt(a) \/ Register(a)
            <4>1. ob[a].phase # "finished" /\ ob'[a].phase # "finished"
                BY <3>1, ProxyMoves DEF Countable
            <4> QED
                BY <1>1, <4>1 DEF Result
        <3>2. CASE TryHeaders(a) \/ TryChunk(a) \/ Reserve(a)
            <4>1. ob[a].phase = ob'[a].phase /\ ob[a].phase # "finished"
                BY <3>2, ProxyMoves DEF Countable
            <4> QED
                BY <1>1, <4>1 DEF Result
        <3>3. CASE Finish(a)
            <4>1. /\ ob[a].phase = "open" /\ ob'[a].phase = "finished"
                  /\ ob'[a].full = ob[a].full /\ wk' = wk
                BY <3>3, ProxyMoves DEF Countable
            <4>2. ob[a].full
                BY <1>1, <3>3 DEF Submits, Finish
            <4>3. wk[a].at \notin {"leave", "gone"}
                BY <2>1, <4>1 DEF Role
            <4> QED
                BY <1>1, <4>1, <4>2, <4>3 DEF Result
        <3>4. CASE Worker(a)
            <4>1. /\ ob'[a].phase = ob[a].phase /\ ob'[a].full = ob[a].full
                  /\ wk[a].at \in {"leave", "gone"} <=> wk'[a].at \in {"leave", "gone"}
                <5>1. ~SubmitResult(a)
                    BY <1>1 DEF Submits, SubmitResult
                <5> QED
                    BY <3>4, <5>1, WorkerMoves DEF Countable, Busy
            <4> QED
                BY <1>1, <4>1 DEF Result
        <3> QED
            BY <1>1, <3>1, <3>2, <3>3, <3>4 DEF Call
    <2> QED
        BY <2>2, <2>3
<1>2. ASSUME NEW a \in Attempts, Submits(a)
      PROVE  (\A b \in Attempts : Result(b))'
    <2>1. /\ Call(a) /\ result[a] = "none"
          /\ ob'[a].phase = "finished" /\ ob'[a].full = ob[a].full
          /\ ob[a].full => wk'[a].at = "leave"
          /\ \/ persist' = Append(persist, a) /\ result' = [result EXCEPT ![a] = "queued"]
             \/ persist' = persist /\ result' = [result EXCEPT ![a] = "settled"]
        BY <1>2, SubmitsOnce
    <2>2. Untouched(a)
        BY <2>1, OwnOnly DEF Countable
    <2>3. /\ \A i \in DOMAIN persist : i \in DOMAIN persist' /\ persist'[i] = persist[i]
          /\ \A i \in DOMAIN persist' : i \in DOMAIN persist \/ persist'[i] = a
          /\ result'[a] = "queued" => \E i \in DOMAIN persist' : persist'[i] = a
          /\ result'[a] # "none"
          /\ \A b \in Attempts \ {a} : result'[b] = result[b]
        <3>1. CASE persist' = Append(persist, a) /\ result' = [result EXCEPT ![a] = "queued"]
            <4>1. /\ Len(persist') = Len(persist) + 1 /\ persist'[Len(persist) + 1] = a
                  /\ Len(persist) \in Nat
                  /\ DOMAIN persist = 1 .. Len(persist) /\ DOMAIN persist' = 1 .. Len(persist')
                  /\ \A i \in 1 .. Len(persist) : persist'[i] = persist[i]
                BY <1>0, <3>1
            <4>2. Len(persist) + 1 \in DOMAIN persist'
                BY <4>1
            <4> QED
                BY <1>0, <3>1, <4>1, <4>2
        <3>2. CASE persist' = persist /\ result' = [result EXCEPT ![a] = "settled"]
            BY <1>0, <3>2
        <3> QED
            BY <2>1, <3>1, <3>2
    <2>4. ASSUME NEW b \in Attempts \ {a} PROVE Result(b)'
        BY <2>2, <2>3, <2>4 DEF Untouched, Result
    <2>5. Result(a)'
        BY <2>1, <2>3 DEF Result
    <2> QED
        BY <2>4, <2>5
<1>3. CASE PersistOne
    <2>1. /\ persist # <<>> /\ persist' = Tail(persist) /\ Len(persist) \in Nat \ {0}
          /\ DOMAIN persist = 1 .. Len(persist) /\ DOMAIN persist' = 1 .. Len(persist) - 1
          /\ \A i \in 1 .. Len(persist) - 1 : persist'[i] = persist[i + 1]
          /\ Head(persist) = persist[1]
        BY <1>0, <1>3 DEF PersistOne
    <2>2. UNCHANGED <<ob, wk>>
        BY <1>3 DEF PersistOne, proxySide
    <2>3. \A b \in Attempts : \/ b = Head(persist) /\ result'[b] = "settled"
                              \/ b # Head(persist) /\ result'[b] = result[b]
        BY <1>0, <1>3, TrafficAssumption DEF PersistOne
    <2>4. ASSUME NEW b \in Attempts PROVE Result(b)'
        <3>1. CASE b = Head(persist)
            <4>1. result[b] # "none" /\ result'[b] = "settled"
                BY <2>1, <2>3, <3>1 DEF Result
            <4> QED
                BY <2>2, <4>1 DEF Result
        <3>2. CASE b # Head(persist)
            <4>1. result'[b] = result[b]
                BY <2>3, <3>2
            <4>2. result[b] = "queued" => \E i \in DOMAIN persist' : persist'[i] = b
                <5> SUFFICES ASSUME result[b] = "queued"
                             PROVE  \E i \in DOMAIN persist' : persist'[i] = b
                    OBVIOUS
                <5>1. PICK i \in DOMAIN persist : persist[i] = b
                    BY DEF Result
                <5>2. i - 1 \in DOMAIN persist' /\ persist'[i - 1] = b
                    BY <2>1, <3>2, <5>1
                <5> QED
                    BY <5>2
            <4>3. \A i \in DOMAIN persist' : persist'[i] = b => result[b] # "none"
                BY <2>1 DEF Result
            <4> QED
                BY <2>2, <4>1, <4>2, <4>3 DEF Result
        <3> QED
            BY <3>1, <3>2
    <2> QED
        BY <2>4
<1>4. CASE FlushBarrier
    <2>1. UNCHANGED <<ob, wk, result>>
        BY <1>4 DEF FlushBarrier, proxySide
    <2>2. CASE persist' = Append(persist, Barrier)
        <3>1. /\ Len(persist') = Len(persist) + 1 /\ persist'[Len(persist) + 1] = Barrier
              /\ Len(persist) \in Nat
              /\ DOMAIN persist = 1 .. Len(persist) /\ DOMAIN persist' = 1 .. Len(persist')
              /\ \A i \in 1 .. Len(persist) : persist'[i] = persist[i]
            BY <1>0, <2>2
        <3>2. ASSUME NEW b \in Attempts PROVE Result(b)'
            <4>1. \A i \in DOMAIN persist' : persist'[i] = b => i \in DOMAIN persist
                BY <3>1, TrafficAssumption
            <4>2. \A i \in DOMAIN persist : i \in DOMAIN persist' /\ persist'[i] = persist[i]
                BY <3>1
            <4> QED
                BY <2>1, <4>1, <4>2 DEF Result
        <3> QED
            BY <3>2
    <2>3. CASE UNCHANGED persist
        BY <2>1, <2>3 DEF Result
    <2> QED
        BY <1>4, <2>2, <2>3 DEF FlushBarrier
<1>5. CASE UNCHANGED <<ob, wk, result, persist>>
    BY <1>5 DEF Result
<1>6. ASSUME NEW a \in Attempts, Call(a) PROVE (\A b \in Attempts : Result(b))'
    BY <1>1, <1>2, <1>6, CallsSubmit
<1> QED
    BY <1>3, <1>4, <1>5, <1>6 DEF Next, Call, Stop, StopWaited, Flush, FlushGivesUp, vars,
       proxySide


-----------------------------------------------------------------------------
\* A result that is there stays there, and a settled one stays settled.
LEMMA ResultsGrow ==
    ASSUME Countable, \A a \in Attempts : Result(a), [Next]_vars, NEW b \in Attempts
    PROVE  /\ result[b] # "none" => result'[b] # "none"
           /\ result[b] = "settled" => result'[b] = "settled"
           /\ ob[b].phase = "finished" => ob'[b].phase = "finished"
<1>0. /\ result \in [Attempts -> {"none", "queued", "settled"}]
      /\ persist \in Seq(Attempts \cup {Barrier})
    BY DEF Countable, TypeOK
<1>1. ASSUME NEW a \in Attempts, Call(a)
      PROVE  ob[b].phase = "finished" => ob'[b].phase = "finished"
    <2>1. CASE a = b
        BY <1>1, <2>1, ProxyMoves, WorkerMoves DEF Countable, Call
    <2>2. CASE a # b
        BY <1>1, <2>2, OwnOnly DEF Countable, Untouched
    <2> QED
        BY <2>1, <2>2
<1>2. ASSUME NEW a \in Attempts, Submits(a)
      PROVE  /\ result[b] # "none" => result'[b] # "none"
             /\ result[b] = "settled" => result'[b] = "settled"
    BY <1>0, <1>2, SubmitsOnce
<1>3. CASE PersistOne
    BY <1>0, <1>3 DEF PersistOne, proxySide
<1>4. CASE UNCHANGED <<ob, result>>
    BY <1>4
<1>5. ASSUME NEW a \in Attempts, Call(a)
      PROVE  /\ result[b] # "none" => result'[b] # "none"
             /\ result[b] = "settled" => result'[b] = "settled"
    BY <1>2, <1>5, CallsSubmit
<1> QED
    BY <1>1, <1>3, <1>4, <1>5 DEF Next, Call, Stop, StopWaited, Flush, FlushBarrier,
       FlushGivesUp, vars, proxySide

\* Once nobody is active, every finished attempt has been submitted.
LEMMA IdleMeansSubmitted ==
    ASSUME Countable', (\A a \in Attempts : Result(a))', active' = {},
           NEW b \in Attempts, ob'[b].phase = "finished"
    PROVE  result'[b] # "none"
<1>1. Role(b)' /\ Result(b)'
    BY DEF Countable, Roles
<1>2. wk'[b].at \in {"none", "gone"}
    BY <1>1 DEF Role
<1>3. ob'[b].full => wk'[b].at = "gone"
    BY <1>1, <1>2 DEF Role
<1> QED
    BY <1>1, <1>3 DEF Result

LEMMA FlushedStep ==
    ASSUME Countable, Countable', Results, (\A a \in Attempts : Result(a))', [Next]_vars
    PROVE  Flushed'
<1>0. /\ result \in [Attempts -> {"none", "queued", "settled"}]
      /\ persist \in Seq(Attempts \cup {Barrier}) /\ flush \in Flushes
      /\ flush.covers \in SUBSET Attempts /\ Flushed
      /\ \A a \in Attempts : Result(a)
    BY DEF Countable, TypeOK, Flushes, Results
<1>1. \A b \in Attempts :
         /\ result[b] # "none" => result'[b] # "none"
         /\ result[b] = "settled" => result'[b] = "settled"
         /\ ob[b].phase = "finished" => ob'[b].phase = "finished"
    BY <1>0, ResultsGrow
<1>2. CASE UNCHANGED <<persist, flush>>
    BY <1>0, <1>1, <1>2 DEF Flushed
<1>3. ASSUME NEW a \in Attempts, Submits(a) PROVE Flushed'
    <2>1. UNCHANGED flush
        BY <1>0, <1>3, SubmitsOnce
    <2>2. CASE persist' = Append(persist, a)
        <3>1. /\ Len(persist) \in Nat /\ DOMAIN persist = 1 .. Len(persist)
              /\ DOMAIN persist' = 1 .. Len(persist) + 1
              /\ persist'[Len(persist) + 1] = a /\ a # Barrier
              /\ \A i \in 1 .. Len(persist) : persist'[i] = persist[i]
            BY <1>0, <2>2, TrafficAssumption
        <3>2. \A i \in DOMAIN persist' : persist'[i] = Barrier =>
                 i \in DOMAIN persist /\ persist[i] = Barrier
                 /\ \A j \in 1 .. i - 1 : persist'[j] = persist[j]
            BY <3>1
        <3> QED
            BY <1>0, <1>1, <2>1, <3>2 DEF Flushed
    <2>3. CASE UNCHANGED persist
        BY <1>2, <2>1, <2>3
    <2> QED
        BY <1>3, <2>2, <2>3 DEF Submits, Submit
<1>4. ASSUME NEW a \in Attempts, Leave(a) PROVE Flushed'
    <2>1. /\ UNCHANGED persist /\ flush'.at = flush.at /\ flush'.covers = flush.covers
          /\ flush.at = "waiting" /\ flush'.idle => flush.idle \/ active' = {}
        BY <1>0, <1>4 DEF Leave, Idles, Flushes
    <2>2. flush'.at = "waiting" /\ flush'.idle => \A b \in flush'.covers : result'[b] # "none"
        <3>1. CASE flush.at = "waiting" /\ flush.idle
            BY <1>0, <1>1, <2>1, <3>1 DEF Flushed
        <3>2. CASE active' = {}
            BY <1>0, <1>1, <2>1, <3>2, IdleMeansSubmitted DEF Flushed
        <3> QED
            BY <2>1, <3>1, <3>2
    <2> QED
        BY <1>0, <1>1, <2>1, <2>2 DEF Flushed
<1>5. ASSUME NEW a \in Attempts, Call(a) PROVE Flushed'
    <2>1. CASE Submits(a)
        BY <1>3, <2>1
    <2>2. CASE Leave(a)
        BY <1>4, <2>2
    <2>3. CASE ~Submits(a) /\ ~Leave(a)
        <3>1. UNCHANGED flush
            BY <1>5, <2>3 DEF Call, Worker, PrepareAttempt, Register, TryHeaders, TryChunk,
               Reserve, Finish, Take, SeeStop, Poll, PollStop, Wait, Decode, Leftovers,
               GiveBack, SubmitResult, service
        <3> QED
            BY <1>2, <1>5, <2>3, <3>1, CallsSubmit
    <2> QED
        BY <2>1, <2>2, <2>3
<1>6. CASE PersistOne
    <2>1. /\ persist # <<>> /\ persist' = Tail(persist) /\ Len(persist) \in Nat \ {0}
          /\ DOMAIN persist = 1 .. Len(persist) /\ DOMAIN persist' = 1 .. Len(persist) - 1
          /\ \A i \in 1 .. Len(persist) - 1 : persist'[i] = persist[i + 1]
          /\ Head(persist) = persist[1]
        BY <1>0, <1>6 DEF PersistOne
    <2>2. /\ flush'.covers = flush.covers /\ flush'.idle = flush.idle
          /\ \/ flush'.at = flush.at /\ (flush.at = "queued" => Head(persist) # Barrier)
             \/ flush.at = "queued" /\ flush'.at = "ok" /\ Head(persist) = Barrier
        BY <1>0, <1>6 DEF PersistOne, Flushes
    <2>3. Head(persist) \in Attempts => result'[Head(persist)] = "settled"
        BY <1>0, <1>6, TrafficAssumption DEF PersistOne
    <2>4. flush'.at = "ok" => \A b \in flush'.covers : result'[b] = "settled"
        <3>1. CASE flush'.at = flush.at
            BY <1>0, <1>1, <2>2, <3>1 DEF Flushed
        <3>2. CASE flush.at = "queued" /\ Head(persist) = Barrier
            <4>1. \A b \in flush.covers : result[b] = "settled" \/ \E j \in 1 .. 1 - 1 : persist[j] = b
                BY <1>0, <2>1, <3>2 DEF Flushed
            <4> QED
                BY <1>0, <1>1, <2>2, <4>1
        <3> QED
            BY <2>2, <3>1, <3>2
    <2>5. flush'.at = "queued" =>
            \A i \in DOMAIN persist' : persist'[i] = Barrier =>
                \A b \in flush'.covers :
                    \/ result'[b] = "settled"
                    \/ \E j \in 1 .. i - 1 : persist'[j] = b
        <3> SUFFICES ASSUME flush'.at = "queued", NEW i \in DOMAIN persist',
                            persist'[i] = Barrier, NEW b \in flush'.covers,
                            result'[b] # "settled"
                     PROVE  \E j \in 1 .. i - 1 : persist'[j] = b
            OBVIOUS
        <3>1. flush.at = "queued" /\ b \in flush.covers /\ b \in Attempts
            BY <1>0, <2>2
        <3>2. i + 1 \in DOMAIN persist /\ persist[i + 1] = Barrier /\ i \in Nat
            BY <2>1
        <3>3. PICK j \in 1 .. (i + 1) - 1 : persist[j] = b
            BY <1>0, <1>1, <3>1, <3>2 DEF Flushed
        <3>4. j # 1
            BY <2>1, <2>3, <3>1, <3>3
        <3>5. j - 1 \in 1 .. i - 1 /\ persist'[j - 1] = b
            BY <2>1, <3>2, <3>3, <3>4
        <3> QED
            BY <3>5
    <2>6. flush'.at \in {"none", "waiting"} => \A i \in DOMAIN persist' : persist'[i] # Barrier
        <3>1. \A i \in DOMAIN persist' : i + 1 \in DOMAIN persist /\ persist'[i] = persist[i + 1]
            BY <2>1
        <3> QED
            BY <1>0, <2>2, <3>1 DEF Flushed
    <2> QED
        BY <1>0, <1>1, <2>2, <2>4, <2>5, <2>6 DEF Flushed
<1>7. CASE Flush
    <2>1. /\ UNCHANGED <<persist, ob, active>> /\ flush.at = "none" /\ flush'.at = "waiting"
          /\ flush'.covers = {a \in Attempts : Stopped(a)} /\ flush'.idle = (active = {})
        BY <1>0, <1>7 DEF Flush, Flushes, proxySide
    <2>2. \A b \in flush'.covers : b \in Attempts /\ ob'[b].phase = "finished"
        BY <2>1 DEF Stopped
    <2>3. flush'.idle => \A b \in flush'.covers : result'[b] # "none"
        BY <2>1, <2>2, IdleMeansSubmitted
    <2> QED
        BY <1>0, <2>1, <2>2, <2>3 DEF Flushed
<1>8. CASE FlushBarrier
    <2>1. CASE flush' = FlushError /\ UNCHANGED persist
        BY <2>1 DEF Flushed, FlushError
    <2>2. CASE persist' = Append(persist, Barrier) /\ flush' = [flush EXCEPT !.at = "queued"]
        <3>1. /\ Len(persist) \in Nat /\ DOMAIN persist = 1 .. Len(persist)
              /\ DOMAIN persist' = 1 .. Len(persist) + 1
              /\ persist'[Len(persist) + 1] = Barrier
              /\ \A i \in 1 .. Len(persist) : persist'[i] = persist[i]
            BY <1>0, <2>2
        <3>2. flush'.at = "queued" /\ flush'.covers = flush.covers
            BY <1>0, <2>2 DEF Flushes
        <3>3. /\ \A i \in DOMAIN persist : persist[i] # Barrier
              /\ \A b \in flush.covers : b \in Attempts /\ result[b] # "none"
            BY <1>0, <1>8 DEF FlushBarrier, Flushed
        <3>4. \A i \in DOMAIN persist' : persist'[i] = Barrier => i = Len(persist) + 1
            BY <3>1, <3>3
        <3>5. \A b \in flush.covers :
                 \/ result'[b] = "settled"
                 \/ \E j \in 1 .. (Len(persist) + 1) - 1 : persist'[j] = b
            <4> SUFFICES ASSUME NEW b \in flush.covers, result'[b] # "settled"
                         PROVE  \E j \in 1 .. (Len(persist) + 1) - 1 : persist'[j] = b
                OBVIOUS
            <4>1. b \in Attempts /\ result[b] = "queued"
                BY <1>0, <1>1, <3>3
            <4>2. PICK j \in DOMAIN persist : persist[j] = b
                BY <1>0, <4>1 DEF Result
            <4> QED
                BY <3>1, <4>2
        <3> QED
            BY <1>0, <1>1, <3>2, <3>3, <3>4, <3>5 DEF Flushed
    <2> QED
        BY <1>8, <2>1, <2>2 DEF FlushBarrier
<1>9. CASE FlushGivesUp
    <2>1. flush' = FlushError
        BY <1>9 DEF FlushGivesUp
    <2> QED
        BY <2>1 DEF Flushed, FlushError
<1> QED
    BY <1>2, <1>5, <1>6, <1>7, <1>8, <1>9 DEF Next, Call, Stop, StopWaited, vars, proxySide
-----------------------------------------------------------------------------
LEMMA InvInit == Init => Inv
<1> SUFFICES ASSUME Init PROVE Inv
    OBVIOUS
<1> USE TrafficAssumption
<1>1. TypeOK
    <2>1. ob \in [Attempts -> Observers]
        BY FreeInt DEF Init, Observers
    <2>2. wk \in [Attempts -> Workers] /\ flush \in Flushes
        BY DEF Init, Workers, NoWorker, Flushes
    <2>3. queue \in [Attempts -> Seq(Events)] /\ persist \in Seq(Attempts \cup {Barrier})
        BY DEF Init
    <2>4. copyBytes \in Int /\ leases \in Int
        BY DEF Init
    <2>5. result \in [Attempts -> {"none", "queued", "settled"}] /\ active \subseteq Attempts
        BY DEF Init
    <2>6. stopping \in BOOLEAN /\ run \in {"up", "stopping", "draining", "down"}
        BY DEF Init
    <2> QED
        BY <2>1, <2>2, <2>3, <2>4, <2>5, <2>6 DEF TypeOK
<1>2. WithinLimits
    BY DEF Init, WithinLimits
<1>3. Roles
    BY DEF Init, Roles, Role, NoWorker, Free
<1>4. BudgetKept
    <2>1. Countable
        BY <1>1, <1>2, <1>3 DEF Countable
    <2>2. \A b \in Attempts : \A i \in Nat : <<b, i>> \notin Held
        <3> SUFFICES ASSUME NEW b \in Attempts, NEW i \in Nat PROVE <<b, i>> \notin Held
            OBVIOUS
        <3>1. wk[b].at = "none" /\ Len(queue[b]) = 0
            BY DEF Init, NoWorker
        <3> QED
            BY <2>1, <3>1, HeldNow
    <2>3. Held = {}
        BY <2>2, HeldPairs
    <2> QED
        BY <2>3, FS_EmptySet DEF Init, BudgetKept
<1>5. LeasesKept
    <2>1. Lent = {}
        BY DEF Init, Lent
    <2> QED
        BY <2>1, FS_EmptySet DEF Init, LeasesKept
<1>6. Results
    BY DEF Init, Results, Result, Flushed
<1> QED
    BY <1>1, <1>2, <1>3, <1>4, <1>5, <1>6 DEF Inv

LEMMA InvStep == Inv /\ [Next]_vars => Inv'
<1> SUFFICES ASSUME Inv, [Next]_vars PROVE Inv'
    OBVIOUS
<1>1. Countable /\ BudgetKept /\ LeasesKept /\ Results /\ \A a \in Attempts : Result(a)
    BY DEF Inv, Countable, Results
<1>2. Countable'
    BY <1>1, TypeStep, RolesStep, LimitsStep DEF Countable
<1>3. (\A a \in Attempts : Result(a))'
    BY <1>1, ResultStep
<1>4. BudgetKept' /\ LeasesKept' /\ Flushed'
    BY <1>1, <1>2, <1>3, BudgetStep, LeasesStep, FlushedStep
<1> QED
    BY <1>2, <1>3, <1>4 DEF Inv, Countable, Results

LEMMA InvAlways == Spec => []Inv
    BY InvInit, InvStep, PTL DEF Spec
-----------------------------------------------------------------------------
\* Types are correct, and no queue outgrows its limit, for any finite set of
\* attempts (traffic.go: the bounded channels and the attempt's own share).
THEOREM LimitsHold == Spec => [](TypeOK /\ WithinLimits)
    BY InvAlways, PTL DEF Inv

\* However many attempts load and swap the process-wide counter at once, it is
\* exactly the bytes still held and within the budget; and every lease is free
\* or with one attempt that has not ended (traffic.go: TryChunk, register;
\* traffic_decode.go: consume, the deferred drain).
THEOREM AccountsKeptAlways == Spec => []AccountsKept
<1>1. Inv => AccountsKept
    BY DEF Inv, AccountsKept
<1> QED
    BY <1>1, InvAlways, PTL

\* A flush that answers has seen the outcome of every attempt that was finished
\* when it was called (traffic_flush.go: Flush).
THEOREM FlushCoversAlways == Spec => []FlushCovers
<1>1. Inv => FlushCovers
    BY DEF Inv, Results, Flushed, FlushCovers
<1> QED
    BY <1>1, InvAlways, PTL
=============================================================================
