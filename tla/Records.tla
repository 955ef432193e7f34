------------------------------- MODULE Records -------------------------------
(* What is kept of a proxied request: one row of request_log for each        *)
(* attempt, and a sample.  The handler puts both into bounded queues without *)
(* ever waiting; a writer at each queue (sample.Recorder, LogRecorder) puts  *)
(* them into the database and prunes it every so many rows, statement by     *)
(* statement, while the administrator pins, clears and changes the quota     *)
(* (store/sample.go, store/requestlog.go).                                   *)
(*                                                                           *)
(* The bodies of a sample are the sequence of their sizes, in the order of   *)
(* sampleBodySlots; each is stored in an envelope, one unit larger.          *)
EXTENDS Integers, SequencesExt, FiniteSetsExt

CONSTANTS
    Requests,
    Attempts,    \* rows of request_log a request leaves
    Bodies,      \* the bodies of its sample
    Quotas,      \* sample_disk_quota_bytes, first as it is, then as it is set to
    KeepSamples, KeepLogs,
    MaxPins,     \* MaxPinnedSampleGroups
    QueueSize,
    PruneEvery,  \* rows between two prunes
    Shapes       \* what is followed, see Init

VARIABLES
    shape,
    samples,  \* sample_request, in the order of id: [req, size, pinned, old]
    logs,     \* request_log, in the order of id: [req, nr]
    quota,
    handler,  \* by request: rows handed over so far
    queue,    \* by recorder
    writer,   \* by recorder: [pc, row, since, used, doomed, gone]
    count,    \* by recorder: written and dropped
    stop,     \* Close: whether it was called, and what was handed over before
    flush,    \* by recorder, Recorder.Flush: [pc, covers]
    left      \* bounds not used up

vars == <<shape, samples, logs, quota, handler, queue, writer, count, stop, flush, left>>

Kinds   == {"sample", "log"}
Barrier == [req |-> "barrier", nr |-> 0]
NoRow   == [req |-> "none", nr |-> 0]
Idle    == [pc |-> "select", row |-> NoRow, since |-> 0, used |-> 0,
            doomed |-> <<>>, gone |-> <<>>]

SampleOf(r) == [req |-> r, nr |-> 0]
LogOf(r, n) == [req |-> r, nr |-> n]
PlainOf(s)  == FoldSeq(LAMBDA b, n : b + n, 0, s)
StoredOf(s) == FoldSeq(LAMBDA b, n : (IF b > 0 THEN b + 1 ELSE 0) + n, 0, s)

(* shape.kinds are the records that are enabled, shape.there the requests    *)
(* whose records are in the database; shape.ends says whether there is a     *)
(* flush and a close, shape.ages whether rows grow old, and shape.edits and  *)
(* shape.faults bound what the administrator does and the statements that    *)
(* fail.                                                                     *)
Init ==
    /\ shape \in Shapes
    /\ samples = [i \in DOMAIN shape.there |->
                    [req |-> shape.there[i], size |-> StoredOf(Bodies[shape.there[i]]),
                     pinned |-> FALSE, old |-> FALSE]]
    /\ logs = [i \in DOMAIN shape.there |-> LogOf(shape.there[i], 1)]
    /\ quota = 1
    /\ handler = [r \in Requests |-> IF r \in ToSet(shape.there) THEN Attempts[r] + 1 ELSE 0]
    /\ queue = [k \in Kinds |-> <<>>] /\ writer = [k \in Kinds |-> Idle]
    /\ count = [k \in Kinds |-> [written |-> 0, dropped |-> 0, failed |-> 0]]
    /\ stop = [called |-> FALSE, covers |-> [k \in Kinds |-> {}]]
    /\ flush = [k \in Kinds |-> [pc |-> "no", covers |-> {}]]
    /\ left = [edits |-> shape.edits, faults |-> shape.faults]

Reqs(rows)  == {rows[i].req : i \in DOMAIN rows}
HasSample(r) == r \in Reqs(samples)
Without(rows, Gone(_)) == SelectSeq(rows, LAMBDA row : ~Gone(row))
Bytes(rows) == FoldSeq(LAMBDA row, n : row.size + n, 0, rows)

-----------------------------------------------------------------------------
(* The handler, when the request is over: its log rows, then its sample.     *)

Record(k, row) ==
    IF Len(queue[k]) < QueueSize
    THEN queue' = [queue EXCEPT ![k] = Append(@, row)] /\ UNCHANGED count
    ELSE count' = [count EXCEPT ![k].dropped = @ + 1] /\ UNCHANGED queue

HandsOver(r) ==
    /\ handler[r] <= Attempts[r]
    /\ handler' = [handler EXCEPT ![r] = @ + 1]
    /\ LET k == IF handler[r] < Attempts[r] THEN "log" ELSE "sample"
           row == IF k = "log" THEN LogOf(r, handler[r] + 1) ELSE SampleOf(r)
       IN  IF k \in shape.kinds THEN Record(k, row) ELSE UNCHANGED <<queue, count>>
    /\ UNCHANGED <<shape, samples, logs, quota, writer, stop, flush, left>>

HandedOver(k) ==
    LET new == Requests \ ToSet(shape.there) IN
    IF k \notin shape.kinds THEN {}
    ELSE IF k = "sample" THEN {SampleOf(r) : r \in {q \in new : handler[q] > Attempts[q]}}
    ELSE UNION {{LogOf(r, n) : n \in 1 .. Min({handler[r], Attempts[r]})} : r \in new}

-----------------------------------------------------------------------------
(* The loop of a recorder.  Once it is told to stop it may still take what   *)
(* comes as usual, or it drains the queue, prunes once more and ends.        *)

At(k, p)      == writer[k].pc = p
Goes(k, w)    == writer' = [writer EXCEPT ![k] = w]
Next1(k)      == IF At(k, "drain") THEN "drain" ELSE "select"
Draining(k)   == writer[k].pc \in {"drain", "drain-measured"}
Fails         == left.faults > 0 /\ left' = [left EXCEPT !.faults = @ - 1]

TakesBarrier(k) ==
    /\ writer[k].pc \in {"select", "drain"}
    /\ queue[k] # <<>> /\ Head(queue[k]) = Barrier
    /\ queue' = [queue EXCEPT ![k] = Tail(@)]
    /\ flush' = [flush EXCEPT ![k].pc = IF @ = "waiting" THEN "returned" ELSE @]
    /\ UNCHANGED <<shape, samples, logs, quota, handler, writer, count, stop, left>>

TakesRow(k) ==
    /\ writer[k].pc \in {"select", "drain"}
    /\ queue[k] # <<>> /\ Head(queue[k]) # Barrier
    /\ queue' = [queue EXCEPT ![k] = Tail(@)]
    /\ Goes(k, [writer[k] EXCEPT !.pc = IF @ = "drain" THEN "drain-row" ELSE "row",
                                 !.row = Head(queue[k])])
    /\ UNCHANGED <<shape, samples, logs, quota, handler, count, stop, flush, left>>

\* After a row: the next, or a prune.
Counted(k) ==
    LET w == writer[k] IN
    IF w.pc \in {"drain-row", "drain-measured"} THEN [w EXCEPT !.pc = "drain", !.row = NoRow]
    ELSE IF w.since + 1 >= PruneEvery THEN [w EXCEPT !.pc = "prune", !.row = NoRow, !.since = 0]
    ELSE [w EXCEPT !.pc = "select", !.row = NoRow, !.since = @ + 1]

Starts(k) ==
    /\ At(k, "select") /\ stop.called /\ Goes(k, [writer[k] EXCEPT !.pc = "drain"])
    /\ UNCHANGED <<shape, samples, logs, quota, handler, queue, count, stop, flush, left>>
Drained(k) ==
    /\ At(k, "drain") /\ queue[k] = <<>>
    /\ Goes(k, [writer[k] EXCEPT !.pc = "prune", !.since = -1])
    /\ UNCHANGED <<shape, samples, logs, quota, handler, queue, count, stop, flush, left>>
\* The prune of the loop, or the last one.
Pruned(k) == LET w == writer[k] IN
             [Idle EXCEPT !.pc = IF w.since < 0 THEN "done" ELSE "select",
                          !.since = IF w.since < 0 THEN 0 ELSE @]

-----------------------------------------------------------------------------
(* LogRecorder: a row that cannot be written is not counted.                 *)

WriteLog ==
    /\ writer["log"].pc \in {"row", "drain-row"}
    /\ \/ /\ logs' = Append(logs, writer["log"].row)
          /\ count' = [count EXCEPT !["log"].written = @ + 1] /\ UNCHANGED left
       \/ /\ Fails /\ UNCHANGED logs
          /\ count' = [count EXCEPT !["log"].failed = @ + 1]
    /\ Goes("log", Counted("log"))
    /\ UNCHANGED <<shape, samples, quota, handler, queue, stop, flush>>

(* PruneRequestLogs, by count: whole requests, the latest first, and none    *)
(* that has a sample.                                                        *)
Orphans == {r \in Reqs(logs) : ~HasSample(r)}
LastOf(r) == Max({i \in DOMAIN logs : logs[i].req = r})
KeptOrphans == {r \in Orphans : Cardinality({q \in Orphans : LastOf(q) > LastOf(r)}) < KeepLogs}
PruneLogs ==
    /\ At("log", "prune")
    /\ logs' = Without(logs, LAMBDA l : l.req \in Orphans \ KeptOrphans)
    /\ Goes("log", Pruned("log"))
    /\ UNCHANGED <<shape, samples, quota, handler, queue, count, stop, flush, left>>

-----------------------------------------------------------------------------
(* Recorder: InsertSampleWithinQuota reads what is used, then cuts the       *)
(* bodies to what is left and drops the last ones until the envelopes fit.   *)

Cut(s, rem) == IF PlainOf(s) <= rem THEN s
               ELSE [i \in DOMAIN s |->
                       Max({0, Min({s[i], rem - PlainOf(SubSeq(s, 1, i - 1))})})]
\* The longest beginning that fits; 0 if only an empty shell would.
Fitting(s, rem) == {n \in 0 .. Len(s) : StoredOf(SubSeq(s, 1, n)) <= rem}
Stored(s, rem) == LET c == Cut(s, rem) IN StoredOf(SubSeq(c, 1, Max(Fitting(c, rem))))

Measure ==
    /\ writer["sample"].pc \in {"row", "drain-row"}
    /\ Goes("sample", [writer["sample"] EXCEPT
                         !.used = Bytes(samples),
                         !.pc = IF @ = "row" THEN "measured" ELSE "drain-measured"])
    /\ UNCHANGED <<shape, samples, logs, quota, handler, queue, count, stop, flush, left>>

InsertAll ==       \* Mutant: the bodies are written as they were collected
    LET w == writer["sample"] IN
    /\ w.pc \in {"measured", "drain-measured"}
    /\ IF Quotas[quota] <= w.used
       THEN count' = [count EXCEPT !["sample"].dropped = @ + 1] /\ UNCHANGED samples
       ELSE /\ samples' = Append(samples, [req |-> w.row.req, size |-> StoredOf(Bodies[w.row.req]),
                                           pinned |-> FALSE, old |-> FALSE])
            /\ count' = [count EXCEPT !["sample"].written = @ + 1]
    /\ Goes("sample", Counted("sample"))
    /\ UNCHANGED <<shape, logs, quota, handler, queue, stop, flush, left>>
Insert ==
    LET w    == writer["sample"]
        rem  == Quotas[quota] - w.used
        s    == Bodies[w.row.req]
        size == Stored(s, rem)
        fits == rem > 0 /\ (PlainOf(s) > 0 => size > 0)
        drops == count' = [count EXCEPT !["sample"].dropped = @ + 1]
    IN  /\ w.pc \in {"measured", "drain-measured"}
        /\ IF ~fits THEN drops /\ UNCHANGED <<shape, samples, left>>
           ELSE \/ /\ samples' = Append(samples, [req |-> w.row.req, size |-> size,
                                                  pinned |-> FALSE, old |-> FALSE])
                   /\ count' = [count EXCEPT !["sample"].written = @ + 1]
                   /\ UNCHANGED left
                \/ Fails /\ drops /\ UNCHANGED samples
        /\ Goes("sample", Counted("sample"))
        /\ UNCHANGED <<shape, logs, quota, handler, queue, stop, flush>>
(* PruneSamples.  By age, then by count: the requests are listed, the rows   *)
(* deleted, then the logs of each request that was listed; then by size, the *)
(* oldest rows one by one.  A statement that fails ends it.                  *)
Overdue(row) == ~row.pinned /\ row.old
Excess(i) == /\ ~samples[i].pinned
             /\ Cardinality({j \in DOMAIN samples : j > i /\ ~samples[j].pinned}) >= KeepSamples
ExcessReqs == {samples[i].req : i \in {j \in DOMAIN samples : Excess(j)}}
OverdueReqs == {samples[i].req : i \in {j \in DOMAIN samples : Overdue(samples[j])}}

Moves(p, doomed) == Goes("sample", [writer["sample"] EXCEPT !.pc = p, !.doomed = doomed])
PruneFails ==
    /\ writer["sample"].pc \in {"prune", "age", "agelogs", "list", "count", "countlogs",
                                "weigh", "size", "sizelogs"}
    /\ Fails /\ Goes("sample", Pruned("sample"))
    /\ UNCHANGED <<shape, samples, logs, quota, handler, queue, count, stop, flush>>

ListOverdue ==
    /\ At("sample", "prune") /\ Moves("age", SetToSeq(OverdueReqs))
    /\ UNCHANGED <<shape, samples, logs, quota, handler, queue, count, stop, flush, left>>
DeleteOverdue ==
    /\ At("sample", "age") /\ samples' = Without(samples, Overdue)
    /\ Moves("agelogs", writer["sample"].doomed)
    /\ UNCHANGED <<shape, logs, quota, handler, queue, count, stop, flush, left>>
ListExcess ==
    /\ At("sample", "list") /\ Moves("count", SetToSeq(ExcessReqs))
    /\ UNCHANGED <<shape, samples, logs, quota, handler, queue, count, stop, flush, left>>
DeleteExcess ==
    /\ At("sample", "count") /\ samples' = Without(samples, LAMBDA row : row.req \in ExcessReqs)
    /\ Moves("countlogs", writer["sample"].doomed)
    /\ UNCHANGED <<shape, logs, quota, handler, queue, count, stop, flush, left>>

(* pruneSamplesByDiskQuota: the victims are the oldest rows that are not     *)
(* pinned, until the rest fits; each is deleted if it still is not pinned.   *)
Victims ==
    LET free == SelectSeq(samples, LAMBDA row : ~row.pinned)
        over(n) == Bytes(samples) - Bytes(SubSeq(free, 1, n)) > Quotas[quota]
        n == IF over(Len(free)) THEN Len(free)
             ELSE Min({i \in 0 .. Len(free) : ~over(i)})
    IN  [i \in 1 .. n |-> free[i].req]
Weigh ==
    /\ At("sample", "weigh") /\ Moves("size", Victims)
    /\ UNCHANGED <<shape, samples, logs, quota, handler, queue, count, stop, flush, left>>
DeleteVictim ==
    LET w == writer["sample"]
        v == Head(w.doomed)
        gone == \E i \in DOMAIN samples : samples[i].req = v /\ ~samples[i].pinned
    IN  /\ At("sample", "size") /\ w.doomed # <<>>
        /\ samples' = Without(samples, LAMBDA row : row.req = v /\ ~row.pinned)
        /\ Goes("sample", [w EXCEPT !.doomed = Tail(@),
                                    !.gone = IF gone THEN Append(@, v) ELSE @])
        /\ UNCHANGED <<shape, logs, quota, handler, queue, count, stop, flush, left>>
VictimsGone ==
    /\ At("sample", "size") /\ writer["sample"].doomed = <<>>
    /\ Moves("sizelogs", writer["sample"].gone)
    /\ UNCHANGED <<shape, samples, logs, quota, handler, queue, count, stop, flush, left>>

(* deleteRequestLogsForPrunedReqIDs, one request at a time.                  *)
AfterLogs == [agelogs |-> "list", countlogs |-> "weigh"]
DropLogsAll ==       \* Mutant: the logs of every request that was listed
    LET w == writer["sample"] IN
    /\ w.pc \in {"agelogs", "countlogs", "sizelogs"}
    /\ logs' = Without(logs, LAMBDA l : l.req \in ToSet(w.doomed))
    /\ IF w.pc = "sizelogs" THEN Goes("sample", Pruned("sample"))
       ELSE Moves(AfterLogs[w.pc], <<>>)
    /\ UNCHANGED <<shape, samples, quota, handler, queue, count, stop, flush, left>>
DropLogs ==
    LET w == writer["sample"] IN
    /\ w.pc \in {"agelogs", "countlogs", "sizelogs"}
    /\ IF w.doomed # <<>>
       THEN /\ logs' = IF HasSample(Head(w.doomed)) THEN logs
                       ELSE Without(logs, LAMBDA l : l.req = Head(w.doomed))
            /\ Moves(w.pc, Tail(w.doomed))
       ELSE /\ UNCHANGED logs
            /\ IF w.pc = "sizelogs" THEN Goes("sample", Pruned("sample"))
               ELSE Moves(AfterLogs[w.pc], <<>>)
    /\ UNCHANGED <<shape, samples, quota, handler, queue, count, stop, flush, left>>

Prune == \/ ListOverdue \/ DeleteOverdue \/ ListExcess \/ DeleteExcess
         \/ Weigh \/ DeleteVictim \/ VictimsGone \/ DropLogs \/ PruneFails \/ PruneLogs

Write(k) == TakesBarrier(k) \/ TakesRow(k) \/ Starts(k) \/ Drained(k)
Writers  == \/ \E k \in Kinds : Write(k)
            \/ WriteLog \/ Measure \/ Insert \/ Prune

-----------------------------------------------------------------------------
(* Flush, for a rotation: behind what is in the queue.  Close.               *)
Flush(k) ==
    /\ shape.ends /\ k \in shape.kinds /\ flush[k].pc = "no"
    /\ flush' = [flush EXCEPT ![k] = [pc |-> "sending", covers |-> HandedOver(k)]]
    /\ UNCHANGED <<shape, samples, logs, quota, handler, queue, writer, count, stop, left>>
FlushSends(k) ==
    /\ flush[k].pc = "sending" /\ Len(queue[k]) < QueueSize
    /\ flush' = [flush EXCEPT ![k].pc = "waiting"]
    /\ queue' = [queue EXCEPT ![k] = Append(@, Barrier)]
    /\ UNCHANGED <<shape, samples, logs, quota, handler, writer, count, stop, left>>
\* Mutant: once it is in the queue only the barrier is waited for.
FlushOverUnsent(k) ==
    /\ flush[k].pc = "sending" /\ At(k, "done")
    /\ flush' = [flush EXCEPT ![k].pc = "returned"]
    /\ UNCHANGED <<shape, samples, logs, quota, handler, queue, writer, count, stop, left>>
FlushOver(k) ==
    /\ flush[k].pc \in {"sending", "waiting"} /\ At(k, "done")
    /\ flush' = [flush EXCEPT ![k].pc = "returned"]
    /\ UNCHANGED <<shape, samples, logs, quota, handler, queue, writer, count, stop, left>>
Close ==
    /\ shape.ends /\ ~stop.called
    /\ stop' = [called |-> TRUE, covers |-> [k \in Kinds |-> HandedOver(k)]]
    /\ UNCHANGED <<shape, samples, logs, quota, handler, queue, writer, count, flush, left>>

(* The administrator.  SetSamplePinned counts and sets in one statement;     *)
(* clearing the samples leaves their logs.                                   *)
Edits == left.edits > 0 /\ left' = [left EXCEPT !.edits = @ - 1]
         /\ UNCHANGED <<shape, handler, queue, writer, count, stop, flush>>
Pins == Cardinality({i \in DOMAIN samples : samples[i].pinned})
Pin(i) ==
    /\ Edits /\ ~samples[i].pinned /\ Pins < MaxPins
    /\ samples' = [samples EXCEPT ![i].pinned = TRUE] /\ UNCHANGED <<shape, logs, quota>>
Unpin(i) ==
    /\ Edits /\ samples[i].pinned
    /\ samples' = [samples EXCEPT ![i].pinned = FALSE] /\ UNCHANGED <<shape, logs, quota>>
ClearSamples(keepPinned) ==
    /\ Edits /\ samples # <<>>
    /\ samples' = Without(samples, LAMBDA row : ~(keepPinned /\ row.pinned))
    /\ UNCHANGED <<shape, logs, quota>>
ClearLogs == Edits /\ logs # <<>> /\ logs' = <<>> /\ UNCHANGED <<shape, samples, quota>>
SetQuota  == Edits /\ quota < Len(Quotas) /\ quota' = quota + 1 /\ UNCHANGED <<shape, samples, logs>>
Ages(i) ==
    /\ shape.ages /\ ~samples[i].old /\ \A j \in DOMAIN samples : j < i => samples[j].old
    /\ samples' = [samples EXCEPT ![i].old = TRUE]
    /\ UNCHANGED <<shape, logs, quota, handler, queue, writer, count, stop, flush, left>>
Admin == \/ \E i \in DOMAIN samples : Pin(i) \/ Unpin(i)
         \/ \E keepPinned \in BOOLEAN : ClearSamples(keepPinned)
         \/ ClearLogs \/ SetQuota

Next == \/ \E r \in Requests : HandsOver(r)
        \/ Writers \/ Admin \/ Close
        \/ \E i \in DOMAIN samples : Ages(i)
        \/ \E k \in Kinds : Flush(k) \/ FlushSends(k) \/ FlushOver(k)

(* The writers go on; a blocked send ends when there is room, the runtime    *)
(* being fair to senders.                                                    *)
Fairness == /\ WF_vars(Writers) /\ \A k \in Kinds : SF_vars(FlushSends(k)) /\ WF_vars(FlushOver(k))
Spec == Init /\ [][Next]_vars /\ Fairness

-----------------------------------------------------------------------------
TypeOK == /\ Reqs(samples) \subseteq Requests /\ Reqs(logs) \subseteq Requests
          /\ \A k \in Kinds : Len(queue[k]) <= QueueSize

InHand(k) == {writer[k].row} \ {NoRow}
Queued(k) == ToSet(queue[k]) \ {Barrier}

(* Every sample that was handed over is written, counted as dropped, or      *)
(* still on its way ("不暴露的话，「样本怎么少了几条」会变成无从下手的疑问"). *)
EachIsCounted ==
    \A k \in Kinds :
       Cardinality(HandedOver(k)) =
         count[k].written + count[k].dropped + count[k].failed
           + Cardinality(InHand(k)) + Cardinality(Queued(k))

(* When Flush has returned, or a recorder has ended, nothing handed over     *)
(* before the flush or before Close is on its way, however long the prunes   *)
(* took.                                                                     *)
OnItsWay(k) == Queued(k) \cup InHand(k)
FlushedIsWritten ==
    \A k \in Kinds :
       /\ At(k, "done") => stop.covers[k] \cap OnItsWay(k) = {}
       /\ flush[k].pc = "returned" /\ ~At(k, "done") => flush[k].covers \cap OnItsWay(k) = {}

(* The samples never take more than the quota that was in force when they    *)
(* came, though it is read when a row comes and the table changes meanwhile. *)
QuotaKept == Bytes(samples) <= Max(ToSet(Quotas)) /\ Pins <= MaxPins

RecordsAddUp == EachIsCounted /\ FlushedIsWritten /\ QuotaKept

(* No prune deletes a pinned sample, or a log of a request whose sample is   *)
(* still there, whatever was pinned between its statements.                  *)
GroupsKept ==
    [][left.edits' = left.edits =>
         /\ \A i \in DOMAIN samples : samples[i].pinned => samples[i].req \in Reqs(samples')
         /\ \A i \in DOMAIN logs :
               logs[i].req \in Reqs(samples') => logs[i] \in ToSet(logs')]_vars

(* Flushes return, and recorders that are closed end.                        *)
Flushing == \E k \in Kinds : flush[k].pc \in {"sending", "waiting"}
AllDone  == \A k \in Kinds : At(k, "done")
RecordersEnd ==
    /\ Flushing ~> ~Flushing
    /\ stop.called ~> AllDone
=============================================================================
