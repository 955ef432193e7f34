---------------------------- MODULE ProbeExecutor ----------------------------
(* probe.Executor: one synthetic probe from its lease to its row, the        *)
(* classifier that turns a response into one verdict, and what the ledger    *)
(* charges for the row until retention deletes it.                           *)
(*                                                                           *)
(* Three goroutines: the caller's in Execute, the one that runs RoundTrip,   *)
(* and the one that reads and decodes the body.  Time is one flag: the       *)
(* deadline of the current stage has passed.                                 *)
EXTENDS Naturals, Sequences

CONSTANTS
    Kinds,        \* a probe stops at the first evidence, a canary reads it all
    MaxChunks     \* bound: chunks an answer's body takes

ASSUME ExecutorAssumption == MaxChunks \in Nat

VARIABLES
    kind,         \* of this execution
    pc,           \* where Execute is
    lease,        \* of the SyntheticCoordinator: none, held, released
    cancelled,    \* the caller's context: a pause, a shutdown
    stop,         \* sendCtx: cancelled, or the caller's is
    overdue,      \* the deadline of the current stage has passed
    total,        \* and it was the last one
    rt,           \* RoundTrip's goroutine: [pc, conn, answer, late]
    status,       \* of the response, "none" before one
    reader,       \* the body's goroutine: none, reads, offers, ended
    chunk,        \* what it offers: [what, late]
    chunks,       \* how many it has read
    seen,         \* what the classifier has observed
    verdict,      \* what it concluded, "none" before
    row,          \* the execution row under construction, then as stored
    ledger        \* the day of the row: [day, rowed, event, charged]

vars == <<kind, pc, lease, cancelled, stop, overdue, total, rt, status, reader,
          chunk, chunks, seen, verdict, row, ledger>>
net  == <<rt, status, reader, chunk, chunks>>
time == <<overdue, total>>

Statuses == {"2xx", "3xx", "401", "404", "429", "4xx", "5xx"}
Whats    == {"raw", "ping", "semantic", "end", "error", "eof", "broke", "setup"}
Verdicts == {"none", "ok", "ignored", "unreachable", "partial", "rate", "auth",
             "unsupported", "transient", "shape", "fake", "config", "unread"}
NoRow  == [verdict |-> "none", sent |-> FALSE, reach |-> FALSE, kept |-> FALSE]
Nothing == [semantic |-> FALSE, byte |-> FALSE, event |-> FALSE, end |-> FALSE,
            error |-> "none", eof |-> FALSE]

RoundTrips == [pc : {"idle", "running", "done"}, conn : BOOLEAN,
               answer : Statuses \cup {"none"}, late : BOOLEAN]
Chunks     == [what : Whats, late : BOOLEAN]
Evidences  == [semantic : BOOLEAN, byte : BOOLEAN, event : BOOLEAN, end : BOOLEAN,
               error : {"none", "before", "after"}, eof : BOOLEAN]
Rows       == [verdict : Verdicts, sent : BOOLEAN, reach : BOOLEAN, kept : BOOLEAN]
Days       == [day : {"open", "sealed", "gone"}, rowed : BOOLEAN, event : BOOLEAN,
               charged : Nat]

TypeOK ==
    /\ kind \in Kinds
    /\ pc \in {"acquire", "prepare", "wait", "drain", "read", "record", "release", "done"}
    /\ lease \in {"none", "held", "released"}
    /\ cancelled \in BOOLEAN /\ stop \in BOOLEAN
    /\ overdue \in BOOLEAN /\ total \in BOOLEAN
    /\ rt \in RoundTrips /\ status \in Statuses \cup {"none"}
    /\ reader \in {"none", "reads", "offers", "ended"}
    /\ chunk \in Chunks /\ chunks \in 0 .. MaxChunks
    /\ seen \in Evidences /\ verdict \in Verdicts
    /\ row \in Rows /\ ledger \in Days

Init ==
    /\ kind \in Kinds /\ pc = "acquire" /\ lease = "none"
    /\ cancelled = FALSE /\ stop = FALSE /\ overdue = FALSE /\ total = FALSE
    /\ rt = [pc |-> "idle", conn |-> FALSE, answer |-> "none", late |-> FALSE]
    /\ status = "none" /\ reader = "none" /\ chunks = 0
    /\ chunk = [what |-> "raw", late |-> FALSE]
    /\ seen = Nothing /\ verdict = "none" /\ row = NoRow
    /\ ledger = [day |-> "open", rowed |-> FALSE, event |-> FALSE, charged |-> 0]
-----------------------------------------------------------------------------
(* ResponseClassifier.                                                       *)

Success == status = "2xx"
Ready(s) == IF kind = "canary" THEN s.semantic /\ s.end ELSE s.semantic

(* failure: the status speaks before an error inside the stream.             *)
Failure(s, readErr) ==
    CASE status = "429" -> "rate"
      [] status = "401" -> "auth"
      [] status = "404" -> "unsupported"
      [] status \in {"5xx", "3xx"} -> "transient"
      [] s.error # "none" -> "transient"
      [] status = "4xx" -> "shape"
      [] readErr -> "transient"
      [] OTHER -> "fake"

(* classify, in its order: a cancellation, then our own hanging up after the *)
(* evidence, no response, a failure after the evidence, success.             *)
Classify(s, readErr, paused) ==
    IF paused THEN "ignored"
    ELSE IF status = "none" THEN "unreachable"
    ELSE IF kind = "canary" /\ s.semantic
            /\ (readErr \/ s.error = "after" \/ ~s.end) THEN "partial"
    ELSE IF Ready(s) /\ Success THEN "ok" ELSE Failure(s, readErr)

(* Observe: only the first error counts.                                     *)
Observed(s, what) ==
    CASE what = "semantic" -> [s EXCEPT !.semantic = TRUE, !.event = TRUE]
      [] what = "end"      -> [s EXCEPT !.end = TRUE, !.event = TRUE]
      [] what = "error" /\ s.error = "none" ->
            [s EXCEPT !.error = IF s.semantic THEN "after" ELSE "before", !.event = TRUE]
      [] OTHER -> [s EXCEPT !.event = TRUE]
-----------------------------------------------------------------------------
(* Execute.                                                                  *)

Acquire ==
    /\ pc = "acquire"
    /\ \/ lease' = "held" /\ pc' = "prepare"
       \/ UNCHANGED lease /\ pc' = "done"
    /\ UNCHANGED <<kind, cancelled, stop, time, net, seen, verdict, row, ledger>>

(* finish...: what every row has.  A canary carries no expectation.          *)
Row(v, sent, reach) ==
    [verdict |-> v, sent |-> sent, reach |-> reach /\ kind # "canary", kept |-> FALSE]

(* finishConfigError: the request cannot be built, no connection pool, or a  *)
(* canary's target has changed.  Nothing is sent and nothing is known of the *)
(* upstream.                                                                 *)
ConfigError ==
    /\ pc = "prepare"
    /\ verdict' = "config" /\ row' = Row("config", FALSE, FALSE) /\ pc' = "record"
    /\ UNCHANGED <<kind, lease, cancelled, stop, time, net, seen, ledger>>

StartRoundTrip ==
    /\ pc = "prepare" /\ pc' = "wait"
    /\ rt' = [rt EXCEPT !.pc = "running"]
    /\ overdue' = FALSE /\ UNCHANGED total
    /\ UNCHANGED <<kind, lease, cancelled, stop, status, reader, chunk, chunks,
                   seen, verdict, row, ledger>>

(* The transport: a connection, then an answer or an error.                  *)
GotConn ==
    /\ rt.pc = "running" /\ ~rt.conn /\ rt' = [rt EXCEPT !.conn = TRUE]
    /\ UNCHANGED <<kind, pc, lease, cancelled, stop, time, status, reader, chunk,
                   chunks, seen, verdict, row, ledger>>

RoundTripReturns ==
    /\ rt.pc = "running"
    /\ \E a \in Statuses \cup {"none"} :
          /\ a # "none" => rt.conn
          /\ rt' = [rt EXCEPT !.pc = "done", !.answer = a, !.late = overdue]
    /\ UNCHANGED <<kind, pc, lease, cancelled, stop, time, status, reader, chunk,
                   chunks, seen, verdict, row, ledger>>

\* Mutant: the lease is released before the RoundTrip is waited for.
GiveUpAndRelease ==
    /\ pc = "wait" /\ (overdue \/ cancelled)
    /\ stop' = TRUE /\ rt' = [rt EXCEPT !.late = @ \/ ~cancelled]
    /\ lease' = "released" /\ pc' = "drain"
    /\ UNCHANGED <<kind, cancelled, time, status, reader, chunk, chunks, seen,
                   verdict, row, ledger>>

(* The select over the response, the stage's timer and the caller; after the *)
(* last two RoundTrip is cancelled and waited for.                           *)
GiveUp ==
    /\ pc = "wait" /\ (overdue \/ cancelled)
    /\ stop' = TRUE /\ rt' = [rt EXCEPT !.late = @ \/ ~cancelled]
    /\ pc' = "drain"
    /\ UNCHANGED <<kind, lease, cancelled, time, status, reader, chunk, chunks,
                   seen, verdict, row, ledger>>

(* finishTransportFailure: without a connection nothing can have been sent.  *)
TransportFailed ==
    /\ pc \in {"wait", "drain"} /\ rt.pc = "done"
    /\ rt.answer = "none" \/ rt.late \/ cancelled \/ pc = "drain"
    /\ verdict' = Classify(seen, rt.late, cancelled)
    /\ row' = Row(verdict', rt.conn, TRUE)
    /\ stop' = TRUE /\ pc' = "record"
    /\ UNCHANGED <<kind, lease, cancelled, time, net, seen, ledger>>

(* The response is in time; its decoder may not be had.                      *)
Answered ==
    /\ pc = "wait" /\ rt.pc = "done" /\ rt.answer # "none" /\ ~rt.late /\ ~cancelled
    /\ status' = rt.answer /\ overdue' = total /\ UNCHANGED total
    /\ \/ /\ pc' = "read" /\ reader' = "reads" /\ UNCHANGED <<stop, verdict, row>>
       \/ /\ verdict' = "unread" /\ row' = Row("unread", TRUE, TRUE)
          /\ stop' = TRUE /\ pc' = "record" /\ UNCHANGED reader
    /\ UNCHANGED <<kind, lease, cancelled, rt, chunk, chunks, seen, ledger>>
-----------------------------------------------------------------------------
(* readStream.                                                               *)

(* The goroutine that reads: a chunk is stamped when it comes.               *)
ReadBody ==
    /\ reader = "reads" /\ ~stop /\ chunks < MaxChunks
    /\ \E w \in Whats :
          /\ w = "setup" => chunks = 0
          /\ (chunks + 1 = MaxChunks) => w \in {"eof", "broke", "setup"}
          /\ chunk' = [what |-> w, late |-> overdue]
    /\ reader' = "offers" /\ chunks' = chunks + 1
    /\ UNCHANGED <<kind, pc, lease, cancelled, stop, time, rt, status, seen, verdict,
                   row, ledger>>

\* Mutant: an offer that nobody takes any more is not given up.
OfferBlocks ==
    /\ reader = "reads" /\ stop /\ reader' = "ended"
    /\ UNCHANGED <<kind, pc, lease, cancelled, stop, time, rt, status, chunk, chunks,
                   seen, verdict, row, ledger>>

(* A read or an offer gives up once sendCtx is cancelled.                    *)
ReaderStops ==
    /\ reader \in {"reads", "offers"} /\ stop /\ reader' = "ended"
    /\ UNCHANGED <<kind, pc, lease, cancelled, stop, time, rt, status, chunk, chunks,
                   seen, verdict, row, ledger>>

Last == chunk.what \in {"eof", "broke", "setup"}

(* What ends the loop: readErr, and whether the pause is to blame.           *)
Conclude(s, readErr, paused) ==
    /\ verdict' = IF verdict # "none" THEN verdict ELSE Classify(s, readErr, paused)
    /\ row' = Row(verdict', TRUE, TRUE) /\ stop' = TRUE /\ pc' = "record"

Stage(s) == IF s.semantic THEN 3 ELSE IF s.event THEN 2 ELSE IF s.byte THEN 1 ELSE 0

(* One chunk.  A first verdict in probe mode hangs up at once; it is         *)
(* classified without a look at what comes later.                            *)
TakeChunk ==
    LET s == CASE chunk.what = "raw" -> [seen EXCEPT !.byte = TRUE]
               [] chunk.what = "eof" -> [seen EXCEPT !.eof = TRUE]
               [] chunk.what \in {"broke", "setup"} -> seen
               [] OTHER -> Observed(seen, chunk.what)
        timely == ~chunk.late /\ ~cancelled
                    /\ (chunk.what \in {"ping", "semantic", "end", "error"} => ~overdue)
        moved == Stage(s) # Stage(seen) \/ (seen.semantic /\ chunk.what = "raw")
    IN  /\ pc = "read" /\ reader = "offers" /\ timely
        /\ reader' = IF Last THEN "ended" ELSE "reads"
        /\ seen' = s
        /\ overdue' = (overdue /\ (total \/ ~moved)) /\ UNCHANGED total
        /\ \/ /\ ~Last /\ ~(kind # "canary" /\ s.semantic)
              /\ UNCHANGED <<verdict, row, stop, pc>>
           \/ /\ ~Last /\ kind # "canary" /\ s.semantic
              /\ Conclude(s, FALSE, FALSE)
           \/ /\ chunk.what \in {"eof", "broke"}
              /\ Conclude(s, chunk.what = "broke", FALSE)
           \/ /\ chunk.what = "setup"        \* finishObserverIncomplete
              /\ verdict' = "unread" /\ row' = Row("unread", TRUE, TRUE)
              /\ stop' = TRUE /\ pc' = "record"
    /\ UNCHANGED <<kind, lease, cancelled, rt, status, chunk, chunks, ledger>>

(* The timer, or a chunk that came too late.                                 *)
ReadTimesOut ==
    /\ pc = "read" /\ ~cancelled /\ (overdue \/ (reader = "offers" /\ chunk.late))
    /\ Conclude(seen, TRUE, FALSE)
    /\ UNCHANGED <<kind, lease, cancelled, time, net, seen, ledger>>

\* Mutant: the read that the pause broke off is a failed read.
PauseIsReadError ==
    /\ pc = "read" /\ cancelled
    /\ Conclude(seen, TRUE, FALSE)
    /\ UNCHANGED <<kind, lease, cancelled, time, net, seen, ledger>>

ReadCancelled ==
    /\ pc = "read" /\ cancelled
    /\ Conclude(seen, FALSE, TRUE)
    /\ UNCHANGED <<kind, lease, cancelled, time, net, seen, ledger>>
-----------------------------------------------------------------------------
(* recordExecution and the deferred calls of Execute.                        *)

\* Mutant: the watermark of the deleted days is not looked at.
ChargeSealed(l) ==
    IF l.event THEN l ELSE [l EXCEPT !.event = TRUE, !.charged = @ + 1]

Charge(l) ==      \* recordCostEvidenceTx
    IF l.day # "open" \/ l.event THEN l
    ELSE [l EXCEPT !.event = TRUE, !.charged = @ + 1]

(* recordExecutionCostTx: a canary that was not sent costs nothing.          *)
Charged(l) == IF kind = "canary" /\ ~row.sent THEN l ELSE Charge(l)

(* The row and its cost are one transaction, which a cancelled caller cannot *)
(* begin; a canary, which has no say about health, has a context of its own. *)
Store ==
    /\ pc = "record" /\ (~cancelled \/ kind = "canary") /\ pc' = "release"
    /\ row' = [row EXCEPT !.kept = TRUE]
    /\ ledger' = Charged([ledger EXCEPT !.rowed = TRUE])
    /\ UNCHANGED <<kind, lease, cancelled, stop, time, net, seen, verdict>>

StoreFails ==
    /\ pc = "record" /\ pc' = "release"
    /\ UNCHANGED <<kind, lease, cancelled, stop, time, net, seen, verdict, row, ledger>>

Release ==
    /\ pc = "release" /\ pc' = "done" /\ lease' = "released"
    /\ UNCHANGED <<kind, cancelled, stop, time, net, seen, verdict, row, ledger>>
-----------------------------------------------------------------------------
(* Around the execution.                                                     *)

Cancel ==
    /\ ~cancelled /\ pc # "done" /\ cancelled' = TRUE /\ stop' = TRUE
    /\ UNCHANGED <<kind, pc, lease, time, net, seen, verdict, row, ledger>>

DeadlinePasses ==
    /\ pc \in {"wait", "drain", "read"} /\ ~overdue /\ overdue' = TRUE
    /\ total' \in BOOLEAN
    /\ UNCHANGED <<kind, pc, lease, cancelled, stop, net, seen, verdict, row, ledger>>

(* PruneProbeExecutions: the cost is made sure of before the row goes.       *)
PruneRow ==
    /\ pc = "done" /\ ledger.rowed
    /\ ledger' = [Charged(ledger) EXCEPT !.rowed = FALSE]
    /\ UNCHANGED <<kind, pc, lease, cancelled, stop, time, net, seen, verdict, row>>

(* PruneProbeCostHistory: the watermark is committed first, and then the day *)
(* and its events are deleted in other transactions, which may fail.         *)
SealDay ==
    /\ pc = "done" /\ ledger.day = "open"
    /\ ledger' = [ledger EXCEPT !.day = "sealed"]
    /\ UNCHANGED <<kind, pc, lease, cancelled, stop, time, net, seen, verdict, row>>

DeleteDay ==
    /\ ledger.day = "sealed"
    /\ ledger' = [ledger EXCEPT !.day = "gone", !.event = FALSE, !.charged = 0]
    /\ UNCHANGED <<kind, pc, lease, cancelled, stop, time, net, seen, verdict, row>>

Execute ==
    \/ Acquire \/ ConfigError \/ StartRoundTrip \/ GiveUp \/ TransportFailed
    \/ Answered \/ TakeChunk \/ ReadTimesOut \/ ReadCancelled
    \/ Store \/ StoreFails \/ Release
Retention == PruneRow \/ SealDay \/ DeleteDay
Next == \/ Execute \/ GotConn \/ RoundTripReturns \/ ReadBody \/ ReaderStops
        \/ Cancel \/ DeadlinePasses \/ Retention

(* Every stage has a deadline; a cancelled RoundTrip or read returns.        *)
Fairness == /\ WF_vars(Execute) /\ WF_vars(ReaderStops)
            /\ WF_vars(RoundTripReturns /\ stop) /\ WF_vars(DeadlinePasses)
Spec == Init /\ [][Next]_vars /\ Fairness
-----------------------------------------------------------------------------
(* While a probe may be on the wire it holds its lease, so that a pause that *)
(* has drained leaves no request behind it; and it gives it back.            *)
LeaseCoversWire ==
    /\ rt.pc = "running" \/ pc \in {"read", "record"} => lease = "held"
    /\ pc = "done" => lease # "held"

(* A row says a request was sent if and only if an upstream may have got it, *)
(* so that cost is charged for that; and it speaks of reachability only if a *)
(* connection was tried.                                                     *)
SentIsHonest ==
    /\ row # NoRow => (row.sent <=> rt.conn)
    /\ row.reach => rt.pc = "done"

(* A verdict against the upstream is the upstream's doing: a probe that the  *)
(* pause broke off says nothing; no response in time is what unreachable     *)
(* means; success takes evidence under a 2xx status, for a canary the whole  *)
(* answer with nothing wrong after the evidence.                             *)
VerdictEarned ==
    /\ [][verdict = "none" /\ verdict' \notin {"none", "ignored", "config", "unread"}
            => ~cancelled]_vars
    /\ [](verdict = "unreachable" => status = "none" /\ (rt.answer = "none" \/ rt.late))
    /\ [](verdict = "ok" => /\ status = "2xx" /\ seen.semantic
                            /\ kind = "canary" =>
                                  seen.end /\ seen.eof /\ seen.error # "after")

(* The ledger of a day charges a stored execution that may have reached an   *)
(* upstream exactly once, however often its row is stored, repaired or       *)
(* pruned, and a day that was deleted stays empty.                           *)
CostIsExact ==
    /\ ledger.charged <= 1
    /\ ledger.day = "gone" => ledger.charged = 0
    /\ row.kept /\ row.sent /\ ledger.day = "open" => ledger.charged = 1

(* What is charged is what may have been sent: the row says it honestly, and *)
(* the ledger follows the row.                                               *)
CostIsHonest == SentIsHonest /\ CostIsExact

(* Execute returns, whatever the upstream does, and both goroutines end.     *)
ProbeEnds == <>[](pc = "done" /\ rt.pc # "running" /\ reader \notin {"reads", "offers"})
=============================================================================
