----------------------------- MODULE ProbeProofs -----------------------------
(***************************************************************************)
(* What one synthetic execution promises for any kinds and any length of   *)
(* an answer, and what a calibration promises for any number of runs and   *)
(* candidates (at the end).                                                *)
(*                                                                         *)
(* The argument of the first: where Execute is says what the other two     *)
(* goroutines and the row can be (Place); what the transport has shown by  *)
(* then is what the row and the verdict may say (Evidence), and it cannot  *)
(* change any more once they say it; the ledger counts its own event       *)
(* (Account).                                                              *)
(***************************************************************************)
EXTENDS ProbeExecutor, Calibration, TLAPS

Before == {"acquire", "prepare", "wait", "drain", "read"}

\* What the position of Execute says of the lease, the wire and the row.
Place ==
    /\ pc = "acquire" => lease = "none"
    /\ pc \in {"prepare", "wait", "drain", "read", "record", "release"} => lease = "held"
    /\ pc = "done" => lease # "held"
    /\ pc \in {"acquire", "prepare"} => rt.pc = "idle"
    /\ pc \in {"wait", "drain"} => rt.pc # "idle"
    /\ pc = "read" => rt.pc = "done" /\ rt.conn
    /\ pc \in {"record", "release", "done"} => rt.pc # "running"
    /\ pc \in Before => verdict = "none" /\ row = NoRow
    /\ row.kept => pc \in {"release", "done"}

\* What the transport has shown, and what the verdict and the row make of it.
Evidence ==
    /\ rt.pc = "idle" => ~rt.conn
    /\ rt.answer # "none" => rt.conn
    /\ pc \in {"acquire", "prepare", "wait", "drain"} => status = "none"
    /\ pc = "read" => status # "none"
    /\ pc = "drain" => cancelled \/ (overdue /\ (rt.pc = "running" \/ rt.late))
    /\ pc \in {"record", "release", "done"} => (row.sent <=> rt.conn)
    /\ row.reach => rt.pc = "done"
    /\ verdict = "unreachable" => status = "none" /\ (rt.answer = "none" \/ rt.late)
    /\ verdict = "ok" => /\ status = "2xx" /\ seen.semantic
                         /\ kind = "canary" =>
                               seen.end /\ seen.eof /\ seen.error # "after"

\* The day's charge is its event, and a kept row that was sent has one.
Account ==
    /\ ledger.charged = IF ledger.event THEN 1 ELSE 0
    /\ ledger.day = "gone" => ~ledger.event
    /\ row.kept /\ row.sent /\ ledger.day = "open" => ledger.event

Inv == TypeOK /\ Place /\ Evidence /\ Account

-----------------------------------------------------------------------------
\* The classifier gives a verdict; which one it is takes what it was given.
LEMMA ClassifyGives ==
    ASSUME NEW s, NEW readErr, NEW paused
    PROVE  /\ Classify(s, readErr, paused) \in Verdicts \ {"none", "config", "unread"}
           /\ paused => Classify(s, readErr, paused) = "ignored"
           /\ Classify(s, readErr, paused) = "unreachable" => status = "none"
           /\ Classify(s, readErr, paused) = "ok" =>
                 /\ status = "2xx" /\ s.semantic
                 /\ kind = "canary" => ~readErr /\ s.end /\ s.error # "after"
    BY DEF Classify, Failure, Verdicts, Ready, Success

\* Field by field, the records stay in their sets.
LEMMA RoundTripUpdates ==
    ASSUME NEW r \in RoundTrips, NEW p \in {"idle", "running", "done"},
           NEW a \in Statuses \cup {"none"}, NEW b \in BOOLEAN
    PROVE  /\ [r EXCEPT !.pc = p] \in RoundTrips
           /\ [r EXCEPT !.conn = b] \in RoundTrips
           /\ [r EXCEPT !.late = b] \in RoundTrips
           /\ [r EXCEPT !.pc = p, !.answer = a, !.late = b] \in RoundTrips
    BY DEF RoundTrips

LEMMA EvidenceUpdates ==
    ASSUME NEW s \in Evidences, NEW b \in BOOLEAN, NEW c \in BOOLEAN,
           NEW e \in {"none", "before", "after"}
    PROVE  /\ [s EXCEPT !.byte = b] \in Evidences
           /\ [s EXCEPT !.eof = b] \in Evidences
           /\ [s EXCEPT !.event = b] \in Evidences
           /\ [s EXCEPT !.semantic = b, !.event = c] \in Evidences
           /\ [s EXCEPT !.end = b, !.event = c] \in Evidences
           /\ [s EXCEPT !.error = e, !.event = b] \in Evidences
    BY DEF Evidences

LEMMA DayUpdates ==
    ASSUME NEW l \in Days, NEW d \in {"open", "sealed", "gone"}
    PROVE  /\ [l EXCEPT !.rowed = TRUE] \in Days
           /\ [l EXCEPT !.rowed = FALSE] \in Days
           /\ [l EXCEPT !.day = d] \in Days
           /\ [l EXCEPT !.event = TRUE, !.charged = @ + 1] \in Days
<1>1. /\ [l EXCEPT !.rowed = TRUE] \in Days
      /\ [l EXCEPT !.rowed = FALSE] \in Days
    BY DEF Days
<1>2. [l EXCEPT !.day = d] \in Days
    BY DEF Days
<1>3. [l EXCEPT !.event = TRUE, !.charged = @ + 1] \in Days
    <2>1. PICK k \in Days : k = [l EXCEPT !.event = TRUE]
        BY DEF Days
    <2>2. k.charged = l.charged /\ k.charged \in Nat
        BY <2>1 DEF Days
    <2>3. [k EXCEPT !.charged = k.charged + 1] \in Days
        BY DEF Days
    <2> QED
        BY <2>1, <2>2, <2>3
<1> QED
    BY <1>1, <1>2, <1>3

LEMMA DayCleared ==
    ASSUME NEW l \in Days
    PROVE  [l EXCEPT !.day = "gone", !.event = FALSE, !.charged = 0] \in Days
<1>1. PICK k \in Days : k = [l EXCEPT !.day = "gone", !.event = FALSE]
    BY DEF Days
<1>2. [k EXCEPT !.charged = 0] \in Days
    BY DEF Days
<1> QED
    BY <1>1, <1>2

\* What is observed stays within the classifier's record.
LEMMA ObservedType ==
    ASSUME NEW s \in Evidences, NEW what
    PROVE  Observed(s, what) \in Evidences
<1>1. /\ [s EXCEPT !.semantic = TRUE, !.event = TRUE] \in Evidences
      /\ [s EXCEPT !.end = TRUE, !.event = TRUE] \in Evidences
      /\ [s EXCEPT !.event = TRUE] \in Evidences
    BY DEF Evidences
<1>2. /\ [s EXCEPT !.error = "after", !.event = TRUE] \in Evidences
      /\ [s EXCEPT !.error = "before", !.event = TRUE] \in Evidences
    BY DEF Evidences
<1> QED
    BY <1>1, <1>2 DEF Observed

\* A charge keeps the day's record.
LEMMA ChargedType ==
    ASSUME NEW l \in Days
    PROVE  Charged(l) \in Days
    BY DayUpdates DEF Charged, Charge

\* Types are kept by every step.
LEMMA TypeStep == ASSUME TypeOK, [Next]_vars PROVE TypeOK'
<1> USE ExecutorAssumption
<1>1. CASE Acquire
    BY <1>1 DEF TypeOK, net, time, Acquire
<1>2. CASE ConfigError
    BY <1>2 DEF TypeOK, net, time, ConfigError, Row, Verdicts, Rows
<1>3. CASE StartRoundTrip
    BY <1>3, RoundTripUpdates DEF TypeOK, StartRoundTrip
<1>4. CASE GotConn
    BY <1>4, RoundTripUpdates DEF TypeOK, time, GotConn
<1>5. CASE RoundTripReturns
    <2>1. PICK a \in Statuses \cup {"none"} :
             rt' = [rt EXCEPT !.pc = "done", !.answer = a, !.late = overdue]
        BY <1>5 DEF RoundTripReturns
    <2>2. rt' \in RoundTrips
        BY <2>1, RoundTripUpdates DEF TypeOK
    <2>3. UNCHANGED <<kind, pc, lease, cancelled, stop, overdue, total, status,
                      reader, chunk, chunks, seen, verdict, row, ledger>>
        BY <1>5 DEF RoundTripReturns, time
    <2> QED
        BY <2>2, <2>3 DEF TypeOK
<1>6. CASE GiveUp
    BY <1>6, RoundTripUpdates DEF TypeOK, GiveUp, time
<1>7. CASE TransportFailed
    BY <1>7, ClassifyGives DEF TypeOK, net, time, TransportFailed, Row, Verdicts, Rows, RoundTrips
<1>8. CASE Answered
    <2>1. rt.answer \in Statuses \cup {"none"}
        BY DEF TypeOK, RoundTrips
    <2>2. Row("unread", TRUE, TRUE) \in Rows /\ "unread" \in Verdicts
        BY DEF Rows, Row, Verdicts
    <2> QED
        BY <1>8, <2>1, <2>2 DEF TypeOK, Answered
<1>9. CASE ReadBody
    BY <1>9 DEF TypeOK, net, time, ReadBody, Chunks
<1>10. CASE ReaderStops
    BY <1>10 DEF TypeOK, net, time, ReaderStops
<1>11. CASE TakeChunk
    <2>1. verdict' \in Verdicts /\ (row' = row \/ row' = Row(verdict', TRUE, TRUE))
        <3>1. \A t, e, c : Classify(t, e, c) \in Verdicts
            BY ClassifyGives
        <3>2. \A t, e, c : Conclude(t, e, c) =>
                 verdict' \in Verdicts /\ row' = Row(verdict', TRUE, TRUE)
            BY <3>1 DEF TypeOK, Conclude
        <3>3. "unread" \in Verdicts
            BY DEF Verdicts
        <3> QED
            BY <1>11, <3>2, <3>3 DEF TypeOK, TakeChunk
    <2>2. row' \in Rows
        <3>1. Row(verdict', TRUE, TRUE) \in Rows
            BY <2>1 DEF Row, Rows
        <3> QED
            BY <2>1, <3>1 DEF TypeOK
    <2>3. seen' \in Evidences
        <3>1. CASE chunk.what \in {"raw", "eof", "broke", "setup"}
            BY <1>11, <3>1, EvidenceUpdates, TRUE \in BOOLEAN DEF TypeOK, TakeChunk
        <3>2. CASE chunk.what \notin {"raw", "eof", "broke", "setup"}
            BY <1>11, <3>2, ObservedType DEF TypeOK, TakeChunk
        <3> QED
            BY <3>1, <3>2
    <2> QED
        BY <1>11, <2>1, <2>2, <2>3 DEF TypeOK, TakeChunk, Conclude
<1>12. CASE ReadTimesOut
    BY <1>12, ClassifyGives DEF TypeOK, net, time, ReadTimesOut, Conclude, Row, Verdicts, Rows
<1>13. CASE ReadCancelled
    BY <1>13, ClassifyGives DEF TypeOK, net, time, ReadCancelled, Conclude, Row, Verdicts, Rows
<1>14. CASE Store
    <2>1. ledger' \in Days
        <3>1. [ledger EXCEPT !.rowed = TRUE] \in Days
            BY DayUpdates DEF TypeOK
        <3> QED
            BY <1>14, <3>1, ChargedType DEF Store
    <2>2. row' \in Rows
        BY <1>14 DEF TypeOK, Store, Rows
    <2> QED
        BY <1>14, <2>1, <2>2 DEF TypeOK, Store, time, net
<1>15. CASE StoreFails
    BY <1>15 DEF TypeOK, net, time, StoreFails
<1>16. CASE Release
    BY <1>16 DEF TypeOK, net, time, Release
<1>17. CASE Cancel
    BY <1>17 DEF TypeOK, net, time, Cancel
<1>18. CASE DeadlinePasses
    BY <1>18 DEF TypeOK, net, time, DeadlinePasses
<1>19. CASE PruneRow
    <2>1. ledger' \in Days
        <3>1. Charged(ledger) \in Days
            BY ChargedType DEF TypeOK
        <3> QED
            BY <1>19, <3>1, DayUpdates DEF PruneRow
    <2> QED
        BY <1>19, <2>1 DEF TypeOK, PruneRow, time, net
<1>20. CASE SealDay
    BY <1>20 DEF TypeOK, net, time, SealDay, Days
<1>21. CASE DeleteDay
    <2>1. ledger' \in Days
        BY <1>21, DayCleared DEF TypeOK, DeleteDay
    <2> QED
        BY <1>21, <2>1 DEF TypeOK, DeleteDay, time, net
<1>22. CASE UNCHANGED vars
    BY <1>22 DEF TypeOK, vars
<1>23. QED
    BY <1>1, <1>2, <1>3, <1>4, <1>5, <1>6, <1>7, <1>8, <1>9, <1>10, <1>11, <1>12, <1>13, <1>14, <1>15, <1>16, <1>17, <1>18, <1>19, <1>20, <1>21, <1>22 DEF Next, Execute, Retention


\* A chunk either leaves the loop running or ends it with a row of what was
\* concluded; a conclusion of success has its evidence.
LEMMA TakeShape ==
    ASSUME TypeOK, Place, Evidence, TakeChunk
    PROVE  /\ pc = "read" /\ UNCHANGED <<kind, lease, cancelled, rt, status, ledger>>
           /\ verdict = "none" /\ row = NoRow
           /\ \/ UNCHANGED <<verdict, row, pc>>
              \/ /\ row' = Row(verdict', TRUE, TRUE) /\ pc' = "record"
                 /\ verdict' # "unreachable"
                 /\ verdict' = "ok" =>
                       /\ status = "2xx" /\ seen'.semantic
                       /\ kind = "canary" =>
                             seen'.end /\ seen'.eof /\ seen'.error # "after"
<1>1. /\ pc = "read" /\ UNCHANGED <<kind, lease, cancelled, rt, status, ledger>>
      /\ verdict = "none" /\ row = NoRow /\ status # "none"
    BY DEF TakeChunk, Place, Before, Evidence
<1>2. CASE UNCHANGED <<verdict, row, pc>>
    BY <1>1, <1>2
<1>3. CASE chunk.what = "setup" /\ verdict' = "unread" /\ pc' = "record"
           /\ row' = Row("unread", TRUE, TRUE)
    BY <1>1, <1>3
<1>4. CASE kind # "canary" /\ Conclude(seen', FALSE, FALSE)
    BY <1>1, <1>4, ClassifyGives DEF Conclude
<1>5. CASE chunk.what = "eof" /\ Conclude(seen', FALSE, FALSE)
    <2>1. seen'.eof
        BY <1>5 DEF TakeChunk, TypeOK, Evidences
    <2> QED
        BY <1>1, <1>5, <2>1, ClassifyGives DEF Conclude
<1>6. CASE chunk.what = "broke" /\ Conclude(seen', TRUE, FALSE)
    <2>1. verdict' = Classify(seen', TRUE, FALSE) /\ row' = Row(verdict', TRUE, TRUE)
          /\ pc' = "record"
        BY <1>1, <1>6 DEF Conclude
    <2>2. verdict' # "unreachable"
        BY <1>1, <2>1, ClassifyGives
    <2>3. verdict' = "ok" => status = "2xx" /\ seen'.semantic /\ kind # "canary"
        BY <2>1, ClassifyGives
    <2> QED
        BY <1>1, <2>1, <2>2, <2>3
<1> QED
    <2>1. \/ UNCHANGED <<verdict, row, pc>>
          \/ kind # "canary" /\ Conclude(seen', FALSE, FALSE)
          \/ chunk.what \in {"eof", "broke"} /\ Conclude(seen', chunk.what = "broke", FALSE)
          \/ /\ chunk.what = "setup" /\ verdict' = "unread" /\ pc' = "record"
             /\ row' = Row("unread", TRUE, TRUE)
        BY DEF TakeChunk
    <2>2. chunk.what = "eof" => (chunk.what = "broke") = FALSE
        OBVIOUS
    <2>3. chunk.what = "broke" => (chunk.what = "broke") = TRUE
        OBVIOUS
    <2> QED
        BY <1>2, <1>3, <1>4, <1>5, <1>6, <2>1, <2>2, <2>3

\* The position of Execute keeps saying what it says.
LEMMA PlaceStep == ASSUME TypeOK, Place, Evidence, [Next]_vars PROVE Place'
<1>1. CASE Acquire
    BY <1>1 DEF Place, TypeOK, RoundTrips, Rows, NoRow, Row, Before, net, time, Acquire
<1>2. CASE ConfigError
    BY <1>2 DEF Place, TypeOK, RoundTrips, Rows, NoRow, Row, Before, net, time, ConfigError
<1>3. CASE StartRoundTrip
    BY <1>3 DEF Place, TypeOK, RoundTrips, Rows, NoRow, Row, Before, net, time, StartRoundTrip
<1>4. CASE GotConn
    BY <1>4 DEF Place, TypeOK, RoundTrips, Rows, NoRow, Row, Before, net, time, GotConn
<1>5. CASE RoundTripReturns
    BY <1>5 DEF Place, TypeOK, RoundTrips, Rows, NoRow, Row, Before, net, time, RoundTripReturns
<1>6. CASE GiveUp
    BY <1>6 DEF Place, TypeOK, RoundTrips, Rows, NoRow, Row, Before, net, time, GiveUp
<1>7. CASE TransportFailed
    BY <1>7 DEF Place, TypeOK, RoundTrips, Rows, NoRow, Row, Before, net, time, TransportFailed
<1>8. CASE Answered
    BY <1>8 DEF Place, TypeOK, RoundTrips, Rows, NoRow, Row, Before, net, time, Answered, Evidence
<1>9. CASE ReadBody
    BY <1>9 DEF Place, TypeOK, RoundTrips, Rows, NoRow, Row, Before, net, time, ReadBody
<1>10. CASE ReaderStops
    BY <1>10 DEF Place, TypeOK, RoundTrips, Rows, NoRow, Row, Before, net, time, ReaderStops
<1>11. CASE TakeChunk
    BY <1>11, TakeShape DEF Place, TypeOK, RoundTrips, Rows, NoRow, Row, Before, net, time
<1>12. CASE ReadTimesOut
    BY <1>12 DEF Place, TypeOK, RoundTrips, Rows, NoRow, Row, Before, net, time, ReadTimesOut, Conclude
<1>13. CASE ReadCancelled
    BY <1>13 DEF Place, TypeOK, RoundTrips, Rows, NoRow, Row, Before, net, time, ReadCancelled, Conclude
<1>14. CASE Store
    BY <1>14 DEF Place, TypeOK, RoundTrips, Rows, NoRow, Row, Before, net, time, Store
<1>15. CASE StoreFails
    BY <1>15 DEF Place, TypeOK, RoundTrips, Rows, NoRow, Row, Before, net, time, StoreFails
<1>16. CASE Release
    BY <1>16 DEF Place, TypeOK, RoundTrips, Rows, NoRow, Row, Before, net, time, Release
<1>17. CASE Cancel
    BY <1>17 DEF Place, TypeOK, RoundTrips, Rows, NoRow, Row, Before, net, time, Cancel
<1>18. CASE DeadlinePasses
    BY <1>18 DEF Place, TypeOK, RoundTrips, Rows, NoRow, Row, Before, net, time, DeadlinePasses
<1>19. CASE PruneRow
    BY <1>19 DEF Place, TypeOK, RoundTrips, Rows, NoRow, Row, Before, net, time, PruneRow
<1>20. CASE SealDay
    BY <1>20 DEF Place, TypeOK, RoundTrips, Rows, NoRow, Row, Before, net, time, SealDay
<1>21. CASE DeleteDay
    BY <1>21 DEF Place, TypeOK, RoundTrips, Rows, NoRow, Row, Before, net, time, DeleteDay
<1>22. CASE UNCHANGED vars
    BY <1>22 DEF Place, TypeOK, RoundTrips, Rows, NoRow, Row, Before, net, time, vars
<1> QED
    BY <1>1, <1>2, <1>3, <1>4, <1>5, <1>6, <1>7, <1>8, <1>9, <1>10, <1>11, <1>12, <1>13, <1>14, <1>15, <1>16, <1>17, <1>18, <1>19, <1>20, <1>21, <1>22 DEF Next, Execute, Retention

\* What was shown and what is said of it stay together.
LEMMA EvidenceStep == ASSUME TypeOK, Place, Evidence, [Next]_vars PROVE Evidence'
<1>1. CASE Acquire
    BY <1>1 DEF Evidence, TypeOK, Place, Before, RoundTrips, Rows, NoRow, Row, net, time, Acquire
<1>2. CASE ConfigError
    BY <1>2 DEF Evidence, TypeOK, Place, Before, RoundTrips, Rows, NoRow, Row, net, time, ConfigError
<1>3. CASE StartRoundTrip
    BY <1>3 DEF Evidence, TypeOK, Place, Before, RoundTrips, Rows, NoRow, Row, net, time, StartRoundTrip
<1>4. CASE GotConn
    BY <1>4 DEF Evidence, TypeOK, Place, Before, RoundTrips, Rows, NoRow, Row, net, time, GotConn
<1>5. CASE RoundTripReturns
    BY <1>5 DEF Evidence, TypeOK, Place, Before, RoundTrips, Rows, NoRow, Row, net, time, RoundTripReturns
<1>6. CASE GiveUp
    BY <1>6 DEF Evidence, TypeOK, Place, Before, RoundTrips, Rows, NoRow, Row, net, time, GiveUp
<1>7. CASE TransportFailed
    BY <1>7, ClassifyGives DEF Evidence, TypeOK, Place, Before, RoundTrips, Rows, NoRow, Row, net, time, TransportFailed
<1>8. CASE Answered
    BY <1>8 DEF Evidence, TypeOK, Place, Before, RoundTrips, Rows, NoRow, Row, net, time, Answered, Evidence
<1>9. CASE ReadBody
    BY <1>9 DEF Evidence, TypeOK, Place, Before, RoundTrips, Rows, NoRow, Row, net, time, ReadBody
<1>10. CASE ReaderStops
    BY <1>10 DEF Evidence, TypeOK, Place, Before, RoundTrips, Rows, NoRow, Row, net, time, ReaderStops
<1>11. CASE TakeChunk
    BY <1>11, TakeShape DEF Evidence, TypeOK, Place, Before, RoundTrips, Rows, NoRow, Row, net, time
<1>12. CASE ReadTimesOut
    BY <1>12, ClassifyGives DEF Evidence, TypeOK, Place, Before, RoundTrips, Rows, NoRow, Row, net, time, ReadTimesOut, Conclude
<1>13. CASE ReadCancelled
    BY <1>13, ClassifyGives DEF Evidence, TypeOK, Place, Before, RoundTrips, Rows, NoRow, Row, net, time, ReadCancelled, Conclude
<1>14. CASE Store
    BY <1>14 DEF Evidence, TypeOK, Place, Before, RoundTrips, Rows, NoRow, Row, net, time, Store
<1>15. CASE StoreFails
    BY <1>15 DEF Evidence, TypeOK, Place, Before, RoundTrips, Rows, NoRow, Row, net, time, StoreFails
<1>16. CASE Release
    BY <1>16 DEF Evidence, TypeOK, Place, Before, RoundTrips, Rows, NoRow, Row, net, time, Release
<1>17. CASE Cancel
    BY <1>17 DEF Evidence, TypeOK, Place, Before, RoundTrips, Rows, NoRow, Row, net, time, Cancel
<1>18. CASE DeadlinePasses
    BY <1>18 DEF Evidence, TypeOK, Place, Before, RoundTrips, Rows, NoRow, Row, net, time, DeadlinePasses
<1>19. CASE PruneRow
    BY <1>19 DEF Evidence, TypeOK, Place, Before, RoundTrips, Rows, NoRow, Row, net, time, PruneRow
<1>20. CASE SealDay
    BY <1>20 DEF Evidence, TypeOK, Place, Before, RoundTrips, Rows, NoRow, Row, net, time, SealDay
<1>21. CASE DeleteDay
    BY <1>21 DEF Evidence, TypeOK, Place, Before, RoundTrips, Rows, NoRow, Row, net, time, DeleteDay
<1>22. CASE UNCHANGED vars
    BY <1>22 DEF Evidence, TypeOK, Place, Before, RoundTrips, Rows, NoRow, Row, net, time, vars
<1> QED
    BY <1>1, <1>2, <1>3, <1>4, <1>5, <1>6, <1>7, <1>8, <1>9, <1>10, <1>11, <1>12, <1>13, <1>14, <1>15, <1>16, <1>17, <1>18, <1>19, <1>20, <1>21, <1>22 DEF Next, Execute, Retention

\* The ledger keeps counting its event.
LEMMA AccountStep == ASSUME TypeOK, Place, Evidence, Account, [Next]_vars PROVE Account'
<1>1. CASE Acquire
    BY <1>1 DEF Account, TypeOK, Place, Before, Rows, NoRow, Row, Days, net, time, Acquire
<1>2. CASE ConfigError
    BY <1>2 DEF Account, TypeOK, Place, Before, Rows, NoRow, Row, Days, net, time, ConfigError
<1>3. CASE StartRoundTrip
    BY <1>3 DEF Account, TypeOK, Place, Before, Rows, NoRow, Row, Days, net, time, StartRoundTrip
<1>4. CASE GotConn
    BY <1>4 DEF Account, TypeOK, Place, Before, Rows, NoRow, Row, Days, net, time, GotConn
<1>5. CASE RoundTripReturns
    BY <1>5 DEF Account, TypeOK, Place, Before, Rows, NoRow, Row, Days, net, time, RoundTripReturns
<1>6. CASE GiveUp
    BY <1>6 DEF Account, TypeOK, Place, Before, Rows, NoRow, Row, Days, net, time, GiveUp
<1>7. CASE TransportFailed
    BY <1>7 DEF Account, TypeOK, Place, Before, Rows, NoRow, Row, Days, net, time, TransportFailed
<1>8. CASE Answered
    BY <1>8 DEF Account, TypeOK, Place, Before, Rows, NoRow, Row, Days, net, time, Answered, Evidence
<1>9. CASE ReadBody
    BY <1>9 DEF Account, TypeOK, Place, Before, Rows, NoRow, Row, Days, net, time, ReadBody
<1>10. CASE ReaderStops
    BY <1>10 DEF Account, TypeOK, Place, Before, Rows, NoRow, Row, Days, net, time, ReaderStops
<1>11. CASE TakeChunk
    BY <1>11, TakeShape DEF Account, TypeOK, Place, Before, Rows, NoRow, Row, Days, net, time
<1>12. CASE ReadTimesOut
    BY <1>12 DEF Account, TypeOK, Place, Before, Rows, NoRow, Row, Days, net, time, ReadTimesOut, Conclude
<1>13. CASE ReadCancelled
    BY <1>13 DEF Account, TypeOK, Place, Before, Rows, NoRow, Row, Days, net, time, ReadCancelled, Conclude
<1>14. CASE Store
    BY <1>14 DEF Account, TypeOK, Place, Before, Rows, NoRow, Row, Days, net, time, Store, Charged, Charge
<1>15. CASE StoreFails
    BY <1>15 DEF Account, TypeOK, Place, Before, Rows, NoRow, Row, Days, net, time, StoreFails
<1>16. CASE Release
    BY <1>16 DEF Account, TypeOK, Place, Before, Rows, NoRow, Row, Days, net, time, Release
<1>17. CASE Cancel
    BY <1>17 DEF Account, TypeOK, Place, Before, Rows, NoRow, Row, Days, net, time, Cancel
<1>18. CASE DeadlinePasses
    BY <1>18 DEF Account, TypeOK, Place, Before, Rows, NoRow, Row, Days, net, time, DeadlinePasses
<1>19. CASE PruneRow
    BY <1>19 DEF Account, TypeOK, Place, Before, Rows, NoRow, Row, Days, net, time, PruneRow, Charged, Charge
<1>20. CASE SealDay
    BY <1>20 DEF Account, TypeOK, Place, Before, Rows, NoRow, Row, Days, net, time, SealDay
<1>21. CASE DeleteDay
    BY <1>21 DEF Account, TypeOK, Place, Before, Rows, NoRow, Row, Days, net, time, DeleteDay
<1>22. CASE UNCHANGED vars
    BY <1>22 DEF Account, TypeOK, Place, Before, Rows, NoRow, Row, Days, net, time, vars
<1> QED
    BY <1>1, <1>2, <1>3, <1>4, <1>5, <1>6, <1>7, <1>8, <1>9, <1>10, <1>11, <1>12, <1>13, <1>14, <1>15, <1>16, <1>17, <1>18, <1>19, <1>20, <1>21, <1>22 DEF Next, Execute, Retention

LEMMA InvInit == Init => Inv
<1> SUFFICES ASSUME Init PROVE Inv
    OBVIOUS
<1>1. /\ rt \in RoundTrips /\ chunk \in Chunks /\ seen \in Evidences
      /\ row \in Rows /\ ledger \in Days
    <2>1. rt \in RoundTrips /\ chunk \in Chunks
        BY DEF Init, RoundTrips, Chunks, Whats
    <2>2. seen \in Evidences /\ row \in Rows
        BY DEF Init, Evidences, Nothing, Rows, NoRow, Verdicts
    <2>3. ledger \in Days
        BY DEF Init, Days
    <2> QED
        BY <2>1, <2>2, <2>3
<1>2. TypeOK
    <2>1. chunks \in 0 .. MaxChunks
        BY ExecutorAssumption DEF Init
    <2> QED
        BY <1>1, <2>1 DEF Init, TypeOK, Verdicts
<1>3. Place
    BY DEF Init, Place, Before, NoRow
<1>4. Evidence
    BY DEF Init, Evidence, NoRow
<1>5. Account
    BY DEF Init, Account, NoRow
<1> QED
    BY <1>2, <1>3, <1>4, <1>5 DEF Inv

LEMMA InvStep == Inv /\ [Next]_vars => Inv'
    BY TypeStep, PlaceStep, EvidenceStep, AccountStep DEF Inv

LEMMA InvAlways == Spec => []Inv
    BY InvInit, InvStep, PTL DEF Spec
-----------------------------------------------------------------------------
\* Types are correct for any kinds and any length of an answer.
THEOREM TypeOKAlways == Spec => []TypeOK
    BY InvAlways, PTL DEF Inv

\* While a probe may be on the wire it holds the coordinator's lease, and an
\* execution that has ended holds none (executor.go: Execute's deferred
\* release, the wait for RoundTrip's goroutine).
THEOREM LeaseCoversWireAlways == Spec => []LeaseCoversWire
<1>1. Inv => LeaseCoversWire
    BY DEF Inv, TypeOK, Place, LeaseCoversWire
<1> QED
    BY <1>1, InvAlways, PTL

\* A row says "sent" exactly when an upstream may have got the request, and
\* the ledger charges a kept row exactly once, whatever is repaired, pruned or
\* sealed in between (executor.go, store: recordCostEvidenceTx and the pruners).
THEOREM CostIsHonestAlways == Spec => []CostIsHonest
<1>1. Inv => SentIsHonest
    BY DEF Inv, TypeOK, Place, Evidence, Before, SentIsHonest
<1>2. Inv => CostIsExact
    BY DEF Inv, TypeOK, Account, Days, CostIsExact
<1> QED
    BY <1>1, <1>2, InvAlways, PTL DEF CostIsHonest

\* A conclusion drawn after the pause says nothing against the upstream.
LEMMA EarnedStep ==
    ASSUME Inv, [Next]_vars
    PROVE  verdict = "none" /\ verdict' \notin {"none", "ignored", "config", "unread"}
             => ~cancelled
<1> SUFFICES ASSUME verdict = "none", cancelled,
                    verdict' \notin {"none", "ignored", "config", "unread"}
             PROVE  FALSE
    OBVIOUS
<1>1. CASE TransportFailed
    BY <1>1, ClassifyGives DEF TransportFailed
<1>2. CASE ReadCancelled
    BY <1>2, ClassifyGives DEF ReadCancelled, Conclude
<1>3. CASE UNCHANGED verdict
    BY <1>3
<1>4. ~TakeChunk /\ ~ReadTimesOut
    BY DEF TakeChunk, ReadTimesOut
<1>5. CASE ConfigError \/ Answered
    BY <1>5 DEF ConfigError, Answered
<1>6. [Next]_vars => \/ TransportFailed \/ ReadCancelled \/ ConfigError \/ Answered
                     \/ UNCHANGED verdict \/ TakeChunk \/ ReadTimesOut
    BY DEF Next, Execute, Retention, Acquire, StartRoundTrip, GotConn,
           RoundTripReturns, GiveUp, ReadBody, ReaderStops, Store, StoreFails,
           Release, Cancel, DeadlinePasses, PruneRow, SealDay, DeleteDay, vars
<1> QED
    BY <1>1, <1>2, <1>3, <1>4, <1>5, <1>6

\* Every verdict is earned: none against the upstream after a pause, none of
\* "unreachable" after an answer in time, none of success without the evidence
\* (classifier.go: classify; stream.go: readStream).
THEOREM VerdictEarnedAlways == Spec => VerdictEarned
<1>1. Inv => /\ verdict = "unreachable" => status = "none" /\ (rt.answer = "none" \/ rt.late)
             /\ verdict = "ok" => /\ status = "2xx" /\ seen.semantic
                                  /\ kind = "canary" =>
                                        seen.end /\ seen.eof /\ seen.error # "after"
    BY DEF Inv, Evidence
<1>2. Inv /\ [Next]_vars =>
        [verdict = "none" /\ verdict' \notin {"none", "ignored", "config", "unread"}
            => ~cancelled]_vars
    BY EarnedStep
<1> QED
    BY <1>1, <1>2, InvAlways, PTL DEF Spec, VerdictEarned

(***************************************************************************)
(* The calibration of an endpoint, for any number of runs and candidates.  *)
(*                                                                         *)
(* The argument: between two transactions nobody but the worker moves a    *)
(* run's candidate on, so that what the page said of it still holds when   *)
(* its turn comes (Pages) and each position of the worker says what the    *)
(* candidate's row is and whether its request has gone out (WorkerPlace);  *)
(* across crashes the rows alone say enough (Earned, Spent).               *)
(***************************************************************************)
Unfinished == {"planned", "prepared", "send_started"}
Preparing  == {"prepared", "send", "mark"}
Waiting    == {"started", "built", "wire", "recover", "recorded", "commit", "advance"}
Busy       == {"prepare"} \cup Preparing \cup Waiting
PageRows == [id : Runs, ord : Ordinals, rev : Nat, state : Unfinished]
Workers == [at : Busy \cup {"idle", "next"}, page : SUBSET PageRows,
            id : Nat, ord : Ordinals, rev : Nat,
            state : Unfinished \cup {"none"}, conf : Nat]
RunRows == [state : RunStates, current : Ordinals, rev : Nat]
Candidacies == [state : Unfinished \cup {"finished", "indeterminate"},
                disposition : {"none"} \cup Outcomes]
ExecRows == {NoExecution} \cup [outcome : Outcomes, conf : Nat]

RowTypes ==
    /\ run \in [Runs -> RunRows]
    /\ cand \in [Runs -> [Ordinals -> Candidacies]]
    /\ exec \in [Runs -> [Ordinals -> ExecRows]]
    /\ sent \in [Runs -> [Ordinals -> Nat]]
    /\ conf \in Nat /\ exhausted \subseteq Runs

(* The rows of the page are those of runs the worker has not come to, which  *)
(* nobody else moves on.                                                     *)
Pages ==
    /\ \A e \in worker.page : /\ e.ord = run[e.id].current
                              /\ e.state = cand[e.id][e.ord].state
    /\ \A e, f \in worker.page : e.id = f.id => e = f
    /\ worker.at \in Busy => \A e \in worker.page : e.id # worker.id

(* Where the worker is, the candidate's row is and what has gone out for it. *)
WorkerPlace ==
    worker.at \in Busy =>
      LET r == worker.id
          o == worker.ord
          state == cand[r][o].state
      IN  /\ r \in Runs /\ o = run[r].current
          /\ worker.at = "prepare" => state = "planned"
          /\ worker.at \in Preparing => state = "prepared"
          /\ worker.at = "send" => worker.state = "prepared"
          /\ worker.at \in Waiting => state = "send_started"
          /\ worker.at \in {"started", "built"} => sent[r][o] = 0
          /\ worker.at = "wire" => sent[r][o] = 1
          /\ worker.at \in {"recorded", "commit", "advance"} =>
                exec[r][o] # NoExecution
          /\ worker.at = "commit" => exec[r][o].outcome = "success"

(* What the rows of a run say together, whoever looks at them.               *)
Unended(r) ==
    run[r].state \in {"none", "planned", "running"} =>
        cand[r][run[r].current].state \in Unfinished
Earned(r, o) ==
    /\ sent[r][o] <= 1
    /\ sent[r][o] = 1 => cand[r][o].state \notin {"planned", "prepared"}
    /\ exec[r][o] # NoExecution => sent[r][o] = 1
    /\ Rejected(cand[r][o]) => exec[r][o].outcome = "try_next_auth"
Spent(r) == r \in exhausted => \A o \in Ordinals : Rejected(cand[r][o])
RowsFit == \A r \in Runs : Unended(r) /\ Spent(r) /\ \A o \in Ordinals : Earned(r, o)

CalibrationInv == RowTypes /\ worker \in Workers /\ Pages /\ WorkerPlace /\ RowsFit

-----------------------------------------------------------------------------
LEMMA OrdinalsAre == 1 \in Ordinals /\ Ordinals \subseteq Nat
BY CandidatesAssumption DEF Ordinals

LEMMA TableUpdated ==
    ASSUME NEW A, NEW B, NEW C, NEW f \in [A -> [B -> C]],
           NEW a \in A, NEW b \in B, NEW c \in C
    PROVE  [f EXCEPT ![a][b] = c] \in [A -> [B -> C]]
OBVIOUS

LEMMA IdleIs == Idle \in Workers /\ Idle.at = "idle" /\ Idle.page = {}
BY OrdinalsAre DEF Idle, Workers

LEMMA RowOf ==
    ASSUME RowTypes, NEW r \in Runs
    PROVE  /\ run[r] \in RunRows /\ run[r].state \in RunStates
           /\ run[r].current \in Ordinals /\ run[r].rev \in Nat
           /\ cand[r] \in [Ordinals -> Candidacies] /\ exec[r] \in [Ordinals -> ExecRows]
           /\ sent[r] \in [Ordinals -> Nat]
BY DEF RowTypes, RunRows

LEMMA CalibrationInitInv == CalibrationInit => CalibrationInv
<1> SUFFICES ASSUME CalibrationInit PROVE CalibrationInv
    OBVIOUS
<1>1. RowTypes
    <2>1. [state |-> "none", current |-> 1, rev |-> 1] \in RunRows
        BY OrdinalsAre DEF RunRows, RunStates
    <2>2. [state |-> "planned", disposition |-> "none"] \in Candidacies
        BY DEF Candidacies, Unfinished
    <2>3. NoExecution \in ExecRows
        BY DEF ExecRows
    <2> QED
        BY <2>1, <2>2, <2>3 DEF CalibrationInit, RowTypes
<1>2. worker = Idle
    BY DEF CalibrationInit
<1>3. Pages /\ WorkerPlace
    BY <1>2, IdleIs DEF Pages, WorkerPlace, Busy, Preparing, Waiting
<1>4. RowsFit
    BY OrdinalsAre DEF CalibrationInit, RowsFit, Unended, Spent, Earned, Unfinished, Rejected
<1> QED
    BY <1>1, <1>2, <1>3, <1>4, IdleIs DEF CalibrationInv

-----------------------------------------------------------------------------
(* The worker and the page when rows change.                                 *)

Kept(r) == run'[r].current = run[r].current /\ cand'[r] = cand[r]
OthersKept(r) == \A q \in Runs \ {r} : Kept(q)

LEMMA Shelved ==
    ASSUME CalibrationInv, worker.at \in Busy, OthersKept(worker.id),
           Done \/ Failed
    PROVE  worker' \in Workers /\ Pages' /\ WorkerPlace'
<1>1. worker' = Idle \/ worker' = [Idle EXCEPT !.at = "next", !.page = worker.page]
    BY DEF Done, Failed
<1>2. CASE worker' = Idle
    BY <1>2, IdleIs DEF Pages, WorkerPlace, Busy, Preparing, Waiting
<1>3. CASE worker' = [Idle EXCEPT !.at = "next", !.page = worker.page]
    <2>1. worker.page \subseteq PageRows
        BY DEF CalibrationInv, Workers
    <2>2. worker' \in Workers /\ worker'.at = "next" /\ worker'.page = worker.page
        BY <1>3, <2>1, IdleIs DEF Workers
    <2>3. \A e \in worker.page : e.id \in Runs \ {worker.id} /\ e.ord \in Ordinals
        BY <2>1 DEF CalibrationInv, Pages, PageRows
    <2>4. Pages'
        BY <2>2, <2>3 DEF CalibrationInv, Pages, OthersKept, Kept, Busy, Preparing, Waiting
    <2>5. WorkerPlace'
        BY <2>2 DEF WorkerPlace, Busy, Preparing, Waiting
    <2> QED
        BY <2>2, <2>4, <2>5
<1> QED
    BY <1>1, <1>2, <1>3

LEMMA Proceeding ==
    ASSUME CalibrationInv, worker.at \in Busy, OthersKept(worker.id),
           worker' \in Workers, worker'.page = worker.page, worker'.id = worker.id
    PROVE  Pages'
<1>1. \A e \in worker.page : e.id \in Runs \ {worker.id} /\ e.ord \in Ordinals
    BY DEF CalibrationInv, Pages, PageRows, Workers
<1> QED
    BY <1>1 DEF CalibrationInv, Pages, OthersKept, Kept

(* Nobody but the worker moves a run on.                                     *)
LEMMA Standing ==
    ASSUME CalibrationInv, UNCHANGED <<worker, exec, sent>>, \A q \in Runs : Kept(q)
    PROVE  worker' \in Workers /\ Pages' /\ WorkerPlace'
<1>1. \A e \in worker.page : e.id \in Runs /\ e.ord \in Ordinals
    BY DEF CalibrationInv, PageRows, Workers
<1>2. Pages'
    BY <1>1 DEF CalibrationInv, Pages, Kept
<1>3. WorkerPlace'
    BY DEF CalibrationInv, WorkerPlace, Kept
<1> QED
    BY <1>2, <1>3 DEF CalibrationInv

-----------------------------------------------------------------------------
(* The rows.                                                                 *)

(* The state of a run moves; where it is stays.                              *)
LEMMA StateMoves ==
    ASSUME CalibrationInv, NEW r \in Runs, NEW to \in RunRows,
           run' = [run EXCEPT ![r] = to], to.current = run[r].current,
           Open(r) \/ run[r].state = "none" \/ to.state \notin {"none", "planned", "running"},
           UNCHANGED <<cand, exec, sent, exhausted>>, conf' \in Nat
    PROVE  RowTypes' /\ RowsFit' /\ \A q \in Runs : Kept(q)
<1>1. RowTypes'
    BY DEF CalibrationInv, RowTypes
<1>2. run'[r] = to /\ \A q \in Runs \ {r} : run'[q] = run[q]
    BY DEF CalibrationInv, RowTypes
<1>3. \A q \in Runs : run'[q].current = run[q].current
    BY <1>2
<1>4. ASSUME NEW q \in Runs PROVE Unended(q)' /\ Spent(q)'
    BY <1>2, <1>3 DEF CalibrationInv, RowsFit, Unended, Spent, Open
<1>5. ASSUME NEW q \in Runs, NEW o \in Ordinals PROVE Earned(q, o)'
    BY DEF CalibrationInv, RowsFit, Earned
<1> QED
    BY <1>1, <1>3, <1>4, <1>5 DEF RowsFit, Kept

LEMMA MovedIs ==
    ASSUME RowTypes, NEW r \in Runs, NEW st \in RunStates
    PROVE  /\ Moved(r, st) \in RunRows /\ Moved(r, st).current = run[r].current
           /\ Moved(r, st).state = st
<1>1. run[r] \in RunRows /\ run[r].rev + 1 \in Nat
    BY RowOf DEF RunRows
<1>2. Moved(r, st) = [run[r] EXCEPT !.state = st, !.rev = @ + 1]
    BY DEF Moved
<1> QED
    BY <1>1, <1>2 DEF RunRows

LEMMA FinishMoves ==
    ASSUME CalibrationInv, NEW r \in Runs, NEW n,
           NEW st \in {"canceled", "failed"}, Finish(r, st, n),
           UNCHANGED <<cand, exec, sent, exhausted>>, conf' \in Nat
    PROVE  RowTypes' /\ RowsFit' /\ \A q \in Runs : Kept(q)
<1>1. CASE UNCHANGED run
    BY <1>1 DEF CalibrationInv, RowTypes, RowsFit, Unended, Spent, Earned, Kept
<1>2. CASE run' = [run EXCEPT ![r] = Moved(r, st)]
    <2>1. st \in RunStates /\ st \notin {"none", "planned", "running"}
        BY DEF RunStates
    <2>2. /\ Moved(r, st) \in RunRows /\ Moved(r, st).current = run[r].current
          /\ Moved(r, st).state = st
        BY <2>1, MovedIs DEF CalibrationInv
    <2> QED
        BY <1>2, <2>1, <2>2, StateMoves
<1> QED
    BY <1>1, <1>2 DEF Finish

LEMMA AdminStep ==
    ASSUME CalibrationInv, NEW r \in Runs, Plan(r) \/ Start(r) \/ CancelRun(r)
    PROVE  CalibrationInv'
<1>1. UNCHANGED <<cand, exec, sent, exhausted, worker, conf>> /\ conf \in Nat
    BY DEF Plan, Start, CancelRun, CalibrationInv, RowTypes
<1>2. RowTypes' /\ RowsFit' /\ \A q \in Runs : Kept(q)
    <2>1. CASE Plan(r)
        <3> DEFINE to == [run[r] EXCEPT !.state = "planned"]
        <3>1. to \in RunRows /\ to.current = run[r].current
            BY DEF CalibrationInv, RowTypes, RunRows, RunStates
        <3>2. run' = [run EXCEPT ![r] = to] /\ run[r].state = "none"
            BY <2>1 DEF Plan
        <3> QED
            BY <1>1, <3>1, <3>2, StateMoves
    <2>2. CASE Start(r)
        <3>1. /\ Moved(r, "running") \in RunRows
              /\ Moved(r, "running").current = run[r].current
            BY MovedIs DEF CalibrationInv, RunStates
        <3> QED
            BY <1>1, <2>2, <3>1, StateMoves DEF Start
    <2>3. CASE CancelRun(r)
        BY <1>1, <2>3, FinishMoves DEF CancelRun
    <2> QED
        BY <2>1, <2>2, <2>3
<1>3. worker' \in Workers /\ Pages' /\ WorkerPlace'
    BY <1>1, <1>2, Standing
<1> QED
    BY <1>2, <1>3 DEF CalibrationInv

(* Steps of the worker that change no row.                                   *)
LEMMA RowsKept ==
    ASSUME CalibrationInv, UNCHANGED <<run, cand, exec, sent, exhausted>>, conf' \in Nat
    PROVE  RowTypes' /\ RowsFit' /\ \A q \in Runs : Kept(q)
BY DEF CalibrationInv, RowTypes, RowsFit, Unended, Spent, Earned, Kept

LEMMA EditStep ==
    ASSUME CalibrationInv, Edit
    PROVE  CalibrationInv'
<1>1. UNCHANGED <<run, cand, exec, sent, exhausted, worker>> /\ conf' \in Nat
    BY DEF Edit, CalibrationInv, RowTypes
<1> QED
    BY <1>1, RowsKept, Standing DEF CalibrationInv

LEMMA CrashStep ==
    ASSUME CalibrationInv, Crash
    PROVE  CalibrationInv'
<1>1. UNCHANGED <<run, cand, exec, sent, exhausted, conf>> /\ worker' = Idle /\ conf \in Nat
    BY DEF Crash, rows, CalibrationInv, RowTypes
<1>2. Pages' /\ WorkerPlace' /\ worker' \in Workers
    BY <1>1, IdleIs DEF Pages, WorkerPlace, Busy, Preparing, Waiting
<1> QED
    BY <1>1, <1>2, RowsKept DEF CalibrationInv

LEMMA TickStep ==
    ASSUME CalibrationInv, Tick
    PROVE  CalibrationInv'
<1> DEFINE page == {Listed(r) : r \in {q \in Runs : Running(q)}}
<1>1. /\ UNCHANGED <<run, cand, exec, sent, exhausted, conf>> /\ conf \in Nat
      /\ worker' = [Idle EXCEPT !.at = "next", !.page = page]
    BY DEF Tick, rows, CalibrationInv, RowTypes
<1>2. ASSUME NEW r \in Runs, Running(r)
      PROVE  /\ Listed(r) \in PageRows /\ Listed(r).id = r /\ Listed(r).ord = run[r].current
             /\ Listed(r).state = cand[r][run[r].current].state
    <2>1. cand[r][run[r].current].state \in Unfinished
        BY <1>2 DEF CalibrationInv, RowsFit, Unended, Running
    <2>2. run[r].current \in Ordinals /\ run[r].rev \in Nat
        BY RowOf DEF CalibrationInv
    <2> QED
        BY <2>1, <2>2 DEF Listed, Current, PageRows
<1>3. page \subseteq PageRows
    BY <1>2
<1>4. \A e \in page : /\ e.id \in Runs /\ e.ord = run[e.id].current
                      /\ e.state = cand[e.id][e.ord].state /\ e = Listed(e.id)
    BY <1>2
<1> HIDE DEF page
<1>5. worker' \in Workers /\ worker'.at = "next" /\ worker'.page = page
    BY <1>1, <1>3, IdleIs DEF Workers
<1>6. Pages'
    <2>1. \A e, f \in page : e.id = f.id => e = f
        BY <1>4
    <2> QED
        BY <1>1, <1>4, <1>5, <2>1 DEF Pages, Busy, Preparing, Waiting
<1>7. WorkerPlace'
    BY <1>5 DEF WorkerPlace, Busy, Preparing, Waiting
<1> QED
    BY <1>1, <1>5, <1>6, <1>7, RowsKept DEF CalibrationInv

LEMMA AdvanceStep ==
    ASSUME CalibrationInv, Advance
    PROVE  CalibrationInv'
<1>1. PICK head \in Newest(worker.page) :
          worker' = [at |-> CASE head.state = "planned" -> "prepare"
                              [] head.state = "prepared" -> "send"
                              [] head.state = "send_started" -> "recover",
                     page |-> worker.page \ {head}, id |-> head.id,
                     ord |-> head.ord, rev |-> head.rev, state |-> head.state,
                     conf |-> 0]
    BY DEF Advance
<1>2. UNCHANGED <<run, cand, exec, sent, exhausted, conf>> /\ conf \in Nat
    BY DEF Advance, rows, CalibrationInv, RowTypes
<1>3. head \in worker.page /\ head \in PageRows /\ worker.page \subseteq PageRows
    BY DEF Newest, CalibrationInv, Workers
<1>4. /\ head.id \in Runs /\ head.ord \in Ordinals /\ head.rev \in Nat
      /\ head.state \in Unfinished /\ head.id \in Nat
    BY <1>3, RunsAssumption DEF PageRows
<1>5. /\ head.state = "planned" => worker'.at = "prepare"
      /\ head.state = "prepared" => worker'.at = "send"
      /\ head.state = "send_started" => worker'.at = "recover"
      /\ worker'.at \in {"prepare", "send", "recover"}
    BY <1>1, <1>4 DEF Unfinished
<1>6. /\ worker'.page = worker.page \ {head} /\ worker'.id = head.id
      /\ worker'.ord = head.ord /\ worker'.state = head.state
    BY <1>1
<1>7. worker' \in Workers
    BY <1>1, <1>3, <1>4, <1>5 DEF Workers, Busy, Preparing, Waiting
<1>8. Pages'
    BY <1>2, <1>3, <1>6 DEF CalibrationInv, Pages
<1>9. WorkerPlace'
    <2>1. head.ord = run[head.id].current /\ head.state = cand[head.id][head.ord].state
        BY <1>3 DEF CalibrationInv, Pages
    <2> QED
        BY <1>2, <1>4, <1>5, <1>6, <2>1 DEF WorkerPlace, Unfinished, Preparing, Waiting
<1> QED
    BY <1>2, <1>7, <1>8, <1>9, RowsKept DEF CalibrationInv

(* The worker goes on with its candidate and changes no row.                 *)
LEMMA Onward ==
    ASSUME CalibrationInv, worker.at \in Busy, NEW next \in Workers,
           worker' = next, next.page = worker.page, next.id = worker.id,
           UNCHANGED <<run, cand, exec, exhausted>>, conf' \in Nat,
           UNCHANGED sent, WorkerPlace'
    PROVE  CalibrationInv'
<1>1. RowTypes' /\ RowsFit' /\ \A q \in Runs : Kept(q)
    BY RowsKept
<1>2. Pages'
    BY <1>1, Proceeding DEF OthersKept
<1> QED
    BY <1>1, <1>2 DEF CalibrationInv

(* The worker goes to the next run, or ends the page.                        *)
LEMMA Ending ==
    ASSUME CalibrationInv, worker.at \in Busy, Done \/ Failed, RowTypes', RowsFit',
           OthersKept(worker.id)
    PROVE  CalibrationInv'
BY Shelved DEF CalibrationInv

LEMMA EndingQuietly ==
    ASSUME CalibrationInv, worker.at \in Busy, Done \/ Failed,
           UNCHANGED <<run, cand, exec, sent, exhausted>>, conf' \in Nat
    PROVE  CalibrationInv'
BY RowsKept, Ending DEF OthersKept

LEMMA WorkerIs ==
    ASSUME CalibrationInv, worker.at \in Busy
    PROVE  /\ worker \in Workers /\ worker.id \in Runs /\ worker.id \in Nat
           /\ worker.ord \in Ordinals /\ worker.ord = run[worker.id].current
           /\ cand[worker.id][worker.ord] \in Candidacies
           /\ exec[worker.id][worker.ord] \in ExecRows
           /\ sent[worker.id][worker.ord] \in Nat /\ conf \in Nat
           /\ run[worker.id] \in RunRows
BY RowOf DEF CalibrationInv, WorkerPlace, Workers, RowTypes

LEMMA RereadStep ==
    ASSUME CalibrationInv, Reread
    PROVE  CalibrationInv'
<1>1. UNCHANGED <<run, cand, exec, sent, exhausted, conf>> /\ worker.at = "prepared"
    BY DEF Reread, rows
<1>2. worker.at \in Busy
    BY <1>1 DEF Busy, Preparing
<1> DEFINE next == [worker EXCEPT !.at = "send", !.id = worker.id,
                      !.ord = run[worker.id].current, !.rev = run[worker.id].rev,
                      !.state = cand[worker.id][run[worker.id].current].state]
<1>3. worker' = next
    BY <1>1 DEF Reread, Goes
<1>4. cand[worker.id][worker.ord].state = "prepared"
    BY <1>1, <1>2 DEF CalibrationInv, WorkerPlace, Preparing
<1>5. /\ next \in Workers /\ next.at = "send" /\ next.page = worker.page
      /\ next.id = worker.id /\ next.ord = worker.ord /\ next.state = "prepared"
    BY <1>2, <1>4, WorkerIs DEF Workers, Busy, Preparing, Unfinished, RunRows
<1> HIDE DEF next
<1>6. WorkerPlace'
    BY <1>1, <1>2, <1>3, <1>4, <1>5, WorkerIs DEF WorkerPlace, Preparing, Waiting
<1> QED
    BY <1>1, <1>2, <1>3, <1>5, <1>6, WorkerIs, Onward

LEMMA CheckTargetStep ==
    ASSUME CalibrationInv, CheckTarget
    PROVE  CalibrationInv'
<1>1. UNCHANGED <<cand, exec, sent, exhausted, conf>> /\ worker.at = "send"
    BY DEF CheckTarget
<1>2. worker.at \in Busy /\ worker.state = "prepared"
    BY <1>1 DEF CalibrationInv, WorkerPlace, Busy, Preparing
<1>3. CASE enabled
    <2> DEFINE next == [worker EXCEPT !.at = "mark"]
    <2>1. worker' = next /\ UNCHANGED run
        BY <1>2, <1>3 DEF CheckTarget
    <2>2. /\ next \in Workers /\ next.at = "mark" /\ next.page = worker.page
          /\ next.id = worker.id /\ next.ord = worker.ord
        BY <1>2, WorkerIs DEF Workers, Busy, Preparing
    <2> HIDE DEF next
    <2>3. WorkerPlace'
        BY <1>1, <1>2, <2>1, <2>2 DEF CalibrationInv, WorkerPlace, Preparing, Waiting
    <2> QED
        BY <1>1, <1>2, <2>1, <2>2, <2>3, WorkerIs, Onward
<1>4. CASE ~enabled
    <2>1. Failed /\ Finish(worker.id, "failed", worker.rev)
        BY <1>4 DEF CheckTarget
    <2>2. RowTypes' /\ RowsFit' /\ \A q \in Runs : Kept(q)
        BY <1>1, <1>2, <2>1, WorkerIs, FinishMoves
    <2> QED
        BY <1>2, <2>1, <2>2, Ending DEF OthersKept
<1> QED
    BY <1>3, <1>4

LEMMA BuildStep ==
    ASSUME CalibrationInv, Build
    PROVE  CalibrationInv'
<1>1. UNCHANGED <<cand, exec, sent, exhausted, conf>> /\ worker.at = "started"
    BY DEF Build
<1>2. worker.at \in Busy
    BY <1>1 DEF Busy, Waiting
<1>3. CASE run[worker.id].state = "canceled"
    <2>1. Done /\ UNCHANGED run
        BY <1>3 DEF Build
    <2> QED
        BY <1>1, <1>2, <2>1, WorkerIs, EndingQuietly
<1>4. CASE run[worker.id].state # "canceled" /\ ~enabled
    <2>1. Failed /\ Finish(worker.id, "failed", run[worker.id].rev)
        BY <1>4 DEF Build
    <2>2. RowTypes' /\ RowsFit' /\ \A q \in Runs : Kept(q)
        BY <1>1, <1>2, <2>1, WorkerIs, FinishMoves
    <2> QED
        BY <1>2, <2>1, <2>2, Ending DEF OthersKept
<1>5. CASE run[worker.id].state # "canceled" /\ enabled
    <2> DEFINE next == [worker EXCEPT !.at = "built", !.conf = conf,
                          !.ord = run[worker.id].current, !.rev = run[worker.id].rev]
    <2>1. worker' = next /\ UNCHANGED run
        BY <1>5 DEF Build
    <2>2. /\ next \in Workers /\ next.at = "built" /\ next.page = worker.page
          /\ next.id = worker.id /\ next.ord = worker.ord
        BY <1>2, WorkerIs DEF Workers, Busy, Waiting, RunRows
    <2> HIDE DEF next
    <2>3. WorkerPlace'
        BY <1>1, <1>2, <2>1, <2>2 DEF CalibrationInv, WorkerPlace, Preparing, Waiting
    <2> QED
        BY <1>1, <1>2, <2>1, <2>2, <2>3, WorkerIs, Onward
<1> QED
    BY <1>3, <1>4, <1>5

LEMMA ConcludeStep ==
    ASSUME CalibrationInv, ConcludeRun
    PROVE  CalibrationInv'
<1>1. UNCHANGED <<run, cand, exec, sent, exhausted, conf>> /\ worker.at = "recorded"
    BY DEF ConcludeRun, rows
<1>2. worker.at \in Busy
    BY <1>1 DEF Busy, Waiting
<1>3. CASE ~Running(worker.id)
    <2>1. Done
        BY <1>3 DEF ConcludeRun
    <2> QED
        BY <1>1, <1>2, <2>1, WorkerIs, EndingQuietly
<1>4. CASE Running(worker.id)
    <2> DEFINE to == IF exec[worker.id][worker.ord].outcome = "success"
                     THEN "commit" ELSE "advance"
               next == [worker EXCEPT !.at = to, !.id = worker.id,
                          !.ord = run[worker.id].current, !.rev = run[worker.id].rev,
                          !.state = cand[worker.id][run[worker.id].current].state]
    <2>1. worker' = next
        BY <1>1, <1>4 DEF ConcludeRun, Goes
    <2>2. cand[worker.id][worker.ord].state = "send_started"
        BY <1>1, <1>2 DEF CalibrationInv, WorkerPlace, Waiting
    <2>3. /\ to \in {"commit", "advance"}
          /\ to = "commit" => exec[worker.id][worker.ord].outcome = "success"
        OBVIOUS
    <2> HIDE DEF to
    <2>4. /\ next \in Workers /\ next.at = to /\ next.page = worker.page
          /\ next.id = worker.id /\ next.ord = worker.ord
        BY <1>2, <2>2, <2>3, WorkerIs DEF Workers, Busy, Waiting, Unfinished, RunRows
    <2> HIDE DEF next
    <2>5. WorkerPlace'
        BY <1>1, <1>2, <2>1, <2>2, <2>3, <2>4 DEF CalibrationInv, WorkerPlace, Preparing, Waiting
    <2> QED
        BY <1>1, <1>2, <2>1, <2>4, <2>5, WorkerIs, Onward
<1> QED
    BY <1>3, <1>4

-----------------------------------------------------------------------------
(* Steps that change the rows of the run at hand.                            *)

LEMMA BusyUnspent ==
    ASSUME CalibrationInv, worker.at \in Busy
    PROVE  /\ worker.id \notin exhausted
           /\ cand[worker.id][worker.ord].state \in Unfinished
           /\ ~Rejected(cand[worker.id][worker.ord])
<1>1. cand[worker.id][worker.ord].state \in Unfinished
    BY DEF CalibrationInv, WorkerPlace, Busy, Unfinished
<1>2. ~Rejected(cand[worker.id][worker.ord])
    BY <1>1 DEF Rejected, Unfinished
<1> QED
    BY <1>1, <1>2, WorkerIs DEF CalibrationInv, RowsFit, Spent

LEMMA OthersFit ==
    ASSUME CalibrationInv, NEW r \in Runs,
           exhausted' \subseteq exhausted \cup {r},
           \A q \in Runs \ {r} : /\ run'[q] = run[q] /\ cand'[q] = cand[q]
                                 /\ exec'[q] = exec[q] /\ sent'[q] = sent[q],
           Unended(r)', Spent(r)', \A o \in Ordinals : Earned(r, o)'
    PROVE  RowsFit' /\ OthersKept(r)
<1>1. ASSUME NEW q \in Runs \ {r}
      PROVE  Unended(q)' /\ Spent(q)' /\ \A o \in Ordinals : Earned(q, o)'
    BY DEF CalibrationInv, RowsFit, Unended, Spent, Earned
<1> QED
    BY <1>1 DEF RowsFit, OthersKept, Kept

(* The candidate at hand moves to another state, and the run's revision.     *)
LEMMA Stepping ==
    ASSUME CalibrationInv, worker.at \in Busy, NEW to \in Unfinished,
           NEW r, NEW o, r = worker.id, o = worker.ord,
           run' = [run EXCEPT ![r].rev = @ + 1],
           cand' = [cand EXCEPT ![r][o].state = to],
           UNCHANGED <<exec, sent, exhausted, conf>>,
           sent[r][o] = 0
    PROVE  /\ RowTypes' /\ RowsFit' /\ OthersKept(r)
           /\ cand'[r][o].state = to /\ run'[r].current = o
<1> DEFINE new == [cand[r][o] EXCEPT !.state = to]
           entry == [run[r] EXCEPT !.rev = @ + 1]
<1>1. /\ r \in Runs /\ o \in Ordinals /\ o = run[r].current /\ run[r] \in RunRows
      /\ cand[r][o] \in Candidacies /\ r \notin exhausted /\ conf \in Nat
    BY WorkerIs, BusyUnspent
<1>2. new \in Candidacies /\ new.state = to /\ entry \in RunRows /\ entry.current = o
    BY <1>1 DEF Candidacies, RunRows
<1> HIDE DEF new, entry
<1>3. /\ run' = [run EXCEPT ![r] = entry] /\ cand' = [cand EXCEPT ![r][o] = new]
    BY DEF new, entry
<1>4. RowTypes'
    <2>1. RowTypes
        BY DEF CalibrationInv
    <2>2. run' \in [Runs -> RunRows]
        BY <1>1, <1>2, <1>3, <2>1 DEF RowTypes
    <2>3. cand' \in [Runs -> [Ordinals -> Candidacies]]
        <3>1. cand \in [Runs -> [Ordinals -> Candidacies]]
            BY <2>1 DEF RowTypes
        <3>2. [cand EXCEPT ![r][o] = new] \in [Runs -> [Ordinals -> Candidacies]]
            BY <1>1, <1>2, <3>1, TableUpdated, Zenon
        <3> QED
            BY <1>3, <3>2, Zenon
    <2> QED
        BY <2>1, <2>2, <2>3 DEF RowTypes
<1>5. /\ run'[r] = entry /\ cand'[r][o] = new
      /\ \A q \in Runs \ {r} : run'[q] = run[q] /\ cand'[q] = cand[q]
      /\ \A p \in Ordinals \ {o} : cand'[r][p] = cand[r][p]
    BY <1>1, <1>3 DEF CalibrationInv, RowTypes
<1>6. Unended(r)' /\ Spent(r)'
    BY <1>1, <1>2, <1>5 DEF Unended, Spent
<1>7. ASSUME NEW p \in Ordinals PROVE Earned(r, p)'
    <2>1. Earned(r, p)
        BY <1>1 DEF CalibrationInv, RowsFit
    <2>2. CASE p = o
        BY <1>1, <1>2, <1>5, <2>1, <2>2 DEF Earned, Rejected, Unfinished
    <2>3. CASE p # o
        BY <1>1, <1>5, <2>1, <2>3 DEF Earned
    <2> QED
        BY <2>2, <2>3
<1>8. RowsFit' /\ OthersKept(r)
    BY <1>1, <1>5, <1>6, <1>7, OthersFit
<1> QED
    BY <1>2, <1>4, <1>5, <1>8

LEMMA Unsent ==
    ASSUME CalibrationInv, worker.at \in Busy,
           cand[worker.id][worker.ord].state \in {"planned", "prepared"}
    PROVE  sent[worker.id][worker.ord] = 0
<1>1. Earned(worker.id, worker.ord) /\ sent[worker.id][worker.ord] \in Nat
    BY WorkerIs DEF CalibrationInv, RowsFit
<1> QED
    BY <1>1 DEF Earned

LEMMA PrepareStep ==
    ASSUME CalibrationInv, Prepare
    PROVE  CalibrationInv'
<1>1. UNCHANGED <<exec, sent, exhausted, conf>> /\ worker.at = "prepare"
    BY DEF Prepare
<1>2. worker.at \in Busy /\ cand[worker.id][worker.ord].state = "planned"
    BY <1>1 DEF CalibrationInv, WorkerPlace, Busy
<1>3. CASE Failed /\ UNCHANGED <<run, cand>>
    BY <1>1, <1>2, <1>3, WorkerIs, EndingQuietly
<1>4. CASE ~(Failed /\ UNCHANGED <<run, cand>>)
    <2> DEFINE next == [worker EXCEPT !.at = "prepared"]
    <2>1. /\ run' = [run EXCEPT ![worker.id].rev = @ + 1]
          /\ cand' = [cand EXCEPT ![worker.id][worker.ord].state = "prepared"]
          /\ worker' = next
        BY <1>4 DEF Prepare
    <2>2. "prepared" \in Unfinished /\ sent[worker.id][worker.ord] = 0
        BY <1>2, Unsent DEF Unfinished
    <2>3. /\ RowTypes' /\ RowsFit' /\ OthersKept(worker.id)
          /\ cand'[worker.id][worker.ord].state = "prepared"
          /\ run'[worker.id].current = worker.ord
        BY <1>1, <1>2, <2>1, <2>2, Stepping
    <2>4. /\ next \in Workers /\ next.at = "prepared" /\ next.page = worker.page
          /\ next.id = worker.id /\ next.ord = worker.ord
        BY <1>2, WorkerIs DEF Workers, Busy, Preparing
    <2> HIDE DEF next
    <2>5. Pages'
        BY <1>2, <2>1, <2>3, <2>4, Proceeding
    <2>6. WorkerPlace'
        BY <1>2, <2>1, <2>3, <2>4, WorkerIs DEF WorkerPlace, Preparing, Waiting
    <2> QED
        BY <2>1, <2>3, <2>4, <2>5, <2>6 DEF CalibrationInv
<1> QED
    BY <1>3, <1>4

LEMMA MarkStep ==
    ASSUME CalibrationInv, MarkSendStarted
    PROVE  CalibrationInv'
<1>1. UNCHANGED <<exec, sent, exhausted, conf>> /\ worker.at = "mark"
    BY DEF MarkSendStarted
<1>2. worker.at \in Busy /\ cand[worker.id][worker.ord].state = "prepared"
    BY <1>1 DEF CalibrationInv, WorkerPlace, Busy, Preparing
<1>3. CASE Same(worker.id)
    <2> DEFINE next == [worker EXCEPT !.at = "started"]
    <2>1. /\ run' = [run EXCEPT ![worker.id].rev = @ + 1]
          /\ cand' = [cand EXCEPT ![worker.id][worker.ord].state = "send_started"]
          /\ worker' = next
        BY <1>2, <1>3 DEF MarkSendStarted
    <2>2. "send_started" \in Unfinished /\ sent[worker.id][worker.ord] = 0
        BY <1>2, Unsent DEF Unfinished
    <2>3. /\ RowTypes' /\ RowsFit' /\ OthersKept(worker.id)
          /\ cand'[worker.id][worker.ord].state = "send_started"
          /\ run'[worker.id].current = worker.ord
        BY <1>1, <1>2, <2>1, <2>2, Stepping
    <2>4. /\ next \in Workers /\ next.at = "started" /\ next.page = worker.page
          /\ next.id = worker.id /\ next.ord = worker.ord
        BY <1>2, WorkerIs DEF Workers, Busy, Waiting
    <2> HIDE DEF next
    <2>5. Pages'
        BY <1>2, <2>1, <2>3, <2>4, Proceeding
    <2>6. WorkerPlace'
        BY <1>1, <1>2, <2>1, <2>2, <2>3, <2>4, WorkerIs DEF WorkerPlace, Preparing, Waiting
    <2> QED
        BY <2>1, <2>3, <2>4, <2>5, <2>6 DEF CalibrationInv
<1>4. CASE ~Same(worker.id)
    <2>1. Failed /\ UNCHANGED <<run, cand>>
        BY <1>4 DEF MarkSendStarted
    <2> QED
        BY <1>1, <1>2, <2>1, WorkerIs, EndingQuietly
<1> QED
    BY <1>3, <1>4

(* The request goes out, for the first time.                                 *)
LEMMA RoundTripStep ==
    ASSUME CalibrationInv, RoundTrip
    PROVE  CalibrationInv'
<1>0. PICK r, o : r = worker.id /\ o = worker.ord
    OBVIOUS
<1>1. UNCHANGED <<run, cand, exec, exhausted, conf>> /\ worker.at = "built"
    BY DEF RoundTrip, rows
<1>2. /\ worker.at \in Busy /\ cand[r][o].state = "send_started"
      /\ sent[r][o] = 0
    BY <1>0, <1>1 DEF CalibrationInv, WorkerPlace, Busy, Waiting
<1>3. CASE Failed /\ UNCHANGED sent
    BY <1>1, <1>2, <1>3, WorkerIs, EndingQuietly
<1>4. CASE ~(Failed /\ UNCHANGED sent)
    <2> DEFINE next == [worker EXCEPT !.at = "wire"]
    <2>1. worker' = next /\ sent' = [sent EXCEPT ![r][o] = @ + 1]
        BY <1>0, <1>4 DEF RoundTrip
    <2>2. r \in Runs /\ o \in Ordinals /\ o = run[r].current
        BY <1>0, <1>2, WorkerIs
    <2>3. /\ sent' \in [Runs -> [Ordinals -> Nat]] /\ sent'[r][o] = 1
          /\ \A q \in Runs \ {r} : sent'[q] = sent[q]
          /\ \A p \in Ordinals \ {o} : sent'[r][p] = sent[r][p]
        BY <1>2, <2>1, <2>2 DEF CalibrationInv, RowTypes
    <2>4. RowTypes'
        BY <1>1, <2>3 DEF CalibrationInv, RowTypes
    <2>5. /\ next \in Workers /\ next.at = "wire" /\ next.page = worker.page
          /\ next.id = worker.id /\ next.ord = worker.ord
        BY <1>2, WorkerIs DEF Workers, Busy, Waiting
    <2> HIDE DEF next
    <2>6. ASSUME NEW p \in Ordinals PROVE Earned(r, p)'
        <3>1. Earned(r, p)
            BY <2>2 DEF CalibrationInv, RowsFit
        <3>2. CASE p = o
            BY <1>1, <1>2, <2>3, <3>1, <3>2 DEF Earned
        <3>3. CASE p # o
            BY <1>1, <2>3, <3>1, <3>3 DEF Earned
        <3> QED
            BY <3>2, <3>3
    <2>7. Unended(r)' /\ Spent(r)'
        BY <1>1, <2>2 DEF CalibrationInv, RowsFit, Unended, Spent
    <2>8. RowsFit' /\ OthersKept(r)
        BY <1>0, <1>1, <2>2, <2>3, <2>6, <2>7, OthersFit
    <2>9. Pages'
        BY <1>0, <1>2, <2>1, <2>5, <2>8, Proceeding
    <2>10. WorkerPlace'
        <3>1. worker'.at = "wire" /\ worker'.id = r /\ worker'.ord = o
            BY <1>0, <2>1, <2>5
        <3>2. cand'[r][o].state = "send_started" /\ run'[r].current = o
            BY <1>1, <1>2, <2>2
        <3> QED
            BY <2>2, <2>3, <3>1, <3>2 DEF WorkerPlace, Preparing, Waiting
    <2> QED
        BY <2>1, <2>4, <2>5, <2>8, <2>9, <2>10 DEF CalibrationInv
<1> QED
    BY <1>3, <1>4

LEMMA RecordStep ==
    ASSUME CalibrationInv, Record
    PROVE  CalibrationInv'
<1>0. PICK r, o : r = worker.id /\ o = worker.ord
    OBVIOUS
<1>1. UNCHANGED <<run, cand, sent, exhausted, conf>> /\ worker.at = "wire"
    BY DEF Record
<1>2. /\ worker.at \in Busy /\ cand[r][o].state = "send_started"
      /\ sent[r][o] = 1
    BY <1>0, <1>1 DEF CalibrationInv, WorkerPlace, Busy, Waiting
<1>3. CASE Failed /\ UNCHANGED exec
    BY <1>1, <1>2, <1>3, WorkerIs, EndingQuietly
<1>4. ASSUME NEW outcome \in Outcomes,
             exec' = [exec EXCEPT ![r][o] =
                         [outcome |-> outcome, conf |-> worker.conf]],
             worker' = [worker EXCEPT !.at = "recorded"]
      PROVE  CalibrationInv'
    <2> DEFINE next == [worker EXCEPT !.at = "recorded"]
               new == [outcome |-> outcome, conf |-> worker.conf]
    <2>1. r \in Runs /\ o \in Ordinals /\ o = run[r].current /\ worker.conf \in Nat
        BY <1>0, <1>2, WorkerIs DEF Workers
    <2>2. new \in ExecRows /\ new # NoExecution
        BY <2>1 DEF ExecRows, NoExecution, Outcomes
    <2>3. /\ next \in Workers /\ next.at = "recorded" /\ next.page = worker.page
          /\ next.id = worker.id /\ next.ord = worker.ord
        BY <1>2, WorkerIs DEF Workers, Busy, Waiting
    <2> HIDE DEF next, new
    <2>4. /\ exec' \in [Runs -> [Ordinals -> ExecRows]] /\ exec'[r][o] = new
          /\ \A q \in Runs \ {r} : exec'[q] = exec[q]
          /\ \A p \in Ordinals \ {o} : exec'[r][p] = exec[r][p]
        BY <1>4, <2>1, <2>2 DEF CalibrationInv, RowTypes, new
    <2>5. RowTypes'
        BY <1>1, <2>4 DEF CalibrationInv, RowTypes
    <2>6. ASSUME NEW p \in Ordinals PROVE Earned(r, p)'
        <3>1. Earned(r, p)
            BY <2>1 DEF CalibrationInv, RowsFit
        <3>2. CASE p = o
            BY <1>1, <1>2, <2>4, <3>1, <3>2 DEF Earned, Rejected
        <3>3. CASE p # o
            BY <1>1, <2>4, <3>1, <3>3 DEF Earned
        <3> QED
            BY <3>2, <3>3
    <2>7. Unended(r)' /\ Spent(r)'
        BY <1>1, <2>1 DEF CalibrationInv, RowsFit, Unended, Spent
    <2>8. RowsFit' /\ OthersKept(r)
        BY <1>0, <1>1, <2>1, <2>4, <2>6, <2>7, OthersFit
    <2>9. worker' = next
        BY <1>4 DEF next
    <2>10. Pages'
        BY <1>0, <1>2, <2>3, <2>8, <2>9, Proceeding
    <2>11. WorkerPlace'
        BY <1>0, <1>1, <1>2, <2>1, <2>2, <2>3, <2>4, <2>9 DEF WorkerPlace, Preparing, Waiting
    <2> QED
        BY <2>3, <2>5, <2>8, <2>9, <2>10, <2>11 DEF CalibrationInv
<1> QED
    BY <1>0, <1>3, <1>4 DEF Record

(* The candidate at hand ends, and the run goes on or ends with it.          *)
LEMMA Concluding ==
    ASSUME CalibrationInv, worker.at \in Busy, NEW to \in Candidacies, NEW entry \in RunRows,
           NEW r, NEW o, r = worker.id, o = worker.ord,
           run' = [run EXCEPT ![r] = entry],
           cand' = [cand EXCEPT ![r][o] = to],
           UNCHANGED <<exec, sent>>, conf' \in Nat,
           exhausted' \subseteq exhausted \cup {r},
           cand[r][o].state = "send_started",
           to.state \notin {"planned", "prepared"},
           Rejected(to) => exec[r][o].outcome = "try_next_auth",
           entry.state \in {"none", "planned", "running"} =>
              /\ entry.current # o
              /\ cand[r][entry.current].state = "planned",
           r \in exhausted' =>
              /\ Rejected(to)
              /\ \A p \in Ordinals \ {o} : Rejected(cand[r][p])
    PROVE  RowTypes' /\ RowsFit' /\ OthersKept(r)
<1>1. r \in Runs /\ o \in Ordinals /\ r \notin exhausted /\ entry.current \in Ordinals
    BY WorkerIs, BusyUnspent DEF RunRows
<1>2. RowTypes'
    BY <1>1 DEF CalibrationInv, RowTypes
<1>3. /\ run'[r] = entry /\ cand'[r][o] = to
      /\ \A q \in Runs \ {r} : run'[q] = run[q] /\ cand'[q] = cand[q]
      /\ \A p \in Ordinals \ {o} : cand'[r][p] = cand[r][p]
    BY <1>1 DEF CalibrationInv, RowTypes
<1>4. Unended(r)'
    BY <1>1, <1>3 DEF Unended, Unfinished
<1>5. Spent(r)'
    <2>1. ASSUME r \in exhausted', NEW p \in Ordinals PROVE Rejected(cand'[r][p])
        BY <1>3, <2>1
    <2> QED
        BY <2>1 DEF Spent
<1>6. ASSUME NEW p \in Ordinals PROVE Earned(r, p)'
    <2>1. Earned(r, p)
        BY <1>1 DEF CalibrationInv, RowsFit
    <2>2. CASE p = o
        BY <1>3, <2>1, <2>2 DEF Earned
    <2>3. CASE p # o
        BY <1>3, <2>1, <2>3 DEF Earned
    <2> QED
        BY <2>2, <2>3
<1>7. RowsFit' /\ OthersKept(r)
    BY <1>1, <1>3, <1>4, <1>5, <1>6, OthersFit
<1> QED
    BY <1>2, <1>7

LEMMA RecoverStep ==
    ASSUME CalibrationInv, Recover
    PROVE  CalibrationInv'
<1>1. UNCHANGED <<exec, sent, exhausted, conf>> /\ worker.at = "recover"
    BY DEF Recover
<1>2. worker.at \in Busy /\ cand[worker.id][worker.ord].state = "send_started"
    BY <1>1 DEF CalibrationInv, WorkerPlace, Busy, Waiting
<1>3. CASE exec[worker.id][worker.ord] # NoExecution
    <2> DEFINE next == [worker EXCEPT !.at = "recorded"]
    <2>1. worker' = next /\ UNCHANGED <<run, cand>>
        BY <1>3 DEF Recover
    <2>2. /\ next \in Workers /\ next.at = "recorded" /\ next.page = worker.page
          /\ next.id = worker.id /\ next.ord = worker.ord
        BY <1>2, WorkerIs DEF Workers, Busy, Waiting
    <2> HIDE DEF next
    <2>3. WorkerPlace'
        BY <1>1, <1>2, <1>3, <2>1, <2>2, WorkerIs DEF WorkerPlace, Preparing, Waiting
    <2> QED
        BY <1>1, <1>2, <2>1, <2>2, <2>3, WorkerIs, Onward
<1>4. CASE exec[worker.id][worker.ord] = NoExecution /\ Same(worker.id)
    <2> DEFINE to == [state |-> "indeterminate", disposition |-> "stop"]
    <2>1. /\ run' = [run EXCEPT ![worker.id] = Moved(worker.id, "interrupted")]
          /\ cand' = [cand EXCEPT ![worker.id][worker.ord] = to]
          /\ Done
        BY <1>2, <1>4 DEF Recover
    <2>2. /\ Moved(worker.id, "interrupted") \in RunRows
          /\ Moved(worker.id, "interrupted").state = "interrupted"
        BY <1>2, WorkerIs, MovedIs DEF CalibrationInv, RunStates
    <2>3. to \in Candidacies /\ to.state \notin {"planned", "prepared"} /\ ~Rejected(to)
        BY DEF Candidacies, Outcomes, Rejected
    <2> HIDE DEF to
    <2>4. RowTypes' /\ RowsFit' /\ OthersKept(worker.id)
        BY <1>1, <1>2, <2>1, <2>2, <2>3, WorkerIs, BusyUnspent, Concluding
    <2> QED
        BY <1>2, <2>1, <2>4, Ending
<1>5. CASE exec[worker.id][worker.ord] = NoExecution /\ ~Same(worker.id)
    <2>1. Failed /\ UNCHANGED <<run, cand>>
        BY <1>5 DEF Recover
    <2> QED
        BY <1>1, <1>2, <2>1, WorkerIs, EndingQuietly
<1> QED
    BY <1>3, <1>4, <1>5

LEMMA CommitStep ==
    ASSUME CalibrationInv, CommitSuccess
    PROVE  CalibrationInv'
<1>1. UNCHANGED <<exec, sent, exhausted>> /\ worker.at = "commit"
    BY DEF CommitSuccess
<1>2. worker.at \in Busy /\ cand[worker.id][worker.ord].state = "send_started"
    BY <1>1 DEF CalibrationInv, WorkerPlace, Busy, Waiting
<1>3. CASE Same(worker.id) /\ StillCurrent(worker.id, worker.ord)
    <2> DEFINE to == [state |-> "finished", disposition |-> "stop"]
    <2>1. /\ run' = [run EXCEPT ![worker.id] = Moved(worker.id, "succeeded")]
          /\ cand' = [cand EXCEPT ![worker.id][worker.ord] = to]
          /\ Done /\ conf' = conf + 1
        BY <1>3 DEF CommitSuccess
    <2>2. /\ Moved(worker.id, "succeeded") \in RunRows
          /\ Moved(worker.id, "succeeded").state = "succeeded"
        BY <1>2, WorkerIs, MovedIs DEF CalibrationInv, RunStates
    <2>3. to \in Candidacies /\ to.state \notin {"planned", "prepared"} /\ ~Rejected(to)
        BY DEF Candidacies, Outcomes, Rejected
    <2> HIDE DEF to
    <2>4. conf' \in Nat
        BY <1>2, <2>1, WorkerIs
    <2>5. RowTypes' /\ RowsFit' /\ OthersKept(worker.id)
        BY <1>1, <1>2, <2>1, <2>2, <2>3, <2>4, BusyUnspent, Concluding
    <2> QED
        BY <1>2, <2>1, <2>5, Ending
<1>4. CASE ~(Same(worker.id) /\ StillCurrent(worker.id, worker.ord))
    <2>1. Failed /\ UNCHANGED <<run, cand, conf>>
        BY <1>4 DEF CommitSuccess
    <2> QED
        BY <1>1, <1>2, <2>1, WorkerIs, EndingQuietly
<1> QED
    BY <1>3, <1>4

LEMMA AdvanceAfterStep ==
    ASSUME CalibrationInv, AdvanceAfterExecution
    PROVE  CalibrationInv'
<1>0. PICK r, o : r = worker.id /\ o = worker.ord
    OBVIOUS
<1> DEFINE outcome == exec[r][o].outcome
           to == [state |-> "finished", disposition |-> outcome]
           cs == [cand[r] EXCEPT ![o] = to]
           next == {p \in Ordinals : p > o /\ cs[p].state = "planned"}
<1>1. UNCHANGED <<exec, sent, conf>> /\ worker.at = "advance"
    BY DEF AdvanceAfterExecution
<1>2. /\ worker.at \in Busy /\ cand[r][o].state = "send_started"
      /\ exec[r][o] # NoExecution
    BY <1>0, <1>1 DEF CalibrationInv, WorkerPlace, Busy, Waiting
<1>3. /\ r \in Runs /\ o \in Ordinals /\ run[r] \in RunRows /\ conf \in Nat
      /\ cand[r] \in [Ordinals -> Candidacies] /\ outcome \in Outcomes
    BY <1>0, <1>2, WorkerIs, RowOf DEF CalibrationInv, ExecRows
<1>4. /\ to \in Candidacies /\ to.state = "finished"
      /\ Rejected(to) => outcome = "try_next_auth"
    BY <1>3 DEF Candidacies, Rejected
<1> HIDE DEF to
<1>5. cs[o] = to /\ \A p \in Ordinals \ {o} : cs[p] = cand[r][p]
    BY <1>3
<1>6. ASSUME cand' = [cand EXCEPT ![r] = cs]
      PROVE  cand' = [cand EXCEPT ![r][o] = to]
    BY <1>6
<1>7. CASE UNCHANGED <<run, cand, exhausted>> /\ (Done \/ Failed)
    BY <1>1, <1>2, <1>3, <1>7, EndingQuietly
<1>8. CASE Same(r) /\ outcome # "stop" /\ next # {}
    <2>1. PICK p \in next :
             run' = [run EXCEPT ![r] = [Moved(r, "running") EXCEPT !.current = p]]
        BY <1>0, <1>8 DEF AdvanceAfterExecution, to, Same
    <2>2. cand' = [cand EXCEPT ![r] = cs] /\ Done /\ UNCHANGED exhausted
        BY <1>0, <1>8 DEF AdvanceAfterExecution, to
    <2> DEFINE entry == [Moved(r, "running") EXCEPT !.current = p]
    <2>3. p \in Ordinals /\ p # o /\ cand[r][p].state = "planned"
        BY <1>3, <1>4, <1>5
    <2>4. entry \in RunRows /\ entry.current = p
        <3>1. Moved(r, "running") \in RunRows
            BY <1>3, MovedIs DEF CalibrationInv, RunStates
        <3> HIDE DEF next, cs, outcome
        <3> QED
            BY <2>3, <3>1 DEF RunRows
    <2>5. run' = [run EXCEPT ![r] = entry]
        BY <2>1
    <2> HIDE DEF entry, next, cs
    <2>6. r \notin exhausted'
        BY <1>2, <2>2, <1>0, BusyUnspent
    <2>7. RowTypes' /\ RowsFit' /\ OthersKept(r)
        BY <1>1, <1>2, <1>3, <1>4, <1>6, <2>2, <2>3, <2>4, <2>5, <2>6, <1>0, Concluding
    <2> QED
        BY <1>2, <2>2, <2>7, <1>0, Ending
<1>9. CASE Same(r) /\ (outcome = "stop" \/ next = {})
    <2>1. /\ cand' = [cand EXCEPT ![r] = cs] /\ Done
          /\ run' = [run EXCEPT ![r] = Moved(r, "failed")]
          /\ exhausted' = IF outcome = "try_next_auth" /\ AllRejected(cs)
                          THEN exhausted \cup {r} ELSE exhausted
        BY <1>0, <1>9 DEF AdvanceAfterExecution, to
    <2>2. Moved(r, "failed") \in RunRows /\ Moved(r, "failed").state = "failed"
        BY <1>3, MovedIs DEF CalibrationInv, RunStates
    <2>3. r \in exhausted' =>
            Rejected(to) /\ \A p \in Ordinals \ {o} : Rejected(cand[r][p])
        <3>1. r \in exhausted' => AllRejected(cs)
            BY <1>2, <2>1, <1>0, BusyUnspent
        <3> QED
            BY <1>3, <1>5, <3>1 DEF AllRejected
    <2> DEFINE entry == Moved(r, "failed")
    <2>4. /\ run' = [run EXCEPT ![r] = entry] /\ entry \in RunRows
          /\ entry.state \notin {"none", "planned", "running"}
          /\ exhausted' \subseteq exhausted \cup {r} /\ conf' \in Nat
        BY <1>1, <1>3, <2>1, <2>2
    <2>5. cand' = [cand EXCEPT ![r][o] = to] /\ to.state \notin {"planned", "prepared"}
        BY <1>4, <1>6, <2>1
    <2> HIDE DEF entry, next, cs
    <2>6. RowTypes' /\ RowsFit' /\ OthersKept(r)
        BY <1>0, <1>1, <1>2, <1>4, <2>3, <2>4, <2>5, Concluding
    <2> QED
        BY <1>2, <2>1, <2>6, <1>0, Ending
<1> QED
    BY <1>0, <1>7, <1>8, <1>9 DEF AdvanceAfterExecution, to

LEMMA CalibrationNextInv ==
    CalibrationInv /\ [CalibrationNext]_calibrationVars => CalibrationInv'
<1> SUFFICES ASSUME CalibrationInv, [CalibrationNext]_calibrationVars
             PROVE  CalibrationInv'
    OBVIOUS
<1>1. ASSUME NEW r \in Runs, Plan(r) \/ Start(r) \/ CancelRun(r) PROVE CalibrationInv'
    BY <1>1, AdminStep
<1>2. CASE Work
    BY <1>2, TickStep, AdvanceStep, PrepareStep, RereadStep, CheckTargetStep, MarkStep,
       BuildStep, RoundTripStep, RecordStep, RecoverStep, ConcludeStep, CommitStep,
       AdvanceAfterStep DEF Work
<1>3. CASE UNCHANGED calibrationVars
    <2>1. UNCHANGED <<run, cand, exec, sent, exhausted, worker, conf>> /\ conf \in Nat
        BY <1>3 DEF calibrationVars, CalibrationInv, RowTypes
    <2> QED
        BY <2>1, RowsKept, Standing DEF CalibrationInv
<1> QED
    BY <1>1, <1>2, <1>3, EditStep, CrashStep DEF CalibrationNext

LEMMA CalibrationInductive == CalibrationSpec => []CalibrationInv
<1> QED
    BY CalibrationInitInv, CalibrationNextInv, PTL DEF CalibrationSpec

(* No request of a candidate goes out twice, or before the mark is on disk,  *)
(* and a run gives up only when every mode was answered by a rejection.      *)
THEOREM CalibrationIsHonestAlways == CalibrationSpec => []CalibrationIsHonest
<1>1. CalibrationInv => CalibrationIsHonest
    <2> SUFFICES ASSUME CalibrationInv PROVE CalibrationIsHonest
        OBVIOUS
    <2>1. SentOnce
        BY DEF CalibrationInv, RowsFit, Earned, SentOnce
    <2>2. ASSUME NEW r \in exhausted, NEW o \in Ordinals
          PROVE  exec[r][o].outcome = "try_next_auth" /\ sent[r][o] = 1
        <3>1. r \in Runs /\ exec[r][o].outcome = "try_next_auth" /\ Earned(r, o)
            BY DEF CalibrationInv, RowTypes, RowsFit, Spent, Earned
        <3> QED
            BY <3>1 DEF Earned, NoExecution
    <2> QED
        BY <2>1, <2>2 DEF ExhaustedIsEarned, CalibrationIsHonest
<1> QED
    BY <1>1, CalibrationInductive, PTL

(* Whatever administrators edit and other runs publish between the request   *)
(* and the commit, what is published was answered under the configuration it *)
(* is published into, by a run that is still wanted.                         *)
THEOREM PublishedIsProvenAlways == CalibrationSpec => PublishedIsProven
<1>1. CalibrationInv /\ [CalibrationNext]_calibrationVars =>
        [published' # published =>
           LET r == published'[1]
               o == published'[2] IN
           /\ exec[r][o] = [outcome |-> "success", conf |-> conf]
           /\ sent[r][o] = 1
           /\ Running(r)]_calibrationVars
    <2> SUFFICES ASSUME CalibrationInv, CalibrationNext, published' # published
                 PROVE  /\ exec[published'[1]][published'[2]] =
                              [outcome |-> "success", conf |-> conf]
                        /\ sent[published'[1]][published'[2]] = 1
                        /\ Running(published'[1])
        OBVIOUS
    <2>1. CommitSuccess
        BY DEF CalibrationNext, Work, Plan, Start, CancelRun, Edit, Crash, Tick, Advance,
               Prepare, Reread, CheckTarget, MarkSendStarted, Build, RoundTrip, Record,
               Recover, ConcludeRun, AdvanceAfterExecution, rows
    <2>2. /\ published' = <<worker.id, worker.ord>> /\ Running(worker.id)
          /\ exec[worker.id][worker.ord].conf = conf /\ worker.at = "commit"
        BY <2>1 DEF CommitSuccess, Same, StillCurrent
    <2>3. /\ exec[worker.id][worker.ord].outcome = "success"
          /\ exec[worker.id][worker.ord] # NoExecution /\ worker.at \in Busy
        BY <2>2 DEF CalibrationInv, WorkerPlace, Busy, Waiting
    <2>4. /\ exec[worker.id][worker.ord] \in ExecRows
          /\ Earned(worker.id, worker.ord)
        BY <2>3, WorkerIs DEF CalibrationInv, RowsFit
    <2>5. exec[worker.id][worker.ord] = [outcome |-> "success", conf |-> conf]
        BY <2>2, <2>3, <2>4 DEF ExecRows
    <2>6. published'[1] = worker.id /\ published'[2] = worker.ord
        BY <2>2
    <2> QED
        BY <2>2, <2>3, <2>4, <2>5, <2>6 DEF Earned
<1> QED
    BY <1>1, CalibrationInductive, PTL DEF CalibrationSpec, PublishedIsProven
==============================================================================
