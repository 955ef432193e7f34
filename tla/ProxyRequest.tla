----------------------------- MODULE ProxyRequest -----------------------------
(* One client request through proxy.Handler: the checks before any upstream, *)
(* the loop of forwardWithRetry with its replacement attempts, the commit of *)
(* an answer with or without a response transform, and the two passes of     *)
(* count_tokens.  Selection is abstracted to "some route not tried yet, or   *)
(* none"; the slot and the recovery gate a candidate carries are one lease.  *)
EXTENDS Naturals, Sequences, FiniteSets

CONSTANTS
    Routes,       \* routes bound to the requested model
    MaxSends,     \* the largest retry_max_attempts
    MaxChunks     \* reads an answer's body takes

ASSUME ProxyAssumption == /\ IsFiniteSet(Routes) /\ Routes # {}
                          /\ MaxSends \in Nat \ {0} /\ MaxChunks \in Nat

VARIABLES
    req,          \* kind, retry policy, attempt limit, is the wire traced
    pc,           \* where the handler's goroutine is
    atts,         \* candidates in the order their lease was taken
    live,         \* la: the attempt whose answer is in hand, 0 if none
    outer, inner, \* the candidates the two deferred releases own, 0 if none
    armed,        \* the candidate of the half-open trial, 0 if none
    tried, sends, skips,   \* retryPlan
    pass,         \* count_tokens: supported, then unknown
    client,       \* FALSE when the client has gone
    expired,      \* the total deadline has passed
    heads,        \* who wrote a response head to the client, in order
    buffer,       \* body reads taken from the wire and not delivered
    taken,        \* how many reads were taken from the wire
    out,          \* reads delivered to the client
    panicked

vars == <<req, pc, atts, live, outer, inner, armed, tried, sends, skips, pass,
          client, expired, heads, buffer, taken, out, panicked>>

Kinds    == {"model", "count"}
Policies == {"safe", "balanced", "aggressive"}
\* Classes of HTTP status; "named" is 502, 503, 504.
Statuses == {"none", "2xx", "4xx", "429", "named", "5xx"}
\* ErrConnect, ErrUpstreamBroke, ErrFirstTokenTimeout, ErrTotalTimeout,
\* ErrCanceled, any upstream error found while committing, ErrClientGone, an
\* error of the gateway's own transform, a request that could not be built.
Errors   == {"none", "connect", "broke", "first", "total", "canceled",
             "stream", "clientGone", "local", "unbuilt"}

Attempts == [route : Routes, held : BOOLEAN, obs : {"none", "open", "finished"},
             sent : BOOLEAN, conn : BOOLEAN, status : Statuses, err : Errors,
             peek : {"no", "prefix", "empty", "pending", "broke"},
             ended : BOOLEAN, row : {"none", "retried", "final"}, risk : BOOLEAN,
             pass : {"supported", "unknown"}]

TypeOK ==
    /\ req \in [kind : Kinds, policy : Policies, max : 1 .. MaxSends, traced : BOOLEAN]
    /\ pc \in {"start", "select", "armed", "prepare", "send", "judge", "seek",
               "commit", "stream", "report", "count", "countPrepare",
               "countSend", "done"}
    /\ atts \in Seq(Attempts)
    /\ {live, outer, inner, armed} \subseteq 0 .. Len(atts)
    /\ tried \subseteq Routes /\ sends \in Nat /\ skips \in Nat
    /\ pass \in {"supported", "unknown"}
    /\ client \in BOOLEAN /\ expired \in BOOLEAN /\ panicked \in BOOLEAN
    /\ heads \in Seq({"own", "upstream"})
    /\ buffer \in Seq(Nat) /\ out \in Seq(Nat) /\ taken \in Nat

Init ==
    /\ req \in [kind : Kinds, policy : Policies, max : 1 .. MaxSends, traced : BOOLEAN]
    /\ req.kind = "count" => req.policy = "safe" /\ req.max = 1 /\ req.traced
    /\ pc = "start" /\ atts = <<>> /\ live = 0 /\ outer = 0 /\ inner = 0
    /\ armed = 0 /\ tried = {} /\ sends = 0 /\ skips = 0 /\ pass = "supported"
    /\ client = TRUE /\ expired = FALSE /\ heads = <<>>
    /\ buffer = <<>> /\ taken = 0 /\ out = <<>> /\ panicked = FALSE

Goto(label) == pc' = label
Dead == ~client \/ expired               \* r.Context().Err() != nil
Last == Len(atts)
MaxSkips == Cardinality(Routes)          \* countCandidateRoutes
planVars == <<req, pass, client, expired, panicked>>
bodyVars == <<buffer, taken, out>>

Answer(who) == heads' = Append(heads, who)

(* SelectExcluding and the wrappers give a route with its lease.             *)
Candidate(r) ==
    [route |-> r, held |-> TRUE, obs |-> "none", sent |-> FALSE,
     conn |-> FALSE, status |-> "none", err |-> "none", peek |-> "no",
     ended |-> FALSE, row |-> "none", risk |-> FALSE, pass |-> pass]

Take(r) == atts' = Append(atts, Candidate(r))
Becomes(i, a) == atts' = [atts EXCEPT ![i] = a]
-----------------------------------------------------------------------------
(* preamble: authentication, run state, body, model, snapshot.               *)
Reject ==
    /\ pc = "start" /\ Answer("own") /\ Goto("done")
    /\ UNCHANGED <<planVars, bodyVars, atts, live, outer, inner, armed, tried,
                   sends, skips>>

Accept ==
    /\ pc = "start"
    /\ Goto(IF req.kind = "count" THEN "count" ELSE "select")
    /\ UNCHANGED <<planVars, bodyVars, atts, live, outer, inner, armed, tried,
                   sends, skips, heads>>
-----------------------------------------------------------------------------
(* forwardWithRetry, the first attempt.                                      *)

(* Selection fails: the error of the last local failure, or no route.        *)
SelectNone ==
    /\ pc = "select" /\ Answer("own") /\ Goto("done")
    /\ UNCHANGED <<planVars, bodyVars, atts, live, outer, inner, armed, tried,
                   sends, skips>>

(* A live route, or as half-open trial a dead one.                           *)
SelectFirst ==
    /\ pc = "select"
    /\ \E r \in Routes \ tried, trial \in BOOLEAN :
          /\ Take(r) /\ outer' = Last + 1
          /\ armed' = IF trial THEN Last + 1 ELSE armed
          /\ tried' = tried \cup {r}
          /\ Goto(IF trial THEN "armed" ELSE "prepare")
    /\ UNCHANGED <<planVars, bodyVars, live, inner, sends, skips, heads>>

(* A capability, or a recovery gate someone else holds, excludes a route.    *)
(* The first selection forgets it; later ones put it into `tried'.           *)
Exclude ==
    /\ pc = "seek" \/ (pc = "select" /\ atts # <<>>)
    /\ \E r \in Routes \ tried : tried' = tried \cup {r}
    /\ UNCHANGED <<planVars, bodyVars, pc, atts, live, outer, inner, armed,
                   sends, skips, heads>>

Released(a) == [a EXCEPT !.held = FALSE]

(* halfOpenStillEnabled, read again before an armed trial is sent.           *)
ArmedCheck ==
    /\ pc = "armed"
    /\ \/ Goto("prepare") /\ UNCHANGED <<atts, outer, heads>>
       \/ /\ Becomes(outer, Released(atts[outer])) /\ outer' = 0
          /\ Answer("own") /\ Goto("done")
    /\ UNCHANGED <<planVars, bodyVars, live, inner, armed, tried, sends, skips>>

(* dispatch up to the send: a failure here is reported to the observer and   *)
(* gives the lease back; nothing was sent.                                   *)
Dropped(a) == [a EXCEPT !.held = FALSE, !.obs = "finished"]
Drop(i)    == Becomes(i, Dropped(atts[i]))

\* The request goes out: from here on an observer waits for its end.
Dispatched(a) == [a EXCEPT !.obs = "open", !.sent = TRUE]

FirstFatal ==
    /\ pc = "prepare" /\ live = 0
    /\ Drop(Last) /\ outer' = 0 /\ Answer("own") /\ Goto("done")
    /\ UNCHANGED <<planVars, bodyVars, live, inner, armed, tried, sends, skips>>

FirstSkipped ==
    /\ pc = "prepare" /\ live = 0
    /\ Drop(Last) /\ outer' = 0 /\ skips' = skips + 1
    /\ IF skips' >= MaxSkips THEN Answer("own") /\ Goto("done")
                             ELSE UNCHANGED heads /\ Goto("select")
    /\ UNCHANGED <<planVars, bodyVars, live, inner, armed, tried, sends>>

FirstSent ==
    /\ pc = "prepare" /\ live = 0
    /\ Becomes(Last, Dispatched(atts[Last]))
    /\ Goto("send")
    /\ UNCHANGED <<planVars, bodyVars, live, outer, inner, armed, tried, sends,
                   skips, heads>>
-----------------------------------------------------------------------------
(* Forwarder.Send and what the transport can give back.                      *)

NoAnswers ==
    {o \in [status : {"none"}, err : {"connect", "broke", "first", "total",
                                      "canceled", "unbuilt"}, conn : BOOLEAN] :
        /\ o.err = "broke" => o.conn
        /\ o.err = "unbuilt" => ~o.conn
        /\ o.err = "total" => expired
        /\ o.err = "canceled" => ~client}
Answers == [status : Statuses \ {"none"}, err : {"none"}, conn : {TRUE}]

Returned(a, o) == [a EXCEPT !.status = o.status, !.err = o.err, !.conn = o.conn]

SendReturns ==
    /\ pc = "send"
    /\ \E o \in NoAnswers \cup Answers : Becomes(Last, Returned(atts[Last], o))
    /\ sends' = sends + 1
    /\ live' = Last /\ outer' = Last /\ inner' = 0
    /\ Goto("judge")
    /\ UNCHANGED <<planVars, bodyVars, armed, tried, skips, heads>>

(* safeRetryEvidence: nothing shows that the upstream got the request.       *)
\* Mutant: an untraced attempt is taken for one that never connected.
NoTraceIsProof(a) == a.status = "none" /\ (req.traced => ~a.conn)

SafeEvidence(a) ==
    a.status = "none" /\ IF req.traced THEN ~a.conn ELSE a.err = "unbuilt"

Peeked(a, how) == [a EXCEPT !.peek = how]
PeekFailed(a, e) == [a EXCEPT !.peek = "broke", !.err = e]

(* Peek, the one bounded read before the decision.                           *)
Peek ==
    /\ pc = "judge" /\ sends < req.max
    /\ atts[live].status = "2xx" /\ atts[live].peek = "no"
    /\ \/ \* the answer starts, or ends without a byte
          \/ /\ MaxChunks > 0
             /\ Becomes(live, Peeked(atts[live], "prefix"))
             /\ taken' = 1 /\ buffer' = <<1>>
          \/ /\ Becomes(live, Peeked(atts[live], "empty"))
             /\ UNCHANGED <<taken, buffer>>
       \/ \* the short window passes: Commit will own this very read
          /\ req.policy # "aggressive" /\ ~Dead
          /\ Becomes(live, Peeked(atts[live], "pending"))
          /\ UNCHANGED <<taken, buffer>>
       \/ \* nothing to commit
          \E e \in {"first", "broke", "total", "canceled"} :
             /\ e = "total" => expired
             /\ e = "canceled" => ~client
             /\ Becomes(live, PeekFailed(atts[live], e))
             /\ UNCHANGED <<taken, buffer>>
    /\ UNCHANGED <<planVars, pc, live, outer, inner, armed, tried, sends, skips,
                   heads, out>>

(* retryable and retryableAttempt; `advice' is the shared RetryDecider's.    *)
Retryable(a, advice) ==
    IF a.err = "none" /\ a.status = "2xx"
    THEN req.policy = "aggressive" /\ advice
    ELSE /\ IF a.err # "none" THEN a.err \notin {"broke", "canceled"}
                              ELSE a.status \in {"429", "named", "5xx"}
         /\ req.policy = "safe" => SafeEvidence(a)
         /\ a.err = "connect" => SafeEvidence(a)
         /\ a.err = "first" => req.policy = "aggressive"
         /\ a.err = "none" /\ a.status = "5xx" => req.policy = "aggressive"

Judged == atts[live].status = "2xx" => atts[live].peek # "no"

Keep ==
    /\ pc = "judge" /\ (Judged \/ sends >= req.max)
    /\ Goto("commit")
    /\ UNCHANGED <<planVars, bodyVars, atts, live, outer, inner, armed, tried,
                   sends, skips, heads>>

TryAnother ==
    /\ pc = "judge" /\ Judged /\ sends < req.max /\ ~Dead
    /\ \E advice \in BOOLEAN : Retryable(atts[live], advice)
    /\ Goto("seek")
    /\ UNCHANGED <<planVars, bodyVars, atts, live, outer, inner, armed, tried,
                   sends, skips, heads>>
-----------------------------------------------------------------------------
(* nextPreparedAttempt: the answer in hand is kept until a replacement is    *)
(* ready to be sent.                                                         *)

SeekNone ==
    /\ pc = "seek" /\ Goto("commit")
    /\ UNCHANGED <<planVars, bodyVars, atts, live, outer, inner, armed, tried,
                   sends, skips, heads>>

SeekTake ==
    /\ pc = "seek"
    /\ \E r \in Routes \ tried :
          /\ Take(r) /\ inner' = Last + 1 /\ tried' = tried \cup {r}
    /\ Goto("prepare")
    /\ UNCHANGED <<planVars, bodyVars, live, outer, armed, sends, skips, heads>>

Replacing == pc = "prepare" /\ live # 0

\* A fatal failure, or the client or the deadline is found gone.
ReplacementFatal ==
    /\ Replacing
    /\ Drop(Last) /\ inner' = 0 /\ Goto("commit")
    /\ UNCHANGED <<planVars, bodyVars, live, outer, armed, tried, sends, skips,
                   heads>>

ReplacementSkipped ==
    /\ Replacing
    /\ Drop(Last) /\ inner' = 0 /\ skips' = skips + 1
    /\ Goto(IF skips' >= MaxSkips THEN "commit" ELSE "seek")
    /\ UNCHANGED <<planVars, bodyVars, live, outer, armed, tried, sends, heads>>

(* beforeSend gives up the answer in hand, its lease included, and only then *)
(* the replacement goes out.                                                 *)
\* Mutant: the lease is kept until the replacement has answered.
RetriedKeepsLease(a) ==
    [a EXCEPT !.ended = TRUE, !.obs = "finished", !.row = "retried",
              !.risk = ~SafeEvidence(a)]

Retried(a) == [a EXCEPT !.ended = TRUE, !.obs = "finished", !.held = FALSE,
                        !.row = "retried", !.risk = ~SafeEvidence(a)]

ReplacementSent ==
    /\ Replacing /\ ~Dead
    /\ atts' = [atts EXCEPT ![live] = Retried(atts[live]),
                            ![Last] = Dispatched(atts[Last])]
    /\ outer' = 0 /\ live' = 0
    /\ buffer' = <<>> /\ taken' = 0
    /\ Goto("send")
    /\ UNCHANGED <<planVars, inner, armed, tried, sends, skips, heads, out>>
-----------------------------------------------------------------------------
(* commitLive: the head is written once; before it every failure can still   *)
(* become an error of the gateway's own, after it the stream just ends.      *)

CanCommit(a) == a.status # "none" /\ a.peek # "broke"
Ended(a, e) == [a EXCEPT !.ended = TRUE, !.err = e]
End(e) == Becomes(live, Ended(atts[live], e))
EndsBy(errors) ==
    \E e \in errors : (e \in {"canceled", "clientGone"} => ~client) /\ End(e)

CommitNothing ==
    /\ pc = "commit" /\ ~CanCommit(atts[live])
    /\ End(atts[live].err) /\ Goto("report")
    /\ UNCHANGED <<planVars, bodyVars, live, outer, inner, armed, tried, sends,
                   skips, heads>>

(* failBeforeCommit, a body that could not be read for buffering, or a       *)
(* fail_closed transform.                                                    *)
FailBeforeHead ==
    /\ pc = "commit" /\ CanCommit(atts[live])
    /\ EndsBy({"canceled", "stream", "local"})
    /\ Goto("report")
    /\ UNCHANGED <<planVars, bodyVars, live, outer, inner, armed, tried, sends,
                   skips, heads>>

(* commitBuffered reads the answer, peeked bytes first, before the head.     *)
ReadAhead ==
    /\ pc = "commit" /\ CanCommit(atts[live])
    /\ atts[live].peek # "empty" /\ taken < MaxChunks
    /\ taken' = taken + 1 /\ buffer' = Append(buffer, taken')
    /\ UNCHANGED <<planVars, pc, atts, live, outer, inner, armed, tried, sends,
                   skips, heads, out>>

WriteHead ==
    /\ pc = "commit" /\ CanCommit(atts[live])
    /\ Answer("upstream") /\ Goto("stream")
    /\ UNCHANGED <<planVars, bodyVars, atts, live, outer, inner, armed, tried,
                   sends, skips>>

(* streamBody, commitSSE: what was read before goes out first.               *)
Deliver ==
    /\ pc = "stream"
    /\ \/ /\ buffer # <<>>
          /\ out' = Append(out, Head(buffer)) /\ buffer' = Tail(buffer)
          /\ UNCHANGED taken
       \/ /\ buffer = <<>> /\ atts[live].peek # "empty" /\ taken < MaxChunks
          /\ taken' = taken + 1 /\ out' = Append(out, taken')
          /\ UNCHANGED buffer
    /\ UNCHANGED <<planVars, pc, atts, live, outer, inner, armed, tried, sends,
                   skips, heads>>

StreamEnds ==
    /\ pc = "stream"
    /\ \/ buffer = <<>> /\ End("none")
       \/ EndsBy({"stream", "clientGone"})
    /\ Goto("report")
    /\ UNCHANGED <<planVars, bodyVars, live, outer, inner, armed, tried, sends,
                   skips, heads>>

Reported(a) == [a EXCEPT !.obs = "finished", !.held = FALSE, !.row = "final"]

\* Mutant: the error is written whether or not there is a head already.
ReportTwice ==
    /\ pc = "report"
    /\ Becomes(live, Reported(atts[live]))
    /\ outer' = 0
    /\ IF atts[live].err \notin {"none", "canceled", "clientGone"}
       THEN Answer("own") ELSE UNCHANGED heads
    /\ Goto("done")
    /\ UNCHANGED <<planVars, bodyVars, live, inner, armed, tried, sends, skips>>

(* Observer, lease, log row; then serve writes an error if nothing was       *)
(* written and somebody is there to read it.                                 *)
Report ==
    /\ pc = "report"
    /\ Becomes(live, Reported(atts[live]))
    /\ outer' = 0
    /\ IF heads = <<>> /\ atts[live].err \notin {"none", "canceled", "clientGone"}
       THEN Answer("own") ELSE UNCHANGED heads
    /\ Goto("done")
    /\ UNCHANGED <<planVars, bodyVars, live, inner, armed, tried, sends, skips>>
-----------------------------------------------------------------------------
(* count_tokens: first the routes known to support it, then those of which   *)
(* nothing is known, at last an estimate made here.                          *)

countSame == <<live, inner, armed, skips, bodyVars>>

(* No candidate of this pass is left, or no time to connect.                 *)
CountPassEnds ==
    /\ pc = "count"
    /\ IF pass = "supported"
       THEN pass' = "unknown" /\ UNCHANGED <<pc, heads>>
       ELSE Answer("own") /\ Goto("done") /\ UNCHANGED pass
    /\ UNCHANGED <<req, client, expired, panicked, countSame, atts, outer,
                   tried, sends>>

CountBusy ==
    /\ pc = "count" /\ \E r \in Routes \ tried : tried' = tried \cup {r}
    /\ UNCHANGED <<planVars, countSame, pc, atts, outer, sends, heads>>

CountTake ==
    /\ pc = "count"
    /\ \E r \in Routes \ tried :
          /\ Take(r) /\ outer' = Last + 1 /\ tried' = tried \cup {r}
    /\ Goto("countPrepare")
    /\ UNCHANGED <<planVars, countSame, sends, heads>>

CountNotReady ==
    /\ pc = "countPrepare"
    /\ Becomes(Last, Released(atts[Last])) /\ outer' = 0
    /\ Goto("count")
    /\ UNCHANGED <<planVars, countSame, tried, sends, heads>>

CountSent ==
    /\ pc = "countPrepare"
    /\ Becomes(Last, Dispatched(atts[Last]))
    /\ sends' = sends + 1 /\ Goto("countSend")
    /\ UNCHANGED <<planVars, countSame, outer, tried, heads>>

(* The deferred report and release of proxyCountTokens; the row of the one   *)
(* before becomes a retried one.                                             *)
Tallied(a, status) ==
    [a EXCEPT !.held = FALSE, !.obs = "finished", !.ended = TRUE, !.row = "final",
              !.status = status, !.conn = status # "none"]
Superseded(a) == IF a.sent THEN [a EXCEPT !.row = "retried"] ELSE a
Counted(status) ==
    /\ pc = "countSend" /\ outer' = 0
    /\ atts' = [i \in DOMAIN atts |-> IF i = Last THEN Tallied(atts[i], status)
                                                 ELSE Superseded(atts[i])]

CountAnswered ==
    /\ Counted("2xx") /\ Answer("upstream") /\ Goto("done")
    /\ UNCHANGED <<planVars, countSame, tried, sends>>

\* The transport failed and the client has gone: nobody to answer.
CountAbandoned ==
    /\ Counted("none") /\ ~client /\ Goto("done")
    /\ UNCHANGED <<planVars, countSame, tried, sends, heads>>

CountRefused ==
    /\ \E status \in Statuses : Counted(status)
    /\ IF pass = "unknown" THEN Answer("own") /\ Goto("done")
                           ELSE UNCHANGED heads /\ Goto("count")
    /\ UNCHANGED <<planVars, countSame, tried, sends>>
-----------------------------------------------------------------------------
(* The world around the request.                                             *)

ClientGoes ==
    /\ client /\ pc # "done" /\ client' = FALSE
    /\ UNCHANGED <<req, pass, expired, panicked, bodyVars, pc, atts, live, outer,
                   inner, armed, tried, sends, skips, heads>>

Expire ==
    /\ ~expired /\ pc # "done" /\ expired' = TRUE
    /\ UNCHANGED <<req, pass, client, panicked, bodyVars, pc, atts, live, outer,
                   inner, armed, tried, sends, skips, heads>>

Unwound(i, a) ==
    [a EXCEPT !.held = a.held /\ i \notin {outer, inner},
              !.obs  = IF a.obs = "open" /\ i \in {live, Last} THEN "finished"
                                                             ELSE a.obs]

(* A panic unwinds through the deferred calls; net/http recovers it.         *)
Panic ==
    /\ pc \notin {"start", "done"}
    /\ panicked' = TRUE /\ outer' = 0 /\ inner' = 0
    /\ atts' = [i \in DOMAIN atts |-> Unwound(i, atts[i])]
    /\ Goto("done")
    /\ UNCHANGED <<req, pass, client, expired, bodyVars, live, armed, tried,
                   sends, skips, heads>>

Step ==
    \/ Reject \/ Accept \/ SelectNone \/ SelectFirst \/ Exclude \/ ArmedCheck
    \/ FirstFatal \/ FirstSkipped \/ FirstSent \/ SendReturns
    \/ Peek \/ Keep \/ TryAnother
    \/ SeekNone \/ SeekTake \/ ReplacementFatal \/ ReplacementSkipped
    \/ ReplacementSent
    \/ CommitNothing \/ FailBeforeHead \/ ReadAhead \/ WriteHead \/ Deliver
    \/ StreamEnds \/ Report
    \/ CountPassEnds \/ CountBusy \/ CountTake \/ CountNotReady \/ CountSent
    \/ CountAnswered \/ CountAbandoned \/ CountRefused

Next == Step \/ ClientGoes \/ Expire \/ Panic

Spec == Init /\ [][Next]_vars

-----------------------------------------------------------------------------
(* While a request is out on the wire it holds the lease of that route and   *)
(* no other, although the lease of a replacement is taken while the answer   *)
(* in hand still has its own; with the handler gone, by return or by panic,  *)
(* it holds none.                                                            *)
Sent   == {i \in DOMAIN atts : atts[i].sent}
Leases == {i \in DOMAIN atts : atts[i].held}
OneLeaseOnWire ==
    /\ pc \in {"send", "countSend"} => Leases = {Last}
    /\ pc = "done" => Leases = {}

(* A request that may have reached an upstream goes to a second one only     *)
(* under the policy that allows it: never if safe, after 429 or 502, 503,    *)
(* 504 if balanced, never when the connection broke under it; the row says   *)
(* so.  No route is asked twice, nor more routes than the limit allows;      *)
(* count_tokens asks one route of unknown ability and no more.               *)
ReplayIsAllowed ==
    /\ req.kind = "model" => Cardinality(Sent) <= req.max
    /\ \A i, j \in Sent : i # j => atts[i].route # atts[j].route
    /\ \A i, j \in DOMAIN atts :
          /\ i < j /\ atts[i].sent /\ atts[j].sent /\ req.kind = "model"
          /\ atts[i].conn
          => /\ req.policy # "safe" /\ atts[i].err # "broke"
             /\ req.policy = "balanced" => atts[i].status \in {"429", "named"}
             /\ atts[i].row = "retried" /\ atts[i].risk
    /\ Cardinality({i \in DOMAIN atts : /\ req.kind = "count" /\ atts[i].sent
                                        /\ atts[i].pass = "unknown"}) <= 1

(* The client that stays gets one response, of its own the upstream's if the *)
(* last attempt brought one; nothing is sent to an upstream after a head, and *)
(* the body is the upstream's from the first read on, none lost or repeated  *)
(* between the peek, the buffer and the stream.                              *)
Final == CHOOSE i \in Sent : \A j \in Sent : j <= i
OneAnswer ==
    /\ Len(heads) <= 1
    /\ pc \in {"send", "countSend"} => heads = <<>>
    /\ pc = "done" /\ ~panicked /\ client => Len(heads) = 1
    /\ /\ pc = "done" /\ ~panicked /\ req.kind = "model" /\ Sent # {}
       /\ CanCommit(atts[Final]) /\ atts[Final].err = "none"
       => heads = <<"upstream">>
    /\ out = [i \in 1 .. Len(out) |-> i]

(* Every attempt that went out is ended, reported to its observer and has    *)
(* its row when the handler returns; after a panic the observers at least    *)
(* are told.                                                                 *)
NothingLeftOpen ==
    pc = "done" => \A i \in Sent :
                      /\ atts[i].obs = "finished"
                      /\ ~panicked => atts[i].ended /\ atts[i].row # "none"

(* Leases, observers and rows balance over every path of the handler, panics *)
(* included.                                                                 *)
AttemptsBalance == OneLeaseOnWire /\ NothingLeftOpen
=============================================================================
