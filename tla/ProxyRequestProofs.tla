------------------------- MODULE ProxyRequestProofs -------------------------
(***************************************************************************)
(* What proxy.Handler promises of one request for any number of routes,    *)
(* any attempt limit and any length of an answer.                          *)
(*                                                                         *)
(* The argument: where the handler is says which candidates its deferred   *)
(* releases own (Roles), and a lease is held by exactly those (Owned); an  *)
(* attempt that is not in hand any more is closed in every book (Books).   *)
(* Attempts are sent in order, each to a route of its own (Order), no more *)
(* of them than were counted (Counts), and one is followed by another only *)
(* with evidence that it may be (Honest, Replays).  What was taken from    *)
(* the wire is what was delivered and what is buffered (Bytes), and who    *)
(* wrote the head follows from where the handler is (Heads).  The theorems *)
(* read their property off the invariant.                                  *)
(***************************************************************************)
EXTENDS ProxyRequest, FiniteSetTheorems, TLAPS

(* Who owns a lease: the two deferred releases and nobody else.              *)
Roles ==
    /\ pc \in {"start", "select", "count"} => outer = 0 /\ inner = 0 /\ live = 0
    /\ pc = "done" => outer = 0 /\ inner = 0
    /\ pc \in {"armed", "countPrepare", "countSend"}
       => Last # 0 /\ outer = Last /\ inner = 0 /\ live = 0
    /\ pc = "prepare" =>
          /\ Last # 0
          /\ live = 0 => outer = Last /\ inner = 0
          /\ live # 0 => outer = live /\ live < Last /\ inner = Last
    /\ pc = "send" => /\ Last # 0 /\ live = 0
                      /\ {outer, inner} = {0, Last}
    /\ pc \in {"judge", "seek", "commit", "stream", "report"}
       => live # 0 /\ outer = live /\ inner = 0
    /\ pc \in {"count", "countPrepare", "countSend"} => req.kind = "count"
    /\ pc \notin {"start", "count", "countPrepare", "countSend", "done"}
       => req.kind = "model"
    /\ req.kind = "count" => live = 0
    /\ panicked => pc = "done"

Owned == \A i \in DOMAIN atts : atts[i].held <=> i \in {outer, inner}

(* The attempt that is out or whose answer is in hand.                       *)
InHand(i) == /\ pc # "done"
             /\ i = live \/ (i = Last /\ pc \in {"send", "countSend"})

Books ==
    /\ \A i \in DOMAIN atts :
          /\ atts[i].sent => /\ InHand(i) \/ atts[i].obs = "finished"
                             /\ atts[i].obs # "none"
                             /\ \/ InHand(i) \/ panicked
                                \/ atts[i].ended /\ atts[i].row # "none"
    /\ pc = "report" => atts[live].ended

(* What an attempt may say of itself.                                        *)
Honest ==
    \A i \in DOMAIN atts :
       /\ atts[i].err = "unbuilt" => ~atts[i].conn
       /\ atts[i].err = "total" => expired
       /\ atts[i].err \in {"canceled", "clientGone"} => ~client
       /\ ~atts[i].sent \/ (i = Last /\ pc \in {"send", "countSend"})
          => atts[i].peek = "no" /\ atts[i].err = "none"

(* Which routes were tried and which attempts were sent, in order.           *)
Order ==
    /\ \A i \in DOMAIN atts : atts[i].route \in tried
    /\ \A i, j \in DOMAIN atts : i # j => atts[i].route # atts[j].route
    /\ \A i \in DOMAIN atts : atts[i].sent => live = 0 \/ i <= live
    /\ live # 0 => atts[live].sent
    /\ pc = "send" => atts[Last].sent
    /\ pc \in {"start", "select", "armed"} \/ (pc = "prepare" /\ live = 0)
       => /\ \A i \in DOMAIN atts : ~atts[i].sent
          /\ sends = 0
    /\ pc = "countPrepare" => ~atts[Last].sent

Counts ==
    /\ pc = "send" => Cardinality(Sent) <= sends + 1
    /\ pc \notin {"send", "done"} => Cardinality(Sent) <= sends
    /\ req.kind = "model" =>
       /\ Cardinality(Sent) <= req.max /\ sends <= req.max
       /\ pc = "send" => sends < req.max
       /\ pc = "seek" \/ (pc = "prepare" /\ live # 0) => sends < req.max

(* What allows an attempt to be followed by another.                         *)
MayReplay(a) ==
    a.conn => /\ req.policy # "safe" /\ a.err # "broke"
              /\ req.policy = "balanced" => a.status \in {"429", "named"}

Replays ==
    /\ pc = "judge" => atts[live].err \notin {"stream", "local"}
    /\ pc = "seek" \/ (pc = "prepare" /\ live # 0) => MayReplay(atts[live])
    /\ \A i, j \in DOMAIN atts :
          /\ i < j /\ atts[i].sent /\ atts[j].sent /\ req.kind = "model"
          /\ atts[i].conn
          => MayReplay(atts[i]) /\ atts[i].row = "retried" /\ atts[i].risk

Passes ==
    /\ pass = "supported" => \A i \in DOMAIN atts : atts[i].pass = "supported"
    /\ pc \in {"countPrepare", "countSend"} => atts[Last].pass = pass
    /\ pc \in {"count", "countPrepare"}
       => \A i \in DOMAIN atts : atts[i].sent => atts[i].pass # "unknown"
    /\ req.kind = "count" =>
          \A i, j \in DOMAIN atts :
             /\ atts[i].sent /\ atts[i].pass = "unknown"
             /\ atts[j].sent /\ atts[j].pass = "unknown"
             => i = j

Bytes ==
    /\ \A k \in 1 .. Len(out) : out[k] = k
    /\ \A k \in 1 .. Len(buffer) : buffer[k] = Len(out) + k
    /\ taken = Len(out) + Len(buffer)
    /\ pc \notin {"stream", "report", "done"} => out = <<>>

Heads ==
    /\ pc \notin {"stream", "report", "done"} => heads = <<>>
    /\ pc = "stream" => heads = <<"upstream">> /\ CanCommit(atts[live])
    /\ pc \in {"report", "done"} => heads \in {<<>>, <<"own">>, <<"upstream">>}
    /\ pc = "report" => heads # <<"own">>
    /\ pc = "judge" /\ ~CanCommit(atts[live]) => atts[live].err # "none"
    /\ pc = "report" /\ heads = <<>> => atts[live].err # "none"
    /\ pc \in {"seek", "commit"} \/ (pc = "prepare" /\ live # 0)
       => CanCommit(atts[live]) \/ atts[live].err # "none"
    /\ pc = "done" /\ ~panicked /\ client => heads # <<>>
    /\ pc = "done" /\ ~panicked /\ req.kind = "model" /\ Sent # {}
       => live # 0 /\ (atts[live].err = "none" => heads = <<"upstream">>)

Inv == /\ TypeOK /\ Roles /\ Owned /\ Books /\ Honest /\ Order /\ Counts
       /\ Replays /\ Passes /\ Bytes /\ Heads

-----------------------------------------------------------------------------
\* What each write of an attempt changes, and what it leaves alone.
LEMMA ReleasedFields ==
    ASSUME NEW a \in Attempts
    PROVE  /\ Released(a) \in Attempts /\ Released(a).route = a.route
           /\ Released(a).held = FALSE /\ Released(a).obs = a.obs
           /\ Released(a).sent = a.sent /\ Released(a).conn = a.conn
           /\ Released(a).status = a.status /\ Released(a).err = a.err
           /\ Released(a).peek = a.peek /\ Released(a).ended = a.ended
           /\ Released(a).row = a.row /\ Released(a).risk = a.risk
           /\ Released(a).pass = a.pass
    BY DEF Released, Attempts

LEMMA DroppedFields ==
    ASSUME NEW a \in Attempts
    PROVE  /\ Dropped(a) \in Attempts /\ Dropped(a).route = a.route
           /\ Dropped(a).held = FALSE /\ Dropped(a).obs = "finished"
           /\ Dropped(a).sent = a.sent /\ Dropped(a).conn = a.conn
           /\ Dropped(a).status = a.status /\ Dropped(a).err = a.err
           /\ Dropped(a).peek = a.peek /\ Dropped(a).ended = a.ended
           /\ Dropped(a).row = a.row /\ Dropped(a).risk = a.risk
           /\ Dropped(a).pass = a.pass
    BY DEF Dropped, Attempts

LEMMA DispatchedFields ==
    ASSUME NEW a \in Attempts
    PROVE  /\ Dispatched(a) \in Attempts /\ Dispatched(a).route = a.route
           /\ Dispatched(a).held = a.held /\ Dispatched(a).obs = "open"
           /\ Dispatched(a).sent = TRUE /\ Dispatched(a).conn = a.conn
           /\ Dispatched(a).status = a.status /\ Dispatched(a).err = a.err
           /\ Dispatched(a).peek = a.peek /\ Dispatched(a).ended = a.ended
           /\ Dispatched(a).row = a.row /\ Dispatched(a).risk = a.risk
           /\ Dispatched(a).pass = a.pass
    BY DEF Dispatched, Attempts

LEMMA ReturnedFields ==
    ASSUME NEW a \in Attempts, NEW o \in NoAnswers \cup Answers
    PROVE  /\ Returned(a, o) \in Attempts /\ Returned(a, o).route = a.route
           /\ Returned(a, o).held = a.held /\ Returned(a, o).obs = a.obs
           /\ Returned(a, o).sent = a.sent /\ Returned(a, o).conn = o.conn
           /\ Returned(a, o).status = o.status /\ Returned(a, o).err = o.err
           /\ Returned(a, o).peek = a.peek /\ Returned(a, o).ended = a.ended
           /\ Returned(a, o).row = a.row /\ Returned(a, o).risk = a.risk
           /\ Returned(a, o).pass = a.pass
    BY DEF Returned, Attempts, NoAnswers, Answers, Statuses, Errors

LEMMA PeekedFields ==
    ASSUME NEW a \in Attempts, NEW how \in {"prefix", "empty", "pending"}
    PROVE  /\ Peeked(a, how) \in Attempts /\ Peeked(a, how).route = a.route
           /\ Peeked(a, how).held = a.held /\ Peeked(a, how).obs = a.obs
           /\ Peeked(a, how).sent = a.sent /\ Peeked(a, how).conn = a.conn
           /\ Peeked(a, how).status = a.status /\ Peeked(a, how).err = a.err
           /\ Peeked(a, how).peek = how /\ Peeked(a, how).ended = a.ended
           /\ Peeked(a, how).row = a.row /\ Peeked(a, how).risk = a.risk
           /\ Peeked(a, how).pass = a.pass
    BY DEF Peeked, Attempts

LEMMA PeekFailedFields ==
    ASSUME NEW a \in Attempts, NEW e \in Errors
    PROVE  /\ PeekFailed(a, e) \in Attempts
           /\ PeekFailed(a, e).route = a.route
           /\ PeekFailed(a, e).held = a.held /\ PeekFailed(a, e).obs = a.obs
           /\ PeekFailed(a, e).sent = a.sent /\ PeekFailed(a, e).conn = a.conn
           /\ PeekFailed(a, e).status = a.status /\ PeekFailed(a, e).err = e
           /\ PeekFailed(a, e).peek = "broke"
           /\ PeekFailed(a, e).ended = a.ended /\ PeekFailed(a, e).row = a.row
           /\ PeekFailed(a, e).risk = a.risk /\ PeekFailed(a, e).pass = a.pass
    BY DEF PeekFailed, Attempts

LEMMA RetriedFields ==
    ASSUME NEW a \in Attempts
    PROVE  /\ Retried(a) \in Attempts /\ Retried(a).route = a.route
           /\ Retried(a).held = FALSE /\ Retried(a).obs = "finished"
           /\ Retried(a).sent = a.sent /\ Retried(a).conn = a.conn
           /\ Retried(a).status = a.status /\ Retried(a).err = a.err
           /\ Retried(a).peek = a.peek /\ Retried(a).ended = TRUE
           /\ Retried(a).row = "retried"
           /\ Retried(a).risk = (~SafeEvidence(a)) /\ Retried(a).pass = a.pass
    BY DEF Retried, Attempts, SafeEvidence

LEMMA EndedFields ==
    ASSUME NEW a \in Attempts, NEW e \in Errors
    PROVE  /\ Ended(a, e) \in Attempts /\ Ended(a, e).route = a.route
           /\ Ended(a, e).held = a.held /\ Ended(a, e).obs = a.obs
           /\ Ended(a, e).sent = a.sent /\ Ended(a, e).conn = a.conn
           /\ Ended(a, e).status = a.status /\ Ended(a, e).err = e
           /\ Ended(a, e).peek = a.peek /\ Ended(a, e).ended = TRUE
           /\ Ended(a, e).row = a.row /\ Ended(a, e).risk = a.risk
           /\ Ended(a, e).pass = a.pass
    BY DEF Ended, Attempts

LEMMA ReportedFields ==
    ASSUME NEW a \in Attempts
    PROVE  /\ Reported(a) \in Attempts /\ Reported(a).route = a.route
           /\ Reported(a).held = FALSE /\ Reported(a).obs = "finished"
           /\ Reported(a).sent = a.sent /\ Reported(a).conn = a.conn
           /\ Reported(a).status = a.status /\ Reported(a).err = a.err
           /\ Reported(a).peek = a.peek /\ Reported(a).ended = a.ended
           /\ Reported(a).row = "final" /\ Reported(a).risk = a.risk
           /\ Reported(a).pass = a.pass
    BY DEF Reported, Attempts

LEMMA TalliedFields ==
    ASSUME NEW a \in Attempts, NEW s \in Statuses
    PROVE  /\ Tallied(a, s) \in Attempts /\ Tallied(a, s).route = a.route
           /\ Tallied(a, s).held = FALSE /\ Tallied(a, s).obs = "finished"
           /\ Tallied(a, s).sent = a.sent /\ Tallied(a, s).status = s
           /\ Tallied(a, s).err = a.err /\ Tallied(a, s).peek = a.peek
           /\ Tallied(a, s).ended = TRUE /\ Tallied(a, s).row = "final"
           /\ Tallied(a, s).risk = a.risk /\ Tallied(a, s).pass = a.pass
    BY DEF Tallied, Attempts

LEMMA UnwoundFields ==
    ASSUME NEW a \in Attempts, NEW i
    PROVE  /\ Unwound(i, a) \in Attempts /\ Unwound(i, a).route = a.route
           /\ Unwound(i, a).sent = a.sent /\ Unwound(i, a).conn = a.conn
           /\ Unwound(i, a).status = a.status /\ Unwound(i, a).err = a.err
           /\ Unwound(i, a).peek = a.peek /\ Unwound(i, a).ended = a.ended
           /\ Unwound(i, a).row = a.row /\ Unwound(i, a).risk = a.risk
           /\ Unwound(i, a).pass = a.pass
           /\ Unwound(i, a).held => a.held /\ i \notin {outer, inner}
           /\ Unwound(i, a).obs \in {a.obs, "finished"}
           /\ a.obs = "open" /\ i \in {live, Last} => Unwound(i, a).obs = "finished"
    BY DEF Unwound, Attempts

LEMMA SupersededFields ==
    ASSUME NEW a \in Attempts
    PROVE  /\ Superseded(a) \in Attempts /\ Superseded(a).route = a.route
           /\ Superseded(a).held = a.held /\ Superseded(a).obs = a.obs
           /\ Superseded(a).sent = a.sent /\ Superseded(a).conn = a.conn
           /\ Superseded(a).status = a.status /\ Superseded(a).err = a.err
           /\ Superseded(a).peek = a.peek /\ Superseded(a).ended = a.ended
           /\ Superseded(a).row = (IF a.sent THEN "retried" ELSE a.row)
           /\ Superseded(a).risk = a.risk /\ Superseded(a).pass = a.pass
    BY DEF Superseded, Attempts

-----------------------------------------------------------------------------
\* Writing one attempt leaves the others as they are.
LEMMA UpdateAt ==
    ASSUME TypeOK, NEW i \in DOMAIN atts, NEW a \in Attempts, Becomes(i, a)
    PROVE  /\ atts' \in Seq(Attempts) /\ Len(atts') = Len(atts)
           /\ DOMAIN atts' = DOMAIN atts /\ atts'[i] = a
           /\ \A j \in DOMAIN atts : j # i => atts'[j] = atts[j]
    BY DEF TypeOK, Becomes

\* A new candidate is put behind the others.
LEMMA TakeAppends ==
    ASSUME TypeOK, NEW r \in Routes, Take(r)
    PROVE  /\ atts' \in Seq(Attempts) /\ Len(atts') = Last + 1
           /\ DOMAIN atts' = DOMAIN atts \cup {Last + 1} /\ Last + 1 \notin DOMAIN atts
           /\ \A j \in DOMAIN atts : atts'[j] = atts[j]
           /\ Candidate(r) = atts'[Last + 1]
<1>1. Candidate(r) \in Attempts
    BY DEF Candidate, Attempts, TypeOK, Statuses, Errors
<1> QED
    BY <1>1 DEF Take, TypeOK, Last

LEMMA CandidateFields ==
    ASSUME NEW r
    PROVE  /\ Candidate(r).route = r /\ Candidate(r).held /\ Candidate(r).obs = "none"
           /\ ~Candidate(r).sent /\ ~Candidate(r).conn /\ Candidate(r).status = "none"
           /\ Candidate(r).err = "none" /\ Candidate(r).peek = "no"
           /\ ~Candidate(r).ended /\ Candidate(r).row = "none"
           /\ Candidate(r).pass = pass
    BY DEF Candidate

\* The attempts that were sent are finitely many.
LEMMA SentIsFinite ==
    ASSUME TypeOK
    PROVE  IsFiniteSet(Sent) /\ Cardinality(Sent) \in Nat
<1>1. Len(atts) \in Nat /\ Sent \subseteq 1 .. Len(atts)
    BY DEF Sent, TypeOK
<1>2. IsFiniteSet(1 .. Len(atts))
    BY <1>1, FS_Interval
<1> QED
    BY <1>1, <1>2, FS_Subset, FS_CardinalityType

\* The first head a client sees is the only one.
LEMMA AnswerOnce ==
    ASSUME NEW who \in {"own", "upstream"}, heads = <<>>, Answer(who)
    PROVE  heads' = <<who>> /\ heads' # <<>> /\ heads' \in Seq({"own", "upstream"})
    BY DEF Answer

\* A request refused before any upstream.
LEMMA RejectKeeps ==
    ASSUME TypeOK, Roles, Owned, Books, Honest, Order, Counts, Replays, Passes, Bytes,
           Heads, Reject
    PROVE  Inv'
<1>1. TypeOK'
    BY DEF Reject, Goto, Answer, planVars, bodyVars, TypeOK
<1>2. Roles'
    BY DEF Reject, Goto, Answer, planVars, bodyVars, Roles, Last, TypeOK
<1>3. Owned'
    BY DEF Reject, Goto, Answer, planVars, bodyVars, Owned, Roles, TypeOK
<1>4. Books'
    BY DEF Reject, Goto, Answer, planVars, bodyVars, Books, InHand, Roles, Last,
           TypeOK
<1>5. Honest'
    BY DEF Reject, Goto, Answer, planVars, bodyVars, Honest, Last, TypeOK
<1>6. Order'
    BY DEF Reject, Goto, Answer, planVars, bodyVars, Order, Roles, Last, TypeOK
<1>7. Counts'
    BY DEF Reject, Goto, Answer, planVars, bodyVars, Counts, Order, TypeOK, Sent
<1>8. Replays'
    BY DEF Reject, Goto, Answer, planVars, bodyVars, Replays, Order, Roles,
           MayReplay, TypeOK
<1>9. Passes'
    BY DEF Reject, Goto, Answer, planVars, bodyVars, Passes, Roles, Last, TypeOK
<1>10. Bytes'
    BY DEF Reject, Goto, Answer, planVars, bodyVars, Bytes, TypeOK
<1>11. Heads'
    BY AnswerOnce
       DEF Reject, Goto, Answer, planVars, bodyVars, Heads, Roles, CanCommit,
           Sent, Order, TypeOK
<1> QED
    BY <1>1, <1>2, <1>3, <1>4, <1>5, <1>6, <1>7, <1>8, <1>9, <1>10, <1>11 DEF Inv

\* The preamble lets the request in.
LEMMA AcceptKeeps ==
    ASSUME TypeOK, Roles, Owned, Books, Honest, Order, Counts, Replays, Passes, Bytes,
           Heads, Accept
    PROVE  Inv'
<1>1. TypeOK'
    BY DEF Accept, Goto, planVars, bodyVars, TypeOK
<1>2. Roles'
    BY DEF Accept, Goto, planVars, bodyVars, Roles, Last, TypeOK, Kinds
<1>3. Owned'
    BY DEF Accept, Goto, planVars, bodyVars, Owned, Roles, TypeOK
<1>4. Books'
    BY DEF Accept, Goto, planVars, bodyVars, Books, InHand, Roles, Last, TypeOK
<1>5. Honest'
    BY DEF Accept, Goto, planVars, bodyVars, Honest, Last, TypeOK
<1>6. Order'
    BY DEF Accept, Goto, planVars, bodyVars, Order, Roles, Last, TypeOK
<1>7. Counts'
    BY DEF Accept, Goto, planVars, bodyVars, Counts, Order, TypeOK, Sent
<1>8. Replays'
    BY DEF Accept, Goto, planVars, bodyVars, Replays, Order, Roles, MayReplay,
           TypeOK
<1>9. Passes'
    BY DEF Accept, Goto, planVars, bodyVars, Passes, Roles, Last, TypeOK, Order
<1>10. Bytes'
    BY DEF Accept, Goto, planVars, bodyVars, Bytes, TypeOK
<1>11. Heads'
    BY DEF Accept, Goto, planVars, bodyVars, Heads, Roles, CanCommit, Sent, Order,
           TypeOK
<1> QED
    BY <1>1, <1>2, <1>3, <1>4, <1>5, <1>6, <1>7, <1>8, <1>9, <1>10, <1>11 DEF Inv

\* No route: nothing was sent and the gateway answers.
LEMMA SelectNoneKeeps ==
    ASSUME TypeOK, Roles, Owned, Books, Honest, Order, Counts, Replays, Passes, Bytes,
           Heads, SelectNone
    PROVE  Inv'
<1>1. TypeOK'
    BY DEF SelectNone, Goto, Answer, planVars, bodyVars, TypeOK
<1>2. Roles'
    BY DEF SelectNone, Goto, Answer, planVars, bodyVars, Roles, Last, TypeOK
<1>3. Owned'
    BY DEF SelectNone, Goto, Answer, planVars, bodyVars, Owned, Roles, TypeOK
<1>4. Books'
    BY DEF SelectNone, Goto, Answer, planVars, bodyVars, Books, InHand, Roles,
           Last, TypeOK
<1>5. Honest'
    BY DEF SelectNone, Goto, Answer, planVars, bodyVars, Honest, Last, TypeOK
<1>6. Order'
    BY DEF SelectNone, Goto, Answer, planVars, bodyVars, Order, Roles, Last, TypeOK
<1>7. Counts'
    BY DEF SelectNone, Goto, Answer, planVars, bodyVars, Counts, Order, TypeOK, Sent
<1>8. Replays'
    BY DEF SelectNone, Goto, Answer, planVars, bodyVars, Replays, Order, Roles,
           MayReplay, TypeOK
<1>9. Passes'
    BY DEF SelectNone, Goto, Answer, planVars, bodyVars, Passes, Roles, Last, TypeOK
<1>10. Bytes'
    BY DEF SelectNone, Goto, Answer, planVars, bodyVars, Bytes, TypeOK
<1>11. Heads'
    BY AnswerOnce
       DEF SelectNone, Goto, Answer, planVars, bodyVars, Heads, Roles, CanCommit,
           Sent, Order, TypeOK
<1> QED
    BY <1>1, <1>2, <1>3, <1>4, <1>5, <1>6, <1>7, <1>8, <1>9, <1>10, <1>11 DEF Inv

\* A route is put aside without a lease.
LEMMA ExcludeKeeps ==
    ASSUME TypeOK, Roles, Owned, Books, Honest, Order, Counts, Replays, Passes, Bytes,
           Heads, Exclude
    PROVE  Inv'
<1>1. TypeOK'
    BY DEF Exclude, planVars, bodyVars, TypeOK
<1>2. Roles'
    BY DEF Exclude, planVars, bodyVars, Roles, Last, TypeOK
<1>3. Owned'
    BY DEF Exclude, planVars, bodyVars, Owned, Roles, TypeOK
<1>4. Books'
    BY DEF Exclude, planVars, bodyVars, Books, InHand, Roles, Last, TypeOK
<1>5. Honest'
    BY DEF Exclude, planVars, bodyVars, Honest, Last, TypeOK
<1>6. Order'
    BY DEF Exclude, planVars, bodyVars, Order, Roles, Last, TypeOK
<1>7. Counts'
    BY DEF Exclude, planVars, bodyVars, Counts, Order, TypeOK, Sent
<1>8. Replays'
    BY DEF Exclude, planVars, bodyVars, Replays, Order, Roles, MayReplay, TypeOK
<1>9. Passes'
    BY DEF Exclude, planVars, bodyVars, Passes, Roles, Last, TypeOK
<1>10. Bytes'
    BY DEF Exclude, planVars, bodyVars, Bytes, TypeOK
<1>11. Heads'
    BY DEF Exclude, planVars, bodyVars, Heads, Roles, CanCommit, Sent, Order, TypeOK
<1> QED
    BY <1>1, <1>2, <1>3, <1>4, <1>5, <1>6, <1>7, <1>8, <1>9, <1>10, <1>11 DEF Inv

\* The answer in hand is the one to commit.
LEMMA KeepKeeps ==
    ASSUME TypeOK, Roles, Owned, Books, Honest, Order, Counts, Replays, Passes, Bytes,
           Heads, Keep
    PROVE  Inv'
<1>1. TypeOK'
    BY DEF Keep, Goto, planVars, bodyVars, Judged, TypeOK
<1>2. Roles'
    BY DEF Keep, Goto, planVars, bodyVars, Judged, Roles, Last, TypeOK
<1>3. Owned'
    BY DEF Keep, Goto, planVars, bodyVars, Judged, Owned, Roles, TypeOK
<1>4. Books'
    BY DEF Keep, Goto, planVars, bodyVars, Judged, Books, InHand, Roles, Last,
           TypeOK
<1>5. Honest'
    BY DEF Keep, Goto, planVars, bodyVars, Judged, Honest, Last, TypeOK
<1>6. Order'
    BY DEF Keep, Goto, planVars, bodyVars, Judged, Order, Roles, Last, TypeOK
<1>7. Counts'
    BY DEF Keep, Goto, planVars, bodyVars, Judged, Counts, Order, TypeOK, Sent
<1>8. Replays'
    BY DEF Keep, Goto, planVars, bodyVars, Judged, Replays, Order, Roles,
           MayReplay, TypeOK
<1>9. Passes'
    BY DEF Keep, Goto, planVars, bodyVars, Judged, Passes, Roles, Last, TypeOK
<1>10. Bytes'
    BY DEF Keep, Goto, planVars, bodyVars, Judged, Bytes, TypeOK
<1>11. Heads'
    BY DEF Keep, Goto, planVars, bodyVars, Judged, Heads, Roles, CanCommit, Sent,
           Order, TypeOK
<1> QED
    BY <1>1, <1>2, <1>3, <1>4, <1>5, <1>6, <1>7, <1>8, <1>9, <1>10, <1>11 DEF Inv

\* The answer in hand may be given up: here the policy is asked.
LEMMA TryAnotherKeeps ==
    ASSUME TypeOK, Roles, Owned, Books, Honest, Order, Counts, Replays, Passes, Bytes,
           Heads, TryAnother
    PROVE  Inv'
<1>1. TypeOK'
    BY DEF TryAnother, Goto, Dead, planVars, bodyVars, Judged, TypeOK
<1>2. Roles'
    BY DEF TryAnother, Goto, Dead, planVars, bodyVars, Judged, Roles, Last, TypeOK
<1>3. Owned'
    BY DEF TryAnother, Goto, Dead, planVars, bodyVars, Judged, Owned, Roles, TypeOK
<1>4. Books'
    BY DEF TryAnother, Goto, Dead, planVars, bodyVars, Judged, Books, InHand,
           Roles, Last, TypeOK
<1>5. Honest'
    BY DEF TryAnother, Goto, Dead, planVars, bodyVars, Judged, Honest, Last, TypeOK
<1>6. Order'
    BY DEF TryAnother, Goto, Dead, planVars, bodyVars, Judged, Order, Roles, Last,
           TypeOK
<1>7. Counts'
    BY DEF TryAnother, Goto, Dead, planVars, bodyVars, Judged, Counts, Order,
           TypeOK, Sent
<1>8. Replays'
    <2>1. MayReplay(atts[live])
        <3> PICK advice \in BOOLEAN : Retryable(atts[live], advice)
            BY DEF TryAnother
        <3>1. /\ atts[live] \in Attempts
              /\ atts[live].err = "unbuilt" => ~atts[live].conn
              /\ atts[live].err \notin {"total", "canceled", "clientGone", "stream", "local"}
            BY DEF TryAnother, Dead, TypeOK, Roles, Honest, Replays
        <3> QED
            BY <3>1 DEF MayReplay, Retryable, SafeEvidence, Attempts, Errors
    <2> QED
        BY <2>1 DEF Replays, TryAnother, Goto, planVars, MayReplay
<1>9. Passes'
    BY DEF TryAnother, Goto, Dead, planVars, bodyVars, Judged, Passes, Roles,
           Last, TypeOK
<1>10. Bytes'
    BY DEF TryAnother, Goto, Dead, planVars, bodyVars, Judged, Bytes, TypeOK
<1>11. Heads'
    BY DEF TryAnother, Goto, Dead, planVars, bodyVars, Judged, Heads, Roles,
           CanCommit, Sent, Order, TypeOK
<1> QED
    BY <1>1, <1>2, <1>3, <1>4, <1>5, <1>6, <1>7, <1>8, <1>9, <1>10, <1>11 DEF Inv

\* No replacement: the answer in hand is committed.
LEMMA SeekNoneKeeps ==
    ASSUME TypeOK, Roles, Owned, Books, Honest, Order, Counts, Replays, Passes, Bytes,
           Heads, SeekNone
    PROVE  Inv'
<1>1. TypeOK'
    BY DEF SeekNone, Goto, planVars, bodyVars, TypeOK
<1>2. Roles'
    BY DEF SeekNone, Goto, planVars, bodyVars, Roles, Last, TypeOK
<1>3. Owned'
    BY DEF SeekNone, Goto, planVars, bodyVars, Owned, Roles, TypeOK
<1>4. Books'
    BY DEF SeekNone, Goto, planVars, bodyVars, Books, InHand, Roles, Last, TypeOK
<1>5. Honest'
    BY DEF SeekNone, Goto, planVars, bodyVars, Honest, Last, TypeOK
<1>6. Order'
    BY DEF SeekNone, Goto, planVars, bodyVars, Order, Roles, Last, TypeOK
<1>7. Counts'
    BY DEF SeekNone, Goto, planVars, bodyVars, Counts, Order, TypeOK, Sent
<1>8. Replays'
    BY DEF SeekNone, Goto, planVars, bodyVars, Replays, Order, Roles, MayReplay,
           TypeOK
<1>9. Passes'
    BY DEF SeekNone, Goto, planVars, bodyVars, Passes, Roles, Last, TypeOK
<1>10. Bytes'
    BY DEF SeekNone, Goto, planVars, bodyVars, Bytes, TypeOK
<1>11. Heads'
    BY DEF SeekNone, Goto, planVars, bodyVars, Heads, Roles, CanCommit, Sent,
           Order, TypeOK
<1> QED
    BY <1>1, <1>2, <1>3, <1>4, <1>5, <1>6, <1>7, <1>8, <1>9, <1>10, <1>11 DEF Inv

\* commitBuffered takes one more read.
LEMMA ReadAheadKeeps ==
    ASSUME TypeOK, Roles, Owned, Books, Honest, Order, Counts, Replays, Passes, Bytes,
           Heads, ReadAhead
    PROVE  Inv'
<1>1. TypeOK'
    BY DEF ReadAhead, planVars, TypeOK
<1>2. Roles'
    BY DEF ReadAhead, planVars, Roles, Last, TypeOK
<1>3. Owned'
    BY DEF ReadAhead, planVars, Owned, Roles, TypeOK
<1>4. Books'
    BY DEF ReadAhead, planVars, Books, InHand, Roles, Last, TypeOK
<1>5. Honest'
    BY DEF ReadAhead, planVars, Honest, Last, TypeOK
<1>6. Order'
    BY DEF ReadAhead, planVars, Order, Roles, Last, TypeOK
<1>7. Counts'
    BY DEF ReadAhead, planVars, Counts, Order, TypeOK, Sent
<1>8. Replays'
    BY DEF ReadAhead, planVars, Replays, Order, Roles, MayReplay, TypeOK
<1>9. Passes'
    BY DEF ReadAhead, planVars, Passes, Roles, Last, TypeOK
<1>10. Bytes'
    BY DEF ReadAhead, planVars, Bytes, TypeOK
<1>11. Heads'
    BY DEF ReadAhead, planVars, Heads, Roles, CanCommit, Sent, Order, TypeOK
<1> QED
    BY <1>1, <1>2, <1>3, <1>4, <1>5, <1>6, <1>7, <1>8, <1>9, <1>10, <1>11 DEF Inv

\* The one head.
LEMMA WriteHeadKeeps ==
    ASSUME TypeOK, Roles, Owned, Books, Honest, Order, Counts, Replays, Passes, Bytes,
           Heads, WriteHead
    PROVE  Inv'
<1>1. TypeOK'
    BY DEF WriteHead, Goto, Answer, planVars, bodyVars, TypeOK
<1>2. Roles'
    BY DEF WriteHead, Goto, Answer, planVars, bodyVars, Roles, Last, TypeOK
<1>3. Owned'
    BY DEF WriteHead, Goto, Answer, planVars, bodyVars, Owned, Roles, TypeOK
<1>4. Books'
    BY DEF WriteHead, Goto, Answer, planVars, bodyVars, Books, InHand, Roles,
           Last, TypeOK
<1>5. Honest'
    BY DEF WriteHead, Goto, Answer, planVars, bodyVars, Honest, Last, TypeOK
<1>6. Order'
    BY DEF WriteHead, Goto, Answer, planVars, bodyVars, Order, Roles, Last, TypeOK
<1>7. Counts'
    BY DEF WriteHead, Goto, Answer, planVars, bodyVars, Counts, Order, TypeOK, Sent
<1>8. Replays'
    BY DEF WriteHead, Goto, Answer, planVars, bodyVars, Replays, Order, Roles,
           MayReplay, TypeOK
<1>9. Passes'
    BY DEF WriteHead, Goto, Answer, planVars, bodyVars, Passes, Roles, Last, TypeOK
<1>10. Bytes'
    BY DEF WriteHead, Goto, Answer, planVars, bodyVars, Bytes, TypeOK
<1>11. Heads'
    BY DEF WriteHead, Goto, Answer, planVars, bodyVars, Heads, Roles, CanCommit,
           Sent, Order, TypeOK
<1> QED
    BY <1>1, <1>2, <1>3, <1>4, <1>5, <1>6, <1>7, <1>8, <1>9, <1>10, <1>11 DEF Inv

\* A route of this pass is put aside.
LEMMA CountBusyKeeps ==
    ASSUME TypeOK, Roles, Owned, Books, Honest, Order, Counts, Replays, Passes, Bytes,
           Heads, CountBusy
    PROVE  Inv'
<1>1. TypeOK'
    BY DEF CountBusy, planVars, countSame, bodyVars, TypeOK
<1>2. Roles'
    BY DEF CountBusy, planVars, countSame, bodyVars, Roles, Last, TypeOK
<1>3. Owned'
    BY DEF CountBusy, planVars, countSame, bodyVars, Owned, Roles, TypeOK
<1>4. Books'
    BY DEF CountBusy, planVars, countSame, bodyVars, Books, InHand, Roles, Last,
           TypeOK
<1>5. Honest'
    BY DEF CountBusy, planVars, countSame, bodyVars, Honest, Last, TypeOK
<1>6. Order'
    BY DEF CountBusy, planVars, countSame, bodyVars, Order, Roles, Last, TypeOK
<1>7. Counts'
    BY DEF CountBusy, planVars, countSame, bodyVars, Counts, Order, TypeOK, Sent
<1>8. Replays'
    BY DEF CountBusy, planVars, countSame, bodyVars, Replays, Order, Roles,
           MayReplay, TypeOK
<1>9. Passes'
    BY DEF CountBusy, planVars, countSame, bodyVars, Passes, Roles, Last, TypeOK
<1>10. Bytes'
    BY DEF CountBusy, planVars, countSame, bodyVars, Bytes, TypeOK
<1>11. Heads'
    BY DEF CountBusy, planVars, countSame, bodyVars, Heads, Roles, CanCommit,
           Sent, Order, TypeOK
<1> QED
    BY <1>1, <1>2, <1>3, <1>4, <1>5, <1>6, <1>7, <1>8, <1>9, <1>10, <1>11 DEF Inv

\* The client goes: what was said of it stays true.
LEMMA ClientGoesKeeps ==
    ASSUME TypeOK, Roles, Owned, Books, Honest, Order, Counts, Replays, Passes, Bytes,
           Heads, ClientGoes
    PROVE  Inv'
<1>1. TypeOK'
    BY DEF ClientGoes, bodyVars, TypeOK
<1>2. Roles'
    BY DEF ClientGoes, bodyVars, Roles, Last, TypeOK
<1>3. Owned'
    BY DEF ClientGoes, bodyVars, Owned, Roles, TypeOK
<1>4. Books'
    BY DEF ClientGoes, bodyVars, Books, InHand, Roles, Last, TypeOK
<1>5. Honest'
    BY DEF ClientGoes, bodyVars, Honest, Last, TypeOK
<1>6. Order'
    BY DEF ClientGoes, bodyVars, Order, Roles, Last, TypeOK
<1>7. Counts'
    BY DEF ClientGoes, bodyVars, Counts, Order, TypeOK, Sent
<1>8. Replays'
    BY DEF ClientGoes, bodyVars, Replays, Order, Roles, MayReplay, TypeOK
<1>9. Passes'
    BY DEF ClientGoes, bodyVars, Passes, Roles, Last, TypeOK
<1>10. Bytes'
    BY DEF ClientGoes, bodyVars, Bytes, TypeOK
<1>11. Heads'
    BY DEF ClientGoes, bodyVars, Heads, Roles, CanCommit, Sent, Order, TypeOK
<1> QED
    BY <1>1, <1>2, <1>3, <1>4, <1>5, <1>6, <1>7, <1>8, <1>9, <1>10, <1>11 DEF Inv

\* The deadline passes: what was said of it stays true.
LEMMA ExpireKeeps ==
    ASSUME TypeOK, Roles, Owned, Books, Honest, Order, Counts, Replays, Passes, Bytes,
           Heads, Expire
    PROVE  Inv'
<1>1. TypeOK'
    BY DEF Expire, bodyVars, TypeOK
<1>2. Roles'
    BY DEF Expire, bodyVars, Roles, Last, TypeOK
<1>3. Owned'
    BY DEF Expire, bodyVars, Owned, Roles, TypeOK
<1>4. Books'
    BY DEF Expire, bodyVars, Books, InHand, Roles, Last, TypeOK
<1>5. Honest'
    BY DEF Expire, bodyVars, Honest, Last, TypeOK
<1>6. Order'
    BY DEF Expire, bodyVars, Order, Roles, Last, TypeOK
<1>7. Counts'
    BY DEF Expire, bodyVars, Counts, Order, TypeOK, Sent
<1>8. Replays'
    BY DEF Expire, bodyVars, Replays, Order, Roles, MayReplay, TypeOK
<1>9. Passes'
    BY DEF Expire, bodyVars, Passes, Roles, Last, TypeOK
<1>10. Bytes'
    BY DEF Expire, bodyVars, Bytes, TypeOK
<1>11. Heads'
    BY DEF Expire, bodyVars, Heads, Roles, CanCommit, Sent, Order, TypeOK
<1> QED
    BY <1>1, <1>2, <1>3, <1>4, <1>5, <1>6, <1>7, <1>8, <1>9, <1>10, <1>11 DEF Inv

\* The first candidate fails before anything was sent.
LEMMA FirstFatalKeeps ==
    ASSUME TypeOK, Roles, Owned, Books, Honest, Order, Counts, Replays, Passes, Bytes,
           Heads, FirstFatal
    PROVE  Inv'
<1> DEFINE b == Dropped(atts[Last])
<1>1. Last \in DOMAIN atts /\ atts[Last] \in Attempts
    BY DEF FirstFatal, Goto, Answer, Last, planVars, bodyVars, Drop, TypeOK, Roles
<1>2. /\ b \in Attempts /\ b.route = atts[Last].route /\ b.held = FALSE
      /\ b.obs = "finished" /\ b.sent = atts[Last].sent /\ b.conn = atts[Last].conn
      /\ b.status = atts[Last].status /\ b.err = atts[Last].err /\ b.peek = atts[Last].peek
      /\ b.ended = atts[Last].ended /\ b.row = atts[Last].row /\ b.risk = atts[Last].risk
      /\ b.pass = atts[Last].pass
    BY <1>1, DroppedFields DEF Errors
<1>3. /\ atts' \in Seq(Attempts) /\ Len(atts') = Len(atts)
      /\ DOMAIN atts' = DOMAIN atts /\ atts'[Last] = b
      /\ \A j \in DOMAIN atts : j # Last => atts'[j] = atts[j]
    BY <1>1, <1>2, UpdateAt
       DEF FirstFatal, Goto, Answer, Last, planVars, bodyVars, Drop
<1>4. /\ \A j \in DOMAIN atts :
            /\ atts'[j].route = atts[j].route /\ atts'[j].sent = atts[j].sent
            /\ atts'[j].conn = atts[j].conn /\ atts'[j].status = atts[j].status
            /\ atts'[j].err = atts[j].err /\ atts'[j].peek = atts[j].peek
            /\ atts'[j].ended = atts[j].ended /\ atts'[j].row = atts[j].row
            /\ atts'[j].risk = atts[j].risk /\ atts'[j].pass = atts[j].pass
      /\ \A j \in DOMAIN atts : j # Last =>
            /\ atts'[j].held = atts[j].held /\ atts'[j].obs = atts[j].obs
      /\ atts'[Last].held = FALSE /\ atts'[Last].obs = "finished"
    BY <1>2, <1>3
<1> HIDE DEF b
<1>5. /\ Len(atts) \in Nat /\ DOMAIN atts = 1 .. Len(atts)
      /\ {live, outer, inner, armed} \subseteq 0 .. Len(atts)
    BY DEF TypeOK
<1>6. /\ pc = "prepare" /\ live = 0 /\ pc' = "done" /\ outer' = 0
      /\ heads' = <<"own">>
      /\ UNCHANGED <<req, pass, client, expired, panicked>>
      /\ UNCHANGED <<buffer, taken, out>>
      /\ UNCHANGED <<live, inner, armed, tried, sends, skips>>
    BY AnswerOnce
       DEF FirstFatal, Goto, Answer, Last, planVars, bodyVars, Drop, Heads, TypeOK
<1>7. TypeOK'
    BY <1>1, <1>3, <1>4, <1>5, <1>6 DEF TypeOK
<1>8. Roles'
    BY <1>1, <1>3, <1>4, <1>5, <1>6 DEF Last, Roles
<1>9. Owned'
    BY <1>1, <1>3, <1>4, <1>5, <1>6 DEF Last, Owned, Roles
<1>10. Books'
    BY <1>1, <1>3, <1>4, <1>5, <1>6 DEF Last, Books, InHand, Roles
<1>11. Honest'
    BY <1>1, <1>3, <1>4, <1>5, <1>6 DEF Last, Honest
<1>12. Order'
    BY <1>1, <1>3, <1>4, <1>5, <1>6 DEF Last, Order, Roles
<1>13. Counts'
    <2>1. Sent' = Sent
        BY <1>1, <1>3, <1>4 DEF Sent
    <2> QED
        BY <2>1, <1>5, <1>6 DEF Counts, Order
<1>14. Replays'
    BY <1>1, <1>3, <1>4, <1>5, <1>6 DEF Last, Replays, Order, Roles, MayReplay
<1>15. Passes'
    BY <1>1, <1>3, <1>4, <1>5, <1>6 DEF Last, Passes, Roles
<1>16. Bytes'
    BY <1>1, <1>3, <1>4, <1>5, <1>6 DEF Bytes
<1>17. Heads'
    BY <1>1, <1>3, <1>4, <1>5, <1>6 DEF Last, Heads, Roles, CanCommit, Sent, Order
<1> QED
    BY <1>7, <1>8, <1>9, <1>10, <1>11, <1>12, <1>13, <1>14, <1>15, <1>16, <1>17
       DEF Inv

\* The first candidate is skipped: another one, or the gateway's answer.
LEMMA FirstSkippedKeeps ==
    ASSUME TypeOK, Roles, Owned, Books, Honest, Order, Counts, Replays, Passes, Bytes,
           Heads, FirstSkipped
    PROVE  Inv'
<1> DEFINE b == Dropped(atts[Last])
<1>1. Last \in DOMAIN atts /\ atts[Last] \in Attempts
    BY DEF FirstSkipped, Goto, Answer, Last, MaxSkips, planVars, bodyVars, Drop,
           TypeOK, Roles
<1>2. /\ b \in Attempts /\ b.route = atts[Last].route /\ b.held = FALSE
      /\ b.obs = "finished" /\ b.sent = atts[Last].sent /\ b.conn = atts[Last].conn
      /\ b.status = atts[Last].status /\ b.err = atts[Last].err /\ b.peek = atts[Last].peek
      /\ b.ended = atts[Last].ended /\ b.row = atts[Last].row /\ b.risk = atts[Last].risk
      /\ b.pass = atts[Last].pass
    BY <1>1, DroppedFields DEF Errors
<1>3. /\ atts' \in Seq(Attempts) /\ Len(atts') = Len(atts)
      /\ DOMAIN atts' = DOMAIN atts /\ atts'[Last] = b
      /\ \A j \in DOMAIN atts : j # Last => atts'[j] = atts[j]
    BY <1>1, <1>2, UpdateAt
       DEF FirstSkipped, Goto, Answer, Last, MaxSkips, planVars, bodyVars, Drop
<1>4. /\ \A j \in DOMAIN atts :
            /\ atts'[j].route = atts[j].route /\ atts'[j].sent = atts[j].sent
            /\ atts'[j].conn = atts[j].conn /\ atts'[j].status = atts[j].status
            /\ atts'[j].err = atts[j].err /\ atts'[j].peek = atts[j].peek
            /\ atts'[j].ended = atts[j].ended /\ atts'[j].row = atts[j].row
            /\ atts'[j].risk = atts[j].risk /\ atts'[j].pass = atts[j].pass
      /\ \A j \in DOMAIN atts : j # Last =>
            /\ atts'[j].held = atts[j].held /\ atts'[j].obs = atts[j].obs
      /\ atts'[Last].held = FALSE /\ atts'[Last].obs = "finished"
    BY <1>2, <1>3
<1> HIDE DEF b
<1>5. /\ Len(atts) \in Nat /\ DOMAIN atts = 1 .. Len(atts)
      /\ {live, outer, inner, armed} \subseteq 0 .. Len(atts)
    BY DEF TypeOK
<1>6. /\ pc = "prepare" /\ live = 0 /\ outer' = 0
      /\ \/ pc' = "done" /\ heads' = <<"own">> /\ heads' # <<>>
         \/ pc' = "select" /\ heads' = heads
      /\ skips' \in Nat /\ heads' \in Seq({"own", "upstream"})
      /\ UNCHANGED <<req, pass, client, expired, panicked>>
      /\ UNCHANGED <<buffer, taken, out>>
      /\ UNCHANGED <<live, inner, armed, tried, sends>>
    <2>1. CASE skips' >= MaxSkips
        BY <2>1, AnswerOnce
           DEF FirstSkipped, Goto, planVars, bodyVars, Heads, TypeOK
    <2>2. CASE ~(skips' >= MaxSkips)
        BY <2>2 DEF FirstSkipped, Goto, planVars, bodyVars, TypeOK
    <2> QED
        BY <2>1, <2>2
<1>7. TypeOK'
    BY <1>1, <1>3, <1>4, <1>5, <1>6 DEF TypeOK
<1>8. Roles'
    BY <1>1, <1>3, <1>4, <1>5, <1>6 DEF Last, Roles
<1>9. Owned'
    BY <1>1, <1>3, <1>4, <1>5, <1>6 DEF Last, Owned, Roles
<1>10. Books'
    BY <1>1, <1>3, <1>4, <1>5, <1>6 DEF Last, Books, InHand, Roles
<1>11. Honest'
    BY <1>1, <1>3, <1>4, <1>5, <1>6 DEF Last, Honest
<1>12. Order'
    BY <1>1, <1>3, <1>4, <1>5, <1>6 DEF Last, Order, Roles
<1>13. Counts'
    <2>1. Sent' = Sent
        BY <1>1, <1>3, <1>4 DEF Sent
    <2> QED
        BY <2>1, <1>5, <1>6 DEF Counts, Order
<1>14. Replays'
    BY <1>1, <1>3, <1>4, <1>5, <1>6 DEF Last, Replays, Order, Roles, MayReplay
<1>15. Passes'
    BY <1>1, <1>3, <1>4, <1>5, <1>6 DEF Last, Passes, Roles
<1>16. Bytes'
    BY <1>1, <1>3, <1>4, <1>5, <1>6 DEF Bytes
<1>17. Heads'
    BY <1>1, <1>3, <1>4, <1>5, <1>6 DEF Last, Heads, Roles, CanCommit, Sent, Order
<1> QED
    BY <1>7, <1>8, <1>9, <1>10, <1>11, <1>12, <1>13, <1>14, <1>15, <1>16, <1>17
       DEF Inv

\* The replacement fails: the answer in hand is committed after all.
LEMMA ReplacementFatalKeeps ==
    ASSUME TypeOK, Roles, Owned, Books, Honest, Order, Counts, Replays, Passes, Bytes,
           Heads, ReplacementFatal
    PROVE  Inv'
<1> DEFINE b == Dropped(atts[Last])
<1>1. Last \in DOMAIN atts /\ atts[Last] \in Attempts
    BY DEF ReplacementFatal, Goto, Last, planVars, bodyVars, Replacing, Drop,
           TypeOK, Roles
<1>2. /\ b \in Attempts /\ b.route = atts[Last].route /\ b.held = FALSE
      /\ b.obs = "finished" /\ b.sent = atts[Last].sent /\ b.conn = atts[Last].conn
      /\ b.status = atts[Last].status /\ b.err = atts[Last].err /\ b.peek = atts[Last].peek
      /\ b.ended = atts[Last].ended /\ b.row = atts[Last].row /\ b.risk = atts[Last].risk
      /\ b.pass = atts[Last].pass
    BY <1>1, DroppedFields DEF Errors
<1>3. /\ atts' \in Seq(Attempts) /\ Len(atts') = Len(atts)
      /\ DOMAIN atts' = DOMAIN atts /\ atts'[Last] = b
      /\ \A j \in DOMAIN atts : j # Last => atts'[j] = atts[j]
    BY <1>1, <1>2, UpdateAt
       DEF ReplacementFatal, Goto, Last, planVars, bodyVars, Replacing, Drop
<1>4. /\ \A j \in DOMAIN atts :
            /\ atts'[j].route = atts[j].route /\ atts'[j].sent = atts[j].sent
            /\ atts'[j].conn = atts[j].conn /\ atts'[j].status = atts[j].status
            /\ atts'[j].err = atts[j].err /\ atts'[j].peek = atts[j].peek
            /\ atts'[j].ended = atts[j].ended /\ atts'[j].row = atts[j].row
            /\ atts'[j].risk = atts[j].risk /\ atts'[j].pass = atts[j].pass
      /\ \A j \in DOMAIN atts : j # Last =>
            /\ atts'[j].held = atts[j].held /\ atts'[j].obs = atts[j].obs
      /\ atts'[Last].held = FALSE /\ atts'[Last].obs = "finished"
    BY <1>2, <1>3
<1> HIDE DEF b
<1>5. /\ Len(atts) \in Nat /\ DOMAIN atts = 1 .. Len(atts)
      /\ {live, outer, inner, armed} \subseteq 0 .. Len(atts)
    BY DEF TypeOK
<1>6. /\ pc = "prepare" /\ live # 0 /\ pc' = "commit" /\ inner' = 0
      /\ UNCHANGED <<req, pass, client, expired, panicked>>
      /\ UNCHANGED <<buffer, taken, out>>
      /\ UNCHANGED <<live, outer, armed, tried, sends, skips, heads>>
    BY AnswerOnce
       DEF ReplacementFatal, Goto, Last, planVars, bodyVars, Replacing, Drop,
           Heads, TypeOK
<1>7. TypeOK'
    BY <1>1, <1>3, <1>4, <1>5, <1>6 DEF TypeOK
<1>8. Roles'
    BY <1>1, <1>3, <1>4, <1>5, <1>6 DEF Last, Roles
<1>9. Owned'
    BY <1>1, <1>3, <1>4, <1>5, <1>6 DEF Last, Owned, Roles
<1>10. Books'
    BY <1>1, <1>3, <1>4, <1>5, <1>6 DEF Last, Books, InHand, Roles
<1>11. Honest'
    BY <1>1, <1>3, <1>4, <1>5, <1>6 DEF Last, Honest
<1>12. Order'
    BY <1>1, <1>3, <1>4, <1>5, <1>6 DEF Last, Order, Roles
<1>13. Counts'
    <2>1. Sent' = Sent
        BY <1>1, <1>3, <1>4 DEF Sent
    <2> QED
        BY <2>1, <1>5, <1>6 DEF Counts, Order
<1>14. Replays'
    BY <1>1, <1>3, <1>4, <1>5, <1>6 DEF Last, Replays, Order, Roles, MayReplay
<1>15. Passes'
    BY <1>1, <1>3, <1>4, <1>5, <1>6 DEF Last, Passes, Roles
<1>16. Bytes'
    BY <1>1, <1>3, <1>4, <1>5, <1>6 DEF Bytes
<1>17. Heads'
    BY <1>1, <1>3, <1>4, <1>5, <1>6 DEF Last, Heads, Roles, CanCommit, Sent, Order
<1> QED
    BY <1>7, <1>8, <1>9, <1>10, <1>11, <1>12, <1>13, <1>14, <1>15, <1>16, <1>17
       DEF Inv

\* The replacement is skipped.
LEMMA ReplacementSkippedKeeps ==
    ASSUME TypeOK, Roles, Owned, Books, Honest, Order, Counts, Replays, Passes, Bytes,
           Heads, ReplacementSkipped
    PROVE  Inv'
<1> DEFINE b == Dropped(atts[Last])
<1>1. Last \in DOMAIN atts /\ atts[Last] \in Attempts
    BY DEF ReplacementSkipped, Goto, Last, MaxSkips, planVars, bodyVars,
           Replacing, Drop, TypeOK, Roles
<1>2. /\ b \in Attempts /\ b.route = atts[Last].route /\ b.held = FALSE
      /\ b.obs = "finished" /\ b.sent = atts[Last].sent /\ b.conn = atts[Last].conn
      /\ b.status = atts[Last].status /\ b.err = atts[Last].err /\ b.peek = atts[Last].peek
      /\ b.ended = atts[Last].ended /\ b.row = atts[Last].row /\ b.risk = atts[Last].risk
      /\ b.pass = atts[Last].pass
    BY <1>1, DroppedFields DEF Errors
<1>3. /\ atts' \in Seq(Attempts) /\ Len(atts') = Len(atts)
      /\ DOMAIN atts' = DOMAIN atts /\ atts'[Last] = b
      /\ \A j \in DOMAIN atts : j # Last => atts'[j] = atts[j]
    BY <1>1, <1>2, UpdateAt
       DEF ReplacementSkipped, Goto, Last, MaxSkips, planVars, bodyVars,
           Replacing, Drop
<1>4. /\ \A j \in DOMAIN atts :
            /\ atts'[j].route = atts[j].route /\ atts'[j].sent = atts[j].sent
            /\ atts'[j].conn = atts[j].conn /\ atts'[j].status = atts[j].status
            /\ atts'[j].err = atts[j].err /\ atts'[j].peek = atts[j].peek
            /\ atts'[j].ended = atts[j].ended /\ atts'[j].row = atts[j].row
            /\ atts'[j].risk = atts[j].risk /\ atts'[j].pass = atts[j].pass
      /\ \A j \in DOMAIN atts : j # Last =>
            /\ atts'[j].held = atts[j].held /\ atts'[j].obs = atts[j].obs
      /\ atts'[Last].held = FALSE /\ atts'[Last].obs = "finished"
    BY <1>2, <1>3
<1> HIDE DEF b
<1>5. /\ Len(atts) \in Nat /\ DOMAIN atts = 1 .. Len(atts)
      /\ {live, outer, inner, armed} \subseteq 0 .. Len(atts)
    BY DEF TypeOK
<1>6. /\ pc = "prepare" /\ live # 0 /\ pc' \in {"commit", "seek"} /\ inner' = 0
      /\ skips' \in Nat
      /\ UNCHANGED <<req, pass, client, expired, panicked>>
      /\ UNCHANGED <<buffer, taken, out>>
      /\ UNCHANGED <<live, outer, armed, tried, sends, heads>>
    BY AnswerOnce
       DEF ReplacementSkipped, Goto, Last, MaxSkips, planVars, bodyVars,
           Replacing, Drop, Heads, TypeOK
<1>7. TypeOK'
    BY <1>1, <1>3, <1>4, <1>5, <1>6 DEF TypeOK
<1>8. Roles'
    BY <1>1, <1>3, <1>4, <1>5, <1>6 DEF Last, Roles
<1>9. Owned'
    BY <1>1, <1>3, <1>4, <1>5, <1>6 DEF Last, Owned, Roles
<1>10. Books'
    BY <1>1, <1>3, <1>4, <1>5, <1>6 DEF Last, Books, InHand, Roles
<1>11. Honest'
    BY <1>1, <1>3, <1>4, <1>5, <1>6 DEF Last, Honest
<1>12. Order'
    BY <1>1, <1>3, <1>4, <1>5, <1>6 DEF Last, Order, Roles
<1>13. Counts'
    <2>1. Sent' = Sent
        BY <1>1, <1>3, <1>4 DEF Sent
    <2> QED
        BY <2>1, <1>5, <1>6 DEF Counts, Order
<1>14. Replays'
    BY <1>1, <1>3, <1>4, <1>5, <1>6 DEF Last, Replays, Order, Roles, MayReplay
<1>15. Passes'
    BY <1>1, <1>3, <1>4, <1>5, <1>6 DEF Last, Passes, Roles
<1>16. Bytes'
    BY <1>1, <1>3, <1>4, <1>5, <1>6 DEF Bytes
<1>17. Heads'
    BY <1>1, <1>3, <1>4, <1>5, <1>6 DEF Last, Heads, Roles, CanCommit, Sent, Order
<1> QED
    BY <1>7, <1>8, <1>9, <1>10, <1>11, <1>12, <1>13, <1>14, <1>15, <1>16, <1>17
       DEF Inv

\* A count_tokens candidate is given back unsent.
LEMMA CountNotReadyKeeps ==
    ASSUME TypeOK, Roles, Owned, Books, Honest, Order, Counts, Replays, Passes, Bytes,
           Heads, CountNotReady
    PROVE  Inv'
<1> DEFINE b == Released(atts[Last])
<1>1. Last \in DOMAIN atts /\ atts[Last] \in Attempts
    BY DEF CountNotReady, Goto, Last, planVars, countSame, bodyVars, TypeOK, Roles
<1>2. /\ b \in Attempts /\ b.route = atts[Last].route /\ b.held = FALSE
      /\ b.obs = atts[Last].obs /\ b.sent = atts[Last].sent /\ b.conn = atts[Last].conn
      /\ b.status = atts[Last].status /\ b.err = atts[Last].err /\ b.peek = atts[Last].peek
      /\ b.ended = atts[Last].ended /\ b.row = atts[Last].row /\ b.risk = atts[Last].risk
      /\ b.pass = atts[Last].pass
    BY <1>1, ReleasedFields DEF Errors
<1>3. /\ atts' \in Seq(Attempts) /\ Len(atts') = Len(atts)
      /\ DOMAIN atts' = DOMAIN atts /\ atts'[Last] = b
      /\ \A j \in DOMAIN atts : j # Last => atts'[j] = atts[j]
    BY <1>1, <1>2, UpdateAt
       DEF CountNotReady, Goto, Last, planVars, countSame, bodyVars
<1>4. /\ \A j \in DOMAIN atts :
            /\ atts'[j].route = atts[j].route /\ atts'[j].obs = atts[j].obs
            /\ atts'[j].sent = atts[j].sent /\ atts'[j].conn = atts[j].conn
            /\ atts'[j].status = atts[j].status /\ atts'[j].err = atts[j].err
            /\ atts'[j].peek = atts[j].peek /\ atts'[j].ended = atts[j].ended
            /\ atts'[j].row = atts[j].row /\ atts'[j].risk = atts[j].risk
            /\ atts'[j].pass = atts[j].pass
      /\ \A j \in DOMAIN atts : j # Last =>
            /\ atts'[j].held = atts[j].held
      /\ atts'[Last].held = FALSE
    BY <1>2, <1>3
<1> HIDE DEF b
<1>5. /\ Len(atts) \in Nat /\ DOMAIN atts = 1 .. Len(atts)
      /\ {live, outer, inner, armed} \subseteq 0 .. Len(atts)
    BY DEF TypeOK
<1>6. /\ pc = "countPrepare" /\ pc' = "count" /\ outer' = 0
      /\ UNCHANGED <<req, pass, client, expired, panicked>>
      /\ UNCHANGED <<buffer, taken, out>>
      /\ UNCHANGED <<live, inner, armed, skips, tried, sends, heads>>
    BY AnswerOnce
       DEF CountNotReady, Goto, Last, planVars, countSame, bodyVars, Heads, TypeOK
<1>7. TypeOK'
    BY <1>1, <1>3, <1>4, <1>5, <1>6 DEF TypeOK
<1>8. Roles'
    BY <1>1, <1>3, <1>4, <1>5, <1>6 DEF Last, Roles
<1>9. Owned'
    BY <1>1, <1>3, <1>4, <1>5, <1>6 DEF Last, Owned, Roles
<1>10. Books'
    BY <1>1, <1>3, <1>4, <1>5, <1>6 DEF Last, Books, InHand, Roles
<1>11. Honest'
    BY <1>1, <1>3, <1>4, <1>5, <1>6 DEF Last, Honest
<1>12. Order'
    BY <1>1, <1>3, <1>4, <1>5, <1>6 DEF Last, Order, Roles
<1>13. Counts'
    <2>1. Sent' = Sent
        BY <1>1, <1>3, <1>4 DEF Sent
    <2> QED
        BY <2>1, <1>5, <1>6 DEF Counts, Order
<1>14. Replays'
    BY <1>1, <1>3, <1>4, <1>5, <1>6 DEF Last, Replays, Order, Roles, MayReplay
<1>15. Passes'
    BY <1>1, <1>3, <1>4, <1>5, <1>6 DEF Last, Passes, Roles
<1>16. Bytes'
    BY <1>1, <1>3, <1>4, <1>5, <1>6 DEF Bytes
<1>17. Heads'
    BY <1>1, <1>3, <1>4, <1>5, <1>6 DEF Last, Heads, Roles, CanCommit, Sent, Order
<1> QED
    BY <1>7, <1>8, <1>9, <1>10, <1>11, <1>12, <1>13, <1>14, <1>15, <1>16, <1>17
       DEF Inv

\* Observer, lease and row of the attempt in hand, and the last chance to answer.
LEMMA ReportKeeps ==
    ASSUME TypeOK, Roles, Owned, Books, Honest, Order, Counts, Replays, Passes, Bytes,
           Heads, Report
    PROVE  Inv'
<1> DEFINE b == Reported(atts[live])
<1>1. live \in DOMAIN atts /\ atts[live] \in Attempts
    BY DEF Report, Goto, Answer, planVars, bodyVars, TypeOK, Roles
<1>2. /\ b \in Attempts /\ b.route = atts[live].route /\ b.held = FALSE
      /\ b.obs = "finished" /\ b.sent = atts[live].sent /\ b.conn = atts[live].conn
      /\ b.status = atts[live].status /\ b.err = atts[live].err /\ b.peek = atts[live].peek
      /\ b.ended = atts[live].ended /\ b.row = "final" /\ b.risk = atts[live].risk
      /\ b.pass = atts[live].pass
    BY <1>1, ReportedFields DEF Errors
<1>3. /\ atts' \in Seq(Attempts) /\ Len(atts') = Len(atts)
      /\ DOMAIN atts' = DOMAIN atts /\ atts'[live] = b
      /\ \A j \in DOMAIN atts : j # live => atts'[j] = atts[j]
    BY <1>1, <1>2, UpdateAt DEF Report, Goto, Answer, planVars, bodyVars
<1>4. /\ \A j \in DOMAIN atts :
            /\ atts'[j].route = atts[j].route /\ atts'[j].sent = atts[j].sent
            /\ atts'[j].conn = atts[j].conn /\ atts'[j].status = atts[j].status
            /\ atts'[j].err = atts[j].err /\ atts'[j].peek = atts[j].peek
            /\ atts'[j].ended = atts[j].ended /\ atts'[j].risk = atts[j].risk
            /\ atts'[j].pass = atts[j].pass
      /\ \A j \in DOMAIN atts : j # live =>
            /\ atts'[j].obs = atts[j].obs /\ atts'[j].held = atts[j].held
            /\ atts'[j].row = atts[j].row
      /\ atts'[live].obs = "finished" /\ atts'[live].held = FALSE /\ atts'[live].row = "final"
    BY <1>2, <1>3
<1> HIDE DEF b
<1>5. /\ Len(atts) \in Nat /\ DOMAIN atts = 1 .. Len(atts)
      /\ {live, outer, inner, armed} \subseteq 0 .. Len(atts)
    BY DEF TypeOK
<1>6. /\ pc = "report" /\ pc' = "done" /\ outer' = 0
      /\ heads' = <<"own">> \/ heads' = heads
      /\ heads' \in Seq({"own", "upstream"})
      /\ heads = <<"upstream">> => heads' = heads
      /\ \/ heads' # <<>>
         \/ heads = <<>> /\ atts[live].err \in {"none", "canceled", "clientGone"}
      /\ UNCHANGED <<req, pass, client, expired, panicked>>
      /\ UNCHANGED <<buffer, taken, out>>
      /\ UNCHANGED <<live, inner, armed, tried, sends, skips>>
    BY AnswerOnce DEF Report, Goto, Answer, planVars, bodyVars, Heads, TypeOK
<1>7. TypeOK'
    BY <1>1, <1>3, <1>4, <1>5, <1>6 DEF TypeOK
<1>8. Roles'
    BY <1>1, <1>3, <1>4, <1>5, <1>6 DEF Last, Roles
<1>9. Owned'
    BY <1>1, <1>3, <1>4, <1>5, <1>6 DEF Last, Owned, Roles
<1>10. Books'
    BY <1>1, <1>3, <1>4, <1>5, <1>6 DEF Last, Books, InHand, Roles
<1>11. Honest'
    BY <1>1, <1>3, <1>4, <1>5, <1>6 DEF Last, Honest
<1>12. Order'
    BY <1>1, <1>3, <1>4, <1>5, <1>6 DEF Last, Order, Roles
<1>13. Counts'
    <2>1. Sent' = Sent
        BY <1>1, <1>3, <1>4 DEF Sent
    <2> QED
        BY <2>1, <1>5, <1>6 DEF Counts, Order
<1>14. Replays'
    BY <1>1, <1>3, <1>4, <1>5, <1>6 DEF Last, Replays, Order, Roles, MayReplay
<1>15. Passes'
    BY <1>1, <1>3, <1>4, <1>5, <1>6 DEF Last, Passes, Roles
<1>16. Bytes'
    BY <1>1, <1>3, <1>4, <1>5, <1>6 DEF Bytes
<1>17. Heads'
    BY <1>1, <1>3, <1>4, <1>5, <1>6
       DEF Last, Heads, Roles, CanCommit, Sent, Order, Honest
<1> QED
    BY <1>7, <1>8, <1>9, <1>10, <1>11, <1>12, <1>13, <1>14, <1>15, <1>16, <1>17
       DEF Inv

\* There is nothing to commit: the error stands.
LEMMA CommitNothingKeeps ==
    ASSUME TypeOK, Roles, Owned, Books, Honest, Order, Counts, Replays, Passes, Bytes,
           Heads, CommitNothing
    PROVE  Inv'
<1> DEFINE b == Ended(atts[live], atts[live].err)
<1>1. live \in DOMAIN atts /\ atts[live] \in Attempts
    BY DEF CommitNothing, Goto, planVars, bodyVars, End, TypeOK, Roles
<1>0. atts[live].err \in Errors
    BY <1>1 DEF Attempts
<1>2. /\ b \in Attempts /\ b.route = atts[live].route /\ b.held = atts[live].held
      /\ b.obs = atts[live].obs /\ b.sent = atts[live].sent /\ b.conn = atts[live].conn
      /\ b.status = atts[live].status /\ b.err = atts[live].err /\ b.peek = atts[live].peek
      /\ b.ended = TRUE /\ b.row = atts[live].row /\ b.risk = atts[live].risk
      /\ b.pass = atts[live].pass
    BY <1>0, <1>1, EndedFields
<1>3. /\ atts' \in Seq(Attempts) /\ Len(atts') = Len(atts)
      /\ DOMAIN atts' = DOMAIN atts /\ atts'[live] = b
      /\ \A j \in DOMAIN atts : j # live => atts'[j] = atts[j]
    BY <1>1, <1>2, UpdateAt DEF CommitNothing, Goto, planVars, bodyVars, End
<1>4. /\ \A j \in DOMAIN atts :
            /\ atts'[j].route = atts[j].route /\ atts'[j].held = atts[j].held
            /\ atts'[j].obs = atts[j].obs /\ atts'[j].sent = atts[j].sent
            /\ atts'[j].conn = atts[j].conn /\ atts'[j].status = atts[j].status
            /\ atts'[j].err = atts[j].err /\ atts'[j].peek = atts[j].peek
            /\ atts'[j].row = atts[j].row /\ atts'[j].risk = atts[j].risk
            /\ atts'[j].pass = atts[j].pass
      /\ \A j \in DOMAIN atts : j # live =>
            /\ atts'[j].ended = atts[j].ended
      /\ atts'[live].ended = TRUE
    BY <1>2, <1>3
<1> HIDE DEF b
<1>5. /\ Len(atts) \in Nat /\ DOMAIN atts = 1 .. Len(atts)
      /\ {live, outer, inner, armed} \subseteq 0 .. Len(atts)
    BY DEF TypeOK
<1>6. /\ pc = "commit" /\ ~CanCommit(atts[live]) /\ pc' = "report"
      /\ UNCHANGED <<req, pass, client, expired, panicked>>
      /\ UNCHANGED <<buffer, taken, out>>
      /\ UNCHANGED <<live, outer, inner, armed, tried, sends, skips, heads>>
    BY AnswerOnce DEF CommitNothing, Goto, planVars, bodyVars, End, Heads, TypeOK
<1>7. TypeOK'
    BY <1>1, <1>3, <1>4, <1>5, <1>6 DEF TypeOK
<1>8. Roles'
    BY <1>1, <1>3, <1>4, <1>5, <1>6 DEF Last, Roles
<1>9. Owned'
    BY <1>1, <1>3, <1>4, <1>5, <1>6 DEF Last, Owned, Roles
<1>10. Books'
    BY <1>1, <1>3, <1>4, <1>5, <1>6 DEF Last, Books, InHand, Roles
<1>11. Honest'
    BY <1>1, <1>3, <1>4, <1>5, <1>6 DEF Last, Honest
<1>12. Order'
    BY <1>1, <1>3, <1>4, <1>5, <1>6 DEF Last, Order, Roles
<1>13. Counts'
    <2>1. Sent' = Sent
        BY <1>1, <1>3, <1>4 DEF Sent
    <2> QED
        BY <2>1, <1>5, <1>6 DEF Counts, Order
<1>14. Replays'
    BY <1>1, <1>3, <1>4, <1>5, <1>6 DEF Last, Replays, Order, Roles, MayReplay
<1>15. Passes'
    BY <1>1, <1>3, <1>4, <1>5, <1>6 DEF Last, Passes, Roles
<1>16. Bytes'
    BY <1>1, <1>3, <1>4, <1>5, <1>6 DEF Bytes
<1>17. Heads'
    BY <1>1, <1>3, <1>4, <1>5, <1>6 DEF Last, Heads, Roles, CanCommit, Sent, Order
<1> QED
    BY <1>7, <1>8, <1>9, <1>10, <1>11, <1>12, <1>13, <1>14, <1>15, <1>16, <1>17
       DEF Inv

\* The first attempt goes out.
LEMMA FirstSentKeeps ==
    ASSUME TypeOK, Roles, Owned, Books, Honest, Order, Counts, Replays, Passes, Bytes,
           Heads, FirstSent
    PROVE  Inv'
<1> DEFINE b == Dispatched(atts[Last])
<1>1. Last \in DOMAIN atts /\ atts[Last] \in Attempts
    BY DEF FirstSent, Goto, Last, planVars, bodyVars, TypeOK, Roles
<1>2. /\ b \in Attempts /\ b.route = atts[Last].route /\ b.held = atts[Last].held
      /\ b.obs = "open" /\ b.sent = TRUE /\ b.conn = atts[Last].conn
      /\ b.status = atts[Last].status /\ b.err = atts[Last].err /\ b.peek = atts[Last].peek
      /\ b.ended = atts[Last].ended /\ b.row = atts[Last].row /\ b.risk = atts[Last].risk
      /\ b.pass = atts[Last].pass
    BY <1>1, DispatchedFields DEF Errors
<1>3. /\ atts' \in Seq(Attempts) /\ Len(atts') = Len(atts)
      /\ DOMAIN atts' = DOMAIN atts /\ atts'[Last] = b
      /\ \A j \in DOMAIN atts : j # Last => atts'[j] = atts[j]
    BY <1>1, <1>2, UpdateAt DEF FirstSent, Goto, Last, planVars, bodyVars
<1>4. /\ \A j \in DOMAIN atts :
            /\ atts'[j].route = atts[j].route /\ atts'[j].held = atts[j].held
            /\ atts'[j].conn = atts[j].conn /\ atts'[j].status = atts[j].status
            /\ atts'[j].err = atts[j].err /\ atts'[j].peek = atts[j].peek
            /\ atts'[j].ended = atts[j].ended /\ atts'[j].row = atts[j].row
            /\ atts'[j].risk = atts[j].risk /\ atts'[j].pass = atts[j].pass
      /\ \A j \in DOMAIN atts : j # Last =>
            /\ atts'[j].obs = atts[j].obs /\ atts'[j].sent = atts[j].sent
      /\ atts'[Last].obs = "open" /\ atts'[Last].sent = TRUE
    BY <1>2, <1>3
<1> HIDE DEF b
<1>5. /\ Len(atts) \in Nat /\ DOMAIN atts = 1 .. Len(atts)
      /\ {live, outer, inner, armed} \subseteq 0 .. Len(atts)
    BY DEF TypeOK
<1>6. /\ pc = "prepare" /\ live = 0 /\ pc' = "send"
      /\ UNCHANGED <<req, pass, client, expired, panicked>>
      /\ UNCHANGED <<buffer, taken, out>>
      /\ UNCHANGED <<live, outer, inner, armed, tried, sends, skips, heads>>
    BY AnswerOnce DEF FirstSent, Goto, Last, planVars, bodyVars, Heads, TypeOK
<1>7. TypeOK'
    BY <1>1, <1>3, <1>4, <1>5, <1>6 DEF TypeOK
<1>8. Roles'
    BY <1>1, <1>3, <1>4, <1>5, <1>6 DEF Last, Roles
<1>9. Owned'
    BY <1>1, <1>3, <1>4, <1>5, <1>6 DEF Last, Owned, Roles
<1>10. Books'
    BY <1>1, <1>3, <1>4, <1>5, <1>6 DEF Last, Books, InHand, Roles
<1>11. Honest'
    BY <1>1, <1>3, <1>4, <1>5, <1>6 DEF Last, Honest, Order
<1>12. Order'
    BY <1>1, <1>3, <1>4, <1>5, <1>6 DEF Last, Order, Roles
<1>13. Counts'
    <2>1. Sent' = Sent \cup {Last} /\ IsFiniteSet(Sent) /\ Cardinality(Sent) \in Nat
        BY <1>1, <1>3, <1>4, SentIsFinite DEF Sent
    <2>2. Cardinality(Sent') <= Cardinality(Sent) + 1 /\ Cardinality(Sent') \in Nat
        BY <2>1, FS_AddElement
    <2> QED
        BY <2>1, <2>2, <1>5, <1>6 DEF Counts, Order, Roles, TypeOK
<1>14. Replays'
    BY <1>1, <1>3, <1>4, <1>5, <1>6 DEF Last, Replays, Order, Roles, MayReplay
<1>15. Passes'
    BY <1>1, <1>3, <1>4, <1>5, <1>6 DEF Last, Passes, Roles
<1>16. Bytes'
    BY <1>1, <1>3, <1>4, <1>5, <1>6 DEF Bytes
<1>17. Heads'
    BY <1>1, <1>3, <1>4, <1>5, <1>6 DEF Last, Heads, Roles, CanCommit, Sent, Order
<1> QED
    BY <1>7, <1>8, <1>9, <1>10, <1>11, <1>12, <1>13, <1>14, <1>15, <1>16, <1>17
       DEF Inv

\* A count_tokens attempt goes out.
LEMMA CountSentKeeps ==
    ASSUME TypeOK, Roles, Owned, Books, Honest, Order, Counts, Replays, Passes, Bytes,
           Heads, CountSent
    PROVE  Inv'
<1> DEFINE b == Dispatched(atts[Last])
<1>1. Last \in DOMAIN atts /\ atts[Last] \in Attempts
    BY DEF CountSent, Goto, Last, planVars, countSame, bodyVars, TypeOK, Roles
<1>2. /\ b \in Attempts /\ b.route = atts[Last].route /\ b.held = atts[Last].held
      /\ b.obs = "open" /\ b.sent = TRUE /\ b.conn = atts[Last].conn
      /\ b.status = atts[Last].status /\ b.err = atts[Last].err /\ b.peek = atts[Last].peek
      /\ b.ended = atts[Last].ended /\ b.row = atts[Last].row /\ b.risk = atts[Last].risk
      /\ b.pass = atts[Last].pass
    BY <1>1, DispatchedFields DEF Errors
<1>3. /\ atts' \in Seq(Attempts) /\ Len(atts') = Len(atts)
      /\ DOMAIN atts' = DOMAIN atts /\ atts'[Last] = b
      /\ \A j \in DOMAIN atts : j # Last => atts'[j] = atts[j]
    BY <1>1, <1>2, UpdateAt DEF CountSent, Goto, Last, planVars, countSame, bodyVars
<1>4. /\ \A j \in DOMAIN atts :
            /\ atts'[j].route = atts[j].route /\ atts'[j].held = atts[j].held
            /\ atts'[j].conn = atts[j].conn /\ atts'[j].status = atts[j].status
            /\ atts'[j].err = atts[j].err /\ atts'[j].peek = atts[j].peek
            /\ atts'[j].ended = atts[j].ended /\ atts'[j].row = atts[j].row
            /\ atts'[j].risk = atts[j].risk /\ atts'[j].pass = atts[j].pass
      /\ \A j \in DOMAIN atts : j # Last =>
            /\ atts'[j].obs = atts[j].obs /\ atts'[j].sent = atts[j].sent
      /\ atts'[Last].obs = "open" /\ atts'[Last].sent = TRUE
    BY <1>2, <1>3
<1> HIDE DEF b
<1>5. /\ Len(atts) \in Nat /\ DOMAIN atts = 1 .. Len(atts)
      /\ {live, outer, inner, armed} \subseteq 0 .. Len(atts)
    BY DEF TypeOK
<1>6. /\ pc = "countPrepare" /\ pc' = "countSend" /\ sends' = sends + 1
      /\ UNCHANGED <<req, pass, client, expired, panicked>>
      /\ UNCHANGED <<buffer, taken, out>>
      /\ UNCHANGED <<live, inner, armed, skips, outer, tried, heads>>
    BY AnswerOnce
       DEF CountSent, Goto, Last, planVars, countSame, bodyVars, Heads, TypeOK
<1>7. TypeOK'
    BY <1>1, <1>3, <1>4, <1>5, <1>6 DEF TypeOK
<1>8. Roles'
    BY <1>1, <1>3, <1>4, <1>5, <1>6 DEF Last, Roles
<1>9. Owned'
    BY <1>1, <1>3, <1>4, <1>5, <1>6 DEF Last, Owned, Roles
<1>10. Books'
    BY <1>1, <1>3, <1>4, <1>5, <1>6 DEF Last, Books, InHand, Roles
<1>11. Honest'
    BY <1>1, <1>3, <1>4, <1>5, <1>6 DEF Last, Honest, Order
<1>12. Order'
    BY <1>1, <1>3, <1>4, <1>5, <1>6 DEF Last, Order, Roles
<1>13. Counts'
    <2>1. Sent' = Sent \cup {Last} /\ IsFiniteSet(Sent) /\ Cardinality(Sent) \in Nat
        BY <1>1, <1>3, <1>4, SentIsFinite DEF Sent
    <2>2. Cardinality(Sent') <= Cardinality(Sent) + 1 /\ Cardinality(Sent') \in Nat
        BY <2>1, FS_AddElement
    <2> QED
        BY <2>1, <2>2, <1>5, <1>6 DEF Counts, Order, Roles, TypeOK
<1>14. Replays'
    BY <1>1, <1>3, <1>4, <1>5, <1>6 DEF Last, Replays, Order, Roles, MayReplay
<1>15. Passes'
    BY <1>1, <1>3, <1>4, <1>5, <1>6 DEF Last, Passes, Roles
<1>16. Bytes'
    BY <1>1, <1>3, <1>4, <1>5, <1>6 DEF Bytes
<1>17. Heads'
    BY <1>1, <1>3, <1>4, <1>5, <1>6 DEF Last, Heads, Roles, CanCommit, Sent, Order
<1> QED
    BY <1>7, <1>8, <1>9, <1>10, <1>11, <1>12, <1>13, <1>14, <1>15, <1>16, <1>17
       DEF Inv

\* The first candidate, or the one after a skipped one, is leased.
LEMMA SelectFirstKeeps ==
    ASSUME TypeOK, Roles, Owned, Books, Honest, Order, Counts, Replays, Passes, Bytes,
           Heads, SelectFirst
    PROVE  Inv'
<1> PICK r \in Routes \ tried, trial \in BOOLEAN :
          /\ Take(r) /\ outer' = Last + 1
          /\ armed' = IF trial THEN Last + 1 ELSE armed
          /\ tried' = tried \cup {r}
          /\ Goto(IF trial THEN "armed" ELSE "prepare")
    BY DEF SelectFirst
<1>1. /\ r \in Routes /\ Take(r)
    BY DEF SelectFirst, Goto, Last, planVars, bodyVars
<1>3. /\ atts' \in Seq(Attempts) /\ Len(atts') = Last + 1
      /\ DOMAIN atts' = DOMAIN atts \cup {Last + 1} /\ Last + 1 \notin DOMAIN atts
      /\ \A j \in DOMAIN atts : atts'[j] = atts[j]
    BY <1>1, TakeAppends
<1>4. /\ atts'[Last + 1].route = r /\ atts'[Last + 1].held
      /\ ~atts'[Last + 1].sent /\ atts'[Last + 1].conn = FALSE
      /\ atts'[Last + 1].err = "none" /\ atts'[Last + 1].peek = "no"
      /\ atts'[Last + 1].pass = pass
    BY <1>1, TakeAppends, CandidateFields
<1>5. /\ Len(atts) \in Nat /\ DOMAIN atts = 1 .. Len(atts)
      /\ {live, outer, inner, armed} \subseteq 0 .. Len(atts)
    BY DEF TypeOK
<1>6. /\ pc = "select" /\ pc' \in {"armed", "prepare"} /\ r \notin tried
      /\ outer' = Last + 1 /\ armed' \in {armed, Last + 1}
      /\ tried' = tried \cup {r}
      /\ UNCHANGED <<req, pass, client, expired, panicked>>
      /\ UNCHANGED <<buffer, taken, out>>
      /\ UNCHANGED <<live, inner, sends, skips, heads>>
    BY DEF SelectFirst, Goto, Last, planVars, bodyVars
<1>7. TypeOK'
    BY <1>1, <1>3, <1>4, <1>5, <1>6 DEF Last, TypeOK
<1>8. Roles'
    BY <1>1, <1>3, <1>4, <1>5, <1>6 DEF Last, Roles
<1>9. Owned'
    BY <1>1, <1>3, <1>4, <1>5, <1>6 DEF Last, Owned, Roles
<1>10. Books'
    BY <1>1, <1>3, <1>4, <1>5, <1>6 DEF Last, Books, InHand, Roles
<1>11. Honest'
    BY <1>1, <1>3, <1>4, <1>5, <1>6 DEF Last, Honest
<1>12. Order'
    BY <1>1, <1>3, <1>4, <1>5, <1>6 DEF Last, Order, Roles
<1>13. Counts'
    <2>1. Sent' = Sent
        BY <1>3, <1>4 DEF Sent
    <2> QED
        BY <2>1, <1>6 DEF Counts, Roles
<1>14. Replays'
    BY <1>1, <1>3, <1>4, <1>5, <1>6 DEF Last, Replays, Order, Roles, MayReplay
<1>15. Passes'
    BY <1>1, <1>3, <1>4, <1>5, <1>6 DEF Last, Passes, Roles
<1>16. Bytes'
    BY <1>1, <1>3, <1>4, <1>5, <1>6 DEF Bytes
<1>17. Heads'
    BY <1>1, <1>3, <1>4, <1>5, <1>6 DEF Last, Heads, Roles, CanCommit, Sent, Order
<1> QED
    BY <1>7, <1>8, <1>9, <1>10, <1>11, <1>12, <1>13, <1>14, <1>15, <1>16, <1>17
       DEF Inv

\* A replacement is leased while the answer in hand keeps its lease.
LEMMA SeekTakeKeeps ==
    ASSUME TypeOK, Roles, Owned, Books, Honest, Order, Counts, Replays, Passes, Bytes,
           Heads, SeekTake
    PROVE  Inv'
<1> PICK r \in Routes \ tried :
          /\ Take(r) /\ inner' = Last + 1 /\ tried' = tried \cup {r}
    BY DEF SeekTake
<1>1. /\ r \in Routes /\ Take(r)
    BY DEF SeekTake, Goto, Last, planVars, bodyVars
<1>3. /\ atts' \in Seq(Attempts) /\ Len(atts') = Last + 1
      /\ DOMAIN atts' = DOMAIN atts \cup {Last + 1} /\ Last + 1 \notin DOMAIN atts
      /\ \A j \in DOMAIN atts : atts'[j] = atts[j]
    BY <1>1, TakeAppends
<1>4. /\ atts'[Last + 1].route = r /\ atts'[Last + 1].held
      /\ ~atts'[Last + 1].sent /\ atts'[Last + 1].conn = FALSE
      /\ atts'[Last + 1].err = "none" /\ atts'[Last + 1].peek = "no"
      /\ atts'[Last + 1].pass = pass
    BY <1>1, TakeAppends, CandidateFields
<1>5. /\ Len(atts) \in Nat /\ DOMAIN atts = 1 .. Len(atts)
      /\ {live, outer, inner, armed} \subseteq 0 .. Len(atts)
    BY DEF TypeOK
<1>6. /\ pc = "seek" /\ pc' = "prepare" /\ r \notin tried
      /\ inner' = Last + 1 /\ tried' = tried \cup {r}
      /\ UNCHANGED <<req, pass, client, expired, panicked>>
      /\ UNCHANGED <<buffer, taken, out>>
      /\ UNCHANGED <<live, outer, armed, sends, skips, heads>>
    BY DEF SeekTake, Goto, Last, planVars, bodyVars
<1>7. TypeOK'
    BY <1>1, <1>3, <1>4, <1>5, <1>6 DEF Last, TypeOK
<1>8. Roles'
    BY <1>1, <1>3, <1>4, <1>5, <1>6 DEF Last, Roles
<1>9. Owned'
    BY <1>1, <1>3, <1>4, <1>5, <1>6 DEF Last, Owned, Roles
<1>10. Books'
    BY <1>1, <1>3, <1>4, <1>5, <1>6 DEF Last, Books, InHand, Roles
<1>11. Honest'
    BY <1>1, <1>3, <1>4, <1>5, <1>6 DEF Last, Honest
<1>12. Order'
    BY <1>1, <1>3, <1>4, <1>5, <1>6 DEF Last, Order, Roles
<1>13. Counts'
    <2>1. Sent' = Sent
        BY <1>3, <1>4 DEF Sent
    <2> QED
        BY <2>1, <1>6 DEF Counts, Roles
<1>14. Replays'
    BY <1>1, <1>3, <1>4, <1>5, <1>6 DEF Last, Replays, Order, Roles, MayReplay
<1>15. Passes'
    BY <1>1, <1>3, <1>4, <1>5, <1>6 DEF Last, Passes, Roles
<1>16. Bytes'
    BY <1>1, <1>3, <1>4, <1>5, <1>6 DEF Bytes
<1>17. Heads'
    BY <1>1, <1>3, <1>4, <1>5, <1>6 DEF Last, Heads, Roles, CanCommit, Sent, Order
<1> QED
    BY <1>7, <1>8, <1>9, <1>10, <1>11, <1>12, <1>13, <1>14, <1>15, <1>16, <1>17
       DEF Inv

\* A count_tokens candidate is leased.
LEMMA CountTakeKeeps ==
    ASSUME TypeOK, Roles, Owned, Books, Honest, Order, Counts, Replays, Passes, Bytes,
           Heads, CountTake
    PROVE  Inv'
<1> PICK r \in Routes \ tried :
          /\ Take(r) /\ outer' = Last + 1 /\ tried' = tried \cup {r}
    BY DEF CountTake
<1>1. /\ r \in Routes /\ Take(r)
    BY DEF CountTake, Goto, Last, planVars, countSame, bodyVars
<1>3. /\ atts' \in Seq(Attempts) /\ Len(atts') = Last + 1
      /\ DOMAIN atts' = DOMAIN atts \cup {Last + 1} /\ Last + 1 \notin DOMAIN atts
      /\ \A j \in DOMAIN atts : atts'[j] = atts[j]
    BY <1>1, TakeAppends
<1>4. /\ atts'[Last + 1].route = r /\ atts'[Last + 1].held
      /\ ~atts'[Last + 1].sent /\ atts'[Last + 1].conn = FALSE
      /\ atts'[Last + 1].err = "none" /\ atts'[Last + 1].peek = "no"
      /\ atts'[Last + 1].pass = pass
    BY <1>1, TakeAppends, CandidateFields
<1>5. /\ Len(atts) \in Nat /\ DOMAIN atts = 1 .. Len(atts)
      /\ {live, outer, inner, armed} \subseteq 0 .. Len(atts)
    BY DEF TypeOK
<1>6. /\ pc = "count" /\ pc' = "countPrepare" /\ r \notin tried
      /\ outer' = Last + 1 /\ tried' = tried \cup {r}
      /\ UNCHANGED <<req, pass, client, expired, panicked>>
      /\ UNCHANGED <<buffer, taken, out>>
      /\ UNCHANGED <<live, inner, armed, skips, sends, heads>>
    BY DEF CountTake, Goto, Last, planVars, countSame, bodyVars
<1>7. TypeOK'
    BY <1>1, <1>3, <1>4, <1>5, <1>6 DEF Last, TypeOK
<1>8. Roles'
    BY <1>1, <1>3, <1>4, <1>5, <1>6 DEF Last, Roles
<1>9. Owned'
    BY <1>1, <1>3, <1>4, <1>5, <1>6 DEF Last, Owned, Roles
<1>10. Books'
    BY <1>1, <1>3, <1>4, <1>5, <1>6 DEF Last, Books, InHand, Roles
<1>11. Honest'
    BY <1>1, <1>3, <1>4, <1>5, <1>6 DEF Last, Honest
<1>12. Order'
    BY <1>1, <1>3, <1>4, <1>5, <1>6 DEF Last, Order, Roles
<1>13. Counts'
    <2>1. Sent' = Sent
        BY <1>3, <1>4 DEF Sent
    <2> QED
        BY <2>1, <1>6 DEF Counts, Roles
<1>14. Replays'
    BY <1>1, <1>3, <1>4, <1>5, <1>6 DEF Last, Replays, Order, Roles, MayReplay
<1>15. Passes'
    BY <1>1, <1>3, <1>4, <1>5, <1>6 DEF Last, Passes, Roles
<1>16. Bytes'
    BY <1>1, <1>3, <1>4, <1>5, <1>6 DEF Bytes
<1>17. Heads'
    BY <1>1, <1>3, <1>4, <1>5, <1>6 DEF Last, Heads, Roles, CanCommit, Sent, Order
<1> QED
    BY <1>7, <1>8, <1>9, <1>10, <1>11, <1>12, <1>13, <1>14, <1>15, <1>16, <1>17
       DEF Inv

\* halfOpenStillEnabled says no: the candidate is given back.
LEMMA ArmedLostKeeps ==
    ASSUME TypeOK, Roles, Owned, Books, Honest, Order, Counts, Replays, Passes, Bytes,
           Heads,
           pc = "armed", Becomes(outer, Released(atts[outer])), outer' = 0,
           Answer("own"), Goto("done"), UNCHANGED <<req, pass, client, expired, panicked>>,
           UNCHANGED <<buffer, taken, out>>,
           UNCHANGED <<live, inner, armed, tried, sends, skips>>
    PROVE  Inv'
<1> DEFINE b == Released(atts[outer])
<1>1. outer \in DOMAIN atts /\ atts[outer] \in Attempts /\ outer = Last
    BY DEF TypeOK, Roles, Last
<1>2. /\ b \in Attempts /\ b.route = atts[outer].route /\ b.held = FALSE
      /\ b.obs = atts[outer].obs /\ b.sent = atts[outer].sent /\ b.conn = atts[outer].conn
      /\ b.status = atts[outer].status /\ b.err = atts[outer].err /\ b.peek = atts[outer].peek
      /\ b.ended = atts[outer].ended /\ b.row = atts[outer].row /\ b.risk = atts[outer].risk
      /\ b.pass = atts[outer].pass
    BY <1>1, ReleasedFields
<1>3. /\ atts' \in Seq(Attempts) /\ Len(atts') = Len(atts)
      /\ DOMAIN atts' = DOMAIN atts /\ atts'[outer] = b
      /\ \A j \in DOMAIN atts : j # outer => atts'[j] = atts[j]
    BY <1>1, <1>2, UpdateAt
<1>4. /\ \A j \in DOMAIN atts :
            /\ atts'[j].route = atts[j].route /\ atts'[j].obs = atts[j].obs
            /\ atts'[j].sent = atts[j].sent /\ atts'[j].conn = atts[j].conn
            /\ atts'[j].status = atts[j].status /\ atts'[j].err = atts[j].err
            /\ atts'[j].peek = atts[j].peek /\ atts'[j].ended = atts[j].ended
            /\ atts'[j].row = atts[j].row /\ atts'[j].risk = atts[j].risk
            /\ atts'[j].pass = atts[j].pass
      /\ \A j \in DOMAIN atts : j # outer =>
            /\ atts'[j].held = atts[j].held
      /\ atts'[outer].held = FALSE
    BY <1>2, <1>3
<1> HIDE DEF b
<1>5. /\ Len(atts) \in Nat /\ DOMAIN atts = 1 .. Len(atts)
      /\ {live, outer, inner, armed} \subseteq 0 .. Len(atts)
    BY DEF TypeOK
<1>6. /\ pc = "armed" /\ pc' = "done" /\ outer' = 0
      /\ heads' = <<"own">>
      /\ UNCHANGED <<req, pass, client, expired, panicked>>
      /\ UNCHANGED <<buffer, taken, out>>
      /\ UNCHANGED <<live, inner, armed, tried, sends, skips>>
    BY AnswerOnce DEF Goto, Heads
<1>7. TypeOK'
    BY <1>1, <1>3, <1>4, <1>5, <1>6 DEF TypeOK
<1>8. Roles'
    BY <1>1, <1>3, <1>4, <1>5, <1>6 DEF Last, Roles
<1>9. Owned'
    BY <1>1, <1>3, <1>4, <1>5, <1>6 DEF Last, Owned, Roles
<1>10. Books'
    BY <1>1, <1>3, <1>4, <1>5, <1>6 DEF Last, Books, InHand, Roles
<1>11. Honest'
    BY <1>1, <1>3, <1>4, <1>5, <1>6 DEF Last, Honest
<1>12. Order'
    BY <1>1, <1>3, <1>4, <1>5, <1>6 DEF Last, Order, Roles
<1>13. Counts'
    <2>1. Sent' = Sent
        BY <1>1, <1>3, <1>4 DEF Sent
    <2> QED
        BY <2>1, <1>5, <1>6 DEF Counts, Order
<1>14. Replays'
    BY <1>1, <1>3, <1>4, <1>5, <1>6 DEF Last, Replays, Order, Roles, MayReplay
<1>15. Passes'
    BY <1>1, <1>3, <1>4, <1>5, <1>6 DEF Last, Passes, Roles
<1>16. Bytes'
    BY <1>1, <1>3, <1>4, <1>5, <1>6 DEF Bytes
<1>17. Heads'
    BY <1>1, <1>3, <1>4, <1>5, <1>6 DEF Last, Heads, Roles, CanCommit, Sent, Order
<1> QED
    BY <1>7, <1>8, <1>9, <1>10, <1>11, <1>12, <1>13, <1>14, <1>15, <1>16, <1>17
       DEF Inv

\* The armed trial is confirmed or given back.
LEMMA ArmedCheckKeeps ==
    ASSUME TypeOK, Roles, Owned, Books, Honest, Order, Counts, Replays, Passes, Bytes,
           Heads, ArmedCheck
    PROVE  Inv'
<1>1. CASE Goto("prepare") /\ UNCHANGED <<atts, outer, heads>>
<2>1. TypeOK'
    BY <1>1 DEF ArmedCheck, Goto, Answer, planVars, bodyVars, TypeOK
<2>2. Roles'
    BY <1>1 DEF ArmedCheck, Goto, Answer, planVars, bodyVars, Roles, Last, TypeOK
<2>3. Owned'
    BY <1>1 DEF ArmedCheck, Goto, Answer, planVars, bodyVars, Owned, Roles, TypeOK
<2>4. Books'
    BY <1>1
       DEF ArmedCheck, Goto, Answer, planVars, bodyVars, Books, InHand, Roles,
           Last, TypeOK
<2>5. Honest'
    BY <1>1 DEF ArmedCheck, Goto, Answer, planVars, bodyVars, Honest, Last, TypeOK
<2>6. Order'
    BY <1>1
       DEF ArmedCheck, Goto, Answer, planVars, bodyVars, Order, Roles, Last,
           TypeOK
<2>7. Counts'
    BY <1>1
       DEF ArmedCheck, Goto, Answer, planVars, bodyVars, Counts, Order, TypeOK,
           Sent
<2>8. Replays'
    BY <1>1
       DEF ArmedCheck, Goto, Answer, planVars, bodyVars, Replays, Order, Roles,
           MayReplay, TypeOK
<2>9. Passes'
    BY <1>1
       DEF ArmedCheck, Goto, Answer, planVars, bodyVars, Passes, Roles, Last,
           TypeOK
<2>10. Bytes'
    BY <1>1 DEF ArmedCheck, Goto, Answer, planVars, bodyVars, Bytes, TypeOK
<2>11. Heads'
    BY <1>1
       DEF ArmedCheck, Goto, Answer, planVars, bodyVars, Heads, Roles, CanCommit,
           Sent, Order, TypeOK
<2> QED
    BY <2>1, <2>2, <2>3, <2>4, <2>5, <2>6, <2>7, <2>8, <2>9, <2>10, <2>11 DEF Inv
<1>2. CASE /\ Becomes(outer, Released(atts[outer])) /\ outer' = 0
           /\ Answer("own") /\ Goto("done")
    BY <1>2, ArmedLostKeeps DEF ArmedCheck, planVars, bodyVars
<1> QED
    BY <1>1, <1>2 DEF ArmedCheck

\* The transport gives back an answer or an error: the attempt is in hand.
LEMMA SendReturnsKeeps ==
    ASSUME TypeOK, Roles, Owned, Books, Honest, Order, Counts, Replays, Passes, Bytes,
           Heads, SendReturns
    PROVE  Inv'
<1> PICK o \in NoAnswers \cup Answers : Becomes(Last, Returned(atts[Last], o))
    BY DEF SendReturns
<1> DEFINE b == Returned(atts[Last], o)
<1>1. Last \in DOMAIN atts /\ atts[Last] \in Attempts
    BY DEF SendReturns, TypeOK, Roles, Last
<1>2. /\ b \in Attempts /\ b.route = atts[Last].route /\ b.held = atts[Last].held
      /\ b.obs = atts[Last].obs /\ b.sent = atts[Last].sent /\ b.conn = o.conn
      /\ b.status = o.status /\ b.err = o.err /\ b.peek = atts[Last].peek
      /\ b.ended = atts[Last].ended /\ b.row = atts[Last].row /\ b.risk = atts[Last].risk
      /\ b.pass = atts[Last].pass
    BY <1>1, ReturnedFields
<1>3. /\ atts' \in Seq(Attempts) /\ Len(atts') = Len(atts)
      /\ DOMAIN atts' = DOMAIN atts /\ atts'[Last] = b
      /\ \A j \in DOMAIN atts : j # Last => atts'[j] = atts[j]
    BY <1>1, <1>2, UpdateAt
<1>4. /\ \A j \in DOMAIN atts :
            /\ atts'[j].route = atts[j].route /\ atts'[j].held = atts[j].held
            /\ atts'[j].obs = atts[j].obs /\ atts'[j].sent = atts[j].sent
            /\ atts'[j].peek = atts[j].peek /\ atts'[j].ended = atts[j].ended
            /\ atts'[j].row = atts[j].row /\ atts'[j].risk = atts[j].risk
            /\ atts'[j].pass = atts[j].pass
      /\ \A j \in DOMAIN atts : j # Last =>
            /\ atts'[j].status = atts[j].status /\ atts'[j].err = atts[j].err
            /\ atts'[j].conn = atts[j].conn
      /\ atts'[Last].status = o.status /\ atts'[Last].err = o.err /\ atts'[Last].conn = o.conn
    BY <1>2, <1>3
<1> HIDE DEF b
<1>5. /\ Len(atts) \in Nat /\ DOMAIN atts = 1 .. Len(atts)
      /\ {live, outer, inner, armed} \subseteq 0 .. Len(atts)
    BY DEF TypeOK
<1>6. /\ pc = "send" /\ pc' = "judge" /\ sends' = sends + 1
      /\ live' = Last /\ outer' = Last /\ inner' = 0
      /\ UNCHANGED <<req, pass, client, expired, panicked>>
      /\ UNCHANGED <<buffer, taken, out>>
      /\ UNCHANGED <<armed, tried, skips, heads>>
    BY DEF SendReturns, Goto, planVars, bodyVars
<1>7. /\ o.err = "unbuilt" => o.conn = FALSE
      /\ o.err = "total" => expired
      /\ o.err = "canceled" => ~client
      /\ o.err \notin {"clientGone", "stream", "local"}
      /\ o.status = "none" => o.err # "none"
    BY DEF NoAnswers, Answers
<1>8. TypeOK'
    BY <1>1, <1>3, <1>4, <1>5, <1>6 DEF TypeOK
<1>9. Roles'
    BY <1>1, <1>3, <1>4, <1>5, <1>6 DEF Last, Roles
<1>10. Owned'
    BY <1>1, <1>3, <1>4, <1>5, <1>6 DEF Last, Owned, Roles
<1>11. Books'
    BY <1>1, <1>3, <1>4, <1>5, <1>6 DEF Last, Books, InHand, Roles
<1>12. Honest'
    BY <1>1, <1>3, <1>4, <1>5, <1>6, <1>7 DEF Last, Honest, Order
<1>13. Order'
    BY <1>1, <1>3, <1>4, <1>5, <1>6 DEF Last, Order, Roles
<1>14. Counts'
    <2>1. Sent' = Sent
        BY <1>1, <1>3, <1>4 DEF Sent
    <2> QED
        BY <2>1, SentIsFinite, <1>5, <1>6 DEF Counts, Order, TypeOK
<1>15. Replays'
    BY <1>1, <1>3, <1>4, <1>5, <1>6, <1>7 DEF Last, Replays, Order, Roles, MayReplay
<1>16. Passes'
    BY <1>1, <1>3, <1>4, <1>5, <1>6 DEF Last, Passes, Roles
<1>17. Bytes'
    BY <1>1, <1>3, <1>4, <1>5, <1>6 DEF Bytes
<1>18. Heads'
    BY <1>1, <1>3, <1>4, <1>5, <1>6, <1>7
       DEF Last, Heads, Roles, CanCommit, Sent, Order, Honest
<1> QED
    BY <1>8, <1>9, <1>10, <1>11, <1>12, <1>13, <1>14, <1>15, <1>16, <1>17, <1>18
       DEF Inv
\* The first bytes of the answer are there.
LEMMA PeekStartsKeeps ==
    ASSUME TypeOK, Roles, Owned, Books, Honest, Order, Counts, Replays, Passes, Bytes,
           Heads,
           pc = "judge", sends < req.max,
           atts[live].status = "2xx", atts[live].peek = "no",
           Becomes(live, Peeked(atts[live], "prefix")), taken' = 1, buffer' = << 1 >>,
           UNCHANGED <<req, pass, client, expired, panicked>>,
           UNCHANGED <<pc, live, outer, inner, armed, tried, sends, skips, heads, out>>
    PROVE  Inv'
<1> DEFINE b == Peeked(atts[live], "prefix")
<1>1. live \in DOMAIN atts /\ atts[live] \in Attempts /\ live \in Nat
    BY DEF TypeOK, Roles
<1>2. /\ b \in Attempts /\ b.route = atts[live].route /\ b.held = atts[live].held
      /\ b.obs = atts[live].obs /\ b.sent = atts[live].sent /\ b.conn = atts[live].conn
      /\ b.status = atts[live].status /\ b.err = atts[live].err /\ b.peek = "prefix"
      /\ b.ended = atts[live].ended /\ b.row = atts[live].row /\ b.risk = atts[live].risk
      /\ b.pass = atts[live].pass
    BY <1>1, PeekedFields
<1>3. /\ atts' \in Seq(Attempts) /\ Len(atts') = Len(atts)
      /\ DOMAIN atts' = DOMAIN atts /\ atts'[live] = b
      /\ \A j \in DOMAIN atts : j # live => atts'[j] = atts[j]
    BY <1>1, <1>2, UpdateAt
<1>4. /\ \A j \in DOMAIN atts :
            /\ atts'[j].route = atts[j].route /\ atts'[j].held = atts[j].held
            /\ atts'[j].obs = atts[j].obs /\ atts'[j].sent = atts[j].sent
            /\ atts'[j].conn = atts[j].conn /\ atts'[j].status = atts[j].status
            /\ atts'[j].err = atts[j].err /\ atts'[j].ended = atts[j].ended
            /\ atts'[j].row = atts[j].row /\ atts'[j].risk = atts[j].risk
            /\ atts'[j].pass = atts[j].pass
      /\ \A j \in DOMAIN atts : j # live =>
            /\ atts'[j].peek = atts[j].peek
      /\ atts'[live].peek = "prefix"
    BY <1>2, <1>3
<1> HIDE DEF b
<1>5. /\ Len(atts) \in Nat /\ DOMAIN atts = 1 .. Len(atts)
      /\ {live, outer, inner, armed} \subseteq 0 .. Len(atts)
    BY DEF TypeOK
<1>6. /\ pc = "judge" /\ pc' = "judge" /\ sends < req.max
      /\ atts[live].status = "2xx" /\ atts[live].peek = "no"
      /\ taken' = 1 /\ buffer' = << 1 >>
      /\ UNCHANGED <<req, pass, client, expired, panicked>>
      /\ UNCHANGED <<live, outer, inner, armed, tried, sends, skips, heads, out>>
    OBVIOUS
<1>7. TypeOK'
    BY <1>1, <1>3, <1>4, <1>5, <1>6 DEF TypeOK
<1>8. Roles'
    BY <1>1, <1>3, <1>4, <1>5, <1>6 DEF Last, Roles
<1>9. Owned'
    BY <1>1, <1>3, <1>4, <1>5, <1>6 DEF Last, Owned, Roles
<1>10. Books'
    BY <1>1, <1>3, <1>4, <1>5, <1>6 DEF Last, Books, InHand, Roles
<1>11. Honest'
    BY <1>1, <1>3, <1>4, <1>5, <1>6 DEF Last, Honest, Order
<1>12. Order'
    BY <1>1, <1>3, <1>4, <1>5, <1>6 DEF Last, Order, Roles
<1>13. Counts'
    <2>1. Sent' = Sent
        BY <1>1, <1>3, <1>4 DEF Sent
    <2> QED
        BY <2>1, <1>5, <1>6 DEF Counts, Order
<1>14. Replays'
    BY <1>1, <1>3, <1>4, <1>5, <1>6 DEF Last, Replays, Order, Roles, MayReplay
<1>15. Passes'
    BY <1>1, <1>3, <1>4, <1>5, <1>6 DEF Last, Passes, Roles
<1>16. Bytes'
    BY <1>1, <1>3, <1>4, <1>5, <1>6 DEF Bytes
<1>17. Heads'
    BY <1>1, <1>3, <1>4, <1>5, <1>6 DEF Last, Heads, Roles, CanCommit, Sent, Order
<1> QED
    BY <1>7, <1>8, <1>9, <1>10, <1>11, <1>12, <1>13, <1>14, <1>15, <1>16, <1>17
       DEF Inv
\* Peek learns something of the answer and takes nothing from the wire.
LEMMA PeekNotesKeeps ==
    ASSUME TypeOK, Roles, Owned, Books, Honest, Order, Counts, Replays, Passes, Bytes,
           Heads,
           pc = "judge", sends < req.max,
           atts[live].status = "2xx", atts[live].peek = "no",
           NEW how \in {"empty", "pending"}, Becomes(live, Peeked(atts[live], how)),
           UNCHANGED <<req, pass, client, expired, panicked>>,
           UNCHANGED <<buffer, taken, out>>,
           UNCHANGED <<pc, live, outer, inner, armed, tried, sends, skips, heads>>
    PROVE  Inv'
<1> DEFINE b == Peeked(atts[live], how)
<1>1. live \in DOMAIN atts /\ atts[live] \in Attempts /\ live \in Nat
    BY DEF TypeOK, Roles
<1>2. /\ b \in Attempts /\ b.route = atts[live].route /\ b.held = atts[live].held
      /\ b.obs = atts[live].obs /\ b.sent = atts[live].sent /\ b.conn = atts[live].conn
      /\ b.status = atts[live].status /\ b.err = atts[live].err /\ b.peek = how
      /\ b.ended = atts[live].ended /\ b.row = atts[live].row /\ b.risk = atts[live].risk
      /\ b.pass = atts[live].pass
    BY <1>1, PeekedFields
<1>3. /\ atts' \in Seq(Attempts) /\ Len(atts') = Len(atts)
      /\ DOMAIN atts' = DOMAIN atts /\ atts'[live] = b
      /\ \A j \in DOMAIN atts : j # live => atts'[j] = atts[j]
    BY <1>1, <1>2, UpdateAt
<1>4. /\ \A j \in DOMAIN atts :
            /\ atts'[j].route = atts[j].route /\ atts'[j].held = atts[j].held
            /\ atts'[j].obs = atts[j].obs /\ atts'[j].sent = atts[j].sent
            /\ atts'[j].conn = atts[j].conn /\ atts'[j].status = atts[j].status
            /\ atts'[j].err = atts[j].err /\ atts'[j].ended = atts[j].ended
            /\ atts'[j].row = atts[j].row /\ atts'[j].risk = atts[j].risk
            /\ atts'[j].pass = atts[j].pass
      /\ \A j \in DOMAIN atts : j # live =>
            /\ atts'[j].peek = atts[j].peek
      /\ atts'[live].peek = how
    BY <1>2, <1>3
<1> HIDE DEF b
<1>5. /\ Len(atts) \in Nat /\ DOMAIN atts = 1 .. Len(atts)
      /\ {live, outer, inner, armed} \subseteq 0 .. Len(atts)
    BY DEF TypeOK
<1>6. /\ pc = "judge" /\ pc' = "judge" /\ sends < req.max
      /\ atts[live].status = "2xx" /\ atts[live].peek = "no"
      /\ UNCHANGED <<req, pass, client, expired, panicked>>
      /\ UNCHANGED <<buffer, taken, out>>
      /\ UNCHANGED <<live, outer, inner, armed, tried, sends, skips, heads>>
    OBVIOUS
<1>7. TypeOK'
    BY <1>1, <1>3, <1>4, <1>5, <1>6 DEF TypeOK
<1>8. Roles'
    BY <1>1, <1>3, <1>4, <1>5, <1>6 DEF Last, Roles
<1>9. Owned'
    BY <1>1, <1>3, <1>4, <1>5, <1>6 DEF Last, Owned, Roles
<1>10. Books'
    BY <1>1, <1>3, <1>4, <1>5, <1>6 DEF Last, Books, InHand, Roles
<1>11. Honest'
    BY <1>1, <1>3, <1>4, <1>5, <1>6 DEF Last, Honest, Order
<1>12. Order'
    BY <1>1, <1>3, <1>4, <1>5, <1>6 DEF Last, Order, Roles
<1>13. Counts'
    <2>1. Sent' = Sent
        BY <1>1, <1>3, <1>4 DEF Sent
    <2> QED
        BY <2>1, <1>5, <1>6 DEF Counts, Order
<1>14. Replays'
    BY <1>1, <1>3, <1>4, <1>5, <1>6 DEF Last, Replays, Order, Roles, MayReplay
<1>15. Passes'
    BY <1>1, <1>3, <1>4, <1>5, <1>6 DEF Last, Passes, Roles
<1>16. Bytes'
    BY <1>1, <1>3, <1>4, <1>5, <1>6 DEF Bytes
<1>17. Heads'
    BY <1>1, <1>3, <1>4, <1>5, <1>6 DEF Last, Heads, Roles, CanCommit, Sent, Order
<1> QED
    BY <1>7, <1>8, <1>9, <1>10, <1>11, <1>12, <1>13, <1>14, <1>15, <1>16, <1>17
       DEF Inv
\* Peek finds that there is nothing to commit.
LEMMA PeekFailsKeeps ==
    ASSUME TypeOK, Roles, Owned, Books, Honest, Order, Counts, Replays, Passes, Bytes,
           Heads,
           pc = "judge", sends < req.max,
           atts[live].status = "2xx", atts[live].peek = "no",
           NEW e \in {"first", "broke", "total", "canceled"},
           e = "total" => expired, e = "canceled" => ~client,
           Becomes(live, PeekFailed(atts[live], e)),
           UNCHANGED <<req, pass, client, expired, panicked>>,
           UNCHANGED <<buffer, taken, out>>,
           UNCHANGED <<pc, live, outer, inner, armed, tried, sends, skips, heads>>
    PROVE  Inv'
<1> DEFINE b == PeekFailed(atts[live], e)
<1>1. live \in DOMAIN atts /\ atts[live] \in Attempts /\ live \in Nat
    BY DEF TypeOK, Roles
<1>2. /\ b \in Attempts /\ b.route = atts[live].route /\ b.held = atts[live].held
      /\ b.obs = atts[live].obs /\ b.sent = atts[live].sent /\ b.conn = atts[live].conn
      /\ b.status = atts[live].status /\ b.err = e /\ b.peek = "broke"
      /\ b.ended = atts[live].ended /\ b.row = atts[live].row /\ b.risk = atts[live].risk
      /\ b.pass = atts[live].pass
    BY <1>1, PeekFailedFields DEF Errors
<1>3. /\ atts' \in Seq(Attempts) /\ Len(atts') = Len(atts)
      /\ DOMAIN atts' = DOMAIN atts /\ atts'[live] = b
      /\ \A j \in DOMAIN atts : j # live => atts'[j] = atts[j]
    BY <1>1, <1>2, UpdateAt
<1>4. /\ \A j \in DOMAIN atts :
            /\ atts'[j].route = atts[j].route /\ atts'[j].held = atts[j].held
            /\ atts'[j].obs = atts[j].obs /\ atts'[j].sent = atts[j].sent
            /\ atts'[j].conn = atts[j].conn /\ atts'[j].status = atts[j].status
            /\ atts'[j].ended = atts[j].ended /\ atts'[j].row = atts[j].row
            /\ atts'[j].risk = atts[j].risk /\ atts'[j].pass = atts[j].pass
      /\ \A j \in DOMAIN atts : j # live =>
            /\ atts'[j].peek = atts[j].peek /\ atts'[j].err = atts[j].err
      /\ atts'[live].peek = "broke" /\ atts'[live].err = e
    BY <1>2, <1>3
<1> HIDE DEF b
<1>5. /\ Len(atts) \in Nat /\ DOMAIN atts = 1 .. Len(atts)
      /\ {live, outer, inner, armed} \subseteq 0 .. Len(atts)
    BY DEF TypeOK
<1>6. /\ pc = "judge" /\ pc' = "judge" /\ sends < req.max
      /\ atts[live].status = "2xx" /\ atts[live].peek = "no"
      /\ UNCHANGED <<req, pass, client, expired, panicked>>
      /\ UNCHANGED <<buffer, taken, out>>
      /\ UNCHANGED <<live, outer, inner, armed, tried, sends, skips, heads>>
    OBVIOUS
<1>7. TypeOK'
    BY <1>1, <1>3, <1>4, <1>5, <1>6 DEF TypeOK
<1>8. Roles'
    BY <1>1, <1>3, <1>4, <1>5, <1>6 DEF Last, Roles
<1>9. Owned'
    BY <1>1, <1>3, <1>4, <1>5, <1>6 DEF Last, Owned, Roles
<1>10. Books'
    BY <1>1, <1>3, <1>4, <1>5, <1>6 DEF Last, Books, InHand, Roles
<1>11. Honest'
    BY <1>1, <1>3, <1>4, <1>5, <1>6 DEF Last, Honest, Order
<1>12. Order'
    BY <1>1, <1>3, <1>4, <1>5, <1>6 DEF Last, Order, Roles
<1>13. Counts'
    <2>1. Sent' = Sent
        BY <1>1, <1>3, <1>4 DEF Sent
    <2> QED
        BY <2>1, <1>5, <1>6 DEF Counts, Order
<1>14. Replays'
    BY <1>1, <1>3, <1>4, <1>5, <1>6 DEF Last, Replays, Order, Roles, MayReplay
<1>15. Passes'
    BY <1>1, <1>3, <1>4, <1>5, <1>6 DEF Last, Passes, Roles
<1>16. Bytes'
    BY <1>1, <1>3, <1>4, <1>5, <1>6 DEF Bytes
<1>17. Heads'
    BY <1>1, <1>3, <1>4, <1>5, <1>6 DEF Last, Heads, Roles, CanCommit, Sent, Order
<1> QED
    BY <1>7, <1>8, <1>9, <1>10, <1>11, <1>12, <1>13, <1>14, <1>15, <1>16, <1>17
       DEF Inv

\* Every outcome of the one bounded read.
LEMMA PeekKeeps ==
    ASSUME TypeOK, Roles, Owned, Books, Honest, Order, Counts, Replays, Passes, Bytes,
           Heads, Peek
    PROVE  Inv'
<1>1. /\ pc = "judge" /\ sends < req.max /\ UNCHANGED pc
      /\ atts[live].status = "2xx" /\ atts[live].peek = "no"
      /\ UNCHANGED <<req, pass, client, expired, panicked>>
      /\ UNCHANGED <<live, outer, inner, armed, tried, sends, skips, heads, out>>
    BY DEF Peek, planVars
<1>2. CASE /\ Becomes(live, Peeked(atts[live], "prefix"))
           /\ taken' = 1 /\ buffer' = << 1 >>
    BY <1>1, <1>2, PeekStartsKeeps
<1>3. CASE /\ \E how \in {"empty", "pending"} : Becomes(live, Peeked(atts[live], how))
           /\ UNCHANGED <<taken, buffer>>
    BY <1>1, <1>3, PeekNotesKeeps
<1>4. CASE /\ \E e \in {"first", "broke", "total", "canceled"} :
                 /\ e = "total" => expired
                 /\ e = "canceled" => ~client
                 /\ Becomes(live, PeekFailed(atts[live], e))
           /\ UNCHANGED <<taken, buffer>>
    BY <1>1, <1>4, PeekFailsKeeps
<1> QED
    BY <1>2, <1>3, <1>4 DEF Peek

\* Before the head an error of the answer becomes one of the gateway.
LEMMA FailBeforeHeadKeeps ==
    ASSUME TypeOK, Roles, Owned, Books, Honest, Order, Counts, Replays, Passes, Bytes,
           Heads, FailBeforeHead
    PROVE  Inv'
<1> PICK e \in {"canceled", "stream", "local"} :
          (e \in {"canceled", "clientGone"} => ~client) /\ Becomes(live, Ended(atts[live], e))
    BY DEF FailBeforeHead, EndsBy, End
<1> DEFINE b == Ended(atts[live], e)
<1>1. live \in DOMAIN atts /\ atts[live] \in Attempts /\ live \in Nat /\ e \in Errors
    BY DEF FailBeforeHead, TypeOK, Errors, Roles
<1>2. /\ b \in Attempts /\ b.route = atts[live].route /\ b.held = atts[live].held
      /\ b.obs = atts[live].obs /\ b.sent = atts[live].sent /\ b.conn = atts[live].conn
      /\ b.status = atts[live].status /\ b.err = e /\ b.peek = atts[live].peek
      /\ b.ended = TRUE /\ b.row = atts[live].row /\ b.risk = atts[live].risk
      /\ b.pass = atts[live].pass
    BY <1>1, EndedFields
<1>3. /\ atts' \in Seq(Attempts) /\ Len(atts') = Len(atts)
      /\ DOMAIN atts' = DOMAIN atts /\ atts'[live] = b
      /\ \A j \in DOMAIN atts : j # live => atts'[j] = atts[j]
    BY <1>1, <1>2, UpdateAt
<1>4. /\ \A j \in DOMAIN atts :
            /\ atts'[j].route = atts[j].route /\ atts'[j].held = atts[j].held
            /\ atts'[j].obs = atts[j].obs /\ atts'[j].sent = atts[j].sent
            /\ atts'[j].conn = atts[j].conn /\ atts'[j].status = atts[j].status
            /\ atts'[j].peek = atts[j].peek /\ atts'[j].row = atts[j].row
            /\ atts'[j].risk = atts[j].risk /\ atts'[j].pass = atts[j].pass
      /\ \A j \in DOMAIN atts : j # live =>
            /\ atts'[j].ended = atts[j].ended /\ atts'[j].err = atts[j].err
      /\ atts'[live].ended = TRUE /\ atts'[live].err = e
    BY <1>2, <1>3
<1> HIDE DEF b
<1>5. /\ Len(atts) \in Nat /\ DOMAIN atts = 1 .. Len(atts)
      /\ {live, outer, inner, armed} \subseteq 0 .. Len(atts)
    BY DEF TypeOK
<1>6. /\ pc = "commit" /\ pc' = "report"
      /\ UNCHANGED <<req, pass, client, expired, panicked>>
      /\ UNCHANGED <<buffer, taken, out>>
      /\ UNCHANGED <<live, outer, inner, armed, tried, sends, skips, heads>>
    BY DEF FailBeforeHead, Goto, planVars, bodyVars
<1>7. TypeOK'
    BY <1>1, <1>3, <1>4, <1>5, <1>6 DEF TypeOK
<1>8. Roles'
    BY <1>1, <1>3, <1>4, <1>5, <1>6 DEF Last, Roles
<1>9. Owned'
    BY <1>1, <1>3, <1>4, <1>5, <1>6 DEF Last, Owned, Roles
<1>10. Books'
    BY <1>1, <1>3, <1>4, <1>5, <1>6 DEF Last, Books, InHand, Roles
<1>11. Honest'
    BY <1>1, <1>3, <1>4, <1>5, <1>6 DEF Last, Honest, Order
<1>12. Order'
    BY <1>1, <1>3, <1>4, <1>5, <1>6 DEF Last, Order, Roles
<1>13. Counts'
    <2>1. Sent' = Sent
        BY <1>1, <1>3, <1>4 DEF Sent
    <2> QED
        BY <2>1, <1>5, <1>6 DEF Counts, Order
<1>14. Replays'
    BY <1>1, <1>3, <1>4, <1>5, <1>6
       DEF Last, Replays, Order, Roles, MayReplay, Honest
<1>15. Passes'
    BY <1>1, <1>3, <1>4, <1>5, <1>6 DEF Last, Passes, Roles
<1>16. Bytes'
    BY <1>1, <1>3, <1>4, <1>5, <1>6 DEF Bytes
<1>17. Heads'
    BY <1>1, <1>3, <1>4, <1>5, <1>6 DEF Last, Heads, Roles, CanCommit, Sent, Order
<1> QED
    BY <1>7, <1>8, <1>9, <1>10, <1>11, <1>12, <1>13, <1>14, <1>15, <1>16, <1>17
       DEF Inv

\* The stream ends, well or not.
LEMMA StreamEndsKeeps ==
    ASSUME TypeOK, Roles, Owned, Books, Honest, Order, Counts, Replays, Passes, Bytes,
           Heads, StreamEnds
    PROVE  Inv'
<1> PICK e \in {"none", "stream", "clientGone"} :
          (e \in {"canceled", "clientGone"} => ~client) /\ Becomes(live, Ended(atts[live], e))
    BY DEF StreamEnds, EndsBy, End
<1> DEFINE b == Ended(atts[live], e)
<1>1. live \in DOMAIN atts /\ atts[live] \in Attempts /\ live \in Nat /\ e \in Errors
    BY DEF StreamEnds, TypeOK, Errors, Roles
<1>2. /\ b \in Attempts /\ b.route = atts[live].route /\ b.held = atts[live].held
      /\ b.obs = atts[live].obs /\ b.sent = atts[live].sent /\ b.conn = atts[live].conn
      /\ b.status = atts[live].status /\ b.err = e /\ b.peek = atts[live].peek
      /\ b.ended = TRUE /\ b.row = atts[live].row /\ b.risk = atts[live].risk
      /\ b.pass = atts[live].pass
    BY <1>1, EndedFields
<1>3. /\ atts' \in Seq(Attempts) /\ Len(atts') = Len(atts)
      /\ DOMAIN atts' = DOMAIN atts /\ atts'[live] = b
      /\ \A j \in DOMAIN atts : j # live => atts'[j] = atts[j]
    BY <1>1, <1>2, UpdateAt
<1>4. /\ \A j \in DOMAIN atts :
            /\ atts'[j].route = atts[j].route /\ atts'[j].held = atts[j].held
            /\ atts'[j].obs = atts[j].obs /\ atts'[j].sent = atts[j].sent
            /\ atts'[j].conn = atts[j].conn /\ atts'[j].status = atts[j].status
            /\ atts'[j].peek = atts[j].peek /\ atts'[j].row = atts[j].row
            /\ atts'[j].risk = atts[j].risk /\ atts'[j].pass = atts[j].pass
      /\ \A j \in DOMAIN atts : j # live =>
            /\ atts'[j].ended = atts[j].ended /\ atts'[j].err = atts[j].err
      /\ atts'[live].ended = TRUE /\ atts'[live].err = e
    BY <1>2, <1>3
<1> HIDE DEF b
<1>5. /\ Len(atts) \in Nat /\ DOMAIN atts = 1 .. Len(atts)
      /\ {live, outer, inner, armed} \subseteq 0 .. Len(atts)
    BY DEF TypeOK
<1>6. /\ pc = "stream" /\ pc' = "report"
      /\ UNCHANGED <<req, pass, client, expired, panicked>>
      /\ UNCHANGED <<buffer, taken, out>>
      /\ UNCHANGED <<live, outer, inner, armed, tried, sends, skips, heads>>
    BY DEF StreamEnds, Goto, planVars, bodyVars
<1>7. TypeOK'
    BY <1>1, <1>3, <1>4, <1>5, <1>6 DEF TypeOK
<1>8. Roles'
    BY <1>1, <1>3, <1>4, <1>5, <1>6 DEF Last, Roles
<1>9. Owned'
    BY <1>1, <1>3, <1>4, <1>5, <1>6 DEF Last, Owned, Roles
<1>10. Books'
    BY <1>1, <1>3, <1>4, <1>5, <1>6 DEF Last, Books, InHand, Roles
<1>11. Honest'
    BY <1>1, <1>3, <1>4, <1>5, <1>6 DEF Last, Honest, Order
<1>12. Order'
    BY <1>1, <1>3, <1>4, <1>5, <1>6 DEF Last, Order, Roles
<1>13. Counts'
    <2>1. Sent' = Sent
        BY <1>1, <1>3, <1>4 DEF Sent
    <2> QED
        BY <2>1, <1>5, <1>6 DEF Counts, Order
<1>14. Replays'
    BY <1>1, <1>3, <1>4, <1>5, <1>6
       DEF Last, Replays, Order, Roles, MayReplay, Honest
<1>15. Passes'
    BY <1>1, <1>3, <1>4, <1>5, <1>6 DEF Last, Passes, Roles
<1>16. Bytes'
    BY <1>1, <1>3, <1>4, <1>5, <1>6 DEF Bytes
<1>17. Heads'
    BY <1>1, <1>3, <1>4, <1>5, <1>6 DEF Last, Heads, Roles, CanCommit, Sent, Order
<1> QED
    BY <1>7, <1>8, <1>9, <1>10, <1>11, <1>12, <1>13, <1>14, <1>15, <1>16, <1>17
       DEF Inv

\* The answer in hand is given up and the replacement goes out.
LEMMA ReplacementSentKeeps ==
    ASSUME TypeOK, Roles, Owned, Books, Honest, Order, Counts, Replays, Passes, Bytes,
           Heads, ReplacementSent
    PROVE  Inv'
<1> DEFINE a == Retried(atts[live])
           b == Dispatched(atts[Last])
<1>1. /\ live \in DOMAIN atts /\ atts[live] \in Attempts /\ live \in Nat
      /\ Last \in DOMAIN atts /\ atts[Last] \in Attempts /\ live < Last
    BY DEF ReplacementSent, Replacing, TypeOK, Roles, Last
<1>2. /\ a \in Attempts
      /\ a.obs = "finished" /\ a.held = FALSE /\ a.row = "retried" /\ a.ended = TRUE
      /\ a.risk = (~SafeEvidence(atts[live]))
      /\ b \in Attempts
      /\ b.obs = "open" /\ b.held = atts[Last].held /\ b.row = atts[Last].row
      /\ b.ended = atts[Last].ended /\ b.risk = atts[Last].risk /\ b.sent = TRUE
    BY <1>1, RetriedFields, DispatchedFields
<1>3. /\ a.route = atts[live].route /\ a.sent = atts[live].sent
      /\ a.conn = atts[live].conn /\ a.status = atts[live].status
      /\ a.err = atts[live].err /\ a.peek = atts[live].peek /\ a.pass = atts[live].pass
      /\ b.route = atts[Last].route /\ b.conn = atts[Last].conn
      /\ b.status = atts[Last].status /\ b.err = atts[Last].err
      /\ b.peek = atts[Last].peek /\ b.pass = atts[Last].pass
    BY <1>1, RetriedFields, DispatchedFields
<1>4. atts' = [atts EXCEPT ![live] = a, ![Last] = b]
    BY DEF ReplacementSent
<1> HIDE DEF a, b
<1>5. /\ atts' \in Seq(Attempts) /\ Len(atts') = Len(atts)
      /\ DOMAIN atts' = DOMAIN atts /\ atts'[live] = a /\ atts'[Last] = b
      /\ \A j \in DOMAIN atts : j # live /\ j # Last => atts'[j] = atts[j]
    BY <1>1, <1>2, <1>4 DEF TypeOK
<1>6. /\ \A j \in DOMAIN atts :
            /\ atts'[j].route = atts[j].route /\ atts'[j].conn = atts[j].conn
            /\ atts'[j].status = atts[j].status /\ atts'[j].err = atts[j].err
            /\ atts'[j].peek = atts[j].peek /\ atts'[j].pass = atts[j].pass
      /\ \A j \in DOMAIN atts : j # Last => atts'[j].sent = atts[j].sent
      /\ \A j \in DOMAIN atts : j # live =>
            /\ atts'[j].held = atts[j].held /\ atts'[j].row = atts[j].row
            /\ atts'[j].ended = atts[j].ended /\ atts'[j].risk = atts[j].risk
      /\ \A j \in DOMAIN atts : j # live /\ j # Last => atts'[j].obs = atts[j].obs
      /\ atts'[live].obs = "finished" /\ atts'[live].held = FALSE
      /\ atts'[live].row = "retried" /\ atts'[live].ended = TRUE
      /\ atts'[live].risk = (~SafeEvidence(atts[live]))
      /\ atts'[Last].obs = "open" /\ atts'[Last].sent = TRUE
    BY <1>2, <1>3, <1>5
<1>7. /\ Len(atts) \in Nat /\ DOMAIN atts = 1 .. Len(atts)
      /\ {live, outer, inner, armed} \subseteq 0 .. Len(atts)
    BY DEF TypeOK
<1>8. /\ pc = "prepare" /\ live # 0 /\ pc' = "send"
      /\ outer' = 0 /\ live' = 0 /\ buffer' = <<>> /\ taken' = 0
      /\ UNCHANGED <<req, pass, client, expired, panicked>>
      /\ UNCHANGED <<inner, armed, tried, sends, skips, heads, out>>
    BY DEF ReplacementSent, Replacing, Goto, planVars
<1>9. atts[live].conn => atts'[live].risk
    BY <1>1, <1>6 DEF SafeEvidence, Honest
<1>10. \A i \in DOMAIN atts : atts[i].sent => i <= live
    BY <1>1, <1>8 DEF Order
<1>11. TypeOK'
    BY <1>1, <1>5, <1>6, <1>7, <1>8, <1>10 DEF TypeOK
<1>12. Roles'
    BY <1>1, <1>5, <1>6, <1>7, <1>8, <1>10 DEF Last, Roles
<1>13. Owned'
    BY <1>1, <1>5, <1>6, <1>7, <1>8, <1>10 DEF Last, Owned, Roles
<1>14. Books'
    BY <1>1, <1>5, <1>6, <1>7, <1>8, <1>10 DEF Last, Books, InHand, Roles
<1>15. Honest'
    BY <1>1, <1>5, <1>6, <1>7, <1>8, <1>10 DEF Last, Honest
<1>16. Order'
    BY <1>1, <1>5, <1>6, <1>7, <1>8, <1>10 DEF Last, Order, Roles
<1>17. Counts'
    <2>1. Sent' = Sent \cup {Last} /\ IsFiniteSet(Sent) /\ Cardinality(Sent) \in Nat
        BY <1>1, <1>5, <1>6, SentIsFinite DEF Sent
    <2>2. Cardinality(Sent') <= Cardinality(Sent) + 1 /\ Cardinality(Sent') \in Nat
        BY <2>1, FS_AddElement
    <2> QED
        BY <2>1, <2>2, <1>7, <1>8 DEF Counts, Order, Roles, TypeOK
<1>18. Replays'
    BY <1>1, <1>5, <1>6, <1>7, <1>8, <1>10, <1>9
       DEF Last, Replays, Order, Roles, MayReplay
<1>19. Passes'
    BY <1>1, <1>5, <1>6, <1>7, <1>8, <1>10 DEF Last, Passes, Roles
<1>20. Bytes'
    BY <1>1, <1>5, <1>6, <1>7, <1>8, <1>10 DEF Bytes
<1>21. Heads'
    BY <1>1, <1>5, <1>6, <1>7, <1>8, <1>10
       DEF Last, Heads, Roles, CanCommit, Sent, Order
<1> QED
    BY <1>11, <1>12, <1>13, <1>14, <1>15, <1>16, <1>17, <1>18, <1>19, <1>20, <1>21
       DEF Inv

\* A read of the answer reaches the client in its place.
LEMMA DeliverKeeps ==
    ASSUME TypeOK, Roles, Owned, Books, Honest, Order, Counts, Replays, Passes, Bytes,
           Heads, Deliver
    PROVE  Inv'
<1>1. /\ pc = "stream" /\ UNCHANGED <<req, pass, client, expired, panicked>>
      /\ UNCHANGED <<pc, atts, live, outer, inner, armed, tried, sends, skips, heads>>
    BY DEF Deliver, planVars
<1>2. /\ buffer' \in Seq(Nat) /\ out' \in Seq(Nat) /\ taken' \in Nat
      /\ \A k \in 1 .. Len(out') : out'[k] = k
      /\ \A k \in 1 .. Len(buffer') : buffer'[k] = Len(out') + k
      /\ taken' = Len(out') + Len(buffer')
    <2>1. CASE buffer # <<>> /\ out' = Append(out, Head(buffer))
               /\ buffer' = Tail(buffer) /\ UNCHANGED taken
        <3>1. /\ Len(buffer) \in Nat \ {0} /\ Head(buffer) = buffer[1]
              /\ Head(buffer) \in Nat /\ Head(buffer) = Len(out) + 1
              /\ Len(out) \in Nat
            BY <2>1 DEF TypeOK, Bytes
        <3>2. /\ buffer' \in Seq(Nat) /\ Len(buffer') = Len(buffer) - 1
              /\ \A k \in 1 .. Len(buffer') : buffer'[k] = buffer[k + 1]
            BY <2>1 DEF TypeOK
        <3>3. /\ out' \in Seq(Nat) /\ Len(out') = Len(out) + 1
              /\ out'[Len(out) + 1] = Len(out) + 1
              /\ \A k \in 1 .. Len(out) : out'[k] = out[k]
            BY <2>1, <3>1 DEF TypeOK
        <3> QED
            BY <2>1, <3>1, <3>2, <3>3 DEF Bytes, TypeOK
    <2>2. CASE buffer = <<>> /\ taken' = taken + 1 /\ out' = Append(out, taken')
               /\ UNCHANGED buffer
        <3>1. /\ Len(buffer) = 0 /\ taken = Len(out) /\ Len(out) \in Nat
            BY <2>2 DEF TypeOK, Bytes
        <3>2. /\ out' \in Seq(Nat) /\ Len(out') = Len(out) + 1
              /\ out'[Len(out) + 1] = Len(out) + 1
              /\ \A k \in 1 .. Len(out) : out'[k] = out[k]
            BY <2>2, <3>1 DEF TypeOK
        <3> QED
            BY <2>2, <3>1, <3>2 DEF Bytes, TypeOK
    <2> QED
        BY <2>1, <2>2 DEF Deliver
<1>3. TypeOK'
    BY <1>1, <1>2 DEF TypeOK
<1>4. Roles'
    BY <1>1 DEF Last, Roles
<1>5. Owned'
    BY <1>1 DEF Last, Owned, Roles
<1>6. Books'
    BY <1>1 DEF Last, Books, InHand, Roles
<1>7. Honest'
    BY <1>1 DEF Last, Honest
<1>8. Order'
    BY <1>1 DEF Last, Order, Roles
<1>9. Counts'
    BY <1>1 DEF Counts, Order, Sent
<1>10. Replays'
    BY <1>1 DEF Last, Replays, Order, Roles, MayReplay
<1>11. Passes'
    BY <1>1 DEF Last, Passes, Roles
<1>12. Bytes'
    BY <1>1, <1>2 DEF Bytes
<1>13. Heads'
    BY <1>1 DEF Last, Heads, Roles, CanCommit, Sent, Order
<1> QED
    BY <1>3, <1>4, <1>5, <1>6, <1>7, <1>8, <1>9, <1>10, <1>11, <1>12, <1>13 DEF Inv

\* The pass ends: the next one, or the gateway's estimate.
LEMMA CountPassEndsKeeps ==
    ASSUME TypeOK, Roles, Owned, Books, Honest, Order, Counts, Replays, Passes, Bytes,
           Heads, CountPassEnds
    PROVE  Inv'
<1>1. /\ pc = "count" /\ heads = <<>> /\ req.kind = "count"
      /\ UNCHANGED <<req, client, expired, panicked, buffer, taken, out>>
      /\ UNCHANGED <<live, inner, armed, skips, atts, outer, tried, sends>>
    BY DEF CountPassEnds, countSame, bodyVars, Heads, Roles
<1>2. \/ pc' = pc /\ heads' = heads /\ pass' = "unknown"
      \/ pc' = "done" /\ heads' = <<"own">> /\ heads' # <<>> /\ pass' = pass
    BY <1>1, AnswerOnce DEF CountPassEnds, Goto
<1>3. heads' \in Seq({"own", "upstream"})
    BY <1>1, AnswerOnce DEF CountPassEnds, TypeOK
<1>4. /\ live = 0 /\ 0 \notin DOMAIN atts
    BY <1>1 DEF Roles, TypeOK
<1>5. TypeOK'
    BY <1>1, <1>2, <1>3 DEF TypeOK
<1>6. Roles'
    BY <1>1, <1>2 DEF Last, Roles
<1>7. Owned'
    BY <1>1, <1>2 DEF Last, Owned, Roles
<1>8. Books'
    BY <1>1, <1>2, <1>4 DEF Last, Books, InHand, Roles
<1>9. Honest'
    BY <1>1, <1>2 DEF Last, Honest
<1>10. Order'
    BY <1>1, <1>2 DEF Last, Order, Roles
<1>11. Counts'
    BY <1>1, <1>2 DEF Counts, Order, Sent
<1>12. Replays'
    BY <1>1, <1>2 DEF Last, Replays, Order, Roles, MayReplay
<1>13. Passes'
    BY <1>1, <1>2 DEF Last, Passes, Roles
<1>14. Bytes'
    BY <1>1, <1>2 DEF Bytes
<1>15. Heads'
    BY <1>1, <1>2 DEF Last, Heads, Roles, CanCommit, Sent, Order
<1> QED
    BY <1>5, <1>6, <1>7, <1>8, <1>9, <1>10, <1>11, <1>12, <1>13, <1>14, <1>15
       DEF Inv

\* A count_tokens attempt has come back: its row is final and the rows before
\* it are retried ones, whatever is told to the client.
LEMMA CountedKeeps ==
    ASSUME TypeOK, Roles, Owned, Books, Honest, Order, Counts, Replays, Passes, Bytes,
           Heads, NEW s \in Statuses, Counted(s),
           UNCHANGED <<req, pass, client, expired, panicked>>,
           UNCHANGED <<buffer, taken, out>>,
           UNCHANGED <<live, inner, armed, skips, tried, sends>>,
           \/ pc' = "done" /\ heads' \in {<<"own">>, <<"upstream">>} /\ heads' # <<>>
           \/ pc' = "done" /\ heads' = heads /\ ~client
           \/ pc' = "count" /\ heads' = heads /\ pass # "unknown",
           heads' \in Seq({"own", "upstream"})
    PROVE  Inv'
<1>1. /\ Last \in DOMAIN atts /\ Len(atts) \in Nat /\ DOMAIN atts = 1 .. Len(atts)
      /\ {live, outer, inner, armed} \subseteq 0 .. Len(atts)
      /\ \A j \in DOMAIN atts : atts[j] \in Attempts
    BY DEF Counted, TypeOK, Roles, Last
<1>2. /\ pc = "countSend" /\ outer' = 0 /\ live = 0 /\ inner = 0 /\ outer = Last
      /\ heads = <<>> /\ req.kind = "count" /\ pass' = pass
    BY DEF Counted, Roles, Heads
<1>3. /\ atts'[Last] = Tallied(atts[Last], s)
      /\ Tallied(atts[Last], s) \in Attempts
      /\ \A j \in DOMAIN atts : j # Last => atts'[j] = Superseded(atts[j])
      /\ \A j \in DOMAIN atts : Superseded(atts[j]) \in Attempts
    BY <1>1, TalliedFields, SupersededFields DEF Counted
<1>4. /\ DOMAIN atts' = DOMAIN atts /\ Len(atts') = Len(atts) /\ atts' \in Seq(Attempts)
    <2>1. \A j \in DOMAIN atts : atts'[j] \in Attempts
        BY <1>1, <1>3
    <2>2. atts' = [j \in 1 .. Len(atts) |-> atts'[j]]
        BY <1>1 DEF Counted
    <2> QED
        BY <1>1, <2>1, <2>2
<1>5. /\ \A j \in DOMAIN atts :
            /\ atts'[j].route = atts[j].route /\ atts'[j].sent = atts[j].sent
            /\ atts'[j].err = atts[j].err /\ atts'[j].peek = atts[j].peek
            /\ atts'[j].pass = atts[j].pass
      /\ \A j \in DOMAIN atts : j # Last =>
            /\ atts'[j].held = atts[j].held /\ atts'[j].obs = atts[j].obs
            /\ atts'[j].ended = atts[j].ended /\ atts'[j].conn = atts[j].conn
            /\ atts'[j].row \in {atts[j].row, "retried"}
      /\ ~atts'[Last].held /\ atts'[Last].obs = "finished" /\ atts'[Last].ended
      /\ atts'[Last].row = "final"
    <2>1. \A j \in DOMAIN atts : j # Last =>
            /\ atts'[j].route = atts[j].route /\ atts'[j].sent = atts[j].sent
            /\ atts'[j].err = atts[j].err /\ atts'[j].peek = atts[j].peek
            /\ atts'[j].pass = atts[j].pass
            /\ atts'[j].held = atts[j].held /\ atts'[j].obs = atts[j].obs
            /\ atts'[j].ended = atts[j].ended /\ atts'[j].conn = atts[j].conn
            /\ atts'[j].row \in {atts[j].row, "retried"}
        BY <1>1, <1>3, SupersededFields
    <2>2. PICK l \in DOMAIN atts : l = Last
        BY <1>1
    <2>3. /\ Tallied(atts[l], s).route = atts[l].route
          /\ Tallied(atts[l], s).sent = atts[l].sent
          /\ Tallied(atts[l], s).err = atts[l].err
          /\ Tallied(atts[l], s).peek = atts[l].peek
          /\ Tallied(atts[l], s).pass = atts[l].pass
          /\ Tallied(atts[l], s).held = FALSE /\ Tallied(atts[l], s).obs = "finished"
          /\ Tallied(atts[l], s).ended = TRUE /\ Tallied(atts[l], s).row = "final"
        BY <1>1, <2>2, TalliedFields
    <2>4. /\ atts'[Last].route = atts[Last].route /\ atts'[Last].sent = atts[Last].sent
          /\ atts'[Last].err = atts[Last].err /\ atts'[Last].peek = atts[Last].peek
          /\ atts'[Last].pass = atts[Last].pass
          /\ atts'[Last].held = FALSE /\ atts'[Last].obs = "finished"
          /\ atts'[Last].ended = TRUE /\ atts'[Last].row = "final"
        BY <1>3, <2>2, <2>3
    <2> QED
        BY <1>1, <2>1, <2>4
<1>6. TypeOK'
    BY <1>1, <1>2, <1>4, <1>5 DEF TypeOK
<1>7. Roles'
    BY <1>1, <1>2, <1>4, <1>5 DEF Last, Roles
<1>8. Owned'
    BY <1>1, <1>2, <1>4, <1>5 DEF Last, Owned, Roles
<1>9. Books'
    BY <1>1, <1>2, <1>4, <1>5 DEF Last, Books, InHand, Roles
<1>10. Honest'
    BY <1>1, <1>2, <1>4, <1>5 DEF Last, Honest
<1>11. Order'
    BY <1>1, <1>2, <1>4, <1>5 DEF Last, Order, Roles
<1>12. Counts'
    <2>1. Sent' = Sent
        BY <1>1, <1>4, <1>5 DEF Sent
    <2> QED
        BY <2>1, <1>2 DEF Counts, Order
<1>13. Replays'
    BY <1>1, <1>2, <1>4, <1>5 DEF Last, Replays, Order, Roles, MayReplay
<1>14. Passes'
    <2>1. pass # "unknown" => \A j \in DOMAIN atts : atts[j].pass = "supported"
        BY DEF Passes, TypeOK
    <2>2. /\ pass' = "supported" => \A i \in DOMAIN atts' : atts'[i].pass = "supported"
          /\ pc' = "count" => \A i \in DOMAIN atts' : atts'[i].pass # "unknown"
          /\ pc' \in {"count", "done"}
        BY <1>1, <1>2, <1>4, <1>5, <2>1 DEF Passes
    <2> QED
        BY <1>1, <1>2, <1>4, <1>5, <2>2 DEF Passes
<1>15. Bytes'
    BY <1>1, <1>2, <1>4, <1>5 DEF Bytes
<1>16. Heads'
    BY <1>1, <1>2, <1>4, <1>5 DEF Last, Heads, Roles, CanCommit, Sent, Order
<1> QED
    BY <1>6, <1>7, <1>8, <1>9, <1>10, <1>11, <1>12, <1>13, <1>14, <1>15, <1>16
       DEF Inv

\* The count is the upstream's.
LEMMA CountAnsweredKeeps ==
    ASSUME TypeOK, Roles, Owned, Books, Honest, Order, Counts, Replays, Passes, Bytes,
           Heads, CountAnswered
    PROVE  Inv'
<1>1. heads = <<>>
    BY DEF CountAnswered, Counted, Heads
<1>2. heads' = <<"upstream">> /\ heads' # <<>> /\ heads' \in Seq({"own", "upstream"})
    BY <1>1, AnswerOnce DEF CountAnswered
<1> QED
    BY <1>2, CountedKeeps
       DEF CountAnswered, Statuses, Goto, planVars, countSame, bodyVars

\* Nobody is left to answer.
LEMMA CountAbandonedKeeps ==
    ASSUME TypeOK, Roles, Owned, Books, Honest, Order, Counts, Replays, Passes, Bytes,
           Heads, CountAbandoned
    PROVE  Inv'
<1>1. heads' \in Seq({"own", "upstream"})
    BY DEF CountAbandoned, TypeOK
<1> QED
    BY <1>1, CountedKeeps
       DEF CountAbandoned, Statuses, Goto, planVars, countSame, bodyVars

\* The next candidate, or the gateway's estimate after a route of unknown ability.
LEMMA CountRefusedKeeps ==
    ASSUME TypeOK, Roles, Owned, Books, Honest, Order, Counts, Replays, Passes, Bytes,
           Heads, CountRefused
    PROVE  Inv'
<1> PICK s \in Statuses : Counted(s)
    BY DEF CountRefused
<1>1. heads = <<>>
    BY DEF Counted, Heads
<1>2. /\ UNCHANGED <<req, pass, client, expired, panicked, buffer, taken, out>>
      /\ UNCHANGED <<live, inner, armed, skips, tried, sends>>
    BY DEF CountRefused, planVars, countSame, bodyVars
<1>3. CASE pass = "unknown"
    <2>1. /\ heads' = <<"own">> /\ heads' # <<>>
          /\ heads' \in Seq({"own", "upstream"}) /\ pc' = "done"
        BY <1>1, <1>3, AnswerOnce DEF CountRefused, Goto
    <2> QED
        BY <1>2, <2>1, CountedKeeps
<1>4. CASE pass # "unknown"
    <2>1. heads' = heads /\ pc' = "count" /\ heads' \in Seq({"own", "upstream"})
        BY <1>4 DEF CountRefused, Goto, TypeOK
    <2> QED
        BY <1>2, <1>4, <2>1, CountedKeeps
<1> QED
    BY <1>3, <1>4

\* A panic unwinds: the deferred calls give the leases back and tell the
\* observers.
LEMMA PanicKeeps ==
    ASSUME TypeOK, Roles, Owned, Books, Honest, Order, Counts, Replays, Passes, Bytes,
           Heads, Panic
    PROVE  Inv'
<1>1. /\ Len(atts) \in Nat /\ DOMAIN atts = 1 .. Len(atts)
      /\ {live, outer, inner, armed} \subseteq 0 .. Len(atts)
      /\ \A j \in DOMAIN atts : atts[j] \in Attempts
    BY DEF TypeOK
<1>2. /\ pc # "start" /\ pc # "done" /\ pc' = "done"
      /\ panicked' = TRUE /\ outer' = 0 /\ inner' = 0
      /\ UNCHANGED <<req, pass, client, expired>>
      /\ UNCHANGED <<buffer, taken, out>>
      /\ UNCHANGED <<live, armed, tried, sends, skips, heads>>
    BY DEF Panic, Goto, bodyVars
<1>3. \A j \in DOMAIN atts : atts'[j] = Unwound(j, atts[j])
    BY DEF Panic
<1>4. /\ DOMAIN atts' = DOMAIN atts /\ Len(atts') = Len(atts) /\ atts' \in Seq(Attempts)
    <2>1. \A j \in DOMAIN atts : atts'[j] \in Attempts
        BY <1>1, <1>3, UnwoundFields
    <2>2. atts' = [j \in 1 .. Len(atts) |-> atts'[j]]
        BY <1>1 DEF Panic
    <2> QED
        BY <1>1, <2>1, <2>2
<1>5. \A j \in DOMAIN atts :
         /\ atts'[j].route = atts[j].route /\ atts'[j].sent = atts[j].sent
         /\ atts'[j].err = atts[j].err /\ atts'[j].peek = atts[j].peek
         /\ atts'[j].pass = atts[j].pass /\ atts'[j].conn = atts[j].conn
         /\ atts'[j].status = atts[j].status /\ atts'[j].row = atts[j].row
         /\ atts'[j].risk = atts[j].risk /\ atts'[j].ended = atts[j].ended
         /\ ~atts'[j].held
         /\ atts'[j].obs \in {atts[j].obs, "finished"}
         /\ atts[j].obs = "open" /\ j \in {live, Last} => atts'[j].obs = "finished"
    <2>1. \A j \in DOMAIN atts : ~Unwound(j, atts[j]).held
        BY <1>1, UnwoundFields DEF Owned
    <2> QED
        BY <1>1, <1>3, <2>1, UnwoundFields
<1>6. \A j \in DOMAIN atts : atts[j].obs \in {"none", "open", "finished"}
    BY <1>1 DEF Attempts
<1>7. TypeOK'
    BY <1>1, <1>2, <1>4, <1>5 DEF TypeOK
<1>8. Roles'
    BY <1>1, <1>2, <1>4, <1>5 DEF Last, Roles
<1>9. Owned'
    BY <1>1, <1>2, <1>4, <1>5 DEF Last, Owned, Roles
<1>10. Books'
    BY <1>1, <1>2, <1>4, <1>5, <1>6 DEF Last, Books, InHand, Roles
<1>11. Honest'
    BY <1>1, <1>2, <1>4, <1>5 DEF Last, Honest
<1>12. Order'
    BY <1>1, <1>2, <1>4, <1>5 DEF Last, Order, Roles
<1>13. Counts'
    <2>1. Sent' = Sent
        BY <1>4, <1>5 DEF Sent
    <2> QED
        BY <2>1, <1>2 DEF Counts, Order
<1>14. Replays'
    BY <1>1, <1>2, <1>4, <1>5 DEF Last, Replays, Order, Roles, MayReplay
<1>15. Passes'
    BY <1>1, <1>2, <1>4, <1>5 DEF Last, Passes, Roles
<1>16. Bytes'
    BY <1>1, <1>2, <1>4, <1>5 DEF Bytes
<1>17. Heads'
    BY <1>1, <1>2, <1>4, <1>5 DEF Last, Heads, Roles, CanCommit, Sent, Order
<1> QED
    BY <1>7, <1>8, <1>9, <1>10, <1>11, <1>12, <1>13, <1>14, <1>15, <1>16, <1>17
       DEF Inv

\* A fresh request has nothing.
LEMMA InitHolds == Init => Inv
<1> SUFFICES ASSUME Init PROVE Inv
    OBVIOUS
<1>1. atts = <<>> /\ Len(atts) = 0 /\ DOMAIN atts = {} /\ Sent = {}
    BY DEF Init, Sent
<1>2. Cardinality(Sent) = 0
    BY <1>1, FS_EmptySet
<1>3. TypeOK
    <2>1. /\ atts \in Seq(Attempts) /\ heads \in Seq({"own", "upstream"})
          /\ buffer \in Seq(Nat) /\ out \in Seq(Nat)
        BY DEF Init
    <2>2. {live, outer, inner, armed} \subseteq 0 .. Len(atts)
        BY <1>1 DEF Init
    <2> QED
        BY <2>1, <2>2 DEF Init, TypeOK
<1>4. Roles /\ Owned /\ Books /\ Honest /\ Order
    BY <1>1 DEF Init, Roles, Owned, Books, Honest, Order, Kinds, InHand, Last
<1>5. Counts
    BY <1>1, <1>2, ProxyAssumption DEF Init, Counts
<1>6. Replays /\ Passes /\ Bytes /\ Heads
    BY <1>1 DEF Init, Replays, Passes, Bytes, Heads
<1> QED
    BY <1>3, <1>4, <1>5, <1>6 DEF Inv

\* No step of the handler or of the world breaks the invariant.
LEMMA NextKeeps == Inv /\ [Next]_vars => Inv'
<1> SUFFICES ASSUME Inv, [Next]_vars PROVE Inv'
    OBVIOUS
<1>1. /\ TypeOK /\ Roles /\ Owned /\ Books /\ Honest /\ Order /\ Counts
      /\ Replays /\ Passes /\ Bytes /\ Heads
    BY DEF Inv
<1>2. CASE Next
    BY <1>1, <1>2, RejectKeeps, AcceptKeeps, SelectNoneKeeps, SelectFirstKeeps,
       ExcludeKeeps, ArmedCheckKeeps, FirstFatalKeeps,
       FirstSkippedKeeps, FirstSentKeeps, SendReturnsKeeps, PeekKeeps,
       KeepKeeps, TryAnotherKeeps, SeekNoneKeeps, SeekTakeKeeps,
       ReplacementFatalKeeps, ReplacementSkippedKeeps,
       ReplacementSentKeeps, CommitNothingKeeps, FailBeforeHeadKeeps,
       ReadAheadKeeps, WriteHeadKeeps, DeliverKeeps, StreamEndsKeeps,
       ReportKeeps, CountPassEndsKeeps, CountBusyKeeps,
       CountTakeKeeps, CountNotReadyKeeps, CountSentKeeps,
       CountAnsweredKeeps, CountAbandonedKeeps, CountRefusedKeeps,
       ClientGoesKeeps, ExpireKeeps, PanicKeeps
       DEF Next, Step
<1>3. CASE UNCHANGED vars
    BY <1>1, <1>3
       DEF vars, Inv, TypeOK, Roles, Owned, Books, Honest, Order, Counts, Replays,
           Passes, Bytes, Heads, InHand, Last, Sent, MayReplay, CanCommit
<1> QED
    BY <1>2, <1>3

(* The invariant of the handler, in every reachable state.                   *)
THEOREM InvHolds == Spec => []Inv
    BY InitHolds, NextKeeps, PTL DEF Spec

-----------------------------------------------------------------------------
\* Leases by Owned, observers and rows by Books.
LEMMA InvBalances == Inv => AttemptsBalance
<1> SUFFICES ASSUME Inv PROVE AttemptsBalance
    OBVIOUS
<1>1. /\ TypeOK /\ Roles /\ Owned /\ Books
    BY DEF Inv
<1>2. DOMAIN atts = 1 .. Len(atts) /\ Len(atts) \in Nat
    BY <1>1 DEF TypeOK
<1>3. pc \in {"send", "countSend"} => Leases = {Last}
    BY <1>1, <1>2 DEF Roles, Owned, Leases, Last
<1>4. pc = "done" => Leases = {}
    BY <1>1, <1>2 DEF Roles, Owned, Leases
<1>5. NothingLeftOpen
    BY <1>1 DEF NothingLeftOpen, Books, InHand, Sent
<1> QED
    BY <1>3, <1>4, <1>5 DEF AttemptsBalance, OneLeaseOnWire

(* Leases, observers and rows balance on every path, for any number of       *)
(* routes and attempts and any length of an answer.                          *)
THEOREM AttemptsBalanceAlways == Spec => []AttemptsBalance
    BY InvHolds, InvBalances, PTL

\* Routes by Order, the limit by Counts, the policy by Replays.
LEMMA InvAllows == Inv => ReplayIsAllowed
<1> SUFFICES ASSUME Inv PROVE ReplayIsAllowed
    OBVIOUS
<1>1. /\ TypeOK /\ Order /\ Counts /\ Replays /\ Passes
    BY DEF Inv
<1>2. req.kind = "model" => Cardinality(Sent) <= req.max
    BY <1>1 DEF Counts
<1>3. \A i, j \in Sent : i # j => atts[i].route # atts[j].route
    BY <1>1 DEF Order, Sent
<1>4. \A i, j \in DOMAIN atts :
         /\ i < j /\ atts[i].sent /\ atts[j].sent /\ req.kind = "model"
         /\ atts[i].conn
         => /\ req.policy # "safe" /\ atts[i].err # "broke"
            /\ req.policy = "balanced" => atts[i].status \in {"429", "named"}
            /\ atts[i].row = "retried" /\ atts[i].risk
    BY <1>1 DEF Replays, MayReplay
<1> DEFINE Asked == {i \in DOMAIN atts : /\ req.kind = "count" /\ atts[i].sent
                                         /\ atts[i].pass = "unknown"}
<1>5. Cardinality(Asked) <= 1
    <2>1. CASE Asked = {}
        BY <2>1, FS_EmptySet
    <2>2. CASE Asked # {}
        <3> PICK k \in Asked : TRUE
            BY <2>2
        <3>1. Asked = {k}
            BY <1>1 DEF Passes
        <3>2. Cardinality({k}) = 1
            BY FS_Singleton
        <3> QED
            BY <3>1, <3>2
    <2> QED
        BY <2>1, <2>2
<1> QED
    BY <1>2, <1>3, <1>4, <1>5 DEF ReplayIsAllowed

(* Whatever the policy, the limit and the outcomes, a request that may have  *)
(* reached an upstream is repeated only where the policy allows it.          *)
THEOREM ReplayIsAllowedAlways == Spec => []ReplayIsAllowed
    BY InvHolds, InvAllows, PTL

\* Heads and bytes; the attempt in hand at the end is the last one sent.
LEMMA InvAnswers == Inv => OneAnswer
<1> SUFFICES ASSUME Inv PROVE OneAnswer
    OBVIOUS
<1>1. /\ TypeOK /\ Roles /\ Order /\ Bytes /\ Heads
    BY DEF Inv
<1>2. Len(heads) <= 1 /\ (heads # <<>> => Len(heads) = 1)
    <2>1. heads = <<>> \/ heads = <<"own">> \/ heads = <<"upstream">>
        BY <1>1 DEF Heads, TypeOK
    <2> QED
        BY <2>1
<1>3. /\ pc \in {"send", "countSend"} => heads = <<>>
      /\ pc = "done" /\ ~panicked /\ client => Len(heads) = 1
    BY <1>1, <1>2 DEF Heads
<1>4. ASSUME pc = "done", ~panicked, req.kind = "model", Sent # {},
             CanCommit(atts[Final]), atts[Final].err = "none"
      PROVE  heads = <<"upstream">>
    <2>1. /\ live \in Sent /\ live \in Nat
          /\ \A j \in Sent : j \in Nat /\ j <= live
        BY <1>1, <1>4 DEF Heads, Order, Sent, TypeOK
    <2>2. \A i \in Sent : (\A j \in Sent : j <= i) => i = live
        BY <2>1
    <2>3. Final = live
        BY <2>1, <2>2 DEF Final
    <2> QED
        BY <1>1, <1>4, <2>3 DEF Heads
<1>5. out = [i \in 1 .. Len(out) |-> i]
    BY <1>1 DEF Bytes, TypeOK
<1> QED
    BY <1>2, <1>3, <1>4, <1>5 DEF OneAnswer

(* The client that stays gets one response, the upstream's if the last       *)
(* attempt brought one, with every byte of it in its place.                  *)
THEOREM OneAnswerAlways == Spec => []OneAnswer
    BY InvHolds, InvAnswers, PTL
=============================================================================
