-------------------------------- MODULE Copies --------------------------------
(* What is kept of a stream that is too long to keep: sample.HeadTail, which *)
(* keeps everything as long as the quota allows, in memory and then in a     *)
(* file, and a beginning and an end otherwise; and security.Capture, which   *)
(* keeps a beginning and an end.  Both ends are rings.  Neither may disturb  *)
(* the forwarding that feeds them: what fails is left out, and said to be.   *)
(*                                                                           *)
(* A byte of the stream is its position in it.                               *)
EXTENDS Integers, Sequences, FiniteSetsExt

CONSTANTS
    Configs,   \* [head, tail]: the settings; [over, overHead, overTail]: the
               \* argument of LimitToRemaining, -1 if it is not called
    SpillAt,   \* fullSpillAt
    MaxScan,   \* MaxScanBytes, which is even
    MaxChunk, MaxTotal  \* bounds: of a chunk, of the stream

VARIABLES
    h,   \* the HeadTail
    c,   \* the Capture
    n    \* the length of the stream so far

vars == <<h, c, n>>

First(s, k) == SubSeq(s, 1, Min({k, Len(s)}))
Final(s, k) == SubSeq(s, Len(s) - Min({k, Len(s)}) + 1, Len(s))
After(s, k) == SubSeq(s, k + 1, Len(s))
Bytes(i, k) == [j \in 1 .. k - i + 1 |-> i + j - 1]
\* copy(dst[at:], src)
Into(dst, at, src) ==
    [i \in DOMAIN dst |-> IF i > at /\ i - at <= Len(src) THEN src[i - at] ELSE dst[i]]
\* Into a ring, which has room for it, from pos on; and back in order.
Around(ring, pos, src) ==
    Into(Into(ring, pos, src), 0, After(src, Min({Len(src), Len(ring) - pos})))
InOrder(ring, pos) == After(ring, pos) \o First(ring, pos)
Turned(ring, pos, src) == IF ring = <<>> THEN 0 ELSE (pos + Len(src)) % Len(ring)
Blank(k) == [i \in 1 .. k |-> 0]

-----------------------------------------------------------------------------
(* HeadTail.                                                                 *)

WriteBoundedSkips(x, p) ==    \* Mutant: the ring goes on behind the whole chunk
    LET src == Final(p, Len(x.tail)) IN
    [x EXCEPT !.head = @ \o First(p, x.headMax - Len(@)),
              !.tail = Around(@, x.pos, src),
              !.pos  = Turned(x.tail, @, p),
              !.len  = Min({@ + Len(src), Len(x.tail)})]
WriteBounded(x, p) ==
    LET src == Final(p, Len(x.tail)) IN
    [x EXCEPT !.head = @ \o First(p, x.headMax - Len(@)),
              !.tail = Around(@, x.pos, src),
              !.pos  = Turned(x.tail, @, src),
              !.len  = Min({@ + Len(src), Len(x.tail)})]

(* appendSpill; a write that fails may have written a part.                  *)
AppendSpill(x, p, fails) ==
    IF p = <<>> THEN x
    ELSE [x EXCEPT !.spill = @ \o (IF fails THEN First(p, Len(p) - 1) ELSE p),
                   !.incomplete = @ \/ fails]

(* fails is what fails of: making the file, writing there what was in        *)
(* memory, writing the chunk.                                                *)
WriteFull(x, p, fails) ==
    IF p = <<>> THEN x
    ELSE IF x.open THEN AppendSpill(x, p, "chunk" \in fails)
    ELSE IF Len(x.head) + Len(p) <= SpillAt \/ "file" \in fails
    THEN [x EXCEPT !.head = @ \o p]
    ELSE LET moved == AppendSpill([x EXCEPT !.open = TRUE], x.head, "memory" \in fails)
         IN  AppendSpill([moved EXCEPT !.head = <<>>], p, "chunk" \in fails)

(* transitionFromFull: beginning and end are taken from what is kept, in     *)
(* proportion to the settings if they are larger than that.                  *)
TransitionFromFull(x) ==
    LET kept   == x.spill \o x.head
        budget == Min({Len(kept), x.budget})
        wanted == x.overHead + x.overTail
        scaled == budget > 0 /\ wanted > budget
        hm     == IF scaled THEN (budget * x.overHead) \div wanted ELSE x.overHead
        tm     == IF scaled THEN budget - hm ELSE x.overTail
        blank  == [x EXCEPT !.spill = <<>>, !.open = FALSE, !.full = FALSE,
                            !.budgetOn = FALSE, !.over = TRUE, !.headMax = hm,
                            !.head = <<>>, !.tail = Blank(tm), !.pos = 0, !.len = 0]
    IN  WriteBounded(WriteBounded(blank, First(kept, hm)), Final(kept, tm))

NewHeadTail(cfg) ==
    LET x == [full |-> cfg.head = 0 /\ cfg.tail = 0, headMax |-> cfg.head,
              head |-> <<>>, tail |-> Blank(cfg.tail), pos |-> 0, len |-> 0, total |-> 0,
              budgetOn |-> FALSE, budget |-> 0, overHead |-> 0, overTail |-> 0,
              over |-> FALSE, open |-> FALSE, spill |-> <<>>, incomplete |-> FALSE]
        limited == [x EXCEPT !.budgetOn = TRUE, !.budget = cfg.over,
                             !.overHead = cfg.overHead, !.overTail = cfg.overTail]
    IN  IF ~x.full \/ cfg.over < 0 THEN x     \* LimitToRemaining
        ELSE IF cfg.over = 0 THEN TransitionFromFull(limited) ELSE limited

WriteH(x, p, fails) ==
    LET t    == [x EXCEPT !.total = @ + Len(p)]
        room == x.budget - x.total
    IN  IF x.full /\ x.budgetOn /\ t.total > x.budget
        THEN LET y == WriteFull([x EXCEPT !.total = @ + Min({room, Len(p)})], First(p, room), fails)
             IN  WriteBounded([TransitionFromFull(y) EXCEPT !.total = t.total], After(p, room))
        ELSE IF x.full THEN WriteFull(t, p, fails) ELSE WriteBounded(t, p)

Truncated(x) == x.incomplete \/ (~x.full /\ x.total > Len(x.head) + x.len)
TailBytes(x) == IF x.len = Len(x.tail) THEN InOrder(x.tail, x.pos) ELSE First(x.tail, x.len)

\* Bytes, of what is whole; DetachBody, of a full one.
Whole(x) ==
    IF x.full THEN x.spill \o x.head
    ELSE IF Len(x.head) >= x.total THEN x.head
    ELSE x.head \o After(TailBytes(x), Len(x.head) + x.len - x.total)

-----------------------------------------------------------------------------
(* Capture: the second half of the buffer, once it is full, is the ring.     *)

Half(x) == After(x.body, MaxScan \div 2)
TryChunk(x, p) ==
    LET b    == [x EXCEPT !.total = @ + Len(p), !.body = @ \o First(p, MaxScan - Len(@))]
        rest == Final(After(p, Len(b.body) - Len(x.body)), MaxScan \div 2)
    IN  IF rest = <<>> THEN b
        ELSE [b EXCEPT !.body = First(@, MaxScan \div 2) \o Around(Half(b), b.pos, rest),
                       !.pos  = Turned(Half(b), @, rest)]

\* Complete: the segments, each with the position it begins at.
Segments(x) ==
    IF x.total <= MaxScan THEN <<[at |-> 0, body |-> x.body]>>
    ELSE LET last == InOrder(Half(x), x.pos)
         IN  <<[at |-> 0, body |-> First(x.body, MaxScan \div 2)],
               [at |-> x.total - Len(last), body |-> last]>>

-----------------------------------------------------------------------------
Init == /\ n = 0 /\ h \in {NewHeadTail(cfg) : cfg \in Configs}
        /\ c = [body |-> <<>>, total |-> 0, pos |-> 0]

\* A chunk of the stream; the empty one too.
Write(k, fails) ==
    /\ n + k <= MaxTotal /\ n' = n + k
    /\ h' = WriteH(h, Bytes(n + 1, n + k), fails)
    /\ c' = TryChunk(c, Bytes(n + 1, n + k))

Next == \E k \in 0 .. MaxChunk, fails \in SUBSET {"file", "memory", "chunk"} : Write(k, fails)
Spec == Init /\ [][Next]_vars

-----------------------------------------------------------------------------
TypeOK == h.total = n /\ c.total = n /\ h.len <= Len(h.tail) /\ h.pos <= Len(h.tail)

(* A sample that does not say it is truncated is the stream, byte by byte;   *)
(* one that says so has its beginning and its end, and they do not overlap.  *)
(* One whose file could not be written always says so.                       *)
SampleIsHonest ==
    IF h.incomplete THEN Truncated(h)
    ELSE IF ~Truncated(h) THEN Whole(h) = Bytes(1, n)
    ELSE /\ h.head = Bytes(1, Len(h.head))
         /\ TailBytes(h) = Bytes(n - h.len + 1, n)
         /\ Len(h.head) + h.len < n

(* What is scanned is where it says it is in the stream, its beginning and   *)
(* its end, and all of it as long as it fits.                                *)
CaptureIsHonest ==
    \A i \in DOMAIN Segments(c) :
       LET s == Segments(c)[i] IN
       /\ s.body = Bytes(s.at + 1, s.at + Len(s.body))
       /\ i = Len(Segments(c)) => s.at + Len(s.body) = n
       /\ n >= MaxScan => Len(s.body) * Len(Segments(c)) = MaxScan

CopiesAreHonest == SampleIsHonest /\ CaptureIsHonest
=============================================================================
