------------------------------ MODULE Decoder ------------------------------
(***************************************************************************)
(* The incremental decoder of upstream answers (internal/protocol/         *)
(* decoder.go).  An answer arrives in chunks cut anywhere; the decoder     *)
(* finds out whether it is an event stream, lines of JSON or one JSON      *)
(* value, and hands out protocol events as they are complete.              *)
(*                                                                         *)
(* A symbol stands for the smallest piece the decoder tells apart: a field *)
(* name with its colon, the opening or the closing bracket of a value, the *)
(* end of a line, a third of the byte order mark.  The opening bracket     *)
(* carries what the value says.                                            *)
(***************************************************************************)
EXTENDS Naturals, Sequences, FiniteSets, SequencesExt

CONSTANTS Streams,    \* the answers explored, each a sequence of symbols
          MaxEvent,   \* maxEventBytes, in symbols
          MaxTotal,   \* maxTotalBytes, in symbols
          PrefixScan  \* maxAutoPrefixScan, in symbols

VARIABLES spec,    \* the endpoint whose protocol the answer follows
          wire,    \* the format the caller asked for
          stream, at, d, out, err

vars == <<spec, wire, stream, at, d, out, err>>

Endpoints == {"messages", "responses", "chat_completions", "count_tokens", "models"}
Wires     == {"auto", "sse", "ndjson", "json"}
Blank     == {"nl", "cr"}
NoError   == "none"

\* What the values say: the type field, an error field, whether there is content,
\* output usage or an input count, and what the list of models is.
Plain == [type |-> "", error |-> "none", text |-> FALSE, usage |-> FALSE,
          input |-> FALSE, data |-> "none"]

Objects ==
    [delta     |-> [Plain EXCEPT !.type = "delta", !.text = TRUE],
     start     |-> [Plain EXCEPT !.type = "start", !.error = "empty"],
     usage     |-> [Plain EXCEPT !.usage = TRUE],
     ended     |-> [Plain EXCEPT !.type = "message_stop"],
     completed |-> [Plain EXCEPT !.type = "response.completed", !.usage = TRUE],
     failed    |-> [Plain EXCEPT !.type = "response.failed"],
     error     |-> [Plain EXCEPT !.error = "real", !.text = TRUE],
     listed    |-> [Plain EXCEPT !.data = "list"],
     unlisted  |-> [Plain EXCEPT !.data = "null"],
     counted   |-> [Plain EXCEPT !.input = TRUE]]

Said  == DOMAIN Objects
Opens == Said \cup {"["}

\* An event, and whether it proves that the model is alive.
Event(kind, semantic) == [kind |-> kind, semantic |-> semantic]

(***************************************************************************)
(* One event.                                                              *)
(***************************************************************************)
carriesError(o) == o.error = "real"

\* The event that ends a regular answer, for the protocols that have one.
protocolTerminalEvents ==
    [messages |-> "message_stop", responses |-> "response.completed",
     chat_completions |-> "none"]

remoteErrorEvent == Event("remote_error", FALSE)

classify(s, name, o) ==
    LET semantic == o.text \/ o.usage
    IN  Event(CASE name = protocolTerminalEvents[s] -> "protocol_end"
                [] semantic                         -> "semantic"
                [] OTHER                            -> "metadata",
              semantic)

eventFromObject(s, eventName, o) ==
    LET name == IF o.type = "" THEN eventName ELSE o.type
    IN  CASE carriesError(o) -> remoteErrorEvent
          [] s = "models" /\ o.data = "list"   -> Event("model_list", TRUE)
          [] s = "models" /\ o.data # "list"   -> Event("metadata", FALSE)
          [] s = "count_tokens"                -> Event(IF o.input THEN "semantic" ELSE "metadata",
                                                        o.input)
          [] name = "error"                    -> remoteErrorEvent
          [] name = "response.failed" /\ s = "responses" -> remoteErrorEvent
          [] name = "ping"                     -> Event("keepalive", FALSE)
          [] OTHER                             -> classify(s, name, o)

decodeEventName(name) ==
    Event(IF name = "ping" THEN "keepalive" ELSE "metadata", FALSE)

Trim(s) == SelectSeq(s, LAMBDA x : x \notin Blank)

\* A payload is one whole value; only the list of models may be an array.
IsValue(p)  == Len(Trim(p)) = 2 /\ Trim(p)[1] \in Opens /\ Trim(p)[2] = "}"
Readable(s, p) == /\ Len(p) <= MaxEvent /\ IsValue(p)
                  /\ Trim(p)[1] = "[" => s = "models"

decodePayload(s, eventName, p) ==
    IF Len(p) > MaxEvent THEN [events |-> <<>>, err |-> "too large"]
    ELSE IF ~Readable(s, p) THEN [events |-> <<>>, err |-> "malformed"]
    ELSE [events |-> <<IF Trim(p)[1] = "[" THEN Event("model_list", TRUE)
                       ELSE eventFromObject(s, eventName, Objects[Trim(p)[1]])>>,
          err |-> NoError]

(***************************************************************************)
(* The format.                                                             *)
(***************************************************************************)
TrimLeft(p) == LET i == SelectInSeq(p, LAMBDA x : x \notin Blank)
               IN  IF i = 0 THEN <<>> ELSE SubSeq(p, i, Len(p))

\* Whether p is one JSON value, a value with more behind it, or neither yet.
jsonValueShape(p) ==
    LET q     == TrimLeft(p)
        close == SelectInSubSeq(q, 2, Len(q), LAMBDA x : x \notin Blank)
    IN  IF close = 0 \/ q[close] # "}" THEN "incomplete"
        ELSE IF Trim(SubSeq(q, close + 1, Len(q))) = <<>> THEN "single" ELSE "multiple"

DetectWireFormat(p) ==
    LET q == TrimLeft(p)
    IN  CASE q = <<>> -> "auto"
          [] q[1] \in {"event:", "data:", ":", "[DONE]"} -> "sse"
          [] q[1] \in Opens -> CASE jsonValueShape(q) = "single"   -> "json"
                                 [] jsonValueShape(q) = "multiple" -> "ndjson"
                                 [] OTHER                          -> "auto"
          [] OTHER -> "auto"

Count(p, Is(_)) == Len(SelectSeq(p, Is))

\* The brackets are balanced: a value may just have been closed.
pendingClosedAValue(p) ==
    Count(p, LAMBDA x : x \in Opens) <= Count(p, LAMBDA x : x = "}")

detectPendingFormat(p) ==
    IF pendingClosedAValue(p) THEN DetectWireFormat(p)
    ELSE DetectWireFormat(SubSeq(p, 1, IF Len(p) < PrefixScan THEN Len(p) ELSE PrefixScan))

(***************************************************************************)
(* Lines.                                                                  *)
(***************************************************************************)
Ends(s) == {i \in DOMAIN s : s[i] = "nl"}

\* The complete lines of s without their ends, and what is left.
Lines(s) ==
    LET n     == Cardinality(Ends(s))
        Nth(k) == CHOOSE i \in Ends(s) : Cardinality({j \in Ends(s) : j <= i}) = k
        From(k) == IF k = 1 THEN 1 ELSE Nth(k - 1) + 1
    IN  [whole |-> [k \in 1 .. n |-> SubSeq(s, From(k), Nth(k) - 1)],
         rest  |-> SubSeq(s, From(n + 1), Len(s))]

NoCR(line) == IF line # <<>> /\ line[Len(line)] = "cr" THEN Front(line) ELSE line

Fail(x, e) == [x EXCEPT !.d.err = IF @ = NoError THEN e ELSE @]

Emit(x, r) == IF r.err = NoError THEN [x EXCEPT !.events = @ \o r.events]
                                 ELSE Fail(x, r.err)

(***************************************************************************)
(* Event streams.                                                          *)
(***************************************************************************)
commitSSE(s, x) ==
    LET y == [x EXCEPT !.d.event = "", !.d.data = <<>>]
    IN  IF x.d.data = <<>>
        THEN IF x.d.event = "" THEN y
             ELSE [y EXCEPT !.events = Append(@, decodeEventName(x.d.event))]
        ELSE IF Trim(x.d.data) = <<"[DONE]">>
        THEN [y EXCEPT !.events = Append(@, Event("protocol_end", FALSE))]
        ELSE Emit(y, decodePayload(s, x.d.event, x.d.data))

AddData(data, value) == IF data = <<>> THEN value ELSE Append(data, "nl") \o value

SSEField(x, line) ==
    CASE line[1] = "event:" -> [x EXCEPT !.d.event = IF Len(line) > 1 THEN line[2] ELSE ""]
      [] line[1] = "data:"  ->
           IF Len(x.d.data) + Len(Tail(line)) + 1 > MaxEvent THEN Fail(x, "too large")
           ELSE [x EXCEPT !.d.data = AddData(@, Tail(line))]
      [] OTHER -> x

SSELine(s, x, line) ==
    IF x.d.err # NoError THEN x
    ELSE IF NoCR(line) = <<>> THEN commitSSE(s, x)
    ELSE SSEField(x, NoCR(line))

feedSSE(s, dd, payload) ==
    LET lines == Lines(dd.line \o payload)
        x     == FoldLeft(LAMBDA y, line : SSELine(s, y, line),
                          [d |-> [dd EXCEPT !.line = lines.rest], events |-> <<>>], lines.whole)
    IN  IF x.d.err = NoError /\ Len(x.d.line) + Len(x.d.data) > MaxEvent
        THEN Fail(x, "too large") ELSE x

(***************************************************************************)
(* Lines of JSON.                                                          *)
(***************************************************************************)
NDJSONLine(s, x, line) ==
    IF x.d.err # NoError \/ Trim(line) = <<>> THEN x
    ELSE Emit(x, decodePayload(s, "", line))

feedNDJSON(s, dd, payload) ==
    LET lines == Lines(dd.line \o payload)
        x     == FoldLeft(LAMBDA y, line : NDJSONLine(s, y, line),
                          [d |-> [dd EXCEPT !.line = lines.rest], events |-> <<>>], lines.whole)
    IN  IF x.d.err = NoError /\ Len(x.d.line) > MaxEvent THEN Fail(x, "too large") ELSE x

feedPayload(s, dd, payload) ==
    CASE dd.format = "sse"    -> feedSSE(s, dd, payload)
      [] dd.format = "ndjson" -> feedNDJSON(s, dd, payload)
      [] OTHER -> [d |-> [dd EXCEPT !.body = @ \o payload], events |-> <<>>]

(***************************************************************************)
(* Feed and Finish.                                                        *)
(***************************************************************************)
NewDecoder(w) == [format |-> w, prefix |-> <<>>, prefixDone |-> FALSE, pending |-> <<>>,
                  body |-> <<>>, line |-> <<>>, event |-> "", data |-> <<>>,
                  err |-> NoError]

flushPrefix(p) == IF Len(p) >= 3 /\ SubSeq(p, 1, 3) = <<"bom", "bom", "bom">>
                  THEN SubSeq(p, 4, Len(p)) ELSE p

\* Three bytes decide whether the answer starts with a byte order mark.
consumePrefix(dd, chunk) ==
    LET all == dd.prefix \o chunk
    IN  CASE dd.prefixDone -> [d |-> dd, payload |-> chunk]
          [] ~dd.prefixDone /\ Len(all) < 3 -> [d |-> [dd EXCEPT !.prefix = all], payload |-> <<>>]
          [] OTHER -> [d |-> [dd EXCEPT !.prefix = <<>>, !.prefixDone = TRUE],
                       payload |-> flushPrefix(all)]

\* Mutant: a first value that is complete settles the format.
SettledEarly(s, dd, payload) ==
    LET pending == dd.pending \o payload
        f       == detectPendingFormat(pending)
    IN  IF Len(pending) > MaxEvent
        THEN Fail([d |-> dd, events |-> <<>>], "unknown format")
        ELSE IF f = "auto"
        THEN [d |-> [dd EXCEPT !.pending = pending], events |-> <<>>]
        ELSE feedPayload(s, [dd EXCEPT !.format = f, !.pending = <<>>], pending)

\* While the format is open the bytes are kept; one value so far may still become
\* the first of several lines.
feedAuto(s, dd, payload) ==
    LET pending == dd.pending \o payload
        f       == detectPendingFormat(pending)
    IN  IF Len(pending) > MaxEvent
        THEN Fail([d |-> dd, events |-> <<>>], "unknown format")
        ELSE IF f \in {"auto", "json"}
        THEN [d |-> [dd EXCEPT !.pending = pending], events |-> <<>>]
        ELSE feedPayload(s, [dd EXCEPT !.format = f, !.pending = <<>>], pending)

feed(s, dd, seen, chunk) ==
    LET c == consumePrefix(dd, chunk)
    IN  IF Len(chunk) > MaxTotal - seen
        THEN Fail([d |-> dd, events |-> <<>>], "body too large")
        ELSE IF ~c.d.prefixDone THEN [d |-> c.d, events |-> <<>>]
        ELSE IF c.d.format = "auto" THEN feedAuto(s, c.d, c.payload)
        ELSE feedPayload(s, c.d, c.payload)

finishJSON(s, x) ==
    LET body == Trim(x.d.body)
        r    == decodePayload(s, "", x.d.body)
    IN  CASE body = <<>> -> Fail(x, "incomplete")
          [] body # <<>> /\ Len(body) >= 2 /\ IsValue(SubSeq(body, 1, 2)) /\ Len(body) > 2 ->
                 Fail(x, "trailing")
          [] r.err # NoError -> Fail(x, r.err)
          [] OTHER ->
                 [x EXCEPT !.events = @ \o r.events
                                        \o (IF r.events[1].kind = "protocol_end" THEN <<>>
                                            ELSE <<Event("protocol_end", FALSE)>>)]

\* The last event of a stream needs no blank line after it.
finishSSE(s, x) ==
    LET line == NoCR(x.d.line)
        y    == [x EXCEPT !.d.line = <<>>]
    IN  commitSSE(s, CASE line = <<>> -> y
                       [] line # <<>> /\ line[1] = "event:" ->
                              [y EXCEPT !.d.event = IF Len(line) > 1 THEN line[2] ELSE ""]
                       [] line # <<>> /\ line[1] = "data:" ->
                              [y EXCEPT !.d.data = AddData(@, Tail(line))]
                       [] OTHER -> y)

finishFormat(s, x) ==
    CASE x.d.format = "sse"    -> finishSSE(s, x)
      [] x.d.format = "ndjson" -> IF Trim(x.d.line) # <<>> THEN Fail(x, "incomplete") ELSE x
      [] OTHER                 -> finishJSON(s, x)

\* The events of bytes that were kept to the end are not handed out with the rest.
\* Nothing is pending once the format is known.
Unsettled(s, dd, payload) ==
    LET pending == dd.pending \o payload
        f       == IF dd.format = "auto" THEN DetectWireFormat(pending) ELSE dd.format
    IN  IF f = "auto" THEN Fail([d |-> dd, events |-> <<>>], "unknown format")
        ELSE [feedPayload(s, [dd EXCEPT !.format = f, !.pending = <<>>], pending)
                  EXCEPT !.events = <<>>]

finish(s, dd) ==
    LET x == IF ~dd.prefixDone \/ dd.format = "auto"
             THEN Unsettled(s, [dd EXCEPT !.prefix = <<>>], flushPrefix(dd.prefix))
             ELSE [d |-> dd, events |-> <<>>]
    IN  IF x.d.err # NoError THEN x ELSE finishFormat(s, x)

(***************************************************************************)
(* The reader.                                                             *)
(***************************************************************************)
Init ==
    /\ spec \in Endpoints /\ wire \in Wires /\ stream \in Streams
    /\ at = 0 /\ d = NewDecoder(wire)
    /\ out = <<>> /\ err = NoError

Take(x) == d' = x.d /\ out' = out \o x.events /\ err' = x.d.err

Feed ==
    /\ at \in 0 .. Len(stream) - 1 /\ err = NoError
    /\ \E n \in 1 .. Len(stream) - at :
           /\ Take(feed(spec, d, at, SubSeq(stream, at + 1, at + n)))
           /\ at' = at + n
    /\ UNCHANGED <<spec, wire, stream>>

Done == Len(stream) + 1

Finish ==
    /\ at = Len(stream) /\ err = NoError
    /\ Take(finish(spec, d))
    /\ at' = Done
    /\ UNCHANGED <<spec, wire, stream>>

Next == Feed \/ Finish

Spec == Init /\ [][Next]_vars

TypeOK ==
    /\ at \in 0 .. Done
    /\ d.format \in Wires /\ d.prefixDone \in BOOLEAN
    /\ out \in Seq([kind : {"metadata", "semantic", "model_list", "protocol_end",
                            "remote_error", "keepalive"}, semantic : BOOLEAN])

(***************************************************************************)
(* What an answer says, read as a whole.                                   *)
(***************************************************************************)
Body == flushPrefix(stream)

Format == IF wire = "auto" THEN DetectWireFormat(Body) ELSE wire

\* The blocks of an event stream: runs of lines between blank ones.
Fields == LET l == Lines(Body)
              all == l.whole \o (IF NoCR(l.rest) = <<>> THEN <<>> ELSE <<l.rest>>) \o <<<<>>>>
          IN  [i \in DOMAIN all |-> NoCR(all[i])]

Breaks == {i \in DOMAIN Fields : Fields[i] = <<>>}

Block(b) ==
    LET a     == {i \in Breaks : i < b}
        first == IF a = {} THEN 1 ELSE (CHOOSE i \in a : \A j \in a : j <= i) + 1
        Of(n) == {i \in first .. b - 1 : Fields[i][1] = n}
        names == Of("event:")
        datas == SelectSeq([i \in 1 .. b - first |-> Fields[first + i - 1]],
                           LAMBDA l : l[1] = "data:")
        name  == IF names = {} THEN ""
                 ELSE LET l == Fields[CHOOSE i \in names : \A j \in names : j <= i]
                      IN  IF Len(l) > 1 THEN l[2] ELSE ""
    IN  [name |-> name, data |-> FlattenSeq([i \in DOMAIN datas |-> Tail(datas[i])])]

BlockSays(b) ==
    CASE b.data = <<>> /\ b.name = "" -> [events |-> <<>>, err |-> NoError]
      [] b.data = <<>> /\ b.name # "" -> [events |-> <<decodeEventName(b.name)>>, err |-> NoError]
      [] Trim(b.data) = <<"[DONE]">>  -> [events |-> <<Event("protocol_end", FALSE)>>, err |-> NoError]
      [] OTHER                        -> decodePayload(spec, b.name, b.data)

\* The events of the parts up to the first that cannot be read.
Together(parts) ==
    FoldLeft(LAMBDA x, r : IF x.err # NoError THEN x
                           ELSE [events |-> x.events \o r.events, err |-> r.err],
             [events |-> <<>>, err |-> NoError], parts)

Says ==
    LET lines  == Lines(Body)
        full   == SelectSeq(lines.whole, LAMBDA l : Trim(l) # <<>>)
        breaks == SetToSortSeq(Breaks, <)
    IN  CASE Format = "auto" -> [events |-> <<>>, err |-> "unknown format"]
          [] Format = "sse"  -> Together([k \in DOMAIN breaks |-> BlockSays(Block(breaks[k]))])
          [] Format = "ndjson" ->
                 LET x == Together([k \in DOMAIN full |-> decodePayload(spec, "", full[k])])
                 IN  IF x.err = NoError /\ Trim(lines.rest) # <<>>
                     THEN [x EXCEPT !.err = "incomplete"] ELSE x
          [] OTHER ->
                 LET x == finishJSON(spec, [d |-> [d EXCEPT !.body = Body, !.err = NoError],
                                            events |-> <<>>])
                 IN  [events |-> x.events, err |-> x.d.err]

Limits == {"too large", "body too large", "unknown format"}

\* Lines of JSON with one that is cut short, read without a declared format.
CutShort(said) == wire = "auto" /\ Format = "ndjson" /\ said.err # NoError

\* However the network cut the answer into chunks, the events handed out and the
\* verdict at its end are those of the answer read as a whole, and no event is
\* handed out that the answer does not hold; a limit may cut it short.
ReadAsWhole ==
    \A said \in {Says} :
        /\ IsPrefix(out, said.events)
        /\ at = Done \/ err # NoError =>
               \/ err = said.err /\ (out = said.events \/ CutShort(said))
               \/ err \in Limits

\* The same for the events alone, with nothing excepted: what is handed out by the
\* end of an answer does not depend on where the network cut it.
Whole == LET x == feed(spec, NewDecoder(wire), 0, stream)
         IN  IF x.d.err # NoError THEN x
             ELSE LET y == finish(spec, x.d) IN [y EXCEPT !.events = x.events \o @]

SameChunksOrNot == at = Done => out = Whole.events /\ err = Whole.d.err
=============================================================================
