----------------------------- MODULE Rewriting -----------------------------
(***************************************************************************)
(* What a published transform does to one request on its way out and to    *)
(* one answer on its way back (internal/transform: apply.go, json_patch.go,*)
(* sse_frame.go; internal/proxy: request_prepare.go, transform_commit.go,  *)
(* transform_shadow.go).                                                   *)
(*                                                                         *)
(* A header is a function of names.  The body of a request is a document   *)
(* with at most two members, "model" and "text"; `twice' says that it has  *)
(* a second model key.  The body of an answer is a number of pieces: the   *)
(* pieces of an event stream are half events, 2e-1 and 2e belong to event  *)
(* e.  What the client gets is the sequence of the pieces with the form    *)
(* they have: as they came ("raw"), decoded ("plain"), rewritten ("rule"). *)
(***************************************************************************)
EXTENDS Naturals, SequencesExt

CONSTANTS Versions,     \* the published versions explored
          Requests,     \* the requests, as the proxy resolved them
          Answers,      \* the answers of the upstream
          MaxBodyBuffer \* pieces of an answer that can be buffered

VARIABLES version,  \* the version bound to the route and the endpoint
          request, answer,
          pc,
          sent,     \* the prepared request
          client,   \* what the client has got
          at,       \* the attempt: how far the answer is read and rewritten
          err,      \* Result.Err
          records,  \* the execution records
          gone      \* why the attempt was given up, "" while it goes on

vars == <<version, request, answer, pc, sent, client, at, err, records, gone>>

Protected  == {"key"}
Forwarding == {"forwarded"}
Validators == {"coding", "tag"}  \* Content-Encoding; Content-MD5 and ETag
Secret     == "secret"           \* a reference to the key of the upstream
Huge       == "huge"             \* a value that adds more than MaxAddedBytes
Number     == "number"           \* a value that is JSON without being a string
Decodable  == {"gzip"}

Put(m, n, v)  == [x \in DOMAIN m \cup {n} |-> IF x = n THEN v ELSE m[x]]
Drop(m, S)    == Restrict(m, DOMAIN m \ S)
Coding(m)     == IF "coding" \in DOMAIN m THEN m["coding"] ELSE ""
Or(v, default) == IF v = "" THEN default ELSE v

(***************************************************************************)
(* Compiling a version.                                                    *)
(***************************************************************************)
BodyKinds == {"replace_bytes", "set_json_pointer", "json_patch_add",
              "json_patch_remove", "json_patch_copy", "body_template"}
HeaderKinds == {"set_header", "delete_header", "rename_header"}
kindAllowsSecretRef ==
    {"set_header", "set_json_pointer", "json_patch_add", "body_template"}

Kinds(v) == {r.kind : r \in Range(v.rules)}

validateRule(rule) ==
    /\ rule.kind \in HeaderKinds => {rule.name, rule.from} \cap Protected = {}
    /\ rule.kind = "body_template" => ~rule.value.twice
    /\ rule.kind # "body_template" /\ rule.value = Secret => rule.kind \in kindAllowsSecretRef

Compile(v) == v.rules # <<>> /\ \A r \in Range(v.rules) : validateRule(r)

HasRequestBodyRules(v)    == Kinds(v) \cap BodyKinds # {}
AllowsRequestReencoding(v) == "request_reencode" \in Kinds(v)
responseRulesTouchBody(v) == Kinds(v) \cap BodyKinds # {}
responseRulesTouchSSE(v)  == Kinds(v) \cap {"sse_match", "sse_append_end"} # {}

(***************************************************************************)
(* One rule on a body: the set of the body it leaves, empty when the rule  *)
(* fails.                                                                  *)
(***************************************************************************)
NoBody == [form |-> "text", fields |-> [f \in {} |-> ""], twice |-> FALSE]

Strings(v) == v # Number
AsString(v) == IF v = Number THEN "digits" ELSE v

\* Two members of the same name: encoding/json keeps one of them.
Remarshalled(body, fields) == {[body EXCEPT !.fields = fields, !.twice = FALSE]}

ReplacedBytes(body, from, to) ==
    IF from \in DOMAIN body.fields
    THEN [body EXCEPT !.twice = @ \/ to \in DOMAIN body.fields,
                      !.fields = Put(Drop(body.fields, {from}), to,
                                     IF to \in DOMAIN body.fields
                                     THEN body.fields[to] ELSE body.fields[from])]
    ELSE [body EXCEPT !.fields = [f \in DOMAIN @ |-> IF @[f] = from THEN to ELSE @[f]]]

setJSONPointerOffset(body, field, val) ==
    IF body.form # "object" \/ field \notin DOMAIN body.fields THEN {}
    ELSE {[body EXCEPT !.fields[field] = IF Strings(@) THEN AsString(val) ELSE val]}

applyJSONPatch(rule, body, val) ==
    IF body.form # "object" THEN {}
    ELSE CASE rule.kind = "json_patch_add" ->
                 Remarshalled(body, Put(body.fields, rule.name, val))
           [] rule.name \notin DOMAIN body.fields -> {}
           [] rule.kind = "json_patch_remove" ->
                 Remarshalled(body, Drop(body.fields, {rule.name}))
           [] OTHER -> Remarshalled(body, Put(body.fields, rule.from, body.fields[rule.name]))

\* inspectTopLevelModel: a body whose only model is a string.
HasModel(body) == /\ body.form = "object"
                  /\ "model" \in DOMAIN body.fields
                  /\ ~body.twice
                  /\ Strings(body.fields["model"])

applyBodyTemplate(body, template) ==
    IF (HasModel(body) /\ ~HasModel(template)) \/ template.twice THEN {} ELSE {template}

Rewritten(rule, body, val) ==
    CASE rule.kind = "body_template" -> applyBodyTemplate(body, val)
      [] rule.kind = "replace_bytes" ->
            IF rule.from \notin DOMAIN body.fields \cup Range(body.fields) THEN {body}
            ELSE IF val = Huge THEN {} ELSE {ReplacedBytes(body, rule.from, val)}
      [] val = Huge                     -> {}
      [] rule.kind = "set_json_pointer" -> setJSONPointerOffset(body, rule.name, val)
      [] OTHER                          -> applyJSONPatch(rule, body, val)

RewrittenHeader(rule, header, val) ==
    CASE rule.kind = "set_header"    -> Put(header, rule.name, val)
      [] rule.kind = "delete_header" -> Drop(header, {rule.name})
      [] rule.name \in DOMAIN header ->
            Put(Drop(header, {rule.name}), rule.from, header[rule.name])
      [] OTHER                       -> header

(***************************************************************************)
(* The rules of a version, one after the other on a copy.                  *)
(***************************************************************************)
ruleUsesSecret(rule) == rule.kind # "body_template" /\ rule.value = Secret

\* resolveRuleValue: the key is found when the upstream has one that is long
\* enough; the rendered key taints the result.
resolveRuleValue(rule, key) == IF ruleUsesSecret(rule) THEN key ELSE rule.value

Failed(out) == [out EXCEPT !.err = TRUE]

applyRule(rule, out, val) ==
    IF rule.kind \in HeaderKinds
    THEN [out EXCEPT !.header = RewrittenHeader(rule, @, val)]
    ELSE LET next == Rewritten(rule, out.body, val)
         IN  IF next = {} THEN Failed(out)
             ELSE [out EXCEPT !.body = CHOOSE b \in next : TRUE]

applyOneRequest(rule, out, key) ==
    CASE rule.kind \notin HeaderKinds \cup BodyKinds -> out
      [] ruleUsesSecret(rule) /\ key = ""            -> Failed(out)
      [] OTHER -> applyRule(rule, [out EXCEPT !.taint = @ \/ ruleUsesSecret(rule)],
                            resolveRuleValue(rule, key))

applyOneResponse(rule, out) ==
    CASE rule.kind \notin HeaderKinds \cup BodyKinds \cup {"set_status"} -> out
      [] ruleUsesSecret(rule)     -> Failed(out)
      [] rule.kind = "set_status" -> IF rule.value = Number THEN [out EXCEPT !.status = rule.value]
                                     ELSE Failed(out)
      [] OTHER                    -> applyRule(rule, out, rule.value)

restoreProtected(header, saved) ==
    [n \in (DOMAIN header \ Protected) \cup (DOMAIN saved \cap Protected) |->
        IF n \in Protected THEN saved[n] ELSE header[n]]

\* The execution budget may run out before rule `late' or, past the last rule, at
\* the end; 0 when it does not.  An error leaves the original, its taint apart.
Applied(rules, in, late, One(_, _)) ==
    LET step(out, i) == IF out.err \/ i = late THEN Failed(out) ELSE One(rules[i], out)
        out == FoldLeftDomain(step, in, rules)
    IN  IF out.err \/ late = Len(rules) + 1
        THEN [in EXCEPT !.err = TRUE, !.taint = out.taint]
        ELSE [out EXCEPT !.header = restoreProtected(@, in.header)]

Untouched(header, body, status) ==
    [header |-> header, body |-> body, status |-> status, err |-> FALSE, taint |-> FALSE]

ApplyRequestSecrets(v, header, body, key, late) ==
    Applied(v.rules, Untouched(header, body, ""), late,
            LAMBDA rule, out : applyOneRequest(rule, out, key))

ApplyResponse(v, header, body, status, late) ==
    Applied(v.rules, Untouched(header, body, status), late,
            LAMBDA rule, out : applyOneResponse(rule, out))

(***************************************************************************)
(* Preparing the request.                                                  *)
(***************************************************************************)
ExtractModel(body) == IF HasModel(body) THEN {body.fields["model"]} ELSE {}

\* locateTopLevelModel: a model that is there once, whatever its value.
ReplaceModel(body, name) ==
    CASE name = "" -> {body}
      [] body.form # "object" \/ body.twice \/ "model" \notin DOMAIN body.fields -> {}
      [] OTHER -> {[body EXCEPT !.fields["model"] = name]}

\* Mutant: a model the rules have made ambiguous is left as it is.
GuardedWhenKnown(tr, header, before, model) ==
    IF tr.err \/ ExtractModel(tr.body) = {} THEN tr
    ELSE [tr EXCEPT !.body = CHOOSE b \in ReplaceModel(tr.body, model) : TRUE]

\* The protection layer: rules cannot select another model.
Guarded(tr, header, before, model) ==
    IF tr.err THEN tr
    ELSE IF ExtractModel(tr.body) # {}
         THEN [tr EXCEPT !.body = CHOOSE b \in ReplaceModel(tr.body, model) : TRUE]
         ELSE [tr EXCEPT !.err = TRUE, !.header = header, !.body = before]

Refused(status) == [status |-> status, header |-> NoBody.fields, body |-> NoBody,
                    err |-> FALSE, taint |-> FALSE]

\* late: the rule at which the budget ends; grown: the encoded body passes its limit.
prepareOutboundRequest(v, r, late, grown) ==
    LET reencode == r.coding # "" /\ AllowsRequestReencoding(v)
        plain    == IF reencode THEN [r.body EXCEPT !.form = "object"] ELSE r.body
        mapped   == ReplaceModel(plain, r.upstreamModel)
    IN  CASE ~Compile(v) -> Refused("route_local")
          [] r.coding # "" /\ ~reencode /\ r.upstreamModel # "" -> Refused("compressed_mapping")
          [] r.coding # "" /\ ~reencode /\ HasRequestBodyRules(v) -> Refused("compressed_transform")
          [] mapped = {} -> Refused("route_local")
          [] OTHER ->
              LET before == CHOOSE b \in mapped : TRUE
                  applied == ApplyRequestSecrets(v, r.header, before, r.key, late)
                  tr == IF reencode \/ r.coding = ""
                        THEN Guarded(applied, r.header, before, Or(r.upstreamModel, r.inModel))
                        ELSE applied
                  body == IF reencode THEN [tr.body EXCEPT !.form = "coded"] ELSE tr.body
                  header == Drop(tr.header, Forwarding)
              IN  CASE tr.err /\ Or(v.req, "fail_closed") = "fail_closed" -> Refused("route_local")
                    [] reencode /\ grown -> Refused("route_local")
                    [] OTHER -> [status |-> "sent", body |-> body, err |-> tr.err, taint |-> tr.taint,
                                 header |-> IF r.coding # "" THEN Put(header, "coding", r.coding)
                                            ELSE header]

(***************************************************************************)
(* The state.                                                              *)
(***************************************************************************)
NotSent == Refused("none")
Nothing == [sent |-> FALSE, status |-> "", header |-> NoBody.fields, written |-> <<>>,
            cut |-> FALSE]
Start   == [pos |-> 0, held |-> <<>>, queue |-> <<>>, pending |-> <<>>, ended |-> "",
            passthrough |-> FALSE, form |-> "raw", closing |-> FALSE]

Init ==
    /\ version \in Versions
    /\ \/ pc = "prepare" /\ request \in Requests /\ answer = CHOOSE a \in Answers : TRUE
       \/ pc = "commit"  /\ answer \in Answers   /\ request = CHOOSE r \in Requests : TRUE
    /\ pc = "commit" => Compile(version)
    /\ sent = NotSent
    /\ client = Nothing
    /\ at = Start
    /\ err = ""
    /\ records = <<>>
    /\ gone = ""

ResponsePolicy == Or(version.res, "fail_open")
Record(phase, ok) == records' = Append(records, <<phase, ok>>)
Pieces == [i \in 1 .. answer.pieces |-> i]
InForm(s, form) == [i \in DOMAIN s |-> <<s[i], form>>]

\* The versions whose rules an answer meets have been compiled for its request.
Prepare ==
    /\ pc = "prepare"
    /\ \E late \in 0 .. Len(version.rules) + 1, grown \in BOOLEAN :
          sent' = prepareOutboundRequest(version, request, late, grown)
    /\ records' = IF \/ sent'.err
                     \/ sent'.status = "sent" /\ (sent'.body # request.body
                                                   \/ sent'.header # request.header)
                  THEN <<<<"request", ~sent'.err>>>> ELSE records
    /\ pc' = "prepared"
    /\ UNCHANGED <<version, request, answer, client, at, err, gone>>

\* The client goes away, or a deadline of the attempt passes.
GiveUp(why) ==
    /\ pc \notin {"prepare", "prepared", "done"}
    /\ gone = ""
    /\ gone' = why
    /\ UNCHANGED <<version, request, answer, pc, sent, client, at, err, records>>

(***************************************************************************)
(* Committing the answer.                                                  *)
(***************************************************************************)
failBeforeCommit == gone # "" /\ ~client.sent

Finish(e) == err' = e /\ pc' = "done"

FailBeforeCommit ==
    /\ pc \in {"commit", "header", "buffered", "sse"}
    /\ failBeforeCommit
    /\ Finish(gone)
    /\ UNCHANGED <<version, request, answer, sent, client, at, records, gone>>

CommitTransformed ==
    /\ pc = "commit"
    /\ ~failBeforeCommit
    /\ pc' = CASE ~responseRulesTouchBody(version) /\ ~responseRulesTouchSSE(version) -> "header"
               [] answer.sse -> "sse"
               [] OTHER      -> "read"
    /\ UNCHANGED <<version, request, answer, sent, client, at, err, records, gone>>

\* The status line and the headers are written; nothing before has been.
WriteHeader(header, status) ==
    client' = [client EXCEPT !.sent = TRUE, !.header = header, !.status = status]

\* Headers only: rules that touch no body, or an event stream that cannot be decoded.
commitHeaderTransformed ==
    /\ pc = "header"
    /\ ~failBeforeCommit
    /\ \E late \in 0 .. Len(version.rules) + 1 :
          LET out == ApplyResponse(version, answer.header, NoBody, answer.status, late)
          IN  IF out.err /\ ResponsePolicy = "fail_closed"
              THEN Record("response", FALSE) /\ Finish("transform") /\ UNCHANGED client
              ELSE /\ WriteHeader(out.header, out.status)
                   /\ IF out.err \/ out.header # answer.header \/ out.status # answer.status
                      THEN Record("response", ~out.err) ELSE UNCHANGED records
                   /\ pc' = "stream"
                   /\ UNCHANGED err
    /\ UNCHANGED <<version, request, answer, sent, at, gone>>

\* The whole answer, or the first MaxBodyBuffer + 1 pieces of it.
readResponseBody ==
    /\ pc = "read"
    /\ \/ /\ gone # "" \/ (answer.ends = "broke" /\ answer.pieces <= MaxBodyBuffer)
          /\ Record("response", FALSE)
          /\ Finish(IF gone # "" THEN gone ELSE "upstream")
          /\ UNCHANGED at
       \/ /\ answer.ends = "eof" \/ answer.pieces > MaxBodyBuffer
          /\ at' = [at EXCEPT !.pos = IF answer.pieces > MaxBodyBuffer
                                      THEN MaxBodyBuffer + 1 ELSE answer.pieces]
          /\ pc' = "buffered"
          /\ UNCHANGED <<err, records>>
    /\ UNCHANGED <<version, request, answer, sent, client, gone>>

OverLimit == at.pos > MaxBodyBuffer
MustDecode == responseRulesTouchBody(version) /\ Coding(answer.header) # ""
CannotDecode == Coding(answer.header) \notin Decodable \/ answer.corrupt

\* A failure under fail_closed: nothing is written.
RefuseBuffered ==
    /\ pc = "buffered"
    /\ ResponsePolicy = "fail_closed"
    /\ OverLimit \/ (MustDecode /\ CannotDecode)
    /\ Record("response", FALSE)
    /\ Finish("transform")
    /\ UNCHANGED <<version, request, answer, sent, client, at, gone>>

\* Under fail_open the original goes out, the rest of it as it comes.
commitBodyOverLimit ==
    /\ pc = "buffered"
    /\ OverLimit
    /\ ResponsePolicy = "fail_open"
    /\ ~failBeforeCommit
    /\ Record("response", FALSE)
    /\ WriteHeader(answer.header, answer.status)
    /\ at' = [at EXCEPT !.pos = 0]
    /\ pc' = "stream"
    /\ UNCHANGED <<version, request, answer, sent, err, gone>>

\* One write of a whole body; the client may go in the middle of it.
WriteBody(header, status, form) ==
    \E n \in 0 .. answer.pieces :
       /\ client' = [sent |-> TRUE, header |-> header, status |-> status, cut |-> n < answer.pieces,
                     written |-> InForm(SubSeq(Pieces, 1, n), form)]
       /\ Finish(IF n < answer.pieces THEN "client" ELSE "")

commitEncodedPassthrough ==
    /\ pc = "buffered"
    /\ ~OverLimit /\ MustDecode /\ CannotDecode
    /\ ResponsePolicy = "fail_open"
    /\ ~failBeforeCommit
    /\ Record("response", FALSE)
    /\ WriteBody(answer.header, answer.status, "raw")
    /\ UNCHANGED <<version, request, answer, sent, at, gone>>

commitBuffered ==
    /\ pc = "buffered"
    /\ ~OverLimit
    /\ ~(MustDecode /\ CannotDecode)
    /\ ~failBeforeCommit
    /\ \E late \in 0 .. Len(version.rules) + 1 :
          LET header  == IF MustDecode THEN Drop(answer.header, Validators) ELSE answer.header
              body    == IF Coding(header) # "" THEN NoBody ELSE answer.body
              out     == ApplyResponse(version, header, body, answer.status, late)
              changed == out.body # body
          IN  IF out.err /\ ResponsePolicy = "fail_closed"
              THEN Record("response", FALSE) /\ Finish("transform") /\ UNCHANGED client
              ELSE /\ IF out.err \/ changed \/ out.header # header \/ out.status # answer.status
                      THEN Record("response", ~out.err) ELSE UNCHANGED records
                   /\ WriteBody(IF MustDecode \/ changed THEN Drop(out.header, Validators)
                                ELSE out.header,
                                out.status,
                                CASE changed -> "rule" [] MustDecode -> "plain" [] OTHER -> "raw")
    /\ UNCHANGED <<version, request, answer, sent, at, gone>>

\* streamBody: original bytes, one read at a time.
streamBody ==
    /\ pc = "stream"
    /\ \/ /\ at.pos < answer.pieces /\ gone = ""
          /\ client' = [client EXCEPT !.written = Append(@, <<at.pos + 1, "raw">>)]
          /\ at' = [at EXCEPT !.pos = @ + 1]
          /\ UNCHANGED <<pc, err>>
       \/ /\ at.pos < answer.pieces
          /\ client' = [client EXCEPT !.cut = TRUE]
          /\ Finish(IF gone # "" THEN gone ELSE "client")
          /\ UNCHANGED at
       \/ /\ at.pos = answer.pieces
          /\ Finish(CASE gone # "" -> gone [] answer.ends = "eof" -> "" [] OTHER -> "upstream")
          /\ UNCHANGED <<at, client>>
    /\ UNCHANGED <<version, request, answer, sent, records, gone>>

(***************************************************************************)
(* An event stream.                                                        *)
(***************************************************************************)
EventOf(p) == (p + 1) \div 2
Encoded == Coding(answer.header) # ""

\* A coding the gateway cannot decode: the stream is not framed.
SSEPassesEncoded ==
    /\ pc = "sse"
    /\ Encoded
    /\ ~responseRulesTouchSSE(version) \/ Coding(answer.header) \notin Decodable
    /\ IF ~responseRulesTouchSSE(version) THEN pc' = "header" /\ UNCHANGED <<err, records>>
       ELSE /\ Record("sse", FALSE)
            /\ IF ResponsePolicy = "fail_closed" THEN Finish("transform")
               ELSE pc' = "header" /\ UNCHANGED err
    /\ UNCHANGED <<version, request, answer, sent, client, at, gone>>

\* commitSSE up to the headers.  The decoder starts after they are written.
commitSSE ==
    /\ pc = "sse"
    /\ Encoded => responseRulesTouchSSE(version) /\ Coding(answer.header) \in Decodable
    /\ ~failBeforeCommit
    /\ \E late \in 0 .. Len(version.rules) + 1 :
          LET header == IF Encoded THEN Drop(answer.header, Validators) ELSE answer.header
              out    == ApplyResponse(version, header, NoBody, answer.status, late)
          IN  IF out.err /\ ResponsePolicy = "fail_closed"
              THEN Record("response", FALSE) /\ Finish("transform") /\ UNCHANGED <<client, at>>
              ELSE /\ WriteHeader(Drop(out.header, Validators), out.status)
                   /\ at' = [at EXCEPT !.form = IF Encoded THEN "plain" ELSE "raw"]
                   /\ IF Encoded /\ answer.corrupt
                      THEN Record("sse", FALSE) /\ Finish(Or(gone, "codec"))
                      ELSE pc' = "scan" /\ UNCHANGED <<err, records>>
    /\ UNCHANGED <<version, request, answer, sent, gone>>

\* Mutant: what was held before an event over the limit is not handed back.
FeedForgets(held, chunk) ==
    LET buf   == held \o chunk
        first == {i \in DOMAIN buf : EventOf(buf[i]) \in answer.big}
        cut   == IF first = {} THEN Len(buf) ELSE Min(first) - 1
        whole == 2 * ((cut) \div 2)
    IN  [events  |-> [i \in 1 .. whole \div 2 |-> SubSeq(buf, 2 * i - 1, 2 * i)],
         pending |-> IF first = {} THEN <<>> ELSE SubSeq(chunk, 1, Len(chunk)),
         held    |-> IF first = {} THEN SubSeq(buf, whole + 1, Len(buf)) ELSE <<>>]

\* SSEScanner.Feed: the events that are whole, and what is held.  An event of
\* answer.big is over the limit with its first half: the scanner gives up there and
\* hands back everything it could not frame.
Feed(held, chunk) ==
    LET buf   == held \o chunk
        first == {i \in DOMAIN buf : EventOf(buf[i]) \in answer.big}
        cut   == IF first = {} THEN Len(buf) ELSE Min(first) - 1
        whole == 2 * ((cut) \div 2)
    IN  [events  |-> [i \in 1 .. whole \div 2 |-> SubSeq(buf, 2 * i - 1, 2 * i)],
         pending |-> IF first = {} THEN <<>> ELSE SubSeq(buf, cut + 1, Len(buf)),
         held    |-> IF first = {} THEN SubSeq(buf, whole + 1, Len(buf)) ELSE <<>>]

\* One read: some of the pieces, and with the last ones perhaps the end.
ReadEvents ==
    /\ pc = "scan"
    /\ at.queue = <<>> /\ at.pending = <<>> /\ at.ended = ""
    /\ \E n \in 0 .. 3, ended \in {"", "eof", "broke"} :
          /\ at.pos + n <= answer.pieces
          /\ ended = "" => n > 0
          /\ ended = "eof" => at.pos + n = answer.pieces /\ answer.ends = "eof"
          /\ ended = "broke" => gone # "" \/ answer.ends = "broke"
          /\ LET chunk == SubSeq(Pieces, at.pos + 1, at.pos + n)
                 f == Feed(at.held, chunk)
                 overflow == ~at.passthrough /\ f.pending # <<>>
             IN  IF overflow /\ ResponsePolicy = "fail_closed"
                 THEN /\ Record("sse", FALSE)
                      /\ Finish("transform")
                      /\ UNCHANGED at
                 ELSE /\ IF overflow THEN Record("sse", FALSE) ELSE UNCHANGED records
                      /\ at' = [at EXCEPT !.pos = @ + n, !.ended = ended,
                                          !.queue = IF at.passthrough THEN <<>> ELSE f.events,
                                          !.held = IF at.passthrough THEN <<>> ELSE f.held,
                                          !.pending = IF at.passthrough THEN chunk ELSE f.pending,
                                          !.passthrough = @ \/ overflow]
                      /\ UNCHANGED <<err, pc>>
    /\ UNCHANGED <<version, request, answer, sent, client, gone>>

\* ApplySSEEvent: one event as a whole, or not at all.  Its budget may run out.
CanApply == \A r \in Range(version.rules) : r.kind = "sse_match" => r.value # Huge

\* writeEv: a write that fails ends the stream.
WriteEvent(pieces, form) ==
    \/ /\ client' = [client EXCEPT !.written = @ \o InForm(pieces, form)]
       /\ UNCHANGED <<err, pc>>
    \/ /\ client' = [client EXCEPT !.cut = TRUE]
       /\ Finish("client")

TransformEvent ==
    /\ pc = "scan"
    /\ at.queue # <<>>
    /\ at' = [at EXCEPT !.queue = Tail(@)]
    /\ \/ /\ CanApply
          /\ WriteEvent(Head(at.queue), "rule")
          /\ UNCHANGED records
       \/ /\ Record("sse", FALSE)
          /\ IF ResponsePolicy = "fail_closed" THEN Finish("transform") /\ UNCHANGED client
             ELSE WriteEvent(Head(at.queue), at.form)
    /\ UNCHANGED <<version, request, answer, sent, gone>>

\* After an overflow under fail_open the rest goes out unframed.
PassPending ==
    /\ pc = "scan"
    /\ at.queue = <<>> /\ at.pending # <<>>
    /\ at' = [at EXCEPT !.pending = <<>>]
    /\ WriteEvent(at.pending, at.form)
    /\ UNCHANGED <<version, request, answer, sent, records, gone>>

StreamBroke ==
    /\ pc = "scan"
    /\ at.queue = <<>> /\ at.pending = <<>> /\ at.ended = "broke"
    /\ Finish(Or(gone, "upstream"))
    /\ UNCHANGED <<version, request, answer, sent, client, at, records, gone>>

\* SSEScanner.Flush: what is left at a clean end.  A write that fails here is not
\* an error of the result.
Flush ==
    /\ pc = "scan"
    /\ at.queue = <<>> /\ at.pending = <<>> /\ at.ended = "eof" /\ ~at.closing
    /\ \/ /\ at.held = <<>>
          /\ UNCHANGED <<client, records, err, pc>>
       \/ /\ at.held # <<>> /\ CanApply
          /\ \/ client' = [client EXCEPT !.written = @ \o InForm(at.held, "rule")]
             \/ client' = [client EXCEPT !.cut = TRUE]
          /\ UNCHANGED <<records, err, pc>>
       \/ /\ at.held # <<>>
          /\ Record("sse", FALSE)
          /\ IF ResponsePolicy = "fail_closed" THEN Finish("transform") /\ UNCHANGED client
             ELSE /\ \/ client' = [client EXCEPT !.written = @ \o InForm(at.held, at.form)]
                     \/ client' = [client EXCEPT !.cut = TRUE]
                  /\ UNCHANGED <<err, pc>>
    /\ at' = [at EXCEPT !.held = <<>>, !.closing = TRUE]
    /\ UNCHANGED <<version, request, answer, sent, gone>>

\* AppendSyntheticEnd, and the end of the attempt.
AppendSyntheticEnd ==
    /\ pc = "scan"
    /\ at.closing
    /\ client' = IF "sse_append_end" \in Kinds(version) /\ ~client.cut
                 THEN [client EXCEPT !.written = Append(@, <<0, "rule">>)] ELSE client
    /\ IF Kinds(version) \cap {"sse_match", "sse_append_end"} # {}
       THEN Record("sse", TRUE) ELSE UNCHANGED records
    /\ Finish("")
    /\ UNCHANGED <<version, request, answer, sent, at, gone>>

Next ==
    \/ Prepare
    \/ \E why \in {"client", "timeout"} : GiveUp(why)
    \/ FailBeforeCommit \/ CommitTransformed
    \/ commitHeaderTransformed \/ readResponseBody \/ RefuseBuffered
    \/ commitBodyOverLimit \/ commitEncodedPassthrough \/ commitBuffered \/ streamBody
    \/ SSEPassesEncoded \/ commitSSE \/ ReadEvents \/ TransformEvent \/ PassPending
    \/ StreamBroke \/ Flush \/ AppendSyntheticEnd

Spec == Init /\ [][Next]_vars

(***************************************************************************)
(* Properties.                                                             *)
(***************************************************************************)
TypeOK ==
    /\ version \in Versions /\ request \in Requests /\ answer \in Answers
    /\ pc \in {"prepare", "prepared", "commit", "header", "read", "buffered", "stream", "sse",
               "scan", "done"}
    /\ client.sent \in BOOLEAN /\ client.cut \in BOOLEAN
    /\ at.pos \in 0 .. answer.pieces
    /\ err \in {"", "transform", "upstream", "client", "timeout", "codec"}
    /\ gone \in {"", "client", "timeout"}

\* A request that leaves has the credential the gateway gave it, no header of a
\* forwarding proxy, a coding that describes its bytes and one model, the one the
\* route maps to.  When a rule failed it is the original, not half of the rules
\* (request_prepare.go, apply.go:92-103).
RequestIsProtected ==
    pc = "prepared" /\ sent.status = "sent" =>
        /\ Restrict(sent.header, DOMAIN sent.header \cap Protected)
              = Restrict(request.header, DOMAIN request.header \cap Protected)
        /\ DOMAIN sent.header \cap Forwarding = {}
        /\ Coding(sent.header) = request.coding
        /\ ExtractModel([sent.body EXCEPT !.form = "object"])
              = {Or(request.upstreamModel, request.inModel)}
        /\ sent.err =>
              /\ version.req = "fail_open"
              /\ sent.body.fields = [request.body.fields EXCEPT !["model"] =
                                        Or(request.upstreamModel, request.inModel)]
              /\ Drop(sent.header, {"coding"}) = Drop(request.header, Forwarding \cup {"coding"})

\* What the client is told about the bytes is true of them: the coding of the
\* upstream stands exactly on bytes as they came, and so do its checksums
\* (transform_commit.go:241-248 and 384-391).
EncodingIsHonest ==
    client.sent =>
        /\ \A w \in Range(client.written) :
              (w[2] = "raw" /\ Encoded) <=> "coding" \in DOMAIN client.header
        /\ "tag" \in DOMAIN client.header => \A w \in Range(client.written) : w[2] = "raw"

\* The client gets the answer in order, no piece twice and none left out, and a
\* commit without an error has written all of it (streamBody, SSEScanner.Feed and
\* the pending bytes of an overflow).
WrittenInOrder ==
    LET got == SelectSeq(client.written, LAMBDA w : w[1] # 0)
    IN  /\ \A i \in DOMAIN got : got[i][1] = i
        /\ pc = "done" /\ client.sent /\ err = "" /\ ~client.cut => Len(got) = answer.pieces

\* fail_closed lets nothing through that its rules have not rewritten: no byte
\* before the commit, and no original event once a stream is framed.  fail_open
\* never turns a failure of a rule into a failure of the attempt.
PolicyIsKept ==
    /\ err = "transform" => ResponsePolicy = "fail_closed"
    /\ ~client.sent => client.written = <<>>
    /\ ResponsePolicy = "fail_closed" /\ pc \in {"scan", "done"} /\ client.sent
          /\ responseRulesTouchSSE(version) /\ answer.sse
       => \A w \in Range(client.written) : w[2] = "rule"
    /\ err = "" /\ pc = "done" => gone = "" \/ client.sent

AnswerIsHonest == EncodingIsHonest /\ WrittenInOrder /\ PolicyIsKept

\* docs/01: "any failure is recorded".  A header rule that fails on an event stream
\* under fail_open is not.
FailuresAreRecorded ==
    [][commitSSE /\ client'.sent =>
         \/ Len(records') > Len(records)
         \/ \E late \in {0} : ~ApplyResponse(version, answer.header, NoBody, answer.status, late).err]_vars
=============================================================================
