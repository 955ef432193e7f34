------------------------------ MODULE MCAnswers ------------------------------
(* The answers and the rules that the instances of Decoder and Rewriting in  *)
(* MCServices explore.                                                       *)
EXTENDS Naturals, Sequences

(* Streams of Decoder: single values in every framing, pairs of lines of an  *)
(* event stream, lines of JSON, and byte order marks.                        *)
NL      == <<"nl">>
Values  == {"delta", "start", "usage", "ended", "completed", "failed", "error",
            "listed", "unlisted", "counted"}
Few     == {<<"delta", "}">>, <<"error", "}">>, <<"ended", "}">>, <<"[DONE]">>, <<"x">>,
            <<"delta">>}
Payloads == Few \cup {<<o, "}">> : o \in Values} \cup {<<"[", "}">>}
SSELines == {<<"data:">> \o p : p \in Few}
               \cup {<<"event:", "ping">>, <<":", "x">>, <<>>, <<"cr">>, <<"data:", "}">>}
MCStreams ==
    {<<"data:">> \o p \o t : p \in Payloads, t \in {<<>>, NL, NL \o NL}}
        \cup Payloads \cup {p \o NL \o NL : p \in Payloads}
        \cup {x \o NL \o y \o t : x \in SSELines, y \in SSELines, t \in {<<>>, NL \o NL}}
        \cup {p \o x \o q \o y : p \in Few, q \in Few, x \in {NL, <<"cr", "nl">>}, y \in {<<>>, NL}}
        \cup {p \o NL \o p \o NL \o q : p \in {<<"delta", "}">>}, q \in Few}
        \cup {<<"bom", "bom", "bom">> \o p : p \in Payloads \cup {<<>>, <<"bom">>}}
        \cup {<<"bom", "bom">>}

-----------------------------------------------------------------------------
(* Versions of Rewriting: every kind of rule, alone and after one that is    *)
(* undone with it.                                                           *)
Rule(k, n, f, v) == [kind |-> k, name |-> n, from |-> f, value |-> v]
Doc(m) == [form |-> "object", fields |-> m, twice |-> FALSE]
Text   == [form |-> "text", fields |-> [f \in {} |-> ""], twice |-> FALSE]
Fields(m, t) == [f \in {"model", "text"} |-> IF f = "model" THEN m ELSE t]
Header(S) == [n \in S |-> IF n = "coding" THEN "gzip" ELSE "v-" \o n]
Exotic == [n \in {"coding"} |-> "exotic"]

HeaderRules == {<<Rule("set_header", "a", "", "x")>>,
    <<Rule("set_header", "forwarded", "", "secret"), Rule("delete_header", "a", "", "")>>,
    <<Rule("rename_header", "a", "b", "")>>,
    <<Rule("set_header", "key", "", "x")>>,
    <<Rule("set_status", "", "", "number"), Rule("set_header", "a", "", "x")>>,
    <<Rule("set_status", "", "", "x")>>}
BodyRules == {<<Rule("replace_bytes", "", "text", "model")>>,
    <<Rule("replace_bytes", "", "m", "k"), Rule("set_header", "a", "", "x")>>,
    <<Rule("set_header", "a", "", "x"), Rule("replace_bytes", "", "t", "huge")>>,
    <<Rule("set_json_pointer", "model", "", "secret")>>,
    <<Rule("set_json_pointer", "text", "", "number")>>,
    <<Rule("json_patch_add", "model", "", "number")>>,
    <<Rule("delete_header", "a", "", ""), Rule("json_patch_remove", "model", "", "")>>,
    <<Rule("json_patch_copy", "text", "model", "")>>,
    <<Rule("body_template", "", "", Doc(Fields("own", "t2")))>>,
    <<Rule("body_template", "", "", Doc([f \in {"text"} |-> "t2"]))>>,
    <<Rule("request_reencode", "", "", ""), Rule("set_json_pointer", "model", "", "own")>>}
StreamRules == {<<Rule("sse_match", "", "", "ok")>>,
    <<Rule("sse_match", "", "", "huge"), Rule("sse_append_end", "", "", "")>>,
    <<Rule("sse_match", "", "", "ok"), Rule("set_status", "", "", "x")>>,
    <<Rule("sse_append_end", "", "", ""), Rule("set_json_pointer", "text", "", "y")>>}
MCVersions ==
    {[rules |-> r, req |-> p, res |-> p] :
         r \in HeaderRules \cup BodyRules \cup StreamRules,
         p \in {"", "fail_open", "fail_closed"}}

MCRequests ==
    [header : {Header({"key", "a"}), Header({"a", "forwarded"})},
     body : {Doc(Fields("m", "t"))}, upstreamModel : {"", "u"}, inModel : {"m"},
     coding : {"", "gzip"}, key : {"", "k1"}]

Headers == {Header({"tag"}), Header({"a", "coding", "tag"}), Exotic}
Bodies == [header : Headers, status : {"ok"}, sse : {FALSE},
           body : {Doc(Fields("m", "t")), Text}, pieces : 0 .. 3, big : {{}},
           ends : {"eof", "broke"}, corrupt : BOOLEAN]
EventStreams == [header : Headers, status : {"ok"}, sse : {TRUE}, body : {Text},
           pieces : {0, 3, 4, 5}, big : {{}, {2}}, ends : {"eof", "broke"}, corrupt : BOOLEAN]
MCReplies == {a \in Bodies \cup EventStreams : a.corrupt => "coding" \in DOMAIN a.header}
=============================================================================
