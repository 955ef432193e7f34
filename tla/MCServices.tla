------------------------------ MODULE MCServices ------------------------------
(* What runs beside the requests, side by side and small: the controller of  *)
(* the run state, the records of requests and their retention, the copies    *)
(* made of an answer, the mails about findings, the decoder of what          *)
(* upstreams say, the rules that rewrite requests and answers, and the       *)
(* versions of these rules.  A behaviour is of one of the seven.             *)
EXTENDS RunState, AlertMailer, MCAnswers, Integers, TLC

CONSTANTS q1, q2, q3,   \* requests of Records
          t1, e1, e2    \* a route and endpoints of TransformRegistry

VARIABLES part,
          \* of Records
          shape, samples, logs, quota, handler, queue, writer, count, stop,
          flush, left,
          \* of Copies
          sampled, captured, length,
          \* of Decoder
          spec, wire, stream, fed, decoder, events, verdict,
          \* of Rewriting
          version, request, answer, step, sent, client, at, err, executions, gone,
          \* of TransformRegistry
          mem, disk, nextSet, nextVer, writing, rows, ends, published, read,
          asked, spare

recordVars == <<shape, samples, logs, quota, handler, queue, writer, count,
                stop, flush, left>>
copyVars   == <<sampled, captured, length>>
decoderVars == <<spec, wire, stream, fed, decoder, events, verdict>>
rewriteVars == <<version, request, answer, step, sent, client, at, err,
                 executions, gone>>
transformVars == <<mem, disk, nextSet, nextVer, writing, rows, ends, published,
                   read, asked, spare>>

MCSymmetry == Permutations(Jobs) \cup Permutations(Clients)

(* A request of two attempts with two bodies and two of one, while the quota *)
(* goes from 6 bytes to 1; each recorder to its end, and both together while *)
(* rows grow old and the administrator edits.                                *)
Ending(k, there) == [kinds |-> {k}, there |-> there, ends |-> TRUE,
                     ages |-> FALSE, edits |-> 0, faults |-> 1]
Kept == [kinds |-> {"log", "sample"}, there |-> <<q2, q3>>, ends |-> FALSE,
         ages |-> TRUE, edits |-> 2, faults |-> 1]
Recordings == {Ending("log", <<q2, q3>>), Ending("sample", <<q3>>), Kept}

R == INSTANCE Records WITH
        Requests <- {q1, q2, q3},
        Attempts <- q1 :> 2 @@ q2 :> 1 @@ q3 :> 1,
        Bodies <- q1 :> <<2, 1>> @@ q2 :> <<1>> @@ q3 :> <<1>>,
        Quotas <- <<6, 1>>, KeepSamples <- 1, KeepLogs <- 1, MaxPins <- 1,
        QueueSize <- 1, PruneEvery <- 1, Shapes <- Recordings

\* Heads and tails, and copies in full with less room than the answer needs.
Copy(head, tail, over, overHead, overTail) ==
    [head |-> head, tail |-> tail, over |-> over, overHead |-> overHead,
     overTail |-> overTail]
Settings ==
    {Copy(s[1], s[2], -1, 0, 0) : s \in {<<2, 3>>, <<0, 2>>, <<2, 0>>, <<1, 3>>}}
    \cup {Copy(0, 0, room, s[1], s[2]) :
             room \in {-1, 0, 1, 3, 5}, s \in {0, 1, 3} \X {0, 2, 3}}

C == INSTANCE Copies WITH
        Configs <- Settings, SpillAt <- 2, MaxScan <- 4, MaxChunk <- 5,
        MaxTotal <- 9, h <- sampled, c <- captured, n <- length

Mails == <<[enabled |-> TRUE, min |-> "low"], [enabled |-> TRUE, min |-> "critical"],
           [enabled |-> FALSE, min |-> "low"]>>

D == INSTANCE Decoder WITH
        Streams <- MCStreams, MaxEvent <- 7, MaxTotal <- 11, PrefixScan <- 2,
        at <- fed, d <- decoder, out <- events, err <- verdict

W == INSTANCE Rewriting WITH
        Versions <- MCVersions, Requests <- MCRequests, Answers <- MCReplies,
        MaxBodyBuffer <- 2, pc <- step, records <- executions

(* Two edits of transforms, with a crash; and one while a route and an       *)
(* endpoint go and come back, with a crash.                                  *)
Spending == {[writes |-> 2, changes |-> 0, faults |-> 1],
             [writes |-> 1, changes |-> 2, faults |-> 1]}

T == INSTANCE TransformRegistry WITH
        Routes <- {t1}, Endpoints <- {e1, e2}, Rules <- {"a"}, Limits <- {1, 2},
        MaxSets <- 1, MaxVersions <- 4, Bounds <- Spending, writer <- writing,
        snap <- published, admin <- read, req <- asked, left <- spare

-----------------------------------------------------------------------------
Runs     == part = "run state"
Records  == part = "records"
Copies   == part = "copies"
Alerts   == part = "alerts"
Decodes  == part = "decoder"
Rewrites == part = "rewriting"
Publishes == part = "transforms"

\* What does not move starts from one state.
NothingRead ==
    /\ spec = "models" /\ wire = "json" /\ stream = <<>> /\ fed = 0
    /\ decoder = D!NewDecoder(wire) /\ events = <<>> /\ verdict = D!NoError
NothingRewritten ==
    /\ version = [rules |-> <<>>, req |-> "", res |-> ""]
    /\ request = CHOOSE r \in MCRequests : TRUE
    /\ answer = CHOOSE a \in MCReplies : TRUE
    /\ step = "done" /\ sent = W!NotSent /\ client = W!Nothing /\ at = W!Start
    /\ err = "" /\ executions = <<>> /\ gone = ""
PartsInit ==
    /\ part \in {"run state", "records", "copies", "alerts", "decoder", "rewriting",
                "transforms"}
    /\ Init /\ (~Runs => db.state = "paused")
    /\ R!Init /\ (~Records => shape = Kept)
    /\ C!Init /\ (~Copies => sampled = C!NewHeadTail(Copy(2, 3, -1, 0, 0)))
    /\ MailInit
    /\ T!Init /\ (~Publishes => nextSet = 1 /\ spare.changes = 0)
    /\ IF Decodes THEN D!Init ELSE NothingRead
    /\ IF Rewrites THEN W!Init ELSE NothingRewritten

restVars == <<decoderVars, rewriteVars, transformVars>>

PartsNext ==
    /\ UNCHANGED part
    /\ \/ Runs /\ Next /\ UNCHANGED <<recordVars, copyVars, mailVars, restVars>>
       \/ Records /\ R!Next /\ UNCHANGED <<vars, copyVars, mailVars, restVars>>
       \/ Copies /\ C!Next /\ UNCHANGED <<vars, recordVars, mailVars, restVars>>
       \/ Alerts /\ MailNext /\ UNCHANGED <<vars, recordVars, copyVars, restVars>>
       \/ /\ UNCHANGED <<vars, recordVars, copyVars, mailVars>>
          /\ \/ Decodes /\ D!Next /\ UNCHANGED <<rewriteVars, transformVars>>
             \/ Rewrites /\ W!Next /\ UNCHANGED <<decoderVars, transformVars>>
             \/ Publishes /\ T!Next /\ UNCHANGED <<decoderVars, rewriteVars>>

PartsSpec ==
    PartsInit /\ [][PartsNext]_<<part, vars, recordVars, copyVars, mailVars, restVars>>

(* The part that moves: the others are where they started.                   *)
MCView ==
    <<part, CASE Runs -> vars [] Records -> recordVars [] Copies -> copyVars
              [] Alerts -> mailVars [] Decodes -> decoderVars
              [] Rewrites -> rewriteVars [] Publishes -> transformVars>>

-----------------------------------------------------------------------------
(* No prune deletes a pinned sample or a log of a kept one (Records).        *)
GroupsKept == R!GroupsKept

(* Every record handed over is written, counted or on its way, a flush and a *)
(* close cover what came before them and the quota is kept (Records); what   *)
(* is kept of an answer is of the answer, and says what it is (Copies).      *)
SamplesAreHonest == (Records => R!RecordsAddUp) /\ (Copies => C!CopiesAreHonest)

(* However an answer is cut into chunks, it is read as a whole (Decoder).    *)
ReadAsWhole == Decodes => D!ReadAsWhole

(* The rules in memory are those stored, a version of them has one meaning,  *)
(* and evidence on a route is of the version it uses (TransformRegistry);    *)
(* they never reach what is protected, and what the client is told of its    *)
(* answer is true (Rewriting).                                               *)
RulesHold == /\ Publishes => T!TransformsHold
             /\ Rewrites => W!RequestIsProtected /\ W!AnswerIsHonest
=============================================================================
