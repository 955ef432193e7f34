----------------------------- MODULE AlertMailer -----------------------------
(* security.AlertMailer: mails about findings, at most one for an identity   *)
(* within the rate limit, a critical finding at once and the others in a     *)
(* digest (security/smtp.go).                                                *)
(*                                                                           *)
(* The mutex is given up while SQLite is asked and while SMTP delivers, so   *)
(* a flush has a beginning and an end, and an immediate mail too; between    *)
(* them other callers queue, flush and reconfigure.  Time is three facts:    *)
(* an identity's last mail is recent or not, the aggregation window is over  *)
(* or not, the timer has fired or not.                                       *)
EXTENDS Naturals, Sequences, FiniteSets

CONSTANTS
    Identities,     \* findingKey of the findings there are
    Notifiers,      \* goroutines that record findings
    Configs,        \* the mail settings by revision: [enabled, min]
    MaxIdentities,  \* maxAlertIdentities
    MaxCount        \* bound: findings of one identity in a digest

VARIABLES
    revision,   \* of the settings in force
    last,       \* per identity: absent, reserved (not mailed yet), recent, old
    pending,    \* per identity: [count, severity] waiting for the digest
    inFlight,   \* identities a mail is being sent about
    digest,     \* the digest under way: [by, keys, count, covered, revision]
    window,     \* of the digest: zero, open, due
    timer,      \* off, set
    fired,      \* the timer's callback waits for the mutex
    caller,     \* per caller: [pc, key, severity]
    owed,       \* identities accepted for a digest and not decided about
    since       \* those among them accepted after the flush began

mailVars == <<revision, last, pending, inFlight, digest, window, timer, fired,
          caller, owed, since>>

Clock   == "timer"
Nobody  == "nobody"

\* The timer and nobody are not among the callers; there are settings.
ASSUME MailAssumption ==
    MaxIdentities \in Nat /\ Notifiers \cap {Clock, Nobody} = {} /\ 1 \in DOMAIN Configs

Empty   == [count |-> 0, severity |-> "low"]
NoDigest == [by |-> Nobody, keys |-> {}, count |-> [k \in Identities |-> 0],
            covered |-> {}, revision |-> 1]
Idle    == [pc |-> "idle", key |-> Nobody, severity |-> "low"]

MailInit ==
    /\ revision = 1
    /\ last = [k \in Identities |-> "absent"]
    /\ pending = [k \in Identities |-> Empty]
    /\ inFlight = {} /\ digest = NoDigest
    /\ window = "zero" /\ timer = "off" /\ fired = FALSE
    /\ caller = [c \in Notifiers |-> Idle]
    /\ owed = {} /\ since = {}

Waiting  == {k \in Identities : pending[k].count > 0}
Flushing == digest.by # Nobody

\* mailEnabled and severityAtLeast
Passes(r, severity) == Configs[r].enabled /\ (severity = "critical" \/ Configs[r].min = "low")

\* armDigestTimerLocked, with the window as it will be
Rearm == timer' = IF window' = "zero" THEN "off" ELSE "set"

-----------------------------------------------------------------------------
(* The digest.                                                               *)

IsDue == Waiting # {} /\ window = "due"

(* flushDigestLocked up to the unlock.  With everything in flight the        *)
(* window starts again.                                                      *)
Captures(by) ==
    LET keys == Waiting \ inFlight
    IN  /\ ~Flushing /\ Waiting # {}
        /\ IF keys = {}
           THEN /\ window' = "open" /\ Rearm
                /\ UNCHANGED <<inFlight, digest, since>>
           ELSE /\ inFlight' = inFlight \cup keys
                /\ digest' = [by |-> by, keys |-> keys,
                             count |-> [k \in Identities |-> pending[k].count],
                             covered |-> {k \in keys : last[k] = "recent"},
                             revision |-> revision]
                /\ since' = {}
                /\ UNCHANGED <<window, timer>>
        /\ UNCHANGED <<revision, last, pending, owed>>

Rest(k) == pending[k].count - digest.count[k]

SettledForgets ==       \* Mutant: with what has arrived since
    [k \in Identities |-> IF k \in digest.keys THEN Empty ELSE pending[k]]

\* What is left of the digest after it was settled.
DigestSettled == [k \in Identities |->
              IF k \notin digest.keys THEN pending[k]
              ELSE IF Rest(k) > 0 THEN [pending[k] EXCEPT !.count = Rest(k)] ELSE Empty]

(* What may be mailed: settings off, nothing is, and nothing is asked.       *)
Candidates == IF Configs[digest.revision].enabled THEN digest.keys \ digest.covered ELSE {}

(* The lock is taken again.  drop are the candidates that are ignored or     *)
(* below the threshold; the others have been mailed.                         *)
FlushDone ==
    \E drop \in SUBSET Candidates :
        /\ {k \in Candidates : ~Passes(digest.revision, pending[k].severity)} \subseteq drop
        /\ pending' = DigestSettled
        /\ last' = [k \in Identities |->
                      IF k \in Candidates \ drop THEN "recent"
                      ELSE IF k \in digest.keys /\ last[k] = "reserved" /\ Rest(k) <= 0
                           THEN "absent" ELSE last[k]]
        /\ owed' = (owed \ digest.keys) \cup since

(* The policy could not be read or the mail was not delivered.               *)
FlushFails ==
    /\ Candidates # {}
    /\ UNCHANGED <<pending, last, owed>>

FlushEnds ==
    /\ Flushing
    /\ FlushDone \/ FlushFails
    /\ inFlight' = inFlight \ digest.keys
    /\ digest' = NoDigest /\ since' = {}
    /\ window' = IF \E k \in Identities : pending'[k].count > 0 THEN "open" ELSE "zero"
    /\ Rearm
    /\ UNCHANGED <<revision, fired>>

-----------------------------------------------------------------------------
(* MaybeNotify.                                                              *)

\* The rest of its first critical section.
Gate(c, k, severity) ==
    caller' = [caller EXCEPT ![c] =
        IF Passes(revision, severity)
        THEN [pc |-> "policy", key |-> k, severity |-> severity]
        ELSE Idle]

MaybeNotify(c, k, severity) ==
    /\ caller[c].pc = "idle"
    /\ IF IsDue /\ ~Flushing
       THEN /\ Captures(c) /\ UNCHANGED fired
            /\ IF Waiting \ inFlight = {} THEN Gate(c, k, severity)
               ELSE caller' = [caller EXCEPT ![c] =
                       [pc |-> "flush", key |-> k, severity |-> severity]]
       ELSE /\ Gate(c, k, severity)
            /\ UNCHANGED <<revision, last, pending, inFlight, digest, window,
                           timer, fired, owed, since>>

\* The policy says that the finding is ignored.
Ignored(c) ==
    /\ caller[c].pc = "policy"
    /\ caller' = [caller EXCEPT ![c] = Idle]
    /\ UNCHANGED <<revision, last, pending, inFlight, digest, window, timer,
                   fired, owed, since>>

(* admitLocked: identities nobody needs any more make room first.            *)
Pruned == [k \in Identities |->
             IF k \notin inFlight /\ k \notin Waiting /\ last[k] \in {"reserved", "old"}
             THEN "absent" ELSE last[k]]
Known    == {k \in Identities : Pruned[k] # "absent"}
Admits(k) == k \in Known \/ Cardinality(Known) < MaxIdentities
Admitted(k) == IF k \in Known \/ ~Admits(k) THEN Pruned
               ELSE [Pruned EXCEPT ![k] = "reserved"]

(* queueDigest: of a finding that is not critical, or one whose policy could *)
(* not be read.                                                              *)
QueueDigest(c) ==
    LET k == caller[c].key
    IN  /\ caller[c].pc = "policy"
        /\ pending[k].count < MaxCount
        /\ last' = Admitted(k)
        /\ IF ~Admits(k) \/ last'[k] = "recent"
           THEN UNCHANGED <<pending, window, timer, owed, since>>
           ELSE /\ pending' = [pending EXCEPT ![k] =
                     IF k \in Waiting THEN [pending[k] EXCEPT !.count = pending[k].count + 1]
                     ELSE [count |-> 1, severity |-> caller[c].severity]]
                /\ owed' = owed \cup {k} /\ since' = since \cup {k}
                /\ IF k \notin Waiting /\ window = "zero"
                   THEN window' = "open" /\ Rearm
                   ELSE UNCHANGED <<window, timer>>
        /\ caller' = [caller EXCEPT ![c] = Idle]
        /\ UNCHANGED <<revision, inFlight, digest, fired>>

(* notifyImmediate, before and after the delivery.                           *)
MayMail(k) == k \notin inFlight /\ Pruned[k] # "recent"

NotifyImmediate(c) ==
    LET k == caller[c].key
    IN  /\ caller[c].pc = "policy" /\ caller[c].severity = "critical"
        /\ last' = Admitted(k)
        /\ IF Admits(k) /\ MayMail(k)
           THEN /\ inFlight' = inFlight \cup {k}
                /\ caller' = [caller EXCEPT ![c] =
                       [pc |-> "send", key |-> k, severity |-> caller[c].severity]]
           ELSE /\ caller' = [caller EXCEPT ![c] = Idle]
                /\ UNCHANGED inFlight
        /\ UNCHANGED <<revision, pending, digest, window, timer, fired, owed, since>>

Delivered(c) ==
    /\ caller[c].pc = "send"
    /\ inFlight' = inFlight \ {caller[c].key}
    /\ last' = [last EXCEPT ![caller[c].key] = "recent"]
    /\ caller' = [caller EXCEPT ![c] = Idle]
    /\ UNCHANGED <<revision, pending, digest, window, timer, fired, owed, since>>

NotDelivered(c) ==
    LET k == caller[c].key
    IN  /\ caller[c].pc = "send"
        /\ inFlight' = inFlight \ {k}
        /\ last' = IF last[k] = "reserved" /\ k \notin Waiting
                   THEN [last EXCEPT ![k] = "absent"] ELSE last
        /\ caller' = [caller EXCEPT ![c] = Idle]
        /\ UNCHANGED <<revision, pending, digest, window, timer, fired, owed, since>>

-----------------------------------------------------------------------------
(* The flush of a caller ends in the critical section that goes on with its  *)
(* own finding.                                                              *)
FlushReturns ==
    /\ FlushEnds
    /\ IF digest.by = Clock THEN UNCHANGED caller
       ELSE Gate(digest.by, caller[digest.by].key, caller[digest.by].severity)

TimerFires ==
    /\ timer = "set" /\ window = "due"
    /\ timer' = "off" /\ fired' = TRUE
    /\ UNCHANGED <<revision, last, pending, inFlight, digest, window, caller,
                   owed, since>>

(* The callback of armDigestTimerLocked.                                     *)
Callback ==
    /\ fired
    /\ fired' = FALSE
    /\ UNCHANGED caller
    /\ IF IsDue /\ ~Flushing THEN Captures(Clock)
       ELSE UNCHANGED <<revision, last, pending, inFlight, digest, window, timer,
                        owed, since>>

(* SetConfig: a slower reload does not replace a newer one.  The window may  *)
(* be longer or shorter than before.                                         *)
SetConfig(r) ==
    /\ r >= revision
    /\ revision' = r
    /\ window' \in (IF window = "zero" THEN {"zero"} ELSE {"open", "due"})
    /\ Rearm
    /\ UNCHANGED <<last, pending, inFlight, digest, fired, caller, owed, since>>

\* Time passes.
WindowOver ==
    /\ window = "open" /\ window' = "due"
    /\ UNCHANGED <<revision, last, pending, inFlight, digest, timer, fired,
                   caller, owed, since>>

RateLimitOver(k) ==
    /\ last[k] = "recent" /\ last' = [last EXCEPT ![k] = "old"]
    /\ UNCHANGED <<revision, pending, inFlight, digest, window, timer, fired,
                   caller, owed, since>>

Notify(c) ==
    \/ \E k \in Identities, severity \in {"low", "critical"} : MaybeNotify(c, k, severity)
    \/ Ignored(c) \/ QueueDigest(c) \/ NotifyImmediate(c)
    \/ Delivered(c) \/ NotDelivered(c)

MailNext ==
    \/ \E c \in Notifiers : Notify(c)
    \/ FlushReturns \/ TimerFires \/ Callback \/ WindowOver
    \/ \E r \in DOMAIN Configs : SetConfig(r)
    \/ \E k \in Identities : RateLimitOver(k)

MailSpec == MailInit /\ [][MailNext]_mailVars

-----------------------------------------------------------------------------
MailTypeOK ==
    /\ revision \in DOMAIN Configs
    /\ last \in [Identities -> {"absent", "reserved", "recent", "old"}]
    /\ pending \in [Identities -> [count : 0 .. MaxCount, severity : {"low", "critical"}]]
    /\ inFlight \subseteq Identities
    /\ window \in {"zero", "open", "due"} /\ timer \in {"off", "set"} /\ fired \in BOOLEAN
    /\ owed \subseteq Identities /\ since \subseteq owed

\* Who is sending, or about to, a mail about an identity.
Senders(k) == {c \in Notifiers : caller[c].pc = "send" /\ caller[c].key = k}
              \cup (IF k \in Candidates THEN {digest.by} ELSE {})

(* An identity is in one mail at a time, and in none while its last one is   *)
(* recent, whether it is mailed at once or in the digest (smtp.go:314-352,   *)
(* 386-432).                                                                 *)
OneMailPerWindow ==
    \A k \in Identities : /\ Cardinality(Senders(k)) <= 1
                          /\ Senders(k) # {} => last[k] # "recent"

(* A finding that was accepted for the digest is in it until a mail went out *)
(* or it was decided to be none: not lost by the flush that it arrives in    *)
(* the middle of, nor by one that fails ("Later arrivals stay pending;       *)
(* failed delivery leaves all captured items intact", smtp.go:387).          *)
NothingForgotten == owed \subseteq Waiting

(* Whoever waits for the digest has somebody to send it: the flush under way *)
(* or a timer that will go off.                                              *)
DigestHasTimer ==
    Waiting # {} /\ ~Flushing => \/ timer = "set" /\ window # "zero"
                                 \/ fired /\ window = "due"

(* The identities known stay within their limit, also when a mail that was   *)
(* being sent puts its own back.                                             *)
IdentitiesBounded ==
    Cardinality({k \in Identities : last[k] # "absent"}) <= MaxIdentities

MailIsKept == OneMailPerWindow /\ NothingForgotten /\ DigestHasTimer /\ IdentitiesBounded
=============================================================================
