----------------------------- MODULE AdmissionFence -----------------------------
(***************************************************************************)
(* The two fences a Master Key rotation closes before it touches a secret: *)
(* proxy.admissionFence (internal/proxy/quiesce.go) counts whole request   *)
(* handlers, api.mutationAdmission (internal/api/rotation_admission.go)    *)
(* counts administrative writes.  They are one algorithm twice: a counter  *)
(* and a flag under a mutex that no holder keeps while it waits, and a     *)
(* channel, made by the worker that finds the fence empty and closed by    *)
(* the one that leaves it empty, on which the drainer waits.               *)
(***************************************************************************)
CONSTANTS
    Workers,         \* handler invocations
    Drainers,        \* callers of Quiesce / freeze
    WaitsWhenEmpty   \* freeze selects on its context even when nobody is in;
                     \* Quiesce returns at once

VARIABLES
    frozen,   \* frozen / closed: nobody may enter
    inside,   \* the workers active counts
    idle,     \* idle / drained, the current channel
    drain     \* where each caller of Quiesce / freeze is

fenceVars == <<frozen, inside, idle, drain>>

FenceInit ==
    /\ frozen = FALSE
    /\ inside = {}
    /\ idle = "nil"
    /\ drain = [d \in Drainers |-> "away"]

-----------------------------------------------------------------------------
\* A frozen fence rejects the worker, which changes nothing here.
Enter(w) ==
    /\ w \notin inside
    /\ ~frozen
    /\ inside' = inside \cup {w}
    /\ idle' = IF inside = {} THEN "open" ELSE idle
    /\ UNCHANGED <<frozen, drain>>

Leave(w) ==
    /\ w \in inside
    /\ inside' = inside \ {w}
    /\ idle' = IF inside = {w} THEN "closed" ELSE idle
    /\ UNCHANGED <<frozen, drain>>

\* Freezing a frozen fence is an error and changes nothing.
Freeze(d) ==
    /\ drain[d] = "away"
    /\ ~frozen
    /\ frozen' = TRUE
    /\ drain' = [drain EXCEPT ![d] =
                    IF inside = {} /\ ~WaitsWhenEmpty THEN "alone" ELSE "waiting"]
    /\ UNCHANGED <<inside, idle>>

\* The channel read when the fence froze is the current one as long as it is
\* frozen; an empty fence is waited for on a channel that is closed already.
Drained(d) ==
    /\ drain[d] = "waiting"
    /\ idle # "open"
    /\ drain' = [drain EXCEPT ![d] = "alone"]
    /\ UNCHANGED <<frozen, inside, idle>>

\* ctx.Done(): the fence reopens and the caller gets an error.
Expire(d) ==
    /\ drain[d] = "waiting"
    /\ frozen' = FALSE
    /\ drain' = [drain EXCEPT ![d] = "away"]
    /\ UNCHANGED <<inside, idle>>

\* The release handle, which does its work once.
Release(d) ==
    /\ drain[d] = "alone"
    /\ frozen' = FALSE
    /\ drain' = [drain EXCEPT ![d] = "away"]
    /\ UNCHANGED <<inside, idle>>

FenceNext ==
    \/ \E w \in Workers : Enter(w) \/ Leave(w)
    \/ \E d \in Drainers : Freeze(d) \/ Drained(d) \/ Expire(d) \/ Release(d)

FenceSpec == FenceInit /\ [][FenceNext]_fenceVars

-----------------------------------------------------------------------------
(* Properties.                                                             *)

FenceTypeOK ==
    /\ frozen \in BOOLEAN
    /\ inside \subseteq Workers
    /\ idle \in {"nil", "open", "closed"}
    /\ drain \in [Drainers -> {"away", "waiting", "alone"}]

(* The channel tells the truth: it is open exactly while somebody is in.   *)
(* Otherwise a drainer would be let through too early or wait for ever, or *)
(* a second worker would close a closed channel, which panics.             *)
SignalsTruth == idle = "open" <=> inside # {}

(* The fence belongs to one drainer at a time, from the moment it freezes  *)
(* until it lets go: a release never reopens the fence under another one.  *)
OneDrainer ==
    \A c, d \in Drainers :
        drain[c] # "away" => frozen /\ (drain[d] # "away" => c = d)

(* The fence is an exclusion: whoever is told that nobody is in is alone   *)
(* until it lets go.                                                       *)
Promise == INSTANCE Exclusion WITH
    working <- inside,
    alone <- {d \in Drainers : drain[d] = "alone"}

IsExclusion == Promise!Spec
=============================================================================
