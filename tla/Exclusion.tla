------------------------------- MODULE Exclusion -------------------------------
(***************************************************************************)
(* What an admission fence promises, without its mutex, counter and        *)
(* channel: workers run together, or one drainer runs alone.               *)
(***************************************************************************)
CONSTANTS Workers, Drainers

VARIABLES
    working,   \* the workers that were let in
    alone      \* the drainers that were told that nobody is in

vars == <<working, alone>>

Init == working = {} /\ alone = {}

Enter(w) ==
    /\ alone = {}
    /\ w \notin working
    /\ working' = working \cup {w}
    /\ UNCHANGED alone

Leave(w) ==
    /\ w \in working
    /\ working' = working \ {w}
    /\ UNCHANGED alone

Isolate(d) ==
    /\ working = {} /\ alone = {}
    /\ alone' = {d}
    /\ UNCHANGED working

Rejoin(d) ==
    /\ d \in alone
    /\ alone' = alone \ {d}
    /\ UNCHANGED working

Next ==
    \/ \E w \in Workers : Enter(w) \/ Leave(w)
    \/ \E d \in Drainers : Isolate(d) \/ Rejoin(d)

Spec == Init /\ [][Next]_vars
=============================================================================
