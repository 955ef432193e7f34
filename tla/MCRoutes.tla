------------------------------ MODULE MCRoutes ------------------------------
(* RouteHealth, small, by pairs: two requests with a changing policy, and a  *)
(* request with a probe of the route or with one of its upstream.  A         *)
(* behaviour is of one of the three.                                         *)
EXTENDS RouteHealth, TLC

CONSTANTS r1, r2, r3, q1, s1

VARIABLE cast  \* who takes part: the others stay where they started

PartsInit == Init /\ cast \in {{r1, r2}, {r3, q1}, {r3, s1}}

\* RouteHealth's Next with this cast.
PartsNext ==
    /\ UNCHANGED cast
    /\ \/ \E r \in Requests \cap cast : Request(r)
       \/ \E p \in (Probes \cup Stations) \cap cast : Probe(p)
       \/ \E a \in cast : Observation(a)
       \/ \E e \in Editors : Edit(e)
       \/ Reload \/ Touch \/ Thaw \/ Demote
       \/ cast = {r1, r2} /\ ChangePolicy

PartsSpec == PartsInit /\ [][PartsNext]_<<cast, vars>>

MCSymmetry == Permutations({r1, r2})

(* States that differ only in what an attempt has left behind and nothing    *)
(* will read again are one state to TLC.                                     *)
Bound(a) == pc[a] \in {"wrap", "gate", "send", "sent", "freeSlot", "attach"}
Live(a) ==
    [cfg     |-> IF pc[a] # "idle" \/ note[a] # "none" THEN cfg[a] ELSE 0,
     bound   |-> IF Bound(a) \/ note[a] # "none" THEN bound[a] ELSE 0,
     order   |-> IF pc[a] = "sent" \/ note[a] # "none" THEN order[a] ELSE 0,
     armed   |-> (pc[a] # "idle" \/ note[a] # "none") /\ armed[a],
     outcome |-> IF note[a] # "none" THEN outcome[a] ELSE "ignored"]
MCView == <<cast, config, stored, row, gating, flow, [a \in DOMAIN pc |-> Live(a)]>>

=============================================================================
