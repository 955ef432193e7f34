---------------------------- MODULE OrderSource ----------------------------
(* What observationseq promises to the rest of the gateway: every order that *)
(* is handed out is above every order handed out before it, by this process  *)
(* or by an earlier one.  Orders may be skipped; none is used twice.         *)
EXTENDS Naturals, Sequences

VARIABLE given    \* the orders handed out so far, oldest first

Init == given = <<>>

Issue ==
    /\ Len(given') = Len(given) + 1
    /\ LET order == given'[Len(given')]
       IN  /\ \A i \in DOMAIN given : given[i] < order
           /\ given' = Append(given, order)

Spec == Init /\ [][Issue]_given
=============================================================================
