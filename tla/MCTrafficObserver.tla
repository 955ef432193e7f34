-------------------------- MODULE MCTrafficObserver --------------------------
(* A small instance of TrafficObserver for TLC.                              *)
EXTENDS TrafficObserver

CONSTANTS a1, a2

MCAttempts == {a1, a2}

(* A finished attempt is submitted, whatever its worker was doing            *)
(* (TrafficObserver: Settles): the attempts are alike, so that what holds of *)
(* one with the other beside it holds of both.                               *)
FinishedSettles == Settles(a1)
=============================================================================
