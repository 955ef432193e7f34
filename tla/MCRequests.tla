------------------------------ MODULE MCRequests ------------------------------
(* What one client request does and what the gateway concludes from such     *)
(* requests and from probes, side by side and small: the handler with its    *)
(* attempts, and the observations of one upstream and one endpoint.  A       *)
(* behaviour is of one of the two.                                           *)
EXTENDS ProxyRequest, Observations, TLC

CONSTANTS r1, r2, r3, x1, x2

VARIABLE part

Serves   == part = "handler"
Observes == part = "observations"

\* What does not move starts from one state.
PartsInit ==
    /\ Init /\ ObsInit
    /\ part \in {"handler", "observations"}
    /\ Serves => carry = CHOOSE c \in Carries : TRUE
    /\ Observes => req.kind = "count"

PartsNext ==
    /\ UNCHANGED part
    /\ \/ Serves /\ Next /\ UNCHANGED obsVars
       \/ Observes /\ ObsNext /\ UNCHANGED vars

PartsSpec == PartsInit /\ [][PartsNext]_<<part, vars, obsVars>>

-----------------------------------------------------------------------------
MCSymmetry == Permutations(Routes) \cup Permutations(Executions)

(* An execution of an old revision will be config_stale, a reachability row  *)
(* of an old revision is no prior: what else they hold is never read again.  *)
(* Nothing reads the capability registry to change anything else: the        *)
(* properties of the rows and of the tracker do not tell apart what only it  *)
(* depends on.                                                               *)
Stale(e) == e.pc \in {"sent", "record"} /\ e.rev # rev
MCView ==
    <<part, vars, rev, carry, pub, admin, last, mreach, cap,
      IF reach.rev = rev THEN reach ELSE [NoReach EXCEPT !.order = reach.order],
      IF reach.rev = rev THEN evidence ELSE {},
      [x \in Executions |->
         IF Stale(exec[x]) THEN [NoExec EXCEPT !.pc = exec[x].pc, !.cap = NoEntry]
         ELSE [exec[x] EXCEPT !.kept = TRUE, !.cap = NoEntry]]>>

=============================================================================
