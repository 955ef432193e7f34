------------------------------ MODULE Calibration ------------------------------
(* The calibration of an endpoint's authentication: a run tries its          *)
(* candidates one after another, each with one request, and the one that     *)
(* works is published (probe/calibration.go, store/calibration.go).          *)
(*                                                                           *)
(* The row of a run, its candidates and the rows of the executions survive a *)
(* crash; the worker, which is one goroutine, does not.  Every transaction   *)
(* compares the revision of the run it was prepared from, so that an         *)
(* administrator who starts or cancels a run races the worker.  The runs are *)
(* of routes of one upstream: a publication by one changes the configuration *)
(* the other was tested under.  The revisions of endpoint, credential,       *)
(* network, route, model, settings and secrets are one counter.              *)
EXTENDS Integers, FiniteSets

CONSTANTS Runs,         \* the runs, 1..n in the order they were created
          Candidates,   \* the authentication modes a run tries
          MaxEdits,     \* bound: edits of the configuration and of the switch
          MaxCrashes,   \* bound: crashes of the process
          MaxRevision   \* bound: the revision a run may still be started at

\* CreateCalibrationRun refuses a run without candidates.
ASSUME CandidatesAssumption == Candidates \in Nat \ {0}
ASSUME RunsAssumption       == Runs \subseteq Nat
ASSUME LimitsAssumption     ==
    MaxEdits \in Nat /\ MaxCrashes \in Nat /\ MaxRevision \in Nat

VARIABLES run,       \* per run: state, current candidate, revision
          cand,      \* per candidate: state and disposition
          exec,      \* per candidate: its row in probe_execution, or NoExecution
          conf,      \* the configuration's revision
          enabled,   \* the route and the upstream are enabled
          published, \* the candidate whose mode and recipe are published
          exhausted, \* the runs that wrote config_error for their endpoint
          worker,    \* the goroutine of Run
          sent,      \* per candidate: the requests that went out
          edits, crashes

rows == <<run, cand, exec, published, exhausted>>
calibrationVars == <<run, cand, exec, conf, enabled, published, exhausted,
                     worker, sent, edits, crashes>>

Ordinals == 1..Candidates
NoExecution == [outcome |-> "none", conf |-> 0]
Nobody == <<0, 0>>
Outcomes == {"success", "try_next_auth", "try_next_shape", "stop"}

Idle == [at |-> "idle", page |-> {}, id |-> 0, ord |-> 1, rev |-> 0,
         state |-> "none", conf |-> 0]

CalibrationInit ==
    /\ run = [r \in Runs |-> [state |-> "none", current |-> 1, rev |-> 1]]
    /\ cand = [r \in Runs |-> [o \in Ordinals |->
                [state |-> "planned", disposition |-> "none"]]]
    /\ exec = [r \in Runs |-> [o \in Ordinals |-> NoExecution]]
    /\ conf = 1
    /\ enabled = TRUE
    /\ published = Nobody
    /\ exhausted = {}
    /\ worker = Idle
    /\ sent = [r \in Runs |-> [o \in Ordinals |-> 0]]
    /\ edits = 0
    /\ crashes = 0

Running(r) == run[r].state = "running"
Open(r) == run[r].state \in {"planned", "running"}
Current(r) == cand[r][run[r].current]

-------------------------------------------------------------------------------
(* What the administrator does, in the requests of the API.                  *)

Moved(r, state) == [run[r] EXCEPT !.state = state, !.rev = @ + 1]

(* Plan: at most three candidates, of an enabled target.                     *)
Plan(r) ==
    /\ run[r].state = "none" /\ enabled
    /\ \A q \in Runs : q < r => run[q].state # "none"
    /\ run' = [run EXCEPT ![r].state = "planned"]
    /\ UNCHANGED <<cand, exec, conf, enabled, published, exhausted, worker, sent,
                   edits, crashes>>

(* Start: a running run may be started again, which only moves its revision. *)
Start(r) ==
    /\ Open(r) /\ enabled /\ run[r].rev <= MaxRevision
    /\ run' = [run EXCEPT ![r] = Moved(r, "running")]
    /\ UNCHANGED <<cand, exec, conf, enabled, published, exhausted, worker, sent,
                   edits, crashes>>

(* FinishCalibrationRun: the candidates stay as they are.                    *)
Finish(r, state, rev) ==
    IF Open(r) /\ run[r].rev = rev
    THEN run' = [run EXCEPT ![r] = Moved(r, state)]
    ELSE UNCHANGED run

CancelRun(r) ==
    /\ Open(r)
    /\ Finish(r, "canceled", run[r].rev)
    /\ UNCHANGED <<cand, exec, conf, enabled, published, exhausted, worker, sent,
                   edits, crashes>>

Edit ==
    /\ edits < MaxEdits
    /\ edits' = edits + 1
    /\ \/ conf' = conf + 1 /\ UNCHANGED enabled
       \/ enabled' = ~enabled /\ UNCHANGED conf
    /\ UNCHANGED <<run, cand, exec, published, exhausted, worker, sent, crashes>>

-------------------------------------------------------------------------------
(* The worker.  An error ends the page: the runs behind wait for the next    *)
(* tick, which starts from the newest run again.                             *)

(* listRunning: the rows are read now and used when their turn comes.        *)
Listed(r) == [id |-> r, ord |-> run[r].current, rev |-> run[r].rev,
              state |-> Current(r).state]

Tick ==
    /\ worker.at = "idle" /\ \E r \in Runs : Running(r)
    /\ worker' = [Idle EXCEPT !.at = "next",
                             !.page = {Listed(r) : r \in {q \in Runs : Running(q)}}]
    /\ UNCHANGED <<rows, conf, enabled, sent, edits, crashes>>

Failed == worker' = Idle
Done == worker' = IF worker.page = {} THEN Idle
                  ELSE [Idle EXCEPT !.at = "next", !.page = worker.page]

(* What the next step works on: the row read for it.                         *)
Goes(at, r) ==
    worker' = [worker EXCEPT !.at = at, !.id = r, !.ord = run'[r].current,
                             !.rev = run'[r].rev,
                             !.state = cand'[r][run'[r].current].state]

(* advanceRun of the newest run of the page: the candidate's state decides.  *)
(* The current candidate of a running run is never finished, so that the     *)
(* last case of the code is dead.                                            *)
Newest(page) == {e \in page : \A f \in page : f.id <= e.id}

Advance ==
    /\ worker.at = "next"
    /\ \E head \in Newest(worker.page) :
          worker' = [at |-> CASE head.state = "planned" -> "prepare"
                              [] head.state = "prepared" -> "send"
                              [] head.state = "send_started" -> "recover",
                     page |-> worker.page \ {head}, id |-> head.id,
                     ord |-> head.ord, rev |-> head.rev, state |-> head.state,
                     conf |-> 0]
    /\ UNCHANGED <<rows, conf, enabled, sent, edits, crashes>>

Same(r) == Running(r) /\ run[r].rev = worker.rev

(* PrepareCalibrationCandidate: the recipe's version and the identity of the *)
(* execution are on disk before anything is sent.                            *)
Prepare ==
    /\ worker.at = "prepare"
    /\ LET r == worker.id IN
       IF Same(r) /\ run[r].current = worker.ord
       THEN /\ run' = [run EXCEPT ![r].rev = @ + 1]
            /\ cand' = [cand EXCEPT ![r][worker.ord].state = "prepared"]
            /\ worker' = [worker EXCEPT !.at = "prepared"]
       ELSE Failed /\ UNCHANGED <<run, cand>>
    /\ UNCHANGED <<exec, conf, enabled, published, exhausted, sent, edits, crashes>>

Reread ==
    /\ worker.at = "prepared"
    /\ UNCHANGED <<rows, conf, enabled, sent, edits, crashes>>
    /\ Goes("send", worker.id)

(* sendCandidate, its first check: a target switched off fails the run.      *)
CheckTarget ==
    /\ worker.at = "send"
    /\ IF enabled
       THEN /\ worker' = [worker EXCEPT
                    !.at = IF worker.state = "prepared" THEN "mark"
                           ELSE "started"]
            /\ UNCHANGED run
       ELSE Failed /\ Finish(worker.id, "failed", worker.rev)
    /\ UNCHANGED <<cand, exec, conf, enabled, published, exhausted, sent, edits,
                   crashes>>

(* MarkCalibrationSendStarted: a second call for the same execution is a     *)
(* success that changes nothing.                                             *)
MarkSendStarted ==
    /\ worker.at = "mark"
    /\ LET r == worker.id IN
       CASE Same(r) /\ cand[r][worker.ord].state = "prepared" ->
              /\ run' = [run EXCEPT ![r].rev = @ + 1]
              /\ cand' = [cand EXCEPT ![r][worker.ord].state = "send_started"]
              /\ worker' = [worker EXCEPT !.at = "started"]
         [] Same(r) /\ cand[r][worker.ord].state = "send_started" ->
              worker' = [worker EXCEPT !.at = "started"] /\ UNCHANGED <<run, cand>>
         [] OTHER -> Failed /\ UNCHANGED <<run, cand>>
    /\ UNCHANGED <<exec, conf, enabled, published, exhausted, sent, edits, crashes>>

(* The run is read again: a canceled one sends nothing, and a target         *)
(* switched off in between fails it.  Then the request is built from the     *)
(* configuration of this moment.                                             *)
Build ==
    /\ worker.at = "started"
    /\ LET r == worker.id IN
       CASE run[r].state = "canceled" -> Done /\ UNCHANGED run
         [] run[r].state # "canceled" /\ ~enabled ->
              Failed /\ Finish(r, "failed", run[r].rev)
         [] OTHER -> /\ UNCHANGED run
                     /\ worker' = [worker EXCEPT !.at = "built", !.conf = conf,
                                                 !.ord = run[r].current,
                                                 !.rev = run[r].rev]
    /\ UNCHANGED <<cand, exec, conf, enabled, published, exhausted, sent, edits,
                   crashes>>

(* Execute: one round trip, or none when the admission is refused.           *)
RoundTrip ==
    /\ worker.at = "built"
    /\ \/ /\ worker' = [worker EXCEPT !.at = "wire"]
          /\ sent' = [sent EXCEPT ![worker.id][worker.ord] = @ + 1]
       \/ Failed /\ UNCHANGED sent
    /\ UNCHANGED <<rows, conf, enabled, edits, crashes>>

(* The answer is recorded, or the probe was cut off and leaves no row.       *)
Record ==
    /\ worker.at = "wire"
    /\ \/ \E outcome \in Outcomes :
            /\ exec' = [exec EXCEPT ![worker.id][worker.ord] =
                            [outcome |-> outcome, conf |-> worker.conf]]
            /\ worker' = [worker EXCEPT !.at = "recorded"]
       \/ Failed /\ UNCHANGED exec
    /\ UNCHANGED <<run, cand, conf, enabled, published, exhausted, sent, edits,
                   crashes>>

(* Mutant: without a row the request is sent again.                          *)
RecoverResends ==
    /\ worker.at = "recover"
    /\ worker' = [worker EXCEPT
            !.at = IF exec[worker.id][worker.ord] # NoExecution THEN "recorded" ELSE "send"]
    /\ UNCHANGED <<rows, conf, enabled, sent, edits, crashes>>

(* recoverSendStarted: a row decides; without one nobody knows whether the   *)
(* request left, and the run is interrupted.                                 *)
Recover ==
    /\ worker.at = "recover"
    /\ LET r == worker.id IN
       CASE exec[r][worker.ord] # NoExecution ->
              worker' = [worker EXCEPT !.at = "recorded"] /\ UNCHANGED <<run, cand>>
         [] exec[r][worker.ord] = NoExecution /\ Same(r)
            /\ cand[r][worker.ord].state = "send_started" ->
              /\ run' = [run EXCEPT ![r] = Moved(r, "interrupted")]
              /\ cand' = [cand EXCEPT ![r][worker.ord] =
                            [state |-> "indeterminate", disposition |-> "stop"]]
              /\ Done
         [] OTHER -> Failed /\ UNCHANGED <<run, cand>>
    /\ UNCHANGED <<exec, conf, enabled, published, exhausted, sent, edits, crashes>>

(* finishFromExecution: a run that ended meanwhile is left alone.            *)
ConcludeRun ==
    /\ worker.at = "recorded"
    /\ UNCHANGED <<rows, conf, enabled, sent, edits, crashes>>
    /\ IF Running(worker.id)
       THEN Goes(IF exec[worker.id][worker.ord].outcome = "success"
                 THEN "commit" ELSE "advance", worker.id)
       ELSE Done

(* Mutant: the configuration read before the commit is compared.             *)
StillCurrentNow(r, o) == TRUE

(* requireCalibrationEvidenceCurrent: what the execution was tested under.   *)
StillCurrent(r, o) == exec[r][o].conf = conf

(* CommitCalibrationSuccess: one transaction publishes the mode and the      *)
(* recipe, drops the health and the capabilities proved under the old ones   *)
(* and ends the run.  The endpoint's revision moves with it.                 *)
CommitSuccess ==
    /\ worker.at = "commit"
    /\ LET r == worker.id
           o == worker.ord IN
       IF Same(r) /\ StillCurrent(r, o)
       THEN /\ run' = [run EXCEPT ![r] = Moved(r, "succeeded")]
            /\ cand' = [cand EXCEPT ![r][o] = [state |-> "finished",
                                               disposition |-> "stop"]]
            /\ published' = <<r, o>>
            /\ conf' = conf + 1
            /\ Done
       ELSE Failed /\ UNCHANGED <<run, cand, published, conf>>
    /\ UNCHANGED <<exec, enabled, exhausted, sent, edits, crashes>>

Rejected(c) == c.state = "finished" /\ c.disposition = "try_next_auth"

(* Mutant: the last candidate alone decides.                                 *)
AllRejectedLast(cs) == Rejected(cs[Candidates])

(* Every candidate was tried and rejected for its authentication.            *)
AllRejected(cs) == \A o \in Ordinals : Rejected(cs[o])

(* AdvanceCalibrationAfterExecution: on to the next planned candidate, or    *)
(* the run has failed, with config_error when the modes are exhausted.       *)
AdvanceAfterExecution ==
    /\ worker.at = "advance"
    /\ LET r == worker.id
           o == worker.ord
           outcome == exec[r][o].outcome
           cs == [cand[r] EXCEPT ![o] = [state |-> "finished",
                                         disposition |-> outcome]]
           next == {p \in Ordinals : p > o /\ cs[p].state = "planned"} IN
       CASE ~Running(r) /\ run[r].rev = worker.rev ->
              Done /\ UNCHANGED <<run, cand, exhausted>>
         [] Same(r) /\ outcome # "stop" /\ next # {} ->
              /\ cand' = [cand EXCEPT ![r] = cs]
              /\ \E p \in next :
                    /\ \A q \in next : p <= q
                    /\ run' = [run EXCEPT ![r] =
                                  [Moved(r, "running") EXCEPT !.current = p]]
              /\ Done /\ UNCHANGED exhausted
         [] Same(r) /\ (outcome = "stop" \/ next = {}) ->
              /\ cand' = [cand EXCEPT ![r] = cs]
              /\ run' = [run EXCEPT ![r] = Moved(r, "failed")]
              /\ exhausted' = IF outcome = "try_next_auth" /\ AllRejected(cs)
                              THEN exhausted \cup {r} ELSE exhausted
              /\ Done
         [] OTHER -> Failed /\ UNCHANGED <<run, cand, exhausted>>
    /\ UNCHANGED <<exec, conf, enabled, published, sent, edits, crashes>>

(* The process dies at any step and starts again with the rows it left.      *)
Crash ==
    /\ crashes < MaxCrashes
    /\ crashes' = crashes + 1
    /\ worker' = Idle
    /\ UNCHANGED <<rows, conf, enabled, sent, edits>>

Work == \/ Tick \/ Advance \/ Prepare \/ Reread \/ CheckTarget
        \/ MarkSendStarted \/ Build \/ RoundTrip \/ Record \/ Recover \/ ConcludeRun
        \/ CommitSuccess \/ AdvanceAfterExecution

CalibrationNext == \/ \E r \in Runs : Plan(r) \/ Start(r) \/ CancelRun(r)
        \/ Edit \/ Work \/ Crash

(* The worker's loop never stops while the process runs: a step it can take  *)
(* is taken, and a probe ends by its deadline.                               *)
CalibrationSpec ==
    /\ CalibrationInit /\ [][CalibrationNext]_calibrationVars
    /\ WF_calibrationVars(Work)

-------------------------------------------------------------------------------
RunStates == {"none", "planned", "running", "succeeded", "failed", "canceled",
              "interrupted"}

CalibrationTypeOK ==
    /\ run \in [Runs -> [state : RunStates, current : Ordinals, rev : Nat]]
    /\ cand \in [Runs -> [Ordinals ->
           [state : {"planned", "prepared", "send_started", "finished",
                     "indeterminate"},
            disposition : {"none"} \cup Outcomes]]]
    /\ exec \in [Runs -> [Ordinals -> {NoExecution} \cup [outcome : Outcomes, conf : Nat]]]
    /\ exhausted \subseteq Runs

(* A candidate's request goes out at most once, whatever crashes between its *)
(* preparation, the mark, the round trip and the row of its execution, and   *)
(* never before the mark is on disk (docs/04: send_started is never resent). *)
SentOnce ==
    \A r \in Runs, o \in Ordinals :
        /\ sent[r][o] <= 1
        /\ sent[r][o] = 1 => cand[r][o].state \notin {"planned", "prepared"}

(* What is published answered under the configuration it is published into:  *)
(* nothing was edited, and no other run published, between its request and   *)
(* the commit, and the run was still wanted.                                 *)
PublishedIsProven ==
    [][published' # published =>
         LET r == published'[1]
             o == published'[2] IN
         /\ exec[r][o] = [outcome |-> "success", conf |-> conf]
         /\ sent[r][o] = 1
         /\ Running(r)]_calibrationVars

(* The modes are reported exhausted only when each candidate's own request   *)
(* was answered by a rejection of its authentication.                        *)
ExhaustedIsEarned ==
    \A r \in exhausted : \A o \in Ordinals :
        exec[r][o].outcome = "try_next_auth" /\ sent[r][o] = 1

(* Both: what a run sends and what it concludes.                             *)
CalibrationIsHonest == SentOnce /\ ExhaustedIsEarned

(* A run that waits for good: it worked, but under a configuration that is   *)
(* no longer the current one, so that no commit of it can succeed.           *)
Outdated(r) ==
    /\ Running(r)
    /\ LET e == exec[r][run[r].current] IN e.outcome = "success" /\ e.conf # conf

(* A running run ends, through crashes, restarts, edits and cancels, unless  *)
(* it is outdated or a newer run is: the worker's page ends at the newer     *)
(* run's error before it comes to the older one.                             *)
RunEnds ==
    \A r \in Runs :
        Running(r) ~> \/ ~Running(r)
                      \/ \E q \in Runs : q >= r /\ Outdated(q)
=============================================================================
