------------------------------ MODULE Sequencer ------------------------------
(* observationseq.Sequencer and the row it reserves from.                    *)
(*                                                                           *)
(* Orders are reserved from SQLite a block at a time and given out from      *)
(* memory.  A real request never waits for a block; a synthetic probe sleeps *)
(* on the condition variable until the prefetch goroutine broadcasts.  Each  *)
(* pass of Next's loop is one critical section, so it is one action.         *)
EXTENDS Integers, Sequences

CONSTANTS
    Callers,      \* goroutines that ask for an order
    Real,         \* those among them that carry a proxied request
    BlockSize,    \* orders in a block
    LowWater,     \* the next block is reserved when so few are left
    MaxOrder      \* the largest order an int64 holds

ASSUME RealAssumption  == Real \subseteq Callers
ASSUME BlockAssumption == /\ BlockSize \in Nat \ {0} /\ LowWater \in Nat
                          /\ MaxOrder \in Nat

VARIABLES
    watermark,    \* observation_sequence.high_watermark
    up,           \* a process has opened the sequencer
    next, end,    \* the block being given out
    pending,      \* the block reserved ahead, [lo, hi]; lo > hi when none
    fetch,        \* the prefetch goroutine: idle, running, reserved, failed
    block,        \* what its transaction returned
    fetchErr,     \* an undelivered prefetch error
    stopped,      \* the lifecycle context is cancelled
    closed,       \* Close was called
    pc,           \* per caller: idle, ready (owns or wants the lock), asleep
    ctx,          \* its context: live, due (AfterFunc not run yet), done
    given         \* history: the orders handed out, by every process

vars == <<watermark, up, next, end, pending, fetch, block, fetchErr, stopped,
          closed, pc, ctx, given>>

Synthetic == Callers \ Real
NoBlock   == [lo |-> 1, hi |-> 0]
Blocks    == [lo : Nat, hi : Nat]
HasPending == pending.lo <= pending.hi
Left       == end - next + 1

TypeOK ==
    /\ watermark \in Nat /\ next \in Nat /\ end \in Nat
    /\ up \in BOOLEAN /\ stopped \in BOOLEAN /\ closed \in BOOLEAN
    /\ fetchErr \in BOOLEAN
    /\ pending \in Blocks /\ block \in Blocks
    /\ fetch \in {"idle", "running", "reserved", "failed"}
    /\ pc \in [Callers -> {"idle", "ready", "asleep"}]
    /\ ctx \in [Callers -> {"live", "due", "done"}]
    /\ given \in Seq(Nat)

(* The process is down: what it held in memory is gone.                      *)
Down ==
    /\ up' = FALSE /\ next' = 1 /\ end' = 0
    /\ pending' = NoBlock /\ block' = NoBlock
    /\ fetch' = "idle" /\ fetchErr' = FALSE
    /\ stopped' = FALSE /\ closed' = FALSE
    /\ pc' = [c \in Callers |-> "idle"] /\ ctx' = [c \in Callers |-> "live"]

Init ==
    /\ watermark = 0 /\ up = FALSE /\ next = 1 /\ end = 0
    /\ pending = NoBlock /\ block = NoBlock /\ fetch = "idle"
    /\ fetchErr = FALSE /\ stopped = FALSE /\ closed = FALSE
    /\ pc = [c \in Callers |-> "idle"] /\ ctx = [c \in Callers |-> "live"]
    /\ given = <<>>

-----------------------------------------------------------------------------
(* The store: one transaction moves the watermark by a block.                *)

Exhausted == watermark > MaxOrder - BlockSize
(* Mutant: the block starts at the watermark, not after it.                  *)
NextBlockTouching == [lo |-> watermark, hi |-> watermark + BlockSize - 1]

NextBlock == [lo |-> watermark + 1, hi |-> watermark + BlockSize]

(* Open reserves the first block; a failure keeps the process from serving,  *)
(* and a commit that was reported as failed leaves a gap.                    *)
Open ==
    /\ ~up /\ ~Exhausted
    /\ watermark' = NextBlock.hi
    /\ up' = TRUE /\ next' = NextBlock.lo /\ end' = NextBlock.hi
    /\ UNCHANGED <<pending, fetch, block, fetchErr, stopped, closed, pc, ctx,
                   given>>

OpenFails ==
    /\ ~up
    /\ watermark' \in IF Exhausted THEN {watermark}
                                   ELSE {watermark, NextBlock.hi}
    /\ UNCHANGED <<up, next, end, pending, fetch, block, fetchErr, stopped,
                   closed, pc, ctx, given>>

(* prefetch, before it takes the lock.                                       *)
Reserve ==
    /\ fetch = "running" /\ ~Exhausted /\ ~stopped
    /\ watermark' = NextBlock.hi
    /\ \/ fetch' = "reserved" /\ block' = NextBlock
       \/ fetch' = "failed" /\ UNCHANGED block
    /\ UNCHANGED <<up, next, end, pending, fetchErr, stopped, closed, pc, ctx,
                   given>>

ReserveFails ==
    /\ fetch = "running" /\ fetch' = "failed"
    /\ UNCHANGED <<watermark, up, next, end, pending, block, fetchErr,
                   stopped, closed, pc, ctx, given>>
-----------------------------------------------------------------------------
(* The sequencer's own critical sections.                                    *)

(* Mutant: one of those that sleep is woken, not all (Signal).               *)
Signal(waiting) ==
    LET asleep == {c \in Callers : waiting[c] = "asleep"} IN
    IF asleep = {} THEN waiting
    ELSE [waiting EXCEPT ![CHOOSE c \in asleep : TRUE] = "ready"]

Broadcast(waiting) ==
    [c \in Callers |-> IF waiting[c] = "asleep" THEN "ready" ELSE waiting[c]]

(* prefetch, under the lock: a block that arrives after the shutdown is      *)
(* dropped, one that overlaps what is already reserved is an error.          *)
Deliver ==
    /\ fetch \in {"reserved", "failed"}
    /\ fetch' = "idle" /\ block' = NoBlock
    /\ pc' = Broadcast(pc)
    /\ \/ /\ closed \/ stopped
          /\ UNCHANGED <<pending, fetchErr>>
       \/ /\ ~closed /\ ~stopped
          /\ fetch = "reserved" /\ block.lo > end
          /\ pending' = block /\ fetchErr' = FALSE
       \/ /\ ~closed /\ ~stopped
          /\ ~(fetch = "reserved" /\ block.lo > end)
          /\ fetchErr' = TRUE /\ UNCHANGED pending
    /\ UNCHANGED <<watermark, up, next, end, stopped, closed, ctx, given>>

(* armIfIdleLocked, seen after the block in hand became `ahead'.             *)
Arm(ahead) ==
    fetch' = IF closed \/ stopped \/ ahead.lo <= ahead.hi \/ fetch # "idle"
             THEN fetch ELSE "running"

CanTake == Left > 0 \/ HasPending

(* tryTakeLocked: the block in hand first, then the one reserved ahead.      *)
Take ==
    /\ CanTake
    /\ IF Left > 0
       THEN next' = next + 1 /\ UNCHANGED <<end, pending>>
       ELSE next' = pending.lo + 1 /\ end' = pending.hi /\ pending' = NoBlock
    /\ given' = Append(given, next' - 1)
    /\ IF end' - next' + 1 <= LowWater THEN Arm(pending') ELSE UNCHANGED fetch

Call(c) ==
    /\ up /\ pc[c] = "idle"
    /\ pc' = [pc EXCEPT ![c] = "ready"]
    /\ ctx' = [ctx EXCEPT ![c] = IF stopped THEN "done" ELSE "live"]
    /\ UNCHANGED <<watermark, up, next, end, pending, fetch, block, fetchErr,
                   stopped, closed, given>>

Returns(c) ==
    /\ pc' = [pc EXCEPT ![c] = "idle"]
    /\ ctx' = [ctx EXCEPT ![c] = "live"]

(* One pass of the loop in Next that ends in an order, in an error, or in    *)
(* cond.Wait.                                                                *)
TakeOrder(c) ==
    /\ pc[c] = "ready" /\ ~closed /\ ~stopped
    /\ Take /\ Returns(c)
    /\ UNCHANGED <<watermark, up, block, fetchErr, stopped, closed>>

Refuse(c) ==
    /\ pc[c] = "ready"
    /\ \/ (closed \/ stopped) /\ UNCHANGED <<fetch, fetchErr>>
       \/ /\ ~closed /\ ~stopped /\ ~CanTake /\ c \in Real
          /\ Arm(pending) /\ UNCHANGED fetchErr
       \/ /\ ~closed /\ ~stopped /\ ~CanTake /\ c \in Synthetic
          /\ ctx[c] # "live" /\ UNCHANGED <<fetch, fetchErr>>
       \/ /\ ~closed /\ ~stopped /\ ~CanTake /\ c \in Synthetic
          /\ ctx[c] = "live" /\ fetchErr /\ fetch = "idle"
          /\ fetchErr' = FALSE /\ Arm(pending)
    /\ Returns(c)
    /\ UNCHANGED <<watermark, up, next, end, pending, block, stopped, closed,
                   given>>

MustWait(c) ==
    /\ pc[c] = "ready" /\ c \in Synthetic /\ ~closed /\ ~stopped
    /\ ~CanTake /\ ctx[c] = "live" /\ ~(fetchErr /\ fetch = "idle")

Sleep(c) ==
    /\ MustWait(c)
    /\ pc' = [pc EXCEPT ![c] = "asleep"]
    /\ Arm(pending)
    /\ UNCHANGED <<watermark, up, next, end, pending, block, fetchErr,
                   stopped, closed, ctx, given>>

(* Cancelling the lifecycle context cancels every probe's context with it.   *)
CancelAll ==
    ctx' = [c \in Callers |->
              IF pc'[c] # "idle" /\ c \in Synthetic /\ ctx[c] = "live"
              THEN "due" ELSE ctx[c]]

(* The shutdown falls between the check at the head of the loop and the one  *)
(* in armIfIdleLocked: the caller sleeps though nothing was armed.           *)
SleepAtShutdown(c) ==
    /\ MustWait(c) /\ stopped' = TRUE
    /\ pc' = [pc EXCEPT ![c] = "asleep"]
    /\ CancelAll
    /\ UNCHANGED <<watermark, up, next, end, pending, fetch, block, fetchErr,
                   closed, given>>
-----------------------------------------------------------------------------
(* What happens to the sequencer from outside.                               *)

CancelCaller(c) ==
    /\ pc[c] # "idle" /\ ctx[c] = "live" /\ c \in Synthetic
    /\ ctx' = [ctx EXCEPT ![c] = "due"]
    /\ UNCHANGED <<watermark, up, next, end, pending, fetch, block, fetchErr,
                   stopped, closed, pc, given>>

(* The AfterFunc goroutine of a cancelled context.                           *)
AfterFunc(c) ==
    /\ ctx[c] = "due"
    /\ ctx' = [ctx EXCEPT ![c] = "done"]
    /\ pc' = Broadcast(pc)
    /\ UNCHANGED <<watermark, up, next, end, pending, fetch, block, fetchErr,
                   stopped, closed, given>>

Stop ==
    /\ up /\ ~stopped /\ stopped' = TRUE
    /\ UNCHANGED pc /\ CancelAll
    /\ UNCHANGED <<watermark, up, next, end, pending, fetch, block, fetchErr,
                   closed, given>>

Close ==
    /\ up /\ ~closed /\ closed' = TRUE
    /\ pc' = Broadcast(pc)
    /\ UNCHANGED <<watermark, up, next, end, pending, fetch, block, fetchErr,
                   stopped, ctx, given>>

Crash == up /\ Down /\ UNCHANGED <<watermark, given>>

NextStep ==
    \/ Open \/ OpenFails \/ Reserve \/ ReserveFails \/ Deliver
    \/ Stop \/ Close \/ Crash
    \/ \E c \in Callers : \/ Call(c) \/ TakeOrder(c) \/ Refuse(c) \/ Sleep(c)
                          \/ SleepAtShutdown(c) \/ CancelCaller(c)
                          \/ AfterFunc(c)

Spec == Init /\ [][NextStep]_vars

(* A transaction returns, a goroutine that can take the lock gets it.        *)
Fairness ==
    /\ WF_vars(Reserve \/ ReserveFails) /\ WF_vars(Deliver)
    /\ \A c \in Callers :
          WF_vars(AfterFunc(c)) /\ WF_vars(TakeOrder(c) \/ Refuse(c) \/ Sleep(c))

FairSpec == Spec /\ Fairness
-----------------------------------------------------------------------------
(* Every order handed out is above every earlier one, through failed and     *)
(* unreported reservations, prefetches that come late, and crashes.          *)
Orders == INSTANCE OrderSource
OrdersRise == Orders!Spec

(* A probe that sleeps for an order is woken, whatever fails.                *)
SleepersWake == \A c \in Callers : pc[c] = "asleep" ~> pc[c] # "asleep"
=============================================================================
