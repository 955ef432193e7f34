--------------------------- MODULE ObservationProofs ---------------------------
(***************************************************************************)
(* What the gateway concludes from observations and where their orders     *)
(* come from: the sequencer is a source of orders that only rise, for any  *)
(* number of callers, any size of a block and any low water; and the rows  *)
(* of an upstream and an endpoint conclude what their observations say,    *)
(* for any number of them, of executions and of edits.  Last, the passive  *)
(* observer of what upstreams answer loses no slot and no job.             *)
(***************************************************************************)
EXTENDS Sequencer, Observations, PassiveScan, FiniteSetTheorems, SequenceTheorems, TLAPS

(***************************************************************************)
(* The sequencer.                                                          *)
(*                                                                         *)
(* The argument: a block that is reserved lies above the watermark, so     *)
(* above everything given out; a block in memory lies at or below it; and  *)
(* of the blocks in memory the one in hand goes first (Above).             *)
(***************************************************************************)

\* What is given out rises, and the watermark covers it, a crash included.
Rising ==
    /\ \A i, j \in DOMAIN given : i < j => given[i] < given[j]
    /\ \A i \in DOMAIN given : given[i] <= watermark

\* What a process holds in memory is still to be given out, in this order.
Above ==
    /\ up => \A i \in DOMAIN given : given[i] < next
    /\ up => next <= end + 1
    /\ end <= watermark
    /\ HasPending => up /\ pending.lo > end /\ pending.hi <= watermark
    /\ fetch = "reserved" => block.hi <= watermark
    /\ ~up => /\ next = 1 /\ end = 0 /\ fetch = "idle"
              /\ \A c \in Callers : pc[c] = "idle"

SeqInv == TypeOK /\ Rising /\ Above

LEMMA BlocksAre ==
    /\ \A b \in Blocks : b.lo \in Nat /\ b.hi \in Nat
    /\ NoBlock \in Blocks /\ NoBlock.lo = 1 /\ NoBlock.hi = 0
    /\ watermark \in Nat =>
          /\ NextBlock \in Blocks /\ NextBlock.lo = watermark + 1
          /\ NextBlock.hi = watermark + BlockSize /\ NextBlock.hi \in Nat
BY BlockAssumption DEF Blocks, NoBlock, NextBlock

LEMMA SeqInit == Init => SeqInv
<1> SUFFICES ASSUME Init PROVE SeqInv
    OBVIOUS
<1>0. given \in Seq(Nat) /\ pending \in Blocks /\ block \in Blocks
    BY BlocksAre DEF Init
<1>1. TypeOK
    BY <1>0 DEF Init, TypeOK
<1>2. Rising /\ Above
    BY BlocksAre DEF Init, Rising, Above, HasPending
<1> QED
    BY <1>1, <1>2 DEF SeqInv

\* The watermark only rises, which disturbs nothing below it.
LEMMA Reserving ==
    ASSUME SeqInv, Open \/ OpenFails \/ Reserve \/ ReserveFails
    PROVE  SeqInv'
<1>0. watermark \in Nat /\ given \in Seq(Nat) /\ given' = given
    BY DEF SeqInv, TypeOK, Open, OpenFails, Reserve, ReserveFails
<1>1. watermark' \in Nat /\ watermark' >= watermark
    BY <1>0, BlocksAre, BlockAssumption DEF Open, OpenFails, Reserve, ReserveFails
<1>2. TypeOK'
    <2>1. CASE Open
        BY <1>0, <1>1, <2>1, BlocksAre DEF SeqInv, TypeOK, Open
    <2>2. CASE OpenFails \/ Reserve \/ ReserveFails
        BY <1>0, <1>1, <2>2, BlocksAre DEF SeqInv, TypeOK, OpenFails, Reserve, ReserveFails
    <2> QED
        BY <2>1, <2>2
<1>3. Rising'
    BY <1>0, <1>1 DEF SeqInv, Rising
<1>4. Above'
    <2>1. CASE Open
        <3>1. \A i \in DOMAIN given : given[i] <= watermark /\ given[i] \in Nat
            BY <1>0 DEF SeqInv, Rising
        <3> QED
            BY <1>0, <2>1, <3>1, BlocksAre, BlockAssumption
               DEF SeqInv, TypeOK, Above, Open, HasPending
    <2>2. CASE OpenFails \/ Reserve \/ ReserveFails
        <3>1. block \in Blocks /\ pending \in Blocks /\ end \in Nat
            BY DEF SeqInv, TypeOK
        <3>2. fetch' = "reserved" => block'.hi <= watermark'
            BY <1>0, <1>1, <2>2, <3>1, BlocksAre
               DEF SeqInv, Above, OpenFails, Reserve, ReserveFails
        <3> QED
            BY <1>0, <1>1, <2>2, <3>1, <3>2, BlocksAre
               DEF SeqInv, Above, OpenFails, Reserve, ReserveFails, HasPending
    <2> QED
        BY <2>1, <2>2
<1> QED
    BY <1>2, <1>3, <1>4 DEF SeqInv

\* Arming the prefetch touches nothing but the prefetch.
LEMMA Arming ==
    ASSUME NEW ahead, Arm(ahead), TypeOK
    PROVE  fetch' \in {fetch, "running"} /\ (fetch # "idle" => fetch' = fetch)
BY DEF Arm, TypeOK

\* What leaves the orders and the blocks alone keeps the invariant.
LEMMA Aside ==
    ASSUME SeqInv, UNCHANGED <<watermark, up, next, end, pending, block, given>>,
           fetch' \in {fetch, "running"}, up \/ (fetch' = fetch /\ pc' = pc),
           fetchErr' \in BOOLEAN, stopped' \in BOOLEAN, closed' \in BOOLEAN,
           pc' \in [Callers -> {"idle", "ready", "asleep"}],
           ctx' \in [Callers -> {"live", "due", "done"}]
    PROVE  SeqInv'
<1>1. TypeOK'
    BY DEF SeqInv, TypeOK
<1>2. Rising' /\ Above'
    BY DEF SeqInv, TypeOK, Rising, Above, HasPending
<1> QED
    BY <1>1, <1>2 DEF SeqInv

\* Who may move is a caller of a process that is up.
LEMMA Moving ==
    ASSUME SeqInv, NEW c \in Callers, pc[c] # "idle"
    PROVE  up
BY DEF SeqInv, Above

LEMMA Broadcasting ==
    ASSUME TypeOK
    PROVE  /\ Broadcast(pc) \in [Callers -> {"idle", "ready", "asleep"}]
           /\ (\A c \in Callers : pc[c] = "idle") => Broadcast(pc) = pc
BY DEF TypeOK, Broadcast

\* A block that arrives is taken only when it lies above the one in hand.
LEMMA Delivering ==
    ASSUME SeqInv, Deliver
    PROVE  SeqInv'
<1>1. TypeOK'
    BY Broadcasting, BlocksAre DEF SeqInv, TypeOK, Deliver
<1>2. Rising'
    BY DEF SeqInv, Rising, Deliver
<1>3. up
    BY DEF SeqInv, Above, Deliver
<1>4. Above'
    BY <1>3 DEF SeqInv, TypeOK, Above, Deliver, HasPending
<1> QED
    BY <1>1, <1>2, <1>4 DEF SeqInv

\* The order given out is the next one of the block in hand, or the first of
\* the block reserved ahead: above everything before it.
LEMMA Given ==
    ASSUME SeqInv, NEW c \in Callers, TakeOrder(c)
    PROVE  /\ SeqInv'
           /\ \E n \in Nat : given' = Append(given, n) /\ \A i \in DOMAIN given : given[i] < n
<1> DEFINE n == next' - 1
<1>1. /\ up /\ up' = up /\ watermark' = watermark /\ block' = block
      /\ given \in Seq(Nat) /\ watermark \in Nat /\ next \in Nat /\ end \in Nat
    BY Moving DEF SeqInv, TypeOK, TakeOrder
<1>2. /\ n \in Nat /\ next' = n + 1 /\ next' \in Nat /\ end' \in Nat /\ pending' \in Blocks
      /\ \A i \in DOMAIN given : given[i] < n
      /\ n <= end' /\ end' <= watermark /\ next' <= end' + 1
      /\ pending'.lo <= pending'.hi => pending'.lo > end' /\ pending'.hi <= watermark
    <2>1. CASE Left > 0
        BY <1>1, <2>1 DEF SeqInv, TypeOK, Above, TakeOrder, Take, Left, HasPending
    <2>2. CASE ~(Left > 0)
        <3>1. HasPending /\ next' = pending.lo + 1 /\ end' = pending.hi /\ pending' = NoBlock
            BY <2>2 DEF TakeOrder, Take, CanTake
        <3>2. pending.lo \in Nat /\ pending.hi \in Nat
            BY BlocksAre DEF SeqInv, TypeOK
        <3>3. next <= pending.lo
            BY <1>1, <3>1, <3>2 DEF SeqInv, Above
        <3> QED
            BY <1>1, <3>1, <3>2, <3>3 DEF SeqInv, Above, HasPending, NoBlock, Blocks
    <2> QED
        BY <2>1, <2>2
<1>3. given' = Append(given, n)
    BY DEF TakeOrder, Take
<1> HIDE DEF n
<1>4. fetch' \in {fetch, "running"} /\ (fetch # "idle" => fetch' = fetch)
    BY Arming DEF TakeOrder, Take, SeqInv
<1>5. TypeOK'
    <2>1. /\ pc' \in [Callers -> {"idle", "ready", "asleep"}]
          /\ ctx' \in [Callers -> {"live", "due", "done"}]
        BY DEF SeqInv, TypeOK, TakeOrder, Returns
    <2>2. /\ fetch' \in {"idle", "running", "reserved", "failed"}
          /\ up' \in BOOLEAN /\ stopped' \in BOOLEAN /\ closed' \in BOOLEAN
          /\ fetchErr' \in BOOLEAN /\ block' \in Blocks
        BY <1>4 DEF SeqInv, TypeOK, TakeOrder
    <2>3. given' \in Seq(Nat)
        BY <1>1, <1>2, <1>3
    <2> QED
        BY <1>1, <1>2, <2>1, <2>2, <2>3 DEF TypeOK
<1>6. DOMAIN given' = 1 .. Len(given) + 1 /\ given'[Len(given) + 1] = n
      /\ \A i \in DOMAIN given : given'[i] = given[i]
    BY <1>1, <1>2, <1>3
<1>7. DOMAIN given = 1 .. Len(given) /\ Len(given) \in Nat /\ \A i \in DOMAIN given : given[i] \in Nat
    BY <1>1
<1>8. \A i \in DOMAIN given' : i \in DOMAIN given \/ i = Len(given) + 1
    BY <1>6, <1>7
<1>9. Rising'
    <2>1. ASSUME NEW i \in DOMAIN given'
          PROVE  given'[i] <= watermark'
        <3>1. CASE i \in DOMAIN given
            BY <1>1, <1>6, <3>1 DEF SeqInv, Rising
        <3>2. CASE i = Len(given) + 1
            BY <1>1, <1>2, <1>6, <3>2
        <3> QED
            BY <1>8, <3>1, <3>2
    <2>2. ASSUME NEW i \in DOMAIN given', NEW j \in DOMAIN given', i < j
          PROVE  given'[i] < given'[j]
        <3>1. i \in DOMAIN given
            BY <1>6, <1>7, <2>2
        <3>2. CASE j \in DOMAIN given
            BY <1>6, <2>2, <3>1, <3>2 DEF SeqInv, Rising
        <3>3. CASE j = Len(given) + 1
            BY <1>2, <1>6, <3>1, <3>3
        <3> QED
            BY <1>8, <3>2, <3>3
    <2> QED
        BY <2>1, <2>2 DEF Rising
<1>10. Above'
    <2>1. \A i \in DOMAIN given' : given'[i] < next'
        BY <1>2, <1>6, <1>7, <1>8
    <2>2. fetch' = "reserved" => block'.hi <= watermark'
        BY <1>1, <1>4 DEF SeqInv, Above
    <2> QED
        BY <1>1, <1>2, <2>1, <2>2 DEF Above, HasPending
<1> QED
    BY <1>2, <1>3, <1>5, <1>9, <1>10 DEF SeqInv

\* Everything a caller, its context or the shutdown does besides.
LEMMA Others ==
    ASSUME SeqInv,
           \/ Stop \/ Close
           \/ \E c \in Callers : \/ Call(c) \/ Refuse(c) \/ Sleep(c) \/ SleepAtShutdown(c)
                               \/ CancelCaller(c) \/ AfterFunc(c)
    PROVE  SeqInv' /\ given' = given
<1> USE DEF SeqInv
<1>1. CASE Stop
    BY <1>1, Aside DEF Stop, CancelAll, TypeOK
<1>2. CASE Close
    BY <1>2, Aside, Broadcasting DEF Close, TypeOK
<1>3. ASSUME NEW c \in Callers, Call(c)
      PROVE  SeqInv' /\ given' = given
    BY <1>3, Aside DEF Call, TypeOK
<1>4. ASSUME NEW c \in Callers, Refuse(c)
      PROVE  SeqInv' /\ given' = given
    <2>1. up
        BY <1>4, Moving DEF Refuse
    <2>2. fetch' \in {fetch, "running"}
        BY <1>4, Arming DEF Refuse
    <2>3. fetchErr' \in BOOLEAN /\ stopped' = stopped /\ closed' = closed
        BY <1>4 DEF Refuse, TypeOK
    <2>4. /\ pc' \in [Callers -> {"idle", "ready", "asleep"}]
          /\ ctx' \in [Callers -> {"live", "due", "done"}]
        BY <1>4 DEF Refuse, Returns, TypeOK
    <2>5. UNCHANGED <<watermark, up, next, end, pending, block, given>>
        BY <1>4 DEF Refuse
    <2> QED
        BY <2>1, <2>2, <2>3, <2>4, <2>5, Aside DEF TypeOK
<1>5. ASSUME NEW c \in Callers, Sleep(c)
      PROVE  SeqInv' /\ given' = given
    <2>1. up
        BY <1>5, Moving DEF Sleep, MustWait
    <2>2. fetch' \in {fetch, "running"}
        BY <1>5, Arming DEF Sleep
    <2> QED
        BY <1>5, <2>1, <2>2, Aside DEF Sleep, TypeOK
<1>6. ASSUME NEW c \in Callers, SleepAtShutdown(c)
      PROVE  SeqInv' /\ given' = given
    <2>1. up
        BY <1>6, Moving DEF SleepAtShutdown, MustWait
    <2> QED
        BY <1>6, <2>1, Aside DEF SleepAtShutdown, CancelAll, TypeOK
<1>7. ASSUME NEW c \in Callers, CancelCaller(c)
      PROVE  SeqInv' /\ given' = given
    BY <1>7, Aside DEF CancelCaller, TypeOK
<1>8. ASSUME NEW c \in Callers, AfterFunc(c)
      PROVE  SeqInv' /\ given' = given
    <2>1. up \/ pc' = pc
        BY <1>8, Broadcasting DEF AfterFunc, Above
    <2> QED
        BY <1>8, <2>1, Aside, Broadcasting DEF AfterFunc, TypeOK
<1> QED
    BY <1>1, <1>2, <1>3, <1>4, <1>5, <1>6, <1>7, <1>8

\* A crash leaves the watermark, which covers all that was given out.
LEMMA Crashing ==
    ASSUME SeqInv, Crash
    PROVE  SeqInv'
<1>1. TypeOK'
    BY BlocksAre DEF SeqInv, TypeOK, Crash, Down
<1>2. Rising' /\ Above'
    BY BlocksAre DEF SeqInv, TypeOK, Rising, Above, Crash, Down, HasPending
<1> QED
    BY <1>1, <1>2 DEF SeqInv

LEMMA SeqStep ==
    ASSUME SeqInv, [NextStep]_vars
    PROVE  SeqInv' /\ [Orders!Issue]_given
<1>1. CASE Open \/ OpenFails \/ Reserve \/ ReserveFails
    BY <1>1, Reserving DEF Open, OpenFails, Reserve, ReserveFails
<1>2. CASE Deliver
    BY <1>2, Delivering DEF Deliver
<1>3. CASE Crash
    BY <1>3, Crashing DEF Crash
<1>4. ASSUME NEW c \in Callers, TakeOrder(c)
      PROVE  SeqInv' /\ [Orders!Issue]_given
    <2>1. PICK n \in Nat : given' = Append(given, n) /\ \A i \in DOMAIN given : given[i] < n
        BY <1>4, Given
    <2>2. given \in Seq(Nat)
        BY DEF SeqInv, TypeOK
    <2>3. Len(given') = Len(given) + 1 /\ given'[Len(given')] = n
        BY <2>1, <2>2
    <2>4. Orders!Issue
        BY <2>1, <2>3 DEF Orders!Issue
    <2> QED
        BY <1>4, <2>4, Given
<1>5. CASE \/ Stop \/ Close
           \/ \E c \in Callers : \/ Call(c) \/ Refuse(c) \/ Sleep(c) \/ SleepAtShutdown(c)
                               \/ CancelCaller(c) \/ AfterFunc(c)
    BY <1>5, Others
<1>6. CASE UNCHANGED vars
    BY <1>6 DEF vars, SeqInv, TypeOK, Rising, Above, HasPending
<1> QED
    BY <1>1, <1>2, <1>3, <1>4, <1>5, <1>6 DEF NextStep

LEMMA SeqInductive == Spec => []SeqInv
BY SeqInit, SeqStep, PTL DEF Spec

-----------------------------------------------------------------------------
(* The watermark covers every order that was given out, and a process gives  *)
(* out only above it: the next start cannot give one out again.              *)
THEOREM RisingAlways == Spec => []Rising
<1>1. SeqInv => Rising
    BY DEF SeqInv
<1> QED
    BY <1>1, SeqInductive, PTL

(* Orders rise over the life of the database, through failed and unreported  *)
(* reservations, late prefetches, shutdowns and crashes: every step of the   *)
(* sequencer issues one order above all the others, or none.                 *)
THEOREM OrdersRiseAlways == Spec => OrdersRise
<1>1. Init => Orders!Init
    BY DEF Init, Orders!Init
<1> QED
    BY <1>1, SeqInductive, SeqStep, PTL DEF Spec, OrdersRise, Orders!Spec

(***************************************************************************)
(* The observations.                                                       *)
(*                                                                         *)
(* The argument: the row of an upstream counts failures that its own       *)
(* revision has seen, all later than the last success (Counts), and a      *)
(* conclusion that travels from the row to the tracker, in memory or with  *)
(* a restart, stays earned by what was observed up to its order (Earned),  *)
(* because later observations only come behind it.                         *)
(***************************************************************************)
ReachStates == {"unknown", "reachable", "unreachable"}
Selectors == {"real", "l2"}
ReachRows == [rev : Nat, sel : Selectors, order : Nat, state : ReachStates,
              oks : Nat, fails : Nat]
CapRows == [rev : Nat, sel : Selectors, order : Nat, state : States, real : Nat]
Entries == [rev : Nat, sel : Selectors, order : Nat,
            state : ReachStates \cup States]
ExecPcs == {"idle", "sent", "record", "apply", "applyCap"}
ExecStates == [pc : ExecPcs, trigger : Triggers, rev : Nat, order : Nat,
               outcome : {"ok", "down", "config", "unread"}, kept : BOOLEAN,
               reach : Entries, cap : Entries]
AdminSteps == [kind : {"none", "edit", "enable"},
               step : {"idle", "stored", "published", "forgotten", "cleared"}]
Evidences == [order : Nat, failed : BOOLEAN]

ConfigTypes ==
    /\ rev \in Nat \ {0} /\ pub \in Nat \ {0} /\ carry \subseteq {"reach", "cap"}
    /\ admin \in AdminSteps /\ bound \in BOOLEAN /\ last \in Nat
RowTypes ==
    /\ reach \in ReachRows /\ cap \in CapRows
    /\ mreach \in Entries /\ mcap \in Entries /\ clearing \in BOOLEAN
    /\ evidence \subseteq Evidences /\ IsFiniteSet(evidence)
ObsTypeOK == ConfigTypes /\ RowTypes /\ exec \in [Executions -> ExecStates]

(* The published configuration lags behind by the one edit under way.        *)
Published == pub <= rev /\ (pub # rev => admin.kind = "edit" /\ admin.step = "stored")

(* Of k members of ev, all later than the others, each failed.               *)
Failing(ev, k) ==
    \E F \in SUBSET ev :
       /\ Cardinality(F) = k
       /\ \A f \in F : f.failed
       /\ \A v \in ev \ F : \A f \in F : v.order < f.order
Seen(ev, n) == {v \in ev : v.order <= n}

(* The row counts what its configuration has counted.                        *)
Counts(row, rv, ev) ==
    /\ row.rev <= rv
    /\ row.rev # rv => ev = {}
    /\ \A v \in ev : v.order <= row.order
    /\ row.rev = rv =>
         /\ row.fails <= FailThreshold
         /\ \A k \in 0 .. row.fails : Failing(ev, k)
         /\ row.state = "unreachable" => row.fails = FailThreshold

(* A conclusion of this configuration is no newer than the row, and earned.  *)
Earned(entry, row, rv, ev) ==
    /\ entry.rev <= rv
    /\ entry.rev = rv =>
         /\ row.rev = rv /\ entry.order <= row.order
         /\ entry.state = "unreachable" =>
               Failing(Seen(ev, entry.order), FailThreshold)

Settling ==
    mreach.rev \notin {0, rev} => admin.kind = "edit" /\ admin.step # "idle"

ObsInv ==
    /\ ObsTypeOK /\ Published /\ Counts(reach, rev, evidence)
    /\ Earned(mreach, reach, rev, evidence)
    /\ \A x \in Executions : /\ Earned(exec[x].reach, reach, rev, evidence)
                             /\ exec[x].rev <= rev
    /\ Settling

-----------------------------------------------------------------------------
LEMMA ThresholdIs == FailThreshold \in Nat /\ OkThreshold \in Nat
BY ThresholdsAssumption

LEMMA NoFailing == ASSUME NEW ev PROVE Failing(ev, 0)
<1>1. {} \in SUBSET ev /\ Cardinality({}) = 0
    BY FS_EmptySet
<1> QED
    BY <1>1 DEF Failing

LEMMA FailingMore ==
    ASSUME NEW ev, ev \subseteq Evidences, IsFiniteSet(ev), NEW w \in Evidences,
           w.failed, \A v \in ev : v.order < w.order, NEW k \in Nat, Failing(ev, k)
    PROVE  Failing(ev \cup {w}, k + 1)
<1>1. PICK F \in SUBSET ev : /\ Cardinality(F) = k
                             /\ \A f \in F : f.failed
                             /\ \A v \in ev \ F : \A f \in F : v.order < f.order
    BY DEF Failing
<1>2. w \notin ev
    BY DEF Evidences
<1> DEFINE G == F \cup {w}
<1>3. Cardinality(G) = k + 1
    BY <1>1, <1>2, FS_Subset, FS_AddElement
<1>4. G \in SUBSET (ev \cup {w}) /\ \A f \in G : f.failed
    BY <1>1
<1>5. \A v \in (ev \cup {w}) \ G : \A f \in G : v.order < f.order
    BY <1>1
<1> HIDE DEF G
<1> QED
    BY <1>3, <1>4, <1>5 DEF Failing

LEMMA SeenAll ==
    ASSUME NEW ev, NEW n, \A v \in ev : v.order <= n
    PROVE  Seen(ev, n) = ev
BY DEF Seen

LEMMA SeenKept ==
    ASSUME NEW ev, NEW n \in Nat, NEW w \in Evidences, n < w.order
    PROVE  Seen(ev \cup {w}, n) = Seen(ev, n)
BY DEF Seen, Evidences

(* What is added to the evidence of a row is newer than what rests on it.    *)
LEMMA EarnedAgain ==
    ASSUME NEW entry \in Entries, NEW row \in ReachRows, NEW rv \in Nat, NEW ev,
           Earned(entry, row, rv, ev), NEW new \in ReachRows, new.rev = rv,
           NEW w \in Evidences, w.order = new.order, row.order < new.order
    PROVE  Earned(entry, new, rv, ev \cup {w})
<1>1. entry.order \in Nat /\ row.order \in Nat /\ new.order \in Nat
    BY DEF Entries, ReachRows
<1>2. ASSUME entry.rev = rv
      PROVE  entry.order <= row.order /\ Seen(ev \cup {w}, entry.order) = Seen(ev, entry.order)
    <2>1. entry.order <= row.order
        BY <1>2 DEF Earned
    <2> QED
        BY <1>1, <2>1, SeenKept
<1> QED
    BY <1>1, <1>2 DEF Earned

(* The entry of the row itself.                                              *)
LEMMA OwnIsEarned ==
    ASSUME NEW row \in ReachRows, NEW rv \in Nat, NEW ev, Counts(row, rv, ev)
    PROVE  Earned(Entry(row), row, rv, ev)
<1>1. /\ Entry(row).rev = row.rev /\ Entry(row).order = row.order
      /\ Entry(row).state = row.state
    BY DEF Entry
<1>2. row.order \in Nat /\ row.fails \in Nat
    BY DEF ReachRows
<1>3. Seen(ev, row.order) = ev
    BY SeenAll DEF Counts
<1>4. row.rev = rv /\ row.state = "unreachable" => Failing(ev, FailThreshold)
    BY <1>2, ThresholdIs DEF Counts
<1> QED
    BY <1>1, <1>2, <1>3, <1>4 DEF Earned, Counts

LEMMA NothingIsEarned ==
    ASSUME NEW row, NEW rv \in Nat \ {0}, NEW ev
    PROVE  Earned(NoEntry, row, rv, ev) /\ NoEntry \in Entries
<1>1. NoEntry = [rev |-> 0, sel |-> "l2", order |-> 0, state |-> "unknown"]
    BY DEF NoEntry, Entry, NoCap
<1> QED
    BY <1>1 DEF Earned, Entries, Selectors, States
-----------------------------------------------------------------------------
(* The reducers.                                                             *)

(* What one outcome makes of a row, step by step.                            *)
LEMMA ReducedIs ==
    ASSUME NEW p \in ReachRows, NEW e \in ExecStates
    PROVE  /\ ReduceReachability(p, e) \in ReachRows
           /\ Reachable(e) => /\ ReduceReachability(p, e).fails = 0
                              /\ ReduceReachability(p, e).state # "unreachable"
           /\ ~Reachable(e) =>
                /\ ReduceReachability(p, e).fails = Capped(p.fails + 1, FailThreshold)
                /\ ReduceReachability(p, e).state =
                      IF Capped(p.fails + 1, FailThreshold) >= FailThreshold
                      THEN "unreachable" ELSE p.state
<1>1. \A n \in Nat : /\ Capped(n, OkThreshold) \in Nat
                     /\ Capped(n, FailThreshold) \in Nat
    BY ThresholdIs DEF Capped
<1>2. p.oks + 1 \in Nat /\ p.fails + 1 \in Nat
    BY DEF ReachRows
<1>3. Capped(p.oks + 1, OkThreshold) \in Nat /\ Capped(p.fails + 1, FailThreshold) \in Nat
    BY <1>1, <1>2
<1> QED
    BY <1>3 DEF ReduceReachability, ReachRows, ReachStates

LEMMA CommittedIs ==
    ASSUME ObsTypeOK, NEW e \in ExecStates
    PROVE  /\ CommittedReach(e) \in ReachRows
           /\ CommittedReach(e).rev = e.rev /\ CommittedReach(e).order = e.order
<1> DEFINE p == IF reach.rev = e.rev THEN reach ELSE NoReach
           d == ReduceReachability(p, e)
<1>1. p \in ReachRows
    BY DEF ObsTypeOK, RowTypes, NoReach, ReachRows, ReachStates, Selectors
<1>2. d \in ReachRows
    BY <1>1, ReducedIs
<1>3. Selector(e.trigger) \in Selectors /\ e.rev \in Nat /\ e.order \in Nat
    BY DEF Selector, Selectors, ExecStates
<1>4. CommittedReach(e) = [d EXCEPT !.rev = e.rev, !.sel = Selector(e.trigger),
                                    !.order = e.order]
    BY DEF CommittedReach
<1> HIDE DEF d
<1> QED
    BY <1>2, <1>3, <1>4 DEF ReachRows

(* Counting one more outcome of the stored configuration.                    *)
LEMMA CountedOn ==
    ASSUME ObsInv, NEW e \in ExecStates, e.rev = rev, reach.order < e.order,
           NEW w \in Evidences, w.order = e.order, w.failed = ~Reachable(e)
    PROVE  Counts(CommittedReach(e), rev, evidence \cup {w})
<1> DEFINE p == IF reach.rev = e.rev THEN reach ELSE NoReach
           d == ReduceReachability(p, e)
           c == CommittedReach(e)
<1>1. p \in ReachRows /\ d \in ReachRows
    BY ReducedIs DEF ObsInv, ObsTypeOK, RowTypes, NoReach, ReachRows, ReachStates, Selectors
<1>2. /\ c.rev = rev /\ c.order = e.order /\ c.fails = d.fails /\ c.state = d.state
    BY <1>1 DEF CommittedReach, ReachRows
<1>3. /\ p.fails \in Nat /\ p.fails <= FailThreshold
      /\ p.state = "unreachable" => p.fails = FailThreshold
      /\ \A k \in 0 .. p.fails : Failing(evidence, k)
    <2>1. CASE reach.rev = rev
        BY <2>1 DEF ObsInv, Counts, ObsTypeOK, RowTypes, ReachRows
    <2>2. CASE reach.rev # rev
        BY <2>2, NoFailing, ThresholdIs DEF NoReach
    <2> QED
        BY <2>1, <2>2
<1>4. \A v \in evidence : v.order < w.order
    BY DEF ObsInv, Counts, ObsTypeOK, RowTypes, Evidences, ReachRows
<1>5. \A v \in evidence \cup {w} : v.order <= c.order
    BY <1>2, <1>4 DEF ObsInv, ObsTypeOK, RowTypes, Evidences, ReachRows
<1>6. rev \in Nat /\ IsFiniteSet(evidence) /\ evidence \subseteq Evidences
    BY DEF ObsInv, ObsTypeOK, RowTypes, ConfigTypes
<1>7. Reachable(e) => Counts(c, rev, evidence \cup {w})
    <2> SUFFICES ASSUME Reachable(e) PROVE Counts(c, rev, evidence \cup {w})
        OBVIOUS
    <2>1. d.fails = 0 /\ d.state # "unreachable"
        BY <1>1, ReducedIs
    <2>2. \A k \in 0 .. d.fails : Failing(evidence \cup {w}, k)
        BY <2>1, NoFailing
    <2> HIDE DEF c, d
    <2> QED
        BY <1>2, <1>5, <1>6, <2>1, <2>2, ThresholdIs DEF Counts
<1>8. ~Reachable(e) => Counts(c, rev, evidence \cup {w})
    <2> SUFFICES ASSUME ~Reachable(e) PROVE Counts(c, rev, evidence \cup {w})
        OBVIOUS
    <2>1. /\ d.fails = Capped(p.fails + 1, FailThreshold)
          /\ d.state = IF Capped(p.fails + 1, FailThreshold) >= FailThreshold
                       THEN "unreachable" ELSE p.state
        BY <1>1, ReducedIs
    <2> HIDE DEF c, d, p
    <2>2. /\ d.fails \in Nat /\ d.fails <= FailThreshold /\ d.fails <= p.fails + 1
          /\ d.state = "unreachable" => d.fails = FailThreshold
        BY <2>1, <1>3, ThresholdIs DEF Capped
    <2>3. ASSUME NEW k \in 0 .. d.fails PROVE Failing(evidence \cup {w}, k)
        <3>1. CASE k = 0
            BY <3>1, NoFailing
        <3>2. CASE k # 0
            <4>1. k - 1 \in 0 .. p.fails /\ k - 1 \in Nat /\ k = (k - 1) + 1
                BY <3>2, <2>2, <1>3
            <4>2. Failing(evidence, k - 1)
                BY <4>1, <1>3
            <4>3. Failing(evidence \cup {w}, (k - 1) + 1)
                BY <4>1, <4>2, <1>4, <1>6, FailingMore
            <4> QED
                BY <4>1, <4>3
        <3> QED
            BY <3>1, <3>2
    <2>4. /\ c.fails <= FailThreshold /\ c.rev <= rev /\ c.rev = rev
          /\ \A k \in 0 .. c.fails : Failing(evidence \cup {w}, k)
          /\ c.state = "unreachable" => c.fails = FailThreshold
        BY <1>2, <1>6, <2>2, <2>3
    <2> QED
        BY <1>5, <2>4 DEF Counts
<1> QED
    BY <1>7, <1>8
-----------------------------------------------------------------------------
(* The invariant.                                                            *)

LEMMA ValuesAre ==
    /\ NoReach \in ReachRows /\ NoCap \in CapRows /\ NoEntry \in Entries
    /\ NoExec \in ExecStates /\ NoExec.rev = 0 /\ NoExec.reach = NoEntry
    /\ NoReach.rev = 0 /\ NoEntry.rev = 0
<1>1. NoEntry = [rev |-> 0, sel |-> "l2", order |-> 0, state |-> "unknown"]
    BY DEF NoEntry, Entry, NoCap
<1>2. NoEntry \in Entries
    BY <1>1 DEF Entries, Selectors, States
<1> QED
    BY <1>1, <1>2 DEF NoReach, NoCap, NoExec, ReachRows, CapRows, ExecStates,
                      ReachStates, Selectors, States, ExecPcs, Triggers

LEMMA EntryIs ==
    /\ \A row \in ReachRows : Entry(row) \in Entries
    /\ \A row \in CapRows : Entry(row) \in Entries
BY DEF Entry, ReachRows, CapRows, Entries

LEMMA ObsInitInv == ObsInit => ObsInv
<1> SUFFICES ASSUME ObsInit PROVE ObsInv
    OBVIOUS
<1>1. ObsTypeOK
    <2>1. carry \subseteq {"reach", "cap"}
        BY CarriesAssumption DEF ObsInit
    <2>2. IsFiniteSet(evidence) /\ evidence \subseteq Evidences
        BY FS_EmptySet DEF ObsInit
    <2>3. exec \in [Executions -> ExecStates]
        BY ValuesAre DEF ObsInit
    <2>4. ConfigTypes
        <3>1. admin \in AdminSteps
            BY DEF ObsInit, AdminSteps
        <3>2. bound \in BOOLEAN
            BY DEF ObsInit
        <3>3. rev \in Nat \ {0} /\ pub \in Nat \ {0} /\ last \in Nat
            BY DEF ObsInit
        <3> QED
            BY <2>1, <3>1, <3>2, <3>3 DEF ConfigTypes
    <2>5. RowTypes
        BY <2>2, ValuesAre DEF ObsInit, RowTypes
    <2> QED
        BY <2>3, <2>4, <2>5 DEF ObsTypeOK
<1>2. Published
    BY DEF ObsInit, Published
<1>3. Counts(reach, rev, evidence)
    BY ValuesAre, ThresholdIs DEF ObsInit, Counts
<1>4. Earned(mreach, reach, rev, evidence) /\ mreach.rev = 0
    BY NothingIsEarned, ValuesAre DEF ObsInit
<1>5. ASSUME NEW x \in Executions
      PROVE  Earned(exec[x].reach, reach, rev, evidence) /\ exec[x].rev <= rev
    BY NothingIsEarned, ValuesAre DEF ObsInit
<1> QED
    BY <1>1, <1>2, <1>3, <1>4, <1>5 DEF ObsInv, Settling

(* Entries and executions may change when the row and what it counts do not. *)
LEMMA RowKept ==
    ASSUME ObsInv, UNCHANGED <<rev, reach, evidence>>, ObsTypeOK', Published',
           Settling',
           Earned(mreach', reach, rev, evidence),
           \A x \in Executions :
              /\ Earned(exec'[x].reach, reach, rev, evidence)
              /\ exec'[x].rev <= rev
    PROVE  ObsInv'
BY DEF ObsInv

LEMMA ExecsKept ==
    ASSUME ObsInv, UNCHANGED <<rev, reach, evidence>>, ObsTypeOK', Published',
           Settling',
           mreach' \in {mreach, NoEntry},
           \A x \in Executions :
              /\ exec'[x].reach \in {exec[x].reach, NoEntry}
              /\ exec'[x].rev \in {exec[x].rev, pub, 0}
    PROVE  ObsInv'
<1>1. rev \in Nat \ {0} /\ pub <= rev
    BY DEF ObsInv, Published, ObsTypeOK, ConfigTypes
<1>2. Earned(NoEntry, reach, rev, evidence)
    BY <1>1, NothingIsEarned
<1>3. Earned(mreach', reach, rev, evidence)
    BY <1>2 DEF ObsInv
<1>4. ASSUME NEW x \in Executions
      PROVE  Earned(exec'[x].reach, reach, rev, evidence) /\ exec'[x].rev <= rev
    BY <1>1, <1>2 DEF ObsInv
<1> QED
    BY <1>3, <1>4, RowKept

LEMMA MovedIs ==
    ASSUME ObsTypeOK
    PROVE  /\ Moved \in [Executions -> ExecStates]
           /\ \A x \in Executions : /\ Moved[x].reach = exec[x].reach
                                    /\ Moved[x].rev = exec[x].rev
<1>1. ASSUME NEW x \in Executions
      PROVE  /\ Moved[x] \in ExecStates /\ Moved[x].reach = exec[x].reach
             /\ Moved[x].rev = exec[x].rev
    <2>1. exec[x] \in ExecStates
        BY DEF ObsTypeOK
    <2>2. Moved[x] = [exec[x] EXCEPT !.kept = @ /\ exec[x].pc \in {"idle", "sent"}]
        BY DEF Moved
    <2>3. (exec[x].kept /\ exec[x].pc \in {"idle", "sent"}) \in BOOLEAN
        OBVIOUS
    <2> QED
        BY <2>1, <2>2, <2>3 DEF ExecStates
<1> QED
    BY <1>1 DEF Moved

(* An execution goes on, and the rest stays.                                 *)
LEMMA ExecTypes ==
    ASSUME ObsTypeOK, NEW x \in Executions, NEW e \in ExecStates,
           exec' = [exec EXCEPT ![x] = e]
    PROVE  /\ exec' \in [Executions -> ExecStates] /\ exec'[x] = e
           /\ \A y \in Executions \ {x} : exec'[y] = exec[y]
BY DEF ObsTypeOK

LEMMA StartStep ==
    ASSUME ObsInv, NEW x \in Executions, NEW t \in Triggers, Start(x, t)
    PROVE  ObsInv'
<1> DEFINE e == [NoExec EXCEPT !.pc = "sent", !.trigger = t, !.rev = pub,
                               !.order = last + 1]
<1>1. e \in ExecStates /\ e.rev = pub /\ e.reach = NoEntry
    <2>1. pub \in Nat /\ last + 1 \in Nat
        BY DEF ObsInv, ObsTypeOK, ConfigTypes
    <2> QED
        BY <2>1, ValuesAre DEF ExecStates, ExecPcs
<1>2. exec' = [exec EXCEPT ![x] = e]
    BY DEF Start
<1> HIDE DEF e
<1>3. /\ exec' \in [Executions -> ExecStates] /\ exec'[x] = e
      /\ \A y \in Executions \ {x} : exec'[y] = exec[y]
    BY <1>1, <1>2, ExecTypes DEF ObsInv
<1>4. UNCHANGED <<rev, carry, pub, admin, bound, reach, cap, mreach, mcap, clearing, evidence>>
      /\ last' = last + 1
    BY DEF Start, config, rows, memory
<1>5. ObsTypeOK'
    BY <1>3, <1>4 DEF ObsInv, ObsTypeOK, ConfigTypes, RowTypes
<1>6. Published' /\ Settling'
    BY <1>4 DEF ObsInv, Published, Settling
<1> QED
    BY <1>1, <1>3, <1>4, <1>5, <1>6, ExecsKept

LEMMA FinishStep ==
    ASSUME ObsInv, NEW x \in Executions, NEW o \in Outcomes, Finish(x, o)
    PROVE  ObsInv'
<1> DEFINE e == [exec[x] EXCEPT !.pc = "record", !.outcome = o]
<1>1. e \in ExecStates /\ e.rev = exec[x].rev /\ e.reach = exec[x].reach
    BY OutcomesAssumption DEF ObsInv, ObsTypeOK, ExecStates, ExecPcs
<1>2. exec' = [exec EXCEPT ![x] = e]
    BY DEF Finish
<1> HIDE DEF e
<1>3. /\ exec' \in [Executions -> ExecStates] /\ exec'[x] = e
      /\ \A y \in Executions \ {x} : exec'[y] = exec[y]
    BY <1>1, <1>2, ExecTypes DEF ObsInv
<1>4. UNCHANGED <<rev, carry, pub, admin, bound, last, reach, cap, mreach, mcap, clearing, evidence>>
    BY DEF Finish, config, rows, memory
<1>5. ObsTypeOK'
    BY <1>3, <1>4 DEF ObsInv, ObsTypeOK, ConfigTypes, RowTypes
<1>6. Published' /\ Settling'
    BY <1>4 DEF ObsInv, Published, Settling
<1> QED
    BY <1>1, <1>3, <1>4, <1>5, <1>6, ExecsKept

(* Its result is dropped or applied: the execution is idle again.            *)
LEMMA EndingStep ==
    ASSUME ObsInv, NEW x \in Executions, Abandon(x) \/ ApplyCap(x)
    PROVE  ObsInv'
<1>1. exec' = [exec EXCEPT ![x] = NoExec]
    BY DEF Abandon, ApplyCap
<1>2. /\ exec' \in [Executions -> ExecStates] /\ exec'[x] = NoExec
      /\ \A y \in Executions \ {x} : exec'[y] = exec[y]
    BY <1>1, ValuesAre, ExecTypes DEF ObsInv
<1>3. UNCHANGED <<rev, carry, pub, admin, bound, last, reach, cap, mreach, clearing, evidence>>
    BY DEF Abandon, ApplyCap, config, rows, memory
<1>4. mcap' \in Entries
    BY DEF Abandon, ApplyCap, memory, ObsInv, ObsTypeOK, RowTypes, ExecStates
<1>5. ObsTypeOK'
    BY <1>2, <1>3, <1>4 DEF ObsInv, ObsTypeOK, ConfigTypes, RowTypes
<1>6. Published' /\ Settling'
    BY <1>3 DEF ObsInv, Published, Settling
<1> QED
    BY <1>2, <1>3, <1>5, <1>6, ValuesAre, ExecsKept

LEMMA ApplyReachStep ==
    ASSUME ObsInv, NEW x \in Executions, ApplyReach(x)
    PROVE  ObsInv'
<1> DEFINE e == [exec[x] EXCEPT !.pc = "applyCap"]
<1>1. e \in ExecStates /\ e.rev = exec[x].rev /\ e.reach = exec[x].reach
    BY DEF ObsInv, ObsTypeOK, ExecStates, ExecPcs
<1>2. exec' = [exec EXCEPT ![x] = e]
    BY DEF ApplyReach
<1> HIDE DEF e
<1>3. /\ exec' \in [Executions -> ExecStates] /\ exec'[x] = e
      /\ \A y \in Executions \ {x} : exec'[y] = exec[y]
    BY <1>1, <1>2, ExecTypes DEF ObsInv
<1>4. UNCHANGED <<rev, carry, pub, admin, bound, last, reach, cap, mcap, clearing, evidence>>
    BY DEF ApplyReach, config, rows
<1>5. mreach' = mreach \/ (mreach' = exec[x].reach /\ exec[x].reach.rev = pub)
    BY DEF ApplyReach
<1>6. ObsTypeOK'
    BY <1>3, <1>4, <1>5 DEF ObsInv, ObsTypeOK, ConfigTypes, RowTypes, ExecStates
<1>7. Published'
    BY <1>4 DEF ObsInv, Published
<1>8. Settling'
    BY <1>4, <1>5 DEF ObsInv, Published, Settling
<1>9. Earned(mreach', reach, rev, evidence)
    BY <1>5 DEF ObsInv
<1>10. ASSUME NEW y \in Executions
       PROVE  Earned(exec'[y].reach, reach, rev, evidence) /\ exec'[y].rev <= rev
    BY <1>1, <1>3 DEF ObsInv
<1> QED
    BY <1>4, <1>6, <1>7, <1>8, <1>9, <1>10, RowKept

LEMMA CapIs ==
    ASSUME ObsTypeOK, NEW e \in ExecStates
    PROVE  CommittedCap(e) \in CapRows
<1> DEFINE p == IF cap.state = "config_error" /\ cap.rev = e.rev
                THEN [cap EXCEPT !.sel = Selector(e.trigger)] ELSE cap
           d == ReduceCapability(p, e)
<1>1. Selector(e.trigger) \in Selectors /\ e.rev \in Nat /\ e.order \in Nat
    BY DEF Selector, Selectors, ExecStates
<1>2. p \in CapRows
    BY <1>1 DEF ObsTypeOK, RowTypes, CapRows
<1>3. Verdict(e) \in States
    BY DEF Verdict, States
<1> HIDE DEF p
<1>4. d \in CapRows
    BY <1>1, <1>2, <1>3 DEF ReduceCapability, CapRows
<1>5. CommittedCap(e) = [d EXCEPT !.rev = e.rev, !.sel = Selector(e.trigger),
                                  !.order = e.order]
    BY DEF CommittedCap, p
<1> HIDE DEF d
<1> QED
    BY <1>1, <1>4, <1>5 DEF CapRows

LEMMA CommitStep ==
    ASSUME ObsInv, NEW x \in Executions, Commit(x)
    PROVE  ObsInv'
<1> DEFINE e == exec[x]
           r == Disposition("reach", reach, e)
           c == Disposition("cap", cap, e)
           newReach == IF r = "current" THEN CommittedReach(e) ELSE reach
           newCap == IF c = "current" THEN CommittedCap(e) ELSE cap
           new == [NoExec EXCEPT
                     !.pc = "apply", !.kept = e.kept,
                     !.reach = IF r = "current" THEN Entry(newReach) ELSE NoEntry,
                     !.cap   = IF c = "current" THEN Entry(newCap) ELSE NoEntry]
           w == [order |-> e.order, failed |-> ~Reachable(e)]
<1>1. /\ reach' = newReach /\ cap' = newCap /\ exec' = [exec EXCEPT ![x] = new]
      /\ evidence' = IF r = "current" THEN evidence \cup {w} ELSE evidence
      /\ UNCHANGED <<rev, carry, pub, admin, bound, last, mreach, mcap, clearing>>
    BY DEF Commit, config, memory
<1>2. ObsTypeOK /\ e \in ExecStates /\ rev \in Nat \ {0}
    BY DEF ObsInv, ObsTypeOK, ConfigTypes
<1>3. newReach \in ReachRows /\ newCap \in CapRows
    BY <1>2, CommittedIs, CapIs DEF ObsTypeOK, RowTypes
<1> HIDE DEF newReach, newCap, r, c
<1>4. new \in ExecStates /\ new.rev = 0
      /\ new.reach = IF r = "current" THEN Entry(newReach) ELSE NoEntry
    <2>1. e.kept \in BOOLEAN
        BY <1>2 DEF ExecStates
    <2>2. /\ (IF r = "current" THEN Entry(newReach) ELSE NoEntry) \in Entries
          /\ (IF c = "current" THEN Entry(newCap) ELSE NoEntry) \in Entries
        BY <1>3, ValuesAre, EntryIs
    <2> HIDE DEF e
    <2> QED
        BY <2>1, <2>2, ValuesAre DEF ExecStates, ExecPcs
<1> HIDE DEF new
<1>5. /\ exec' \in [Executions -> ExecStates] /\ exec'[x] = new
      /\ \A y \in Executions \ {x} : exec'[y] = exec[y]
    BY <1>1, <1>2, <1>4, ExecTypes
<1>6. w \in Evidences /\ w.order = e.order /\ w.failed = ~Reachable(e)
    <2>1. e.order \in Nat
        BY <1>2 DEF ExecStates
    <2>2. Reachable(e) \in BOOLEAN
        BY DEF Reachable
    <2> HIDE DEF e
    <2> QED
        BY <2>1, <2>2 DEF Evidences
<1> HIDE DEF w
<1>7. IsFiniteSet(evidence') /\ evidence' \subseteq Evidences
    <2>1. IsFiniteSet(evidence) /\ evidence \subseteq Evidences
        BY <1>2 DEF ObsTypeOK, RowTypes
    <2>2. IsFiniteSet(evidence \cup {w})
        BY <2>1, FS_AddElement
    <2> QED
        BY <1>1, <1>6, <2>1, <2>2
<1>8. ObsTypeOK'
    BY <1>1, <1>2, <1>3, <1>5, <1>7 DEF ObsTypeOK, ConfigTypes, RowTypes
<1>9. Published' /\ Settling'
    BY <1>1 DEF ObsInv, Published, Settling
<1>10. CASE r # "current"
    <2>1. UNCHANGED <<rev, reach, evidence, mreach>>
        BY <1>1, <1>10 DEF newReach
    <2>2. \A y \in Executions : /\ exec'[y].reach \in {exec[y].reach, NoEntry}
                                /\ exec'[y].rev \in {exec[y].rev, pub, 0}
        BY <1>4, <1>5, <1>10
    <2> QED
        BY <1>8, <1>9, <2>1, <2>2, ExecsKept
<1>11. CASE r = "current"
    <2>1. e.rev = rev /\ reach.order < e.order
        <3>1. e.rev = rev /\ ~(reach.order >= e.order)
            BY <1>11 DEF r, Disposition
        <3>2. e.order \in Nat /\ reach.order \in Nat
            BY <1>2 DEF ExecStates, ObsTypeOK, RowTypes, ReachRows
        <3> QED
            BY <3>1, <3>2
    <2>2. newReach = CommittedReach(e) /\ newReach.rev = rev /\ newReach.order = e.order
        BY <1>2, <1>11, <2>1, CommittedIs DEF newReach
    <2>3. Counts(newReach, rev, evidence \cup {w})
        BY <1>2, <1>6, <2>1, <2>2, CountedOn
    <2>4. Earned(Entry(newReach), newReach, rev, evidence \cup {w})
        BY <1>2, <1>3, <2>3, OwnIsEarned
    <2>5. ASSUME NEW entry \in Entries, Earned(entry, reach, rev, evidence)
          PROVE  Earned(entry, newReach, rev, evidence \cup {w})
        <3>1. reach \in ReachRows
            BY <1>2 DEF ObsTypeOK, RowTypes
        <3> QED
            BY <1>2, <1>3, <1>6, <2>1, <2>2, <2>5, <3>1, EarnedAgain
    <2>6. Earned(mreach, newReach, rev, evidence \cup {w})
        BY <1>2, <2>5 DEF ObsInv, ObsTypeOK, RowTypes
    <2>7. ASSUME NEW y \in Executions
          PROVE  Earned(exec'[y].reach, newReach, rev, evidence \cup {w}) /\ exec'[y].rev <= rev
        <3>1. CASE y = x
            BY <1>2, <1>4, <1>5, <1>11, <2>4, <3>1
        <3>2. CASE y # x
            <4>1. exec[y] \in ExecStates /\ exec[y].reach \in Entries
                BY <1>2 DEF ObsTypeOK, ExecStates
            <4> QED
                BY <1>5, <2>5, <3>2, <4>1 DEF ObsInv
        <3> QED
            BY <3>1, <3>2
    <2>8. reach' = newReach /\ evidence' = evidence \cup {w} /\ rev' = rev /\ mreach' = mreach
        BY <1>1, <1>11
    <2> QED
        BY <1>8, <1>9, <2>3, <2>6, <2>7, <2>8 DEF ObsInv
<1> QED
    BY <1>10, <1>11

(* What else acts: nothing that counts changes, but for an edit.             *)
LEMMA EditStep ==
    ASSUME ObsInv, EditStore
    PROVE  ObsInv'
<1>1. /\ rev' = rev + 1 /\ evidence' = {} /\ admin' = [kind |-> "edit", step |-> "stored"]
      /\ UNCHANGED <<carry, pub, bound, last, exec, reach, cap, mreach, mcap, clearing>>
    BY DEF EditStore, rows, memory
<1>2. rev \in Nat \ {0} /\ pub \in Nat /\ pub <= rev /\ reach.rev \in Nat /\ reach.rev <= rev
    BY DEF ObsInv, ObsTypeOK, ConfigTypes, RowTypes, Published, Counts, ReachRows
<1>3. ObsTypeOK'
    <2>1. IsFiniteSet({}) /\ rev + 1 \in Nat \ {0}
        BY <1>2, FS_EmptySet
    <2>2. admin' \in AdminSteps
        BY <1>1 DEF AdminSteps
    <2> QED
        BY <1>1, <2>1, <2>2 DEF ObsInv, ObsTypeOK, ConfigTypes, RowTypes
<1>4. Published' /\ Settling'
    BY <1>1, <1>2 DEF Published, Settling
<1>5. Counts(reach, rev + 1, {})
    BY <1>2 DEF Counts
<1>6. ASSUME NEW entry \in Entries, Earned(entry, reach, rev, evidence)
      PROVE  Earned(entry, reach, rev + 1, {})
    <2>1. entry.rev \in Nat /\ entry.rev <= rev
        BY <1>6 DEF Entries, Earned
    <2> QED
        BY <1>2, <2>1 DEF Earned
<1>7. Earned(mreach, reach, rev + 1, {})
    BY <1>6 DEF ObsInv, ObsTypeOK, RowTypes
<1>8. ASSUME NEW x \in Executions
      PROVE  Earned(exec[x].reach, reach, rev + 1, {}) /\ exec[x].rev <= rev + 1
    <2>1. exec[x].reach \in Entries /\ exec[x].rev \in Nat /\ exec[x].rev <= rev
        BY DEF ObsInv, ObsTypeOK, ExecStates
    <2> QED
        BY <1>2, <1>6, <2>1 DEF ObsInv
<1> QED
    BY <1>1, <1>3, <1>4, <1>5, <1>7, <1>8 DEF ObsInv

LEMMA AdminStep ==
    ASSUME ObsInv,
           \/ ReenableStore \/ Publish \/ ForgetRoute \/ InvalidateScope
           \/ InvalidateReach \/ Bind
    PROVE  ObsInv'
<1>1. /\ UNCHANGED <<rev, carry, last, reach, evidence, clearing>>
      /\ mreach' \in {mreach, NoEntry} /\ mcap' \in {mcap, NoEntry}
      /\ cap' \in {cap, NoCap} /\ exec' \in {exec, Moved}
      /\ pub' \in {pub, rev} /\ bound' \in BOOLEAN
    BY DEF ReenableStore, Publish, ForgetRoute, InvalidateScope, InvalidateReach,
           Bind, rows, memory, ObsInv, ObsTypeOK, ConfigTypes
<1>2. admin' \in AdminSteps
    BY DEF ReenableStore, Publish, ForgetRoute, InvalidateScope, InvalidateReach,
           Bind, AdminSteps, ObsInv, ObsTypeOK, ConfigTypes
<1>3. ObsTypeOK'
    BY <1>1, <1>2, ValuesAre, MovedIs DEF ObsInv, ObsTypeOK, ConfigTypes, RowTypes
<1>4. Published'
    BY DEF ReenableStore, Publish, ForgetRoute, InvalidateScope, InvalidateReach,
           Bind, ObsInv, ObsTypeOK, ConfigTypes, AdminSteps, Published
<1>5. Settling'
    BY ValuesAre DEF ReenableStore, Publish, ForgetRoute, InvalidateScope, InvalidateReach,
           Bind, rows, memory, ObsInv, ObsTypeOK, ConfigTypes, AdminSteps, Settling
<1>6. \A x \in Executions : /\ exec'[x].reach \in {exec[x].reach, NoEntry}
                            /\ exec'[x].rev \in {exec[x].rev, pub, 0}
    BY <1>1, MovedIs DEF ObsInv
<1> QED
    BY <1>1, <1>3, <1>4, <1>5, <1>6, ExecsKept

LEMMA OtherStep ==
    ASSUME ObsInv, CalibrationFails \/ InvalidateAfterCalibration \/ DemotePositive
    PROVE  ObsInv'
<1>1. /\ UNCHANGED <<rev, carry, pub, admin, bound, last, exec, reach, evidence>>
      /\ mreach' \in {mreach, NoEntry} /\ mcap' \in {mcap, NoEntry}
      /\ clearing' \in BOOLEAN
    BY DEF CalibrationFails, InvalidateAfterCalibration, DemotePositive, config,
           rows, memory, ObsInv, ObsTypeOK, RowTypes
<1>2. cap' \in CapRows
    BY DEF CalibrationFails, InvalidateAfterCalibration, DemotePositive, rows,
           ObsInv, ObsTypeOK, RowTypes, ConfigTypes, CapRows, States, Selectors
<1>3. ObsTypeOK'
    BY <1>1, <1>2, ValuesAre DEF ObsInv, ObsTypeOK, ConfigTypes, RowTypes
<1>4. Published' /\ Settling'
    BY <1>1, ValuesAre DEF ObsInv, Published, Settling
<1> QED
    BY <1>1, <1>3, <1>4, ExecsKept

LEMMA RestartStep ==
    ASSUME ObsInv, Restart
    PROVE  ObsInv'
<1>1. /\ pub' = rev /\ admin' = [kind |-> "none", step |-> "idle"] /\ bound' = FALSE
      /\ exec' = [x \in Executions |-> NoExec] /\ clearing' = FALSE
      /\ UNCHANGED <<rev, carry, last, reach, cap, evidence>>
    BY DEF Restart, rows
<1>2. mreach' = NoEntry \/ (mreach' = Entry(reach) /\ reach.rev = rev)
    BY DEF Restart
<1>3. reach \in ReachRows /\ cap \in CapRows /\ rev \in Nat \ {0}
    BY DEF ObsInv, ObsTypeOK, RowTypes, ConfigTypes
<1>4. mcap' \in Entries
    <2>1. Entry(cap) \in Entries
        BY <1>3, EntryIs
    <2>2. [Entry(cap) EXCEPT !.state = "unknown"] \in Entries
        BY <2>1 DEF Entries, ReachStates
    <2> QED
        BY <2>1, <2>2, ValuesAre DEF Restart, Restored
<1>5. mreach' \in Entries /\ mreach'.rev \in {0, rev}
    BY <1>2, <1>3, EntryIs, ValuesAre DEF Entry
<1>6. ObsTypeOK'
    <2>1. admin' \in AdminSteps
        BY <1>1 DEF AdminSteps
    <2>2. exec' \in [Executions -> ExecStates]
        BY <1>1, ValuesAre
    <2> QED
        BY <1>1, <1>4, <1>5, <2>1, <2>2 DEF ObsInv, ObsTypeOK, ConfigTypes, RowTypes
<1>7. Published' /\ Settling'
    BY <1>1, <1>3, <1>5 DEF Published, Settling
<1>8. Earned(mreach', reach, rev, evidence)
    BY <1>2, <1>3, OwnIsEarned, NothingIsEarned DEF ObsInv
<1>9. ASSUME NEW x \in Executions
      PROVE  Earned(exec'[x].reach, reach, rev, evidence) /\ exec'[x].rev <= rev
    BY <1>1, <1>3, NothingIsEarned, ValuesAre
<1> QED
    BY <1>1, <1>6, <1>7, <1>8, <1>9, RowKept

LEMMA ObsNextInv == ObsInv /\ [ObsNext]_obsVars => ObsInv'
<1> SUFFICES ASSUME ObsInv, [ObsNext]_obsVars PROVE ObsInv'
    OBVIOUS
<1>1. ASSUME NEW x \in Executions, NEW t \in Triggers, Start(x, t) PROVE ObsInv'
    BY <1>1, StartStep
<1>2. ASSUME NEW x \in Executions, NEW o \in Outcomes, Finish(x, o) PROVE ObsInv'
    BY <1>2, FinishStep
<1>3. ASSUME NEW x \in Executions, Abandon(x) \/ ApplyCap(x) PROVE ObsInv'
    BY <1>3, EndingStep
<1>4. ASSUME NEW x \in Executions, Commit(x) PROVE ObsInv'
    BY <1>4, CommitStep
<1>5. ASSUME NEW x \in Executions, ApplyReach(x) PROVE ObsInv'
    BY <1>5, ApplyReachStep
<1>6. CASE EditStore
    BY <1>6, EditStep
<1>7. CASE \/ ReenableStore \/ Publish \/ ForgetRoute \/ InvalidateScope
           \/ InvalidateReach \/ Bind
    BY <1>7, AdminStep
<1>8. CASE CalibrationFails \/ InvalidateAfterCalibration \/ DemotePositive
    BY <1>8, OtherStep
<1>9. CASE Restart
    BY <1>9, RestartStep
<1>10. CASE UNCHANGED obsVars
    BY <1>10 DEF obsVars, ObsInv, ObsTypeOK, ConfigTypes, RowTypes, Published, Settling
<1> QED
    BY <1>1, <1>2, <1>3, <1>4, <1>5, <1>6, <1>7, <1>8, <1>9, <1>10 DEF ObsNext

LEMMA ObsInductive == ObsSpec => []ObsInv
<1>1. ObsInit => ObsInv
    BY ObsInitInv
<1>2. ObsInv /\ [ObsNext]_obsVars => ObsInv'
    BY ObsNextInv
<1> QED
    BY <1>1, <1>2, PTL DEF ObsSpec

(* What the row concludes, and what the router reads, is earned by the       *)
(* newest observations of the present address, and once an edit is done the  *)
(* router reads nothing of an earlier one.                                   *)
THEOREM ReachIsEarnedAlways == ObsSpec => []ReachIsEarned
<1>1. ObsInv => ReachIsEarned
    <2> SUFFICES ASSUME ObsInv PROVE ReachIsEarned
        OBVIOUS
    <2>1. Earned(Entry(reach), reach, rev, evidence) /\ Earned(mreach, reach, rev, evidence)
        BY OwnIsEarned DEF ObsInv, ObsTypeOK, RowTypes, ConfigTypes
    <2>2. ASSUME NEW n, Failing(Seen(evidence, n), FailThreshold)
          PROVE  NewestFailed(n)
        BY <2>2 DEF NewestFailed, Failing, Seen
    <2>3. UnreachableIsEarned
        BY <2>1, <2>2 DEF UnreachableIsEarned, Earned
    <2>4. ReachSettled
        BY DEF ObsInv, Settling, ReachSettled
    <2> QED
        BY <2>3, <2>4 DEF ReachIsEarned
<1> QED
    BY <1>1, ObsInductive, PTL

(* A stored config_error outlives every outcome of the other selector, every *)
(* success and every order: only an operator, a changed configuration or a   *)
(* re-enabled route takes it back.                                           *)
THEOREM StickyHeldAlways == ObsSpec => StickyHeld
<1>1. ASSUME ObsInv, [ObsNext]_obsVars, cap.state = "config_error", cap'.state # "config_error"
      PROVE  \/ cap.rev # rev
             \/ admin'.kind = "enable" /\ admin' # admin
             \/ \E x \in Executions : exec[x].pc = "record"
                   /\ exec'[x].pc = "apply" /\ exec[x].trigger = "manual"
    <2>1. ASSUME NEW x \in Executions, Commit(x)
          PROVE  cap.rev # rev \/ (exec[x].pc = "record" /\ exec'[x].pc = "apply"
                                   /\ exec[x].trigger = "manual")
        <3> SUFFICES ASSUME cap.rev = rev
                     PROVE  exec[x].pc = "record" /\ exec'[x].pc = "apply"
                            /\ exec[x].trigger = "manual"
            OBVIOUS
        <3>1. cap' = CommittedCap(exec[x]) /\ exec[x].rev = rev
            BY <1>1, <2>1 DEF Commit, Disposition
        <3>2. exec[x].trigger = "manual"
            <4> SUFFICES ASSUME exec[x].trigger # "manual" PROVE FALSE
                OBVIOUS
            <4> DEFINE p == [cap EXCEPT !.sel = Selector(exec[x].trigger)]
                       d == ReduceCapability(p, exec[x])
            <4>1. /\ p \in CapRows /\ p.state = "config_error" /\ p.rev = exec[x].rev
                  /\ p.sel = Selector(exec[x].trigger)
                BY <1>1, <3>1 DEF ObsInv, ObsTypeOK, RowTypes, CapRows, Selector, Selectors
            <4>2. d = p \/ d.state = "config_error"
                <5>1. CASE Verdict(exec[x]) # "config_error"
                    BY <4>1, <5>1 DEF ReduceCapability
                <5>2. CASE Verdict(exec[x]) = "config_error"
                    BY <4>1, <5>2 DEF ReduceCapability, CapRows
                <5> QED
                    BY <5>1, <5>2
            <4>3. d \in CapRows
                <5>1. Verdict(exec[x]) \in States /\ exec[x].rev \in Nat
                    BY <1>1 DEF Verdict, States, ObsInv, ObsTypeOK, ExecStates
                <5> QED
                    BY <4>1, <5>1 DEF ReduceCapability, CapRows
            <4>4. cap' = [d EXCEPT !.rev = exec[x].rev, !.sel = Selector(exec[x].trigger),
                                   !.order = exec[x].order]
                BY <1>1, <3>1 DEF CommittedCap
            <4> HIDE DEF d
            <4>5. d.state = "config_error"
                BY <4>1, <4>2
            <4>6. cap'.state = d.state
                BY <4>3, <4>4 DEF CapRows
            <4> QED
                BY <1>1, <4>5, <4>6
        <3>3. exec[x].pc = "record" /\ exec'[x].pc = "apply"
            BY <1>1, <2>1, ValuesAre DEF Commit, ObsInv, ObsTypeOK, ExecStates
        <3> QED
            BY <3>2, <3>3
    <2>2. CASE ReenableStore
        BY <1>1, <2>2 DEF ReenableStore
    <2>3. CalibrationFails => cap'.state = "config_error"
        BY <1>1 DEF CalibrationFails, ObsInv, ObsTypeOK, RowTypes, CapRows
    <2>4. ASSUME \/ \E x \in Executions :
                      \/ \E t \in Triggers : Start(x, t)
                      \/ \E o \in Outcomes : Finish(x, o)
                      \/ Abandon(x) \/ ApplyReach(x) \/ ApplyCap(x)
                 \/ Bind \/ EditStore \/ Publish \/ ForgetRoute
                 \/ InvalidateScope \/ InvalidateReach
                 \/ InvalidateAfterCalibration \/ DemotePositive \/ Restart
                 \/ UNCHANGED obsVars
          PROVE  cap' = cap
        BY <2>4 DEF Start, Finish, Abandon, ApplyReach, ApplyCap, Bind, EditStore,
                    Publish, ForgetRoute, InvalidateScope, InvalidateReach,
                    InvalidateAfterCalibration, DemotePositive, Restart, rows, obsVars
    <2> QED
        BY <1>1, <2>1, <2>2, <2>3, <2>4 DEF ObsNext
<1>2. ObsInv /\ [ObsNext]_obsVars =>
        [cap.state = "config_error" /\ cap'.state # "config_error"
           => \/ cap.rev # rev
              \/ admin'.kind = "enable" /\ admin' # admin
              \/ \E x \in Executions : exec[x].pc = "record"
                    /\ exec'[x].pc = "apply" /\ exec[x].trigger = "manual"]_obsVars
    BY <1>1
<1> QED
    BY <1>2, ObsInductive, PTL DEF ObsSpec, StickyHeld

(***************************************************************************)
(* The passive scan.                                                       *)
(*                                                                         *)
(* The argument: the slots are counted by who holds one (Counted).  That   *)
(* the sets in the count are disjoint and lose no one needs that a capture *)
(* is queued once and only after it ended, and that the worker has no job  *)
(* that is still queued (Placed); a flush has returned truly because all   *)
(* it covers stays in front of its barrier (Flushing).                     *)
(***************************************************************************)

Holders  == {c \in Captures : Holding(c)}
Scanned  == {worker.job} \ {NoJob}
Once(s)  == \A i, j \in 1 .. Len(s) : s[i] = s[j] => i = j

(* Where each job is, and what the position of the worker says of it.        *)
Placed ==
    /\ Once(jobs) /\ worker.job \notin ToSet(jobs)
    /\ \A c \in Queued \cup Scanned : capture[c] = "ended"
    /\ worker.pc \in {"scan", "last"} <=> worker.job # NoJob
    /\ worker.pc \in {"drain", "last", "done"} => shut
    /\ worker.pc = "done" => Queued = {}

(* What a flush covers is in front of its barrier until that is taken.       *)
Flushing ==
    /\ flushed.pc \in {"no", "sending"} => Barrier \notin ToSet(jobs)
    /\ \A c \in flushed.covers : capture[c] = "ended"
    /\ flushed.pc = "waiting" =>
         \E b \in 1 .. Len(jobs) :
            /\ jobs[b] = Barrier
            /\ \A i \in 1 .. Len(jobs) : jobs[i] \in flushed.covers => i < b
    /\ flushed.pc = "returned" => flushed.covers \cap (Queued \cup Scanned) = {}

Counted ==
    /\ IsFiniteSet(Holders) /\ IsFiniteSet(Queued)
    /\ slots = Cardinality(Holders) + Cardinality(Queued) + Cardinality(Scanned)

ScanInv == ScanTypeOK /\ Placed /\ Flushing /\ Counted

-----------------------------------------------------------------------------
(* Queues.                                                                   *)

LEMMA Appended ==
    ASSUME NEW S, NEW s \in Seq(S), NEW e \in S
    PROVE  /\ Append(s, e) \in Seq(S) /\ Len(Append(s, e)) = Len(s) + 1
           /\ Append(s, e)[Len(s) + 1] = e
           /\ \A i \in 1 .. Len(s) : Append(s, e)[i] = s[i]
           /\ ToSet(Append(s, e)) = ToSet(s) \cup {e}
           /\ Once(s) /\ e \notin ToSet(s) => Once(Append(s, e))
<1> DEFINE t == Append(s, e)
<1>1. /\ t \in Seq(S) /\ Len(t) = Len(s) + 1 /\ t[Len(s) + 1] = e
      /\ \A i \in 1 .. Len(s) : t[i] = s[i]
    BY AppendProperties
<1>2. /\ Len(s) \in Nat /\ DOMAIN s = 1 .. Len(s) /\ DOMAIN t = 1 .. Len(s) + 1
    BY <1>1
<1> HIDE DEF t
<1>3. 1 .. Len(s) + 1 = (1 .. Len(s)) \cup {Len(s) + 1}
    BY <1>2
<1>4. ToSet(t) = ToSet(s) \cup {e}
    BY <1>1, <1>2, <1>3 DEF ToSet
<1>5. ASSUME Once(s), e \notin ToSet(s) PROVE Once(t)
    <2>1. \A i \in 1 .. Len(s) : s[i] # e
        BY <1>2, <1>5 DEF ToSet
    <2> QED
        BY <1>1, <1>2, <1>3, <1>5, <2>1 DEF Once
<1> QED
    BY <1>1, <1>4, <1>5 DEF t

LEMMA Taken ==
    ASSUME NEW S, NEW s \in Seq(S), s # << >>, Once(s)
    PROVE  /\ Tail(s) \in Seq(S) /\ Len(Tail(s)) = Len(s) - 1 /\ Len(s) >= 1
           /\ Head(s) = s[1] /\ Head(s) \in S
           /\ \A i \in 1 .. Len(s) - 1 : Tail(s)[i] = s[i + 1]
           /\ Head(s) \in ToSet(s) /\ ToSet(Tail(s)) = ToSet(s) \ {Head(s)}
           /\ Once(Tail(s))
<1> DEFINE t == Tail(s)
<1>1. /\ t \in Seq(S) /\ Len(t) = Len(s) - 1 /\ Head(s) = s[1] /\ Head(s) \in S
      /\ \A i \in 1 .. Len(s) - 1 : t[i] = s[i + 1]
    BY HeadTailProperties
<1>2. /\ Len(s) \in Nat /\ Len(s) >= 1 /\ DOMAIN s = 1 .. Len(s)
      /\ DOMAIN t = 1 .. Len(s) - 1
    BY <1>1
<1> HIDE DEF t
<1>3. ToSet(t) = ToSet(s) \ {s[1]}
    <2>1. ASSUME NEW x \in ToSet(t) PROVE x \in ToSet(s) /\ x # s[1]
        <3>1. PICK i \in 1 .. Len(s) - 1 : x = t[i]
            BY <1>2 DEF ToSet
        <3>2. x = s[i + 1] /\ i + 1 \in 1 .. Len(s) /\ 1 \in 1 .. Len(s) /\ i + 1 # 1
            BY <1>1, <1>2, <3>1
        <3> QED
            BY <1>2, <3>2 DEF ToSet, Once
    <2>2. ASSUME NEW x \in ToSet(s), x # s[1] PROVE x \in ToSet(t)
        <3>1. PICK i \in 1 .. Len(s) : x = s[i]
            BY <1>2 DEF ToSet
        <3>2. i - 1 \in 1 .. Len(s) - 1 /\ (i - 1) + 1 = i
            BY <1>2, <2>2, <3>1
        <3>3. x = t[i - 1]
            BY <1>1, <3>1, <3>2
        <3> QED
            BY <1>2, <3>2, <3>3 DEF ToSet
    <2> QED
        BY <2>1, <2>2
<1>4. Once(t)
    <2>1. ASSUME NEW i \in 1 .. Len(s) - 1, NEW j \in 1 .. Len(s) - 1, t[i] = t[j]
          PROVE  i = j
        <3>1. i + 1 \in 1 .. Len(s) /\ j + 1 \in 1 .. Len(s) /\ s[i + 1] = s[j + 1]
            BY <1>1, <1>2, <2>1
        <3>2. i + 1 = j + 1
            BY <3>1 DEF Once
        <3> QED
            BY <1>2, <3>2
    <2> QED
        BY <1>1, <2>1 DEF Once
<1>5. s[1] \in ToSet(s)
    BY <1>2 DEF ToSet
<1> QED
    BY <1>1, <1>2, <1>3, <1>4, <1>5 DEF t

-----------------------------------------------------------------------------
LEMMA ScanInitInv == ScanInit => ScanInv
<1> SUFFICES ASSUME ScanInit PROVE ScanInv
    OBVIOUS
<1>1. /\ ToSet(jobs) = {} /\ Queued = {} /\ Holders = {} /\ Scanned = {}
      /\ jobs \in Seq(Captures \cup {Barrier}) /\ Len(jobs) = 0
    BY DEF ScanInit, ToSet, Queued, Holders, Holding, Scanned
<1>2. ScanTypeOK
    <2>1. /\ 0 \in 0 .. QueueSize + 1 /\ 0 <= QueueSize
        BY ScanAssumption
    <2>2. /\ worker \in [pc : {"select", "scan", "drain", "last", "done"},
                         job : Captures \cup {NoJob}]
          /\ flushed \in [pc : {"no", "sending", "waiting", "returned"},
                          covers : SUBSET Captures]
        BY DEF ScanInit
    <2>3. capture \in [Captures -> {"new", "none", "open", "completing", "ended"}]
        BY DEF ScanInit
    <2> QED
        BY <1>1, <2>1, <2>2, <2>3 DEF ScanInit, ScanTypeOK
<1>3. Placed /\ Flushing
    BY <1>1 DEF ScanInit, Placed, Flushing, Once
<1>4. Counted
    BY <1>1, FS_EmptySet DEF ScanInit, Counted
<1> QED
    BY <1>2, <1>3, <1>4 DEF ScanInv

LEMMA Types ==
    ASSUME ScanInv
    PROVE  /\ slots \in Nat /\ QueueSize \in Nat /\ slots <= QueueSize + 1
           /\ jobs \in Seq(Captures \cup {Barrier}) /\ Len(jobs) \in Nat
           /\ Len(jobs) <= QueueSize /\ Once(jobs)
           /\ Cardinality(Holders) \in Nat /\ Cardinality(Queued) \in Nat
           /\ Cardinality(Scanned) \in Nat /\ IsFiniteSet(Scanned)
           /\ IsFiniteSet(Holders) /\ IsFiniteSet(Queued)
           /\ slots = Cardinality(Holders) + Cardinality(Queued) + Cardinality(Scanned)
           /\ Queued \subseteq Captures
<1>1. IsFiniteSet(Scanned)
    BY FS_Singleton, FS_Difference DEF Scanned
<1>2. IsFiniteSet(Holders) /\ IsFiniteSet(Queued)
    BY DEF ScanInv, Counted
<1>3. /\ Cardinality(Holders) \in Nat /\ Cardinality(Queued) \in Nat
      /\ Cardinality(Scanned) \in Nat
    BY <1>1, <1>2, FS_CardinalityType
<1>4. /\ slots \in Nat /\ QueueSize \in Nat /\ slots <= QueueSize + 1
      /\ jobs \in Seq(Captures \cup {Barrier}) /\ Len(jobs) \in Nat
      /\ Len(jobs) <= QueueSize /\ Once(jobs)
    BY ScanAssumption DEF ScanInv, ScanTypeOK, Placed
<1>5. Queued \subseteq Captures
    BY <1>4 DEF Queued, ToSet
<1> QED
    BY <1>1, <1>2, <1>3, <1>4, <1>5 DEF ScanInv, Counted

(* The counting of a step that makes one capture hold, or hold no more.      *)
LEMMA HoldersMove ==
    ASSUME ScanInv, NEW c \in Captures
    PROVE  /\ \/ capture' = [capture EXCEPT ![c] = "open"]
              \/ capture' = [capture EXCEPT ![c] = "completing"]
              => Holders' = Holders \cup {c}
           /\ \/ capture' = [capture EXCEPT ![c] = "none"]
              \/ capture' = [capture EXCEPT ![c] = "ended"]
              => Holders' = Holders \ {c}
<1>1. ASSUME NEW st, capture' = [capture EXCEPT ![c] = st]
      PROVE  /\ st \in {"open", "completing"} => Holders' = Holders \cup {c}
             /\ st \notin {"open", "completing"} => Holders' = Holders \ {c}
    BY <1>1 DEF ScanInv, ScanTypeOK, Holders, Holding
<1> QED
    BY <1>1

LEMMA WrapStep ==
    ASSUME ScanInv, NEW c \in Captures, Wrap(c)
    PROVE  ScanInv'
<1>1. UNCHANGED <<jobs, worker, shut, closing, flushed>> /\ capture[c] = "new"
    BY DEF Wrap
<1>2. /\ UNCHANGED <<Queued, Scanned>> /\ ToSet(jobs)' = ToSet(jobs)
    BY <1>1 DEF Queued, Scanned
<1>3. PICK st \in {"none", "open"} : capture' = [capture EXCEPT ![c] = st]
    BY DEF Wrap
<1>4. capture' \in [Captures -> {"new", "none", "open", "completing", "ended"}]
    BY <1>3 DEF ScanInv, ScanTypeOK
<1>5. \A d \in Captures : capture[d] = "ended" => capture'[d] = "ended"
    BY <1>1, <1>3 DEF ScanInv, ScanTypeOK
<1>6. ScanTypeOK'
    BY <1>1, <1>4, Types DEF ScanInv, ScanTypeOK, Wrap
<1>7. Placed' /\ Flushing'
    <2>1. Queued \cup Scanned \subseteq Captures /\ flushed.covers \subseteq Captures
        BY Types DEF ScanInv, ScanTypeOK, Scanned
    <2> QED
        BY <1>1, <1>2, <1>5, <2>1 DEF ScanInv, Placed, Flushing
<1>8. Counted'
    <2>1. c \notin Holders
        BY <1>1 DEF Holders, Holding
    <2>2. CASE capture' = [capture EXCEPT ![c] = "none"] /\ UNCHANGED slots
        <3>1. Holders' = Holders
            <4>1. Holders' = Holders \ {c}
                BY <2>2, HoldersMove
            <4> QED
                BY <2>1, <4>1
        <3> QED
            BY <1>2, <2>2, <3>1 DEF ScanInv, Counted
    <2>3. CASE capture' = [capture EXCEPT ![c] = "open"] /\ slots' = slots + 1
        <3>1. Holders' = Holders \cup {c}
            BY <2>3, HoldersMove
        <3>2. IsFiniteSet(Holders') /\ Cardinality(Holders') = Cardinality(Holders) + 1
            BY <2>1, <3>1, Types, FS_AddElement
        <3> QED
            BY <1>2, <2>3, <3>2, Types DEF Counted
    <2> QED
        BY <2>2, <2>3 DEF Wrap
<1> QED
    BY <1>6, <1>7, <1>8 DEF ScanInv

LEMMA CompleteStep ==
    ASSUME ScanInv, NEW c \in Captures, Completes(c)
    PROVE  ScanInv'
<1>1. UNCHANGED <<worker, shut, closing, flushed>> /\ capture[c] \in {"open", "completing"}
    BY DEF Completes, Discard, CommitCapture, EnqueueOwned
<1>2. PICK st \in {"completing", "ended"} : capture' = [capture EXCEPT ![c] = st]
    BY DEF Completes, Discard, CommitCapture, EnqueueOwned
<1>3. /\ capture' \in [Captures -> {"new", "none", "open", "completing", "ended"}]
      /\ \A d \in Captures : capture[d] = "ended" => capture'[d] = "ended"
    BY <1>1, <1>2 DEF ScanInv, ScanTypeOK
<1>4. c \in Holders /\ Scanned' = Scanned
    BY <1>1 DEF Holders, Holding, Scanned
<1>5. Queued \cup Scanned \subseteq Captures /\ flushed.covers \subseteq Captures
    BY Types DEF ScanInv, ScanTypeOK, Scanned
<1>6. CASE UNCHANGED jobs
    <2>1. UNCHANGED Queued
        BY <1>6 DEF Queued
    <2>2. Placed' /\ Flushing'
        BY <1>1, <1>3, <1>4, <1>5, <1>6, <2>1 DEF ScanInv, Placed, Flushing
    <2>3. CASE CommitCapture(c)
        <3>1. capture' = [capture EXCEPT ![c] = "completing"] /\ UNCHANGED slots
            BY <2>3 DEF CommitCapture
        <3>2. Holders' = Holders
            <4>1. Holders' = Holders \cup {c}
                BY <3>1, HoldersMove
            <4> QED
                BY <1>4, <4>1
        <3>3. Counted'
            BY <1>4, <2>1, <3>1, <3>2 DEF ScanInv, Counted
        <3> QED
            BY <1>1, <1>3, <1>6, <2>2, <3>1, <3>3 DEF ScanInv, ScanTypeOK
    <2>4. CASE ~CommitCapture(c)
        <3>1. /\ capture' = [capture EXCEPT ![c] = "ended"]
              /\ slots > 0 /\ slots' = slots - 1
            <4>1. Len(Append(jobs, c)) # Len(jobs)
                BY Types, Appended
            <4> QED
                BY <1>6, <2>4, <4>1 DEF Completes, Discard, EnqueueOwned, Release
        <3>2. Holders' = Holders \ {c}
            BY <3>1, HoldersMove
        <3>3. IsFiniteSet(Holders') /\ Cardinality(Holders') = Cardinality(Holders) - 1
            BY <1>4, <3>2, Types, FS_RemoveElement
        <3>4. Counted'
            BY <1>4, <2>1, <3>1, <3>3, Types DEF Counted
        <3>5. slots' \in 0 .. QueueSize + 1
            BY <3>1, Types
        <3> QED
            BY <1>1, <1>3, <1>6, <2>2, <3>4, <3>5 DEF ScanInv, ScanTypeOK
    <2> QED
        BY <2>3, <2>4
<1>7. CASE ~UNCHANGED jobs
    <2>1. /\ jobs' = Append(jobs, c) /\ UNCHANGED slots /\ ~shut
          /\ Len(jobs) # QueueSize /\ capture' = [capture EXCEPT ![c] = "ended"]
        BY <1>7 DEF Completes, Discard, CommitCapture, EnqueueOwned
    <2>2. c \notin ToSet(jobs) /\ c # Barrier /\ c # NoJob /\ c # worker.job
        <3>1. c # Barrier /\ c # NoJob
            BY ScanAssumption
        <3> QED
            BY <1>1, <3>1 DEF ScanInv, Placed, Queued, Scanned
    <2>3. /\ jobs' \in Seq(Captures \cup {Barrier}) /\ Len(jobs') = Len(jobs) + 1
          /\ jobs'[Len(jobs) + 1] = c
          /\ \A i \in 1 .. Len(jobs) : jobs'[i] = jobs[i]
          /\ ToSet(jobs') = ToSet(jobs) \cup {c} /\ Once(jobs')
        BY <2>1, <2>2, Types, Appended
    <2>4. Queued' = Queued \cup {c} /\ c \notin Queued /\ capture'[c] = "ended"
        BY <2>1, <2>2, <2>3 DEF Queued, ScanInv, ScanTypeOK
    <2>5. Len(jobs') <= QueueSize
        BY <2>1, <2>3, Types
    <2>6. ScanTypeOK'
        BY <1>1, <1>3, <2>1, <2>3, <2>5 DEF ScanInv, ScanTypeOK
    <2>7. Placed'
        BY <1>1, <1>3, <1>4, <1>5, <2>1, <2>2, <2>3, <2>4 DEF ScanInv, Placed
    <2>8. Flushing'
        <3>1. c \notin flushed.covers
            BY <1>1 DEF ScanInv, Flushing
        <3>2. \A b \in 1 .. Len(jobs) : b \in 1 .. Len(jobs')
            BY <2>3, Types
        <3>3. \A i \in 1 .. Len(jobs') :
                 i \in 1 .. Len(jobs) \/ jobs'[i] \notin flushed.covers
            BY <2>3, <3>1, Types
        <3>4. flushed.pc = "waiting" =>
                 \E b \in 1 .. Len(jobs') :
                    /\ jobs'[b] = Barrier
                    /\ \A i \in 1 .. Len(jobs') : jobs'[i] \in flushed.covers => i < b
            BY <2>3, <3>2, <3>3 DEF ScanInv, Flushing
        <3> QED
            BY <1>1, <1>3, <1>4, <1>5, <2>2, <2>3, <2>4, <3>1, <3>4 DEF ScanInv, Flushing
    <2>9. Counted'
        <3>1. Holders' = Holders \ {c}
            BY <2>1, HoldersMove
        <3>2. IsFiniteSet(Holders') /\ Cardinality(Holders') = Cardinality(Holders) - 1
            BY <1>4, <3>1, Types, FS_RemoveElement
        <3>3. IsFiniteSet(Queued') /\ Cardinality(Queued') = Cardinality(Queued) + 1
            BY <2>4, Types, FS_AddElement
        <3> QED
            BY <1>4, <2>1, <3>2, <3>3, Types DEF Counted
    <2> QED
        BY <2>6, <2>7, <2>8, <2>9 DEF ScanInv
<1> QED
    BY <1>6, <1>7

LEMMA TakeStep ==
    ASSUME ScanInv, TakeJob
    PROVE  ScanInv'
<1>1. /\ UNCHANGED <<capture, slots, shut, closing>> /\ worker.pc \in {"select", "drain"}
      /\ jobs # << >> /\ jobs' = Tail(jobs) /\ worker.job = NoJob
    BY DEF TakeJob, ScanInv, Placed
<1>2. /\ jobs' \in Seq(Captures \cup {Barrier}) /\ Len(jobs') = Len(jobs) - 1
      /\ Len(jobs) >= 1 /\ Head(jobs) = jobs[1] /\ Head(jobs) \in Captures \cup {Barrier}
      /\ \A i \in 1 .. Len(jobs) - 1 : jobs'[i] = jobs[i + 1]
      /\ Head(jobs) \in ToSet(jobs) /\ ToSet(jobs') = ToSet(jobs) \ {Head(jobs)}
      /\ Once(jobs')
    BY <1>1, Types, Taken
<1>3. Scanned = {} /\ Holders' = Holders
    BY <1>1 DEF Scanned, Holders, Holding
<1>4. Len(jobs') <= QueueSize
    BY <1>2, Types
<1>5. CASE Head(jobs) = Barrier
    <2>1. /\ UNCHANGED worker
          /\ flushed' = [flushed EXCEPT !.pc = IF @ = "waiting" THEN "returned" ELSE @]
        BY <1>5 DEF TakeJob
    <2>2. /\ flushed'.covers = flushed.covers /\ flushed \in [pc : {"no", "sending", "waiting", "returned"}, covers : SUBSET Captures]
          /\ flushed.pc = "waiting" => flushed'.pc = "returned"
          /\ flushed.pc # "waiting" => flushed'.pc = flushed.pc
          /\ flushed'.pc # "waiting"
        BY <2>1 DEF ScanInv, ScanTypeOK
    <2>3. Queued' = Queued /\ Scanned' = Scanned
        BY <1>2, <1>5, <2>1 DEF Queued, Scanned
    <2>4. ScanTypeOK'
        BY <1>1, <1>2, <1>4, <2>1, <2>2 DEF ScanInv, ScanTypeOK
    <2>5. Placed'
        BY <1>1, <1>2, <2>1, <2>3 DEF ScanInv, Placed
    <2>6. Flushing'
        <3>1. ASSUME flushed.pc = "waiting" PROVE flushed.covers \cap Queued = {}
            <4>1. PICK b \in 1 .. Len(jobs) :
                    /\ jobs[b] = Barrier
                    /\ \A i \in 1 .. Len(jobs) : jobs[i] \in flushed.covers => i < b
                BY <3>1 DEF ScanInv, Flushing
            <4>2. b = 1
                BY <1>2, <1>5, <4>1, Types DEF Once
            <4>3. \A i \in 1 .. Len(jobs) : jobs[i] \notin flushed.covers
                BY <4>1, <4>2, Types
            <4> QED
                BY <4>3, Types DEF Queued, ToSet
        <3> QED
            BY <1>1, <1>2, <1>3, <1>5, <2>2, <2>3, <3>1 DEF ScanInv, Flushing
    <2>7. Counted'
        BY <1>1, <1>3, <2>3 DEF ScanInv, Counted
    <2> QED
        BY <2>4, <2>5, <2>6, <2>7 DEF ScanInv
<1>6. CASE Head(jobs) # Barrier
    <2> DEFINE c == Head(jobs)
    <2>1. /\ UNCHANGED flushed /\ worker'.job = c /\ c \in Captures /\ c # NoJob
          /\ worker'.pc \in {"scan", "last"} /\ (worker'.pc = "last" => worker.pc = "drain")
          /\ worker' \in [pc : {"select", "scan", "drain", "last", "done"},
                          job : Captures \cup {NoJob}]
        BY <1>1, <1>2, <1>6, ScanAssumption DEF TakeJob
    <2>2. /\ c \in Queued /\ Queued' = Queued \ {c} /\ Scanned' = {c}
        BY <1>2, <1>6, <2>1 DEF Queued, Scanned
    <2>3. ScanTypeOK'
        BY <1>1, <1>2, <1>4, <2>1 DEF ScanInv, ScanTypeOK
    <2>4. Placed'
        BY <1>1, <1>2, <2>1, <2>2 DEF ScanInv, Placed
    <2>5. Flushing'
        <3>1. ASSUME flushed.pc = "waiting"
              PROVE  \E b \in 1 .. Len(jobs') :
                        /\ jobs'[b] = Barrier
                        /\ \A i \in 1 .. Len(jobs') : jobs'[i] \in flushed.covers => i < b
            <4>1. PICK b \in 1 .. Len(jobs) :
                    /\ jobs[b] = Barrier
                    /\ \A i \in 1 .. Len(jobs) : jobs[i] \in flushed.covers => i < b
                BY <3>1 DEF ScanInv, Flushing
            <4>2. b # 1 /\ b - 1 \in 1 .. Len(jobs') /\ jobs'[b - 1] = Barrier
                <5>1. b # 1
                    BY <1>2, <1>6, <4>1
                <5>2. b - 1 \in 1 .. Len(jobs) - 1 /\ (b - 1) + 1 = b
                    BY <5>1, Types
                <5> QED
                    BY <1>2, <4>1, <5>1, <5>2
            <4>3. ASSUME NEW i \in 1 .. Len(jobs'), jobs'[i] \in flushed.covers
                  PROVE  i < b - 1
                <5>1. i \in 1 .. Len(jobs) - 1 /\ i + 1 \in 1 .. Len(jobs)
                    BY <1>2, Types
                <5>2. jobs[i + 1] \in flushed.covers
                    BY <1>2, <4>3, <5>1
                <5>3. i + 1 < b
                    BY <4>1, <5>1, <5>2
                <5> QED
                    BY <5>1, <5>3, Types
            <4> QED
                BY <4>2, <4>3
        <3> QED
            BY <1>1, <1>2, <1>3, <2>1, <2>2, <3>1 DEF ScanInv, Flushing
    <2>6. Counted'
        <3>1. IsFiniteSet(Queued') /\ Cardinality(Queued') = Cardinality(Queued) - 1
            BY <2>2, Types, FS_RemoveElement
        <3>2. Cardinality(Scanned) = 0 /\ Cardinality(Scanned') = 1
            BY <1>3, <2>2, FS_EmptySet, FS_Singleton
        <3> QED
            BY <1>1, <1>3, <3>1, <3>2, Types DEF Counted
    <2> QED
        BY <2>3, <2>4, <2>5, <2>6 DEF ScanInv
<1> QED
    BY <1>5, <1>6

LEMMA ScanStep ==
    ASSUME ScanInv, Scan
    PROVE  ScanInv'
<1>1. /\ UNCHANGED <<capture, jobs, shut, closing, flushed>> /\ worker.pc \in {"scan", "last"}
      /\ slots > 0 /\ slots' = slots - 1 /\ worker'.job = NoJob
      /\ worker'.pc \in {"select", "drain"} /\ (worker'.pc = "drain" => worker.pc = "last")
      /\ worker' \in [pc : {"select", "scan", "drain", "last", "done"},
                      job : Captures \cup {NoJob}]
    BY DEF Scan, Release
<1>2. /\ Scanned = {worker.job} /\ Scanned' = {} /\ Holders' = Holders /\ Queued' = Queued
      /\ ToSet(jobs)' = ToSet(jobs)
    BY <1>1 DEF ScanInv, Placed, Scanned, Holders, Holding, Queued
<1>3. ScanTypeOK'
    <2>1. slots' \in 0 .. QueueSize + 1
        BY <1>1, Types
    <2> QED
        BY <1>1, <2>1 DEF ScanInv, ScanTypeOK
<1>4. NoJob \notin ToSet(jobs)
    BY Types, ScanAssumption DEF ToSet, NoJob, Barrier
<1>5. Placed' /\ Flushing'
    BY <1>1, <1>2, <1>4 DEF ScanInv, Placed, Flushing
<1>6. Counted'
    <2>1. Cardinality(Scanned) = 1 /\ Cardinality(Scanned') = 0
        BY <1>2, FS_EmptySet, FS_Singleton
    <2> QED
        BY <1>1, <1>2, <2>1, Types DEF Counted
<1> QED
    BY <1>3, <1>5, <1>6 DEF ScanInv

LEMMA FlushStep ==
    ASSUME ScanInv, Flush \/ FlushSends \/ FlushOver
    PROVE  ScanInv'
<1>1. UNCHANGED <<capture, slots, worker, shut, closing>>
    BY DEF Flush, FlushSends, FlushOver
<1>2. Scanned' = Scanned /\ Holders' = Holders
    BY <1>1 DEF Scanned, Holders, Holding
<1>3. CASE Flush
    <2>1. /\ UNCHANGED jobs /\ flushed.pc = "no" /\ flushed'.pc = "sending"
          /\ flushed'.covers = {c \in Captures : capture[c] = "ended"}
          /\ flushed' \in [pc : {"no", "sending", "waiting", "returned"},
                           covers : SUBSET Captures]
        BY <1>3 DEF Flush
    <2>2. Queued' = Queued
        BY <2>1 DEF Queued
    <2> QED
        BY <1>1, <1>2, <2>1, <2>2 DEF ScanInv, ScanTypeOK, Placed, Flushing, Counted
<1>4. CASE FlushSends
    <2>1. /\ flushed.pc = "sending" /\ Len(jobs) < QueueSize /\ jobs' = Append(jobs, Barrier)
          /\ flushed'.pc = "waiting" /\ flushed'.covers = flushed.covers
          /\ flushed' \in [pc : {"no", "sending", "waiting", "returned"},
                           covers : SUBSET Captures]
        BY <1>4 DEF FlushSends, ScanInv, ScanTypeOK
    <2>2. Barrier \notin ToSet(jobs) /\ Barrier # worker.job
        BY <2>1, ScanAssumption DEF ScanInv, Flushing, ScanTypeOK, Barrier, NoJob
    <2>3. /\ jobs' \in Seq(Captures \cup {Barrier}) /\ Len(jobs') = Len(jobs) + 1
          /\ jobs'[Len(jobs) + 1] = Barrier
          /\ \A i \in 1 .. Len(jobs) : jobs'[i] = jobs[i]
          /\ ToSet(jobs') = ToSet(jobs) \cup {Barrier} /\ Once(jobs')
        BY <2>1, <2>2, Types, Appended
    <2>4. Queued' = Queued
        BY <2>3 DEF Queued
    <2>5. ScanTypeOK'
        <3>1. Len(jobs') <= QueueSize
            BY <2>1, <2>3, Types
        <3> QED
            BY <1>1, <2>1, <2>3, <3>1 DEF ScanInv, ScanTypeOK
    <2>6. Placed' /\ Counted'
        BY <1>1, <1>2, <2>2, <2>3, <2>4 DEF ScanInv, Placed, Counted
    <2>7. Flushing'
        <3> DEFINE b == Len(jobs) + 1
        <3>1. b \in 1 .. Len(jobs')
            BY <2>3, Types
        <3>2. Barrier \notin flushed.covers
            BY ScanAssumption DEF ScanInv, ScanTypeOK
        <3>3. \A i \in 1 .. Len(jobs') : i < b \/ jobs'[i] = Barrier
            BY <2>3, Types
        <3> QED
            BY <1>1, <2>1, <2>3, <3>1, <3>2, <3>3 DEF ScanInv, Flushing
    <2> QED
        BY <2>5, <2>6, <2>7 DEF ScanInv
<1>5. CASE FlushOver
    <2>1. /\ UNCHANGED jobs /\ flushed'.pc = "returned" /\ flushed'.covers = flushed.covers
          /\ flushed' \in [pc : {"no", "sending", "waiting", "returned"},
                           covers : SUBSET Captures]
          /\ worker.pc = "done"
        BY <1>5 DEF FlushOver, ScanInv, ScanTypeOK
    <2>2. Queued' = Queued /\ Queued = {} /\ Scanned = {}
        BY <2>1 DEF Queued, ScanInv, Placed, Scanned
    <2> QED
        BY <1>1, <1>2, <2>1, <2>2 DEF ScanInv, ScanTypeOK, Placed, Flushing, Counted
<1> QED
    BY <1>3, <1>4, <1>5

(* The worker stops, and Close.                                              *)
LEMMA EndStep ==
    ASSUME ScanInv, StopScan \/ Done \/ CloseScan \/ Closed
    PROVE  ScanInv'
<1>1. UNCHANGED <<capture, slots, jobs, flushed>> /\ worker'.job = worker.job
    BY DEF StopScan, Done, CloseScan, Closed, ScanInv, ScanTypeOK
<1>2. /\ Queued' = Queued /\ Scanned' = Scanned /\ Holders' = Holders
      /\ ToSet(jobs)' = ToSet(jobs)
    BY <1>1 DEF Queued, Scanned, Holders, Holding
<1>3. ScanTypeOK'
    BY <1>1 DEF StopScan, Done, CloseScan, Closed, ScanInv, ScanTypeOK
<1>4. Flushing' /\ Counted'
    BY <1>1, <1>2 DEF ScanInv, Flushing, Counted
<1>5. Done => Queued = {}
    BY DEF Done, Queued, ToSet
<1>6. Placed'
    BY <1>1, <1>2, <1>5 DEF StopScan, Done, CloseScan, Closed, ScanInv, ScanTypeOK, Placed
<1> QED
    BY <1>3, <1>4, <1>6 DEF ScanInv

LEMMA ScanNextInv == ScanInv /\ [ScanNext]_scanVars => ScanInv'
<1> SUFFICES ASSUME ScanInv, [ScanNext]_scanVars PROVE ScanInv'
    OBVIOUS
<1>1. CASE UNCHANGED scanVars
    <2>1. UNCHANGED <<Queued, Scanned, Holders>> /\ ToSet(jobs)' = ToSet(jobs)
        BY <1>1 DEF scanVars, Queued, Scanned, Holders, Holding
    <2> QED
        BY <1>1, <2>1 DEF scanVars, ScanInv, ScanTypeOK, Placed, Flushing, Counted
<1> QED
    BY <1>1, WrapStep, CompleteStep, TakeStep, ScanStep, FlushStep, EndStep
       DEF ScanNext, Worker

(* No slot of the passive scan is lost or given back twice, and an ended or  *)
(* flushed observer has nothing left, for any number of captures and any     *)
(* length of the queue, whatever is dropped and however it is closed.        *)
THEOREM CapturesAddUpAlways == ScanSpec => []CapturesAddUp
<1>1. ScanInv => CapturesAddUp
    <2> SUFFICES ASSUME ScanInv PROVE CapturesAddUp
        OBVIOUS
    <2>1. SlotsKept
        BY DEF ScanInv, Counted, SlotsKept, Holders, Scanned
    <2>2. ScansAreDone
        <3>1. NoJob \notin flushed.covers
            BY ScanAssumption DEF ScanInv, ScanTypeOK
        <3> QED
            BY <3>1 DEF ScanInv, Placed, Flushing, ScansAreDone, Scanned
    <2> QED
        BY <2>1, <2>2 DEF CapturesAddUp
<1> QED
    BY <1>1, ScanInitInv, ScanNextInv, PTL DEF ScanSpec
=============================================================================
