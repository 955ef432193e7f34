--------------------------- MODULE SchedulerProofs ---------------------------
(* The marks of the scheduler, for any number of routes, upstreams, probes,  *)
(* administrative writes and pauses.                                         *)
(*                                                                           *)
(* A mark is that of a living probe of its target (Owners), from which it    *)
(* follows that no two routes have the same one, so that dropping or ending  *)
(* takes from the count what it takes from the marks (Counted).  That the    *)
(* routes of an upstream take turns needs more: a route is an orphan when    *)
(* somebody has taken the mark of its upstream and not its own.  Deleting an *)
(* upstream makes orphans, and has then to drop them; only after a second    *)
(* write may one be left, of an upstream that does not exist, and only after *)
(* a third of one that exists (Orphans).  Deletions says what that rests on: *)
(* which calls a handler has still to make, and in which order.              *)
EXTENDS Scheduler, Recipes, FiniteSetTheorems, SequenceTheorems, TLAPS

-----------------------------------------------------------------------------
(* The inductive invariant.                                                  *)

Pcs == {"idle", "armed", "sent", "finish", "ended", "note", "ramp"}
ProbeStates == [pc : Pcs, live : SUBSET Routes, with : SUBSET Routes,
                ramp : BOOLEAN, was : BOOLEAN]
MarkValues == Holds \cup {NoHold}
ProbeCalls == {"drop1", "unpend1", "look1", "mark1"} \X Ups
RouteCalls == {"drop2", "unpend2", "look2", "mark2", "reset", "trigger"} \X Routes
Ticks == [todo : Seq(Routes), part : {"idle", "l1", "l2"}, eligible : SUBSET Ups]
Confs == [route : [Routes -> {"on", "off", "gone"}], ups : SUBSET Ups]
Budgets == [edits : Int, pauses : Int]

MarkTypes ==
    /\ mark1 \in [Ups -> MarkValues] /\ busy \in [Ups -> MarkValues]
    /\ mark2 \in [Routes -> MarkValues] /\ count \in Int
ConfTypes ==
    /\ shape \in Shapes /\ conf \in Confs /\ left \in Budgets
    /\ admin \in Seq(ProbeCalls \cup RouteCalls)
TickTypes == tick \in Ticks /\ (tick.part = "l2" => tick.todo # <<>>)
ProbeTypes == probes \in [Holds -> ProbeStates]
Types == MarkTypes /\ ConfTypes /\ TickTypes /\ ProbeTypes

(* A mark is that of a probe of its target that is alive.                    *)
Owners ==
    /\ \A r \in Routes : mark2[r] # NoHold =>
          mark2[r] \in Holds /\ Alive(mark2[r]) /\ Target(mark2[r]) = r
    /\ \A u \in Ups : mark1[u] # NoHold =>
          mark1[u] \in Holds /\ Alive(mark1[u]) /\ Target(mark1[u]) = u
    /\ \A u \in Ups : busy[u] # NoHold =>
          /\ busy[u] \in Holds /\ Target(busy[u]) \in Routes
          /\ Up(Target(busy[u])) = u /\ mark2[Target(busy[u])] = busy[u]

Marked == {r \in Routes : mark2[r] # NoHold}
Counted == count = Cardinality(Marked) /\ count <= shape.limit

(* A probe of a route whose upstream's mark somebody has taken.              *)
Orphan(r)     == mark2[r] # NoHold /\ busy[Up(r)] # mark2[r]
ToDrop(r)     == \E i \in 1 .. Len(admin) : admin[i] = <<"drop2", r>>
MissingGone == \A u \in Ups \ conf.ups : \A r \in RoutesOf(u) : conf.route[r] = "gone"
Untouched ==
    /\ Edits >= 0
    /\ Edits = 0 => admin = <<>> /\ conf.ups = Ups /\ \A r \in Routes : On(r)
DropFirst ==
    \A i \in 1 .. Len(admin) : admin[i][1] = "drop1" =>
        /\ i = 1 /\ admin[i][2] \notin conf.ups
        /\ Edits <= 1 => \A r \in RoutesOf(admin[i][2]) : ToDrop(r)
Deletions == MissingGone /\ Untouched /\ DropFirst
Orphans ==
    /\ Edits <= 1 => \A r \in Routes : Orphan(r) => ToDrop(r)
    /\ Edits <= 2 => \A r \in Routes : Orphan(r) => Up(r) \notin conf.ups

Inv == Types /\ Owners /\ Counted /\ Deletions /\ Orphans

-----------------------------------------------------------------------------
(* Holds, and the sequences of calls.                                        *)

LEMMA NoHoldIsNone == NoHold \notin Holds
BY DEF NoHold, Holds

LEMMA HoldsHaveTargets ==
    ASSUME NEW h \in Holds
    PROVE  Target(h) \in Routes \cup Ups
BY DEF Holds, Target

LEMMA FreshIs ==
    ASSUME NEW x, Fresh(x) # {}
    PROVE  /\ NextHold(x) \in Holds /\ Target(NextHold(x)) = x
           /\ probes[NextHold(x)].pc = "idle" /\ NextHold(x) \notin Held
BY DEF NextHold, Fresh

(* SetToSeq lists a finite set.                                              *)
LEMMA Listed ==
    ASSUME NEW R, IsFiniteSet(R)
    PROVE  /\ Cardinality(R) \in Nat
           /\ SetToSeq(R) \in [1 .. Cardinality(R) -> R]
           /\ \A r \in R : \E i \in 1 .. Cardinality(R) : SetToSeq(R)[i] = r
<1> DEFINE n == Cardinality(R)
<1>1. n \in Nat /\ ExistsBijection(1 .. n, R)
    BY FS_CardinalityType
<1>2. PICK g \in Bijection(1 .. n, R) : TRUE
    BY <1>1 DEF ExistsBijection
<1>3. g \in [1 .. n -> R] /\ IsInjective(g)
    BY <1>2 DEF Bijection, Injection, IsInjective
<1>4. SetToSeq(R) \in [1 .. n -> R] /\ IsInjective(SetToSeq(R))
    BY <1>3 DEF SetToSeq
<1>5. SetToSeq(R) \in Injection(1 .. n, R)
    BY <1>4 DEF Injection, IsInjective
<1>6. IsFiniteSet(1 .. n) /\ Cardinality(1 .. n) = n
    BY <1>1, FS_Interval
<1>7. SetToSeq(R) \in Surjection(1 .. n, R)
    BY <1>5, <1>6, FS_Injection
<1> QED
    BY <1>1, <1>4, <1>7 DEF Surjection

LEMMA CallsAre ==
    ASSUME NEW name, NEW R \in SUBSET Routes
    PROVE  /\ Calls(name, R) \in Seq({name} \X Routes)
           /\ \A r \in R : \E i \in 1 .. Len(Calls(name, R)) : Calls(name, R)[i] = <<name, r>>
<1>1. IsFiniteSet(R)
    BY RoutesAssumption, FS_Subset
<1> DEFINE n == Cardinality(R)
<1>2. n \in Nat /\ SetToSeq(R) \in [1 .. n -> R]
    BY <1>1, Listed
<1>3. \A r \in R : \E i \in 1 .. n : SetToSeq(R)[i] = r
    BY <1>1, Listed
<1> HIDE DEF n
<1>4. Calls(name, R) = [i \in 1 .. n |-> <<name, SetToSeq(R)[i]>>]
    BY DEF Calls, n
<1>5. Calls(name, R) \in [1 .. n -> {name} \X Routes]
    BY <1>2, <1>4
<1>6. Calls(name, R) \in Seq({name} \X Routes) /\ Len(Calls(name, R)) = n
    BY <1>2, <1>5, IsASeq
<1>7. \A i \in 1 .. n : Calls(name, R)[i] = <<name, SetToSeq(R)[i]>>
    BY <1>4
<1> QED
    BY <1>3, <1>6, <1>7

LEMMA ListedType ==
    ASSUME NEW R \in SUBSET Routes
    PROVE  SetToSeq(R) \in Seq(Routes)
<1>1. IsFiniteSet(R)
    BY RoutesAssumption, FS_Subset
<1>2. Cardinality(R) \in Nat /\ SetToSeq(R) \in [1 .. Cardinality(R) -> R]
    BY <1>1, Listed
<1> HIDE DEF SetToSeq
<1>3. SetToSeq(R) \in [1 .. Cardinality(R) -> Routes]
    BY <1>2
<1> QED
    BY <1>2, <1>3, IsASeq

-----------------------------------------------------------------------------
(* What a step leaves alone.                                                 *)

LEMMA MovesTo ==
    ASSUME ProbeTypes, NEW h \in Holds, NEW pc \in Pcs, probes' = To(h, pc)
    PROVE  /\ ProbeTypes'
           /\ \A g \in Holds : probes'[g].pc = IF g = h THEN pc ELSE probes[g].pc
BY DEF ProbeTypes, ProbeStates, To

LEMMA OwnersKept ==
    ASSUME Owners, UNCHANGED <<shape, marks>>,
           \A h \in Holds : Alive(h) => Alive(h)'
    PROVE  Owners'
BY DEF Owners, marks, Up, Target

LEMMA CountedKept ==
    ASSUME Counted, UNCHANGED <<shape, mark2, count>>
    PROVE  Counted'
BY DEF Counted, Marked

LEMMA DeletionsKept ==
    ASSUME Deletions, UNCHANGED <<shape, conf, admin>>, left'.edits = left.edits
    PROVE  Deletions'
<1>1. Edits' = Edits
    BY DEF Edits
<1>3. MissingGone'
    BY DEF Deletions, MissingGone, RoutesOf, Up
<1>4. Untouched'
    BY <1>1 DEF Deletions, Untouched, On
<1>5. DropFirst'
    BY <1>1 DEF Deletions, DropFirst, ToDrop, RoutesOf, Up
<1> QED
    BY <1>3, <1>4, <1>5 DEF Deletions

LEMMA OrphansKept ==
    ASSUME Orphans, UNCHANGED <<shape, mark2, busy, conf, admin>>, left'.edits = left.edits
    PROVE  Orphans'
BY DEF Orphans, Orphan, Edits, ToDrop, Up

(* A step that moves a probe on, short of its end, or the tick.              *)
LEMMA QuietStep ==
    ASSUME Inv, UNCHANGED <<shape, conf, admin, marks>>,
           left' \in Budgets, left'.edits = left.edits,
           TickTypes', ProbeTypes', \A h \in Holds : Alive(h) => Alive(h)'
    PROVE  Inv'
<1>1. Types'
    BY DEF Inv, Types, MarkTypes, ConfTypes, marks
<1>2. Owners'
    BY OwnersKept DEF Inv
<1>3. Counted'
    BY CountedKept DEF Inv, marks
<1>4. Deletions'
    BY DeletionsKept DEF Inv
<1>5. Orphans'
    BY OrphansKept DEF Inv, marks
<1> QED
    BY <1>1, <1>2, <1>3, <1>4, <1>5 DEF Inv

LEMMA ProbeMoves ==
    ASSUME Inv, UNCHANGED <<shape, conf, admin, left, marks, tick>>,
           NEW h \in Holds, NEW pc \in Pcs, probes' = To(h, pc),
           Alive(h) => pc \notin {"idle", "note", "ramp"}
    PROVE  Inv'
<1>1. ProbeTypes' /\ \A g \in Holds : probes'[g].pc = IF g = h THEN pc ELSE probes[g].pc
    BY MovesTo DEF Inv, Types
<1>2. \A g \in Holds : Alive(g) => Alive(g)'
    BY <1>1 DEF Alive
<1>3. TickTypes' /\ left' \in Budgets /\ left'.edits = left.edits
    BY DEF Inv, Types, TickTypes, ConfTypes
<1> QED
    BY <1>1, <1>2, <1>3, QuietStep

-----------------------------------------------------------------------------
(* The tick.                                                                 *)

LEMMA UpType ==
    ASSUME Inv, NEW r \in Routes
    PROVE  Up(r) \in Ups /\ shape.limit \in Nat /\ shape.edits \in Nat
BY ShapesAssumption DEF Inv, Types, ConfTypes, Up

LEMMA HeadIs ==
    ASSUME Inv, AtL1 \/ AtL2
    PROVE  /\ R1 \in Routes /\ U1 \in Ups
           /\ ToL2 => TickTypes'
           /\ ToRoute => TickTypes'
<1>1. tick \in Ticks /\ tick.todo # <<>>
    BY DEF Inv, Types, TickTypes, AtL1, AtL2
<1>2. tick.todo \in Seq(Routes) /\ tick.part \in {"idle", "l1", "l2"} /\ tick.eligible \in SUBSET Ups
    BY <1>1 DEF Ticks
<1>3. R1 \in Routes /\ Tail(tick.todo) \in Seq(Routes)
    BY <1>1, <1>2, HeadTailProperties DEF R1
<1>4. U1 \in Ups
    BY <1>3, UpType DEF U1
<1>5. ToL2 => TickTypes'
    BY <1>1, <1>2 DEF ToL2, TickTypes, Ticks
<1>6. ToRoute => TickTypes'
    BY <1>1, <1>2, <1>3 DEF ToRoute, TickTypes, Ticks
<1> QED
    BY <1>3, <1>4, <1>5, <1>6

(* What a step does that looks at a route and starts no probe.               *)
LEMMA LookingOn ==
    ASSUME Inv, \/ OnPaused \/ TickEnd \/ NotDueL1 \/ RampFull \/ FollowL1
                \/ SkipL2 \/ Piggyback \/ RefuseL2
    PROVE  Inv'
<1>1. UNCHANGED <<shape, conf, admin, marks, left>>
    BY DEF OnPaused, TickEnd, NotDueL1, RampFull, FollowL1, SkipL2, Piggyback, RefuseL2
<1>2. TickTypes'
    <2>1. CASE OnPaused
        BY <2>1 DEF OnPaused, Inv, Types, TickTypes
    <2>2. CASE TickEnd
        BY <2>2 DEF TickEnd, Inv, Types, TickTypes, Ticks
    <2>3. CASE NotDueL1 \/ RampFull \/ FollowL1
        BY <2>3, HeadIs DEF NotDueL1, RampFull, FollowL1, MayBeginL1
    <2>4. CASE SkipL2 \/ Piggyback \/ RefuseL2
        BY <2>4, HeadIs DEF SkipL2, Piggyback, RefuseL2
    <2> QED
        BY <2>1, <2>2, <2>3, <2>4
<1>3. ProbeTypes' /\ \A h \in Holds : probes'[h].pc = probes[h].pc
    <2>1. CASE ~FollowL1
        BY <2>1 DEF OnPaused, TickEnd, NotDueL1, RampFull, SkipL2, Piggyback, RefuseL2,
                    Inv, Types, ProbeTypes
    <2>2. CASE FollowL1
        <3>1. R1 \in Routes
            BY <2>2, HeadIs DEF FollowL1, MayBeginL1
        <3>2. probes \in [Holds -> ProbeStates]
            BY DEF Inv, Types, ProbeTypes
        <3>3. \A h \in Holds : /\ [probes[h] EXCEPT !.with = @ \cup {R1}] \in ProbeStates
                               /\ [probes[h] EXCEPT !.with = @ \cup {R1}].pc = probes[h].pc
            BY <3>1, <3>2 DEF ProbeStates
        <3> QED
            BY <2>2, <3>2, <3>3 DEF FollowL1, ProbeTypes
    <2> QED
        BY <2>1, <2>2
<1>4. \A h \in Holds : Alive(h) => Alive(h)'
    BY <1>3 DEF Alive
<1>5. left' \in Budgets /\ left'.edits = left.edits
    BY <1>1 DEF Inv, Types, ConfTypes
<1> QED
    BY <1>1, <1>2, <1>3, <1>4, <1>5, QuietStep

(* A new probe has a name nobody has a mark of.                              *)
LEMMA Starting ==
    ASSUME Inv, NEW x, Fresh(x) # {}, NEW p \in ProbeStates, p.pc = "armed",
           probes' = [probes EXCEPT ![NextHold(x)] = p]
    PROVE  /\ NextHold(x) \in Holds /\ Target(NextHold(x)) = x
           /\ NextHold(x) # NoHold
           /\ \A r \in Routes : mark2[r] # NextHold(x)
           /\ ProbeTypes' /\ probes'[NextHold(x)].pc = "armed"
           /\ \A h \in Holds : Alive(h) => Alive(h)'
<1> DEFINE n == NextHold(x)
<1>1. n \in Holds /\ Target(n) = x /\ probes[n].pc = "idle" /\ n \notin Held
    BY FreshIs
<1>2. n # NoHold
    BY <1>1, NoHoldIsNone
<1>3. \A r \in Routes : mark2[r] # n
    BY <1>1 DEF Held
<1> HIDE DEF n
<1>4. ProbeTypes' /\ probes'[n] = p /\ \A h \in Holds : h # n => probes'[h] = probes[h]
    BY <1>1 DEF n, Inv, Types, ProbeTypes
<1>5. \A h \in Holds : Alive(h) => Alive(h)'
    BY <1>1, <1>4 DEF Alive
<1> QED
    BY <1>1, <1>2, <1>3, <1>4, <1>5 DEF n

LEMMA OrphansShrink ==
    ASSUME Orphans, UNCHANGED <<shape, conf, admin>>, left'.edits = left.edits,
           \A r \in Routes : Orphan(r)' => Orphan(r)
    PROVE  Orphans'
BY DEF Orphans, Edits, ToDrop, Up

LEMMA BeginningL1 ==
    ASSUME Inv, BeginL1
    PROVE  Inv'
<1> DEFINE h == NextHold(U1)
           p == [Idle EXCEPT !.pc = "armed", !.ramp = Ramping(U1),
                             !.with = IF shape.timed THEN {R1} ELSE {}]
<1>1. R1 \in Routes /\ U1 \in Ups /\ TickTypes' /\ Fresh(U1) # {} /\ mark1[U1] = NoHold
    BY HeadIs DEF BeginL1, MayBeginL1
<1>2. /\ UNCHANGED <<shape, conf, admin, busy, mark2, count, left>>
      /\ mark1' = [mark1 EXCEPT ![U1] = h] /\ probes' = [probes EXCEPT ![h] = p]
    BY DEF BeginL1
<1>3. p \in ProbeStates /\ p.pc = "armed"
    BY <1>1 DEF ProbeStates, Idle, Pcs, Ramping
<1> HIDE DEF p
<1>4. /\ h \in Holds /\ Target(h) = U1 /\ h # NoHold /\ ProbeTypes'
      /\ probes'[h].pc = "armed" /\ \A g \in Holds : Alive(g) => Alive(g)'
    BY <1>1, <1>2, <1>3, Starting
<1> HIDE DEF h
<1>5. Types'
    BY <1>1, <1>2, <1>4 DEF Inv, Types, MarkTypes, MarkValues, ConfTypes
<1>6. \A g \in Holds : g = h => Alive(g)'
    BY <1>4 DEF Alive
<1>7. \A u \in Ups : mark1'[u] = IF u = U1 THEN h ELSE mark1[u]
    BY <1>2, <1>1 DEF Inv, Types, MarkTypes
<1>8. Owners'
    BY <1>2, <1>4, <1>6, <1>7 DEF Inv, Owners, Up, Target
<1>9. Counted' /\ Deletions' /\ Orphans'
    BY <1>2, CountedKept, DeletionsKept, OrphansKept DEF Inv
<1> QED
    BY <1>5, <1>8, <1>9 DEF Inv

LEMMA MarkedFinite == IsFiniteSet(Marked) /\ Cardinality(Marked) \in Nat
<1>1. IsFiniteSet(Marked)
    BY RoutesAssumption, FS_Subset DEF Marked
<1> QED
    BY <1>1, FS_CardinalityType

LEMMA BeginningL2 ==
    ASSUME Inv, BeginL2
    PROVE  Inv'
<1> DEFINE h == NextHold(R1)
           p == [Idle EXCEPT !.pc = "armed", !.live = {R1}]
<1>1. /\ R1 \in Routes /\ U1 \in Ups /\ TickTypes' /\ Fresh(R1) # {} /\ Up(R1) = U1
      /\ busy[U1] = NoHold /\ mark2[R1] = NoHold /\ count < shape.limit
    BY HeadIs DEF BeginL2, CanBeginL2, U1
<1>2. /\ UNCHANGED <<shape, conf, admin, mark1, left>> /\ count' = count + 1
      /\ mark2' = [mark2 EXCEPT ![R1] = h] /\ busy' = [busy EXCEPT ![U1] = h]
      /\ probes' = [probes EXCEPT ![h] = p]
    BY DEF BeginL2
<1>3. p \in ProbeStates /\ p.pc = "armed"
    BY <1>1 DEF ProbeStates, Idle, Pcs
<1> HIDE DEF p
<1>4. /\ h \in Holds /\ Target(h) = R1 /\ h # NoHold /\ ProbeTypes'
      /\ \A r \in Routes : mark2[r] # h
      /\ probes'[h].pc = "armed" /\ \A g \in Holds : Alive(g) => Alive(g)'
    BY <1>1, <1>2, <1>3, Starting
<1> HIDE DEF h
<1>5. Types'
    BY <1>1, <1>2, <1>4 DEF Inv, Types, MarkTypes, MarkValues, ConfTypes
<1>6. \A g \in Holds : g = h => Alive(g)'
    BY <1>4 DEF Alive
<1>7. /\ \A u \in Ups : busy'[u] = IF u = U1 THEN h ELSE busy[u]
      /\ \A r \in Routes : mark2'[r] = IF r = R1 THEN h ELSE mark2[r]
    BY <1>2, <1>1 DEF Inv, Types, MarkTypes
<1>8. Owners'
    BY <1>1, <1>2, <1>4, <1>6, <1>7 DEF Inv, Owners, Up, Target
<1>9. Counted'
    <2>1. Marked' = Marked \cup {R1} /\ R1 \notin Marked
        BY <1>1, <1>4, <1>7 DEF Marked
    <2>2. Cardinality(Marked') = Cardinality(Marked) + 1
        BY <2>1, MarkedFinite, FS_AddElement
    <2>3. count \in Int /\ shape.limit \in Nat
        BY <1>1, UpType DEF Inv, Types, MarkTypes
    <2> QED
        BY <1>1, <1>2, <2>2, <2>3 DEF Inv, Counted
<1>10. Deletions'
    BY <1>2, DeletionsKept DEF Inv
<1>11. \A r \in Routes : Orphan(r)' => Orphan(r)
    <2> SUFFICES ASSUME NEW r \in Routes, Orphan(r)' PROVE Orphan(r)
        OBVIOUS
    <2>1. Up(r)' = Up(r) /\ Up(r) \in Ups
        BY <1>2, UpType DEF Up
    <2> QED
        BY <1>1, <1>7, <2>1 DEF Orphan
<1>12. Orphans'
    BY <1>2, <1>11, OrphansShrink DEF Inv
<1> QED
    BY <1>5, <1>8, <1>9, <1>10, <1>12 DEF Inv

-----------------------------------------------------------------------------
(* A probe.                                                                  *)

LEMMA AtIs ==
    ASSUME NEW h \in Holds, NEW pc
    PROVE  /\ At(h, "l1", pc) => probes[h].pc = pc /\ Target(h) \in Ups
           /\ At(h, "l2", pc) => probes[h].pc = pc /\ Target(h) \in Routes
<1>1. Target(h) \in Routes \cup Ups
    BY HoldsHaveTargets
<1>2. ("l1" = "l1") = TRUE /\ ("l2" = "l1") = FALSE
    OBVIOUS
<1>3. CASE Target(h) \in Ups
    BY <1>2, <1>3 DEF At, IsL1
<1>4. CASE Target(h) \notin Ups
    BY <1>1, <1>2, <1>4 DEF At, IsL1
<1> QED
    BY <1>3, <1>4

LEMMA Sending ==
    ASSUME Inv, NEW h \in Holds, Send(h)
    PROVE  Inv'
<1>1. UNCHANGED <<shape, conf, admin, left, marks, tick>> /\ probes[h].pc = "armed"
    BY DEF Send
<1>2. CASE probes' = To(h, "finish")
    BY <1>1, <1>2, ProbeMoves DEF Pcs
<1>3. CASE MaySend(h) /\ probes' # To(h, "finish")
    <2> DEFINE targets == {r \in RoutesOf(UpOf(h)) : On(r) /\ shape.timed}
               p == [probes[h] EXCEPT !.pc = "sent", !.was = ~reachOK[UpOf(h)],
                                      !.live = IF IsL1(h) THEN targets ELSE @]
    <2>1. probes' = [probes EXCEPT ![h] = p]
        BY <1>3 DEF Send
    <2>2. targets \in SUBSET Routes /\ (~reachOK[UpOf(h)]) \in BOOLEAN
        BY DEF RoutesOf
    <2>3. probes \in [Holds -> ProbeStates]
        BY DEF Inv, Types, ProbeTypes
    <2> HIDE DEF targets
    <2>4. p \in ProbeStates /\ p.pc = "sent"
        BY <2>2, <2>3 DEF ProbeStates, Pcs
    <2> HIDE DEF p
    <2>5. ProbeTypes' /\ \A g \in Holds : Alive(g) => Alive(g)'
        BY <2>1, <2>3, <2>4 DEF ProbeTypes, Alive
    <2>6. TickTypes' /\ left' \in Budgets /\ left'.edits = left.edits
        BY <1>1 DEF Inv, Types, TickTypes, ConfTypes
    <2> QED
        BY <1>1, <2>5, <2>6, QuietStep
<1> QED
    BY <1>2, <1>3 DEF Send

LEMMA Concluding ==
    ASSUME Inv, NEW h \in Holds,
           \/ Ignored(h) \/ Reached(h) \/ Unreached(h) \/ Answered(h) \/ Refused(h)
    PROVE  Inv'
<1>1. UNCHANGED <<shape, conf, admin, left, marks, tick>> /\ probes' = To(h, "finish")
    BY DEF Ignored, Reached, Unreached, Answered, Refused
<1> QED
    BY <1>1, ProbeMoves DEF Pcs

LEMMA NotingL1 ==
    ASSUME Inv, NEW h \in Holds, NoteL1(h)
    PROVE  Inv'
<1>1. UNCHANGED <<shape, conf, admin, left, marks, tick>> /\ probes' = To(h, "ramp")
    BY DEF NoteL1
<1>2. probes[h].pc = "note"
    BY AtIs DEF NoteL1
<1> QED
    BY <1>1, <1>2, ProbeMoves DEF Pcs, Alive

LEMMA CompletingL1 ==
    ASSUME Inv, NEW h \in Holds, CompleteL1(h)
    PROVE  Inv'
<1>1. /\ UNCHANGED <<shape, conf, admin, left, marks, tick>>
      /\ probes' = [probes EXCEPT ![h].pc = "ended", ![h].with = {}]
    BY DEF CompleteL1
<1>2. probes \in [Holds -> ProbeStates]
    BY DEF Inv, Types, ProbeTypes
<1>3. ProbeTypes' /\ \A g \in Holds : probes'[g].pc = IF g = h THEN "ended" ELSE probes[g].pc
    BY <1>1, <1>2 DEF ProbeTypes, ProbeStates, Pcs
<1>4. \A g \in Holds : Alive(g) => Alive(g)'
    BY <1>3 DEF Alive
<1>5. TickTypes' /\ left' \in Budgets /\ left'.edits = left.edits
    BY <1>1 DEF Inv, Types, TickTypes, ConfTypes
<1> QED
    BY <1>1, <1>3, <1>4, <1>5, QuietStep

LEMMA CompletingL2 ==
    ASSUME Inv, NEW h \in Holds, CompleteL2(h)
    PROVE  Inv'
<1>1. UNCHANGED <<shape, conf, admin, left, marks, tick>> /\ probes' = To(h, "ended")
    BY DEF CompleteL2
<1> QED
    BY <1>1, ProbeMoves DEF Pcs

(* What has ended goes back to being nobody.                                 *)
LEMMA Retiring ==
    ASSUME Inv, NEW h \in Holds, probes' = [probes EXCEPT ![h] = Idle]
    PROVE  /\ ProbeTypes'
           /\ \A g \in Holds : g # h => probes'[g] = probes[g]
<1>1. Idle \in ProbeStates
    BY DEF Idle, ProbeStates, Pcs
<1> QED
    BY <1>1 DEF Inv, Types, ProbeTypes

LEMMA Leaving ==
    ASSUME Inv, NEW h \in Holds, NoteL2(h) \/ LeaveRamp(h)
    PROVE  Inv'
<1>1. UNCHANGED <<shape, conf, admin, left, marks, tick>> /\ probes' = [probes EXCEPT ![h] = Idle]
    BY DEF NoteL2, LeaveRamp
<1>2. probes[h].pc \in {"note", "ramp"}
    BY AtIs DEF NoteL2, LeaveRamp
<1>3. ProbeTypes' /\ \A g \in Holds : g # h => probes'[g] = probes[g]
    BY <1>1, Retiring
<1>4. \A g \in Holds : Alive(g) => Alive(g)'
    BY <1>2, <1>3 DEF Alive
<1>5. TickTypes' /\ left' \in Budgets /\ left'.edits = left.edits
    BY <1>1 DEF Inv, Types, TickTypes, ConfTypes
<1> QED
    BY <1>1, <1>3, <1>4, <1>5, QuietStep

LEMMA EndingL1 ==
    ASSUME Inv, NEW h \in Holds, EndL1(h)
    PROVE  Inv'
<1> DEFINE u == UpOf(h)
<1>1. probes[h].pc = "ended" /\ Target(h) \in Ups
    BY AtIs DEF EndL1
<1>2. u = Target(h) /\ u \in Ups
    BY <1>1 DEF UpOf, IsL1
<1>3. /\ UNCHANGED <<shape, conf, admin, busy, mark2, count, left, tick>>
      /\ mark1' = IF mark1[u] = h THEN [mark1 EXCEPT ![u] = NoHold] ELSE mark1
      /\ probes' = To(h, IF mark1[u] = h THEN "note" ELSE "ramp")
    BY DEF EndL1
<1> HIDE DEF u
<1>4. ProbeTypes' /\ \A g \in Holds : g # h => probes'[g].pc = probes[g].pc
    BY <1>3, MovesTo DEF Pcs, Inv, Types
<1>5. Types'
    BY <1>3, <1>4 DEF Inv, Types, MarkTypes, MarkValues, ConfTypes, TickTypes
<1>6. \A v \in Ups : mark1'[v] = IF mark1[v] = h THEN NoHold ELSE mark1[v]
    <2>1. mark1 \in [Ups -> MarkValues] /\ h # NoHold
        BY NoHoldIsNone DEF Inv, Types, MarkTypes
    <2>2. \A v \in Ups : mark1[v] = h => v = u
        BY <1>2, <2>1 DEF Inv, Owners
    <2> QED
        BY <1>2, <1>3, <2>1, <2>2
<1>7. \A g \in Holds : g # h /\ Alive(g) => Alive(g)'
    BY <1>4 DEF Alive
<1>8. /\ \A r \in Routes : mark2[r] # h
      /\ \A v \in Ups : busy[v] # h
    BY <1>1, NoHoldIsNone, TargetAssumption DEF Inv, Owners
<1>9. Owners'
    BY <1>3, <1>6, <1>7, <1>8 DEF Inv, Owners, Up, Target
<1>10. Counted' /\ Deletions' /\ Orphans'
    BY <1>3, CountedKept, DeletionsKept, OrphansKept DEF Inv
<1> QED
    BY <1>5, <1>9, <1>10 DEF Inv

LEMMA EndingL2 ==
    ASSUME Inv, NEW h \in Holds, EndL2(h)
    PROVE  Inv'
<1> DEFINE r == Target(h)
           u == UpOf(h)
           own == mark2[r] = h
<1>1. probes[h].pc = "ended" /\ r \in Routes
    BY AtIs DEF EndL2
<1>2. u = Up(r) /\ u \in Ups
    BY <1>1, UpType, TargetAssumption DEF UpOf, IsL1
<1>3. /\ UNCHANGED <<shape, conf, admin, mark1, left, tick>>
      /\ mark2' = IF own THEN [mark2 EXCEPT ![r] = NoHold] ELSE mark2
      /\ count' = IF own THEN count - 1 ELSE count
      /\ busy'  = IF busy[u] = h THEN [busy EXCEPT ![u] = NoHold] ELSE busy
      /\ probes' = IF own THEN To(h, "note") ELSE [probes EXCEPT ![h] = Idle]
    BY DEF EndL2
<1>4. h # NoHold /\ Target(h) = r
    BY NoHoldIsNone
<1> HIDE DEF r, u
<1>5. ProbeTypes' /\ \A g \in Holds : g # h => probes'[g].pc = probes[g].pc
    <2>1. CASE own
        BY <1>3, <2>1, MovesTo DEF Pcs, Inv, Types
    <2>2. CASE ~own
        BY <1>3, <2>2, Retiring
    <2> QED
        BY <2>1, <2>2
<1>6. /\ mark1 \in [Ups -> MarkValues] /\ busy \in [Ups -> MarkValues]
      /\ mark2 \in [Routes -> MarkValues] /\ count \in Int
    BY DEF Inv, Types, MarkTypes
<1>7. Types'
    <2>1. busy' \in [Ups -> MarkValues] /\ mark1' \in [Ups -> MarkValues]
        BY <1>3, <1>6 DEF MarkValues
    <2>2. mark2' \in [Routes -> MarkValues]
        BY <1>3, <1>6 DEF MarkValues
    <2>3. count' \in Int
        BY <1>3, <1>6
    <2>4. ConfTypes' /\ TickTypes'
        BY <1>3 DEF Inv, Types, ConfTypes, TickTypes
    <2> QED
        BY <1>5, <2>1, <2>2, <2>3, <2>4 DEF Types, MarkTypes
<1>8. \A q \in Routes : mark2'[q] = IF mark2[q] = h THEN NoHold ELSE mark2[q]
    <2>1. \A q \in Routes : mark2[q] = h => q = r
        BY <1>4 DEF Inv, Owners
    <2> QED
        BY <1>1, <1>3, <1>6, <2>1
<1>9. \A v \in Ups : busy'[v] = IF busy[v] = h THEN NoHold ELSE busy[v]
    <2>1. \A v \in Ups : busy[v] = h => v = u
        BY <1>2, <1>4 DEF Inv, Owners
    <2> QED
        BY <1>2, <1>3, <1>6, <2>1
<1>10. \A g \in Holds : g # h /\ Alive(g) => Alive(g)'
    BY <1>5 DEF Alive
<1>11. \A v \in Ups : mark1[v] # h
    BY <1>1, <1>4, TargetAssumption DEF Inv, Owners
<1>12. Owners'
    BY <1>3, <1>8, <1>9, <1>10, <1>11 DEF Inv, Owners, Up, Target
<1>13. Counted'
    <2>1. count \in Int /\ shape.limit \in Nat /\ Counted
        BY <1>1, <1>6, UpType DEF Inv
    <2>2. CASE own
        <3>1. Marked' = Marked \ {r} /\ r \in Marked
            BY <1>1, <1>3, <1>4, <1>6, <2>2 DEF Marked
        <3>2. Cardinality(Marked') = Cardinality(Marked) - 1
            BY <3>1, MarkedFinite, FS_RemoveElement
        <3> QED
            BY <1>3, <2>1, <2>2, <3>2 DEF Counted
    <2>3. CASE ~own
        BY <1>3, <2>1, <2>3, CountedKept
    <2> QED
        BY <2>2, <2>3
<1>14. Deletions'
    BY <1>3, DeletionsKept DEF Inv
<1>15. \A q \in Routes : Orphan(q)' => Orphan(q)
    <2> SUFFICES ASSUME NEW q \in Routes, Orphan(q)' PROVE Orphan(q)
        OBVIOUS
    <2>1. Up(q)' = Up(q) /\ Up(q) \in Ups
        BY <1>3, UpType DEF Up
    <2> QED
        BY <1>8, <1>9, <2>1 DEF Orphan
<1>16. Orphans'
    BY <1>3, <1>15, OrphansShrink DEF Inv
<1> QED
    BY <1>7, <1>12, <1>13, <1>14, <1>16 DEF Inv

-----------------------------------------------------------------------------
(* Marks that are dropped.                                                   *)

(* As many holds are lost as routes that had one.                            *)
LEMMA LostAreMany ==
    ASSUME Inv, NEW R \in SUBSET Routes
    PROVE  LET lost == {mark2[r] : r \in R} \ {NoHold}
           IN  /\ Cardinality(lost) \in Nat
               /\ Cardinality(Marked \ R) = Cardinality(Marked) - Cardinality(lost)
<1> DEFINE lost == {mark2[r] : r \in R} \ {NoHold}
           mine == Marked \cap R
           f == [r \in mine |-> mark2[r]]
<1>1. IsFiniteSet(mine) /\ Cardinality(mine) \in Nat
    BY MarkedFinite, FS_Subset, FS_CardinalityType
<1>2. f \in [mine -> lost]
    BY DEF Marked
<1>3. \A l \in lost : \E r \in mine : f[r] = l
    BY DEF Marked
<1>4. \A r, q \in mine : f[r] = f[q] => r = q
    BY DEF Marked, Inv, Owners
<1> HIDE DEF f, lost
<1>5. f \in Bijection(mine, lost)
    BY <1>2, <1>3, <1>4 DEF Bijection, Injection, Surjection, IsInjective
<1>6. Cardinality(lost) = Cardinality(mine)
    BY <1>1, <1>5, FS_Bijection DEF ExistsBijection
<1>7. Cardinality(Marked \ R) = Cardinality(Marked) - Cardinality(mine)
    BY MarkedFinite, FS_Difference
<1> QED
    BY <1>1, <1>6, <1>7 DEF lost

LEMMA Dropping ==
    ASSUME Inv, NEW R \in SUBSET Routes, NEW U \in SUBSET Ups, Dropped(R, U),
           shape' = shape, ProbeTypes', \A h \in Holds : Alive(h) => Alive(h)'
    PROVE  /\ MarkTypes' /\ Owners' /\ Counted'
           /\ \A r \in Routes : Orphan(r)' => r \notin R /\ (Orphan(r) \/ Up(r) \in U)
<1> DEFINE lost == {mark2[r] : r \in R} \ {NoHold}
<1>1. /\ mark1 \in [Ups -> MarkValues] /\ busy \in [Ups -> MarkValues]
      /\ mark2 \in [Routes -> MarkValues] /\ count \in Int
    BY DEF Inv, Types, MarkTypes
<1>2. /\ mark2' = [r \in Routes |-> IF r \in R THEN NoHold ELSE mark2[r]]
      /\ count' = count - Cardinality(lost)
      /\ busy'  = [u \in Ups |-> IF u \in U \/ busy[u] \in lost THEN NoHold ELSE busy[u]]
      /\ mark1' = [u \in Ups |-> IF u \in U THEN NoHold ELSE mark1[u]]
    BY DEF Dropped
<1>3. Cardinality(lost) \in Nat
    BY LostAreMany
<1>4. \A q \in Routes : mark2[q] \in lost <=> q \in R /\ mark2[q] # NoHold
    BY DEF Inv, Owners
<1> HIDE DEF lost
<1>5. MarkTypes'
    BY <1>1, <1>2, <1>3 DEF MarkTypes, MarkValues
<1>6. Owners'
    <2>1. \A r \in Routes : mark2'[r] # NoHold => r \notin R /\ mark2'[r] = mark2[r]
        BY <1>2
    <2>2. \A u \in Ups : mark1'[u] # NoHold => mark1'[u] = mark1[u]
        BY <1>2
    <2>3. \A u \in Ups : busy'[u] # NoHold => busy'[u] = busy[u] /\ busy[u] \notin lost
        BY <1>2
    <2>4. \A u \in Ups : busy[u] # NoHold /\ busy[u] \notin lost =>
                            mark2'[Target(busy[u])] = mark2[Target(busy[u])]
        BY <1>2, <1>4 DEF Inv, Owners
    <2> QED
        BY <2>1, <2>2, <2>3, <2>4 DEF Inv, Owners, Up, Target
<1>7. Counted'
    <2>1. Marked' = Marked \ R
        BY <1>2 DEF Marked
    <2>2. Cardinality(Marked \ R) = Cardinality(Marked) - Cardinality(lost)
        BY LostAreMany DEF lost
    <2>3. Counted /\ Cardinality(Marked) \in Nat /\ shape.limit \in Int
        BY MarkedFinite, ShapesAssumption DEF Inv, Types, ConfTypes
    <2> QED
        BY <1>1, <1>2, <1>3, <2>1, <2>2, <2>3 DEF Counted
<1>8. ASSUME NEW r \in Routes, Orphan(r)'
      PROVE  r \notin R /\ (Orphan(r) \/ Up(r) \in U)
    <2>1. Up(r)' = Up(r) /\ Up(r) \in Ups
        BY UpType DEF Up
    <2>2. r \notin R /\ mark2'[r] = mark2[r] /\ mark2[r] # NoHold
        BY <1>2, <1>8 DEF Orphan
    <2>3. mark2[r] \notin lost
        BY <1>4, <2>2
    <2> QED
        BY <1>2, <1>8, <2>1, <2>2, <2>3 DEF Orphan
<1> QED
    BY <1>5, <1>6, <1>7, <1>8

LEMMA Ticking ==
    ASSUME Inv, TickStart
    PROVE  Inv'
<1>1. /\ UNCHANGED <<shape, conf, admin, left>> /\ Dropped(Gone, Ups \ conf.ups)
      /\ tick' = [todo |-> SetToSeq({r \in Routes : On(r)}), part |-> "l1",
                  eligible |-> {Up(r) : r \in {q \in Routes : On(q)}}]
    BY DEF TickStart
<1>2. ProbeTypes' /\ \A h \in Holds : probes'[h].pc = probes[h].pc
    <2>1. probes \in [Holds -> ProbeStates]
        BY DEF Inv, Types, ProbeTypes
    <2>2. \A h \in Holds : /\ [probes[h] EXCEPT !.live = @ \ Gone] \in ProbeStates
                           /\ [probes[h] EXCEPT !.live = @ \ Gone].pc = probes[h].pc
        BY <2>1 DEF ProbeStates
    <2> QED
        BY <2>1, <2>2 DEF TickStart, ProbeTypes
<1>3. \A h \in Holds : Alive(h) => Alive(h)'
    BY <1>2 DEF Alive
<1>4. TickTypes'
    <2>1. SetToSeq({r \in Routes : On(r)}) \in Seq(Routes)
        BY ListedType
    <2>2. {Up(r) : r \in {q \in Routes : On(q)}} \in SUBSET Ups
        BY UpType
    <2> QED
        BY <1>1, <2>1, <2>2 DEF TickTypes, Ticks
<1>5. /\ MarkTypes' /\ Owners' /\ Counted'
      /\ \A r \in Routes : Orphan(r)' => r \notin Gone /\ (Orphan(r) \/ Up(r) \in Ups \ conf.ups)
    <2>1. Gone \in SUBSET Routes /\ Ups \ conf.ups \in SUBSET Ups
        BY DEF Gone
    <2> QED
        BY <1>1, <1>2, <1>3, <2>1, Dropping
<1>6. Types'
    BY <1>1, <1>2, <1>4, <1>5 DEF Inv, Types, ConfTypes
<1>7. Deletions'
    BY <1>1, DeletionsKept DEF Inv
<1>8. \A r \in Routes : Orphan(r)' => Orphan(r)
    BY <1>5 DEF Inv, Deletions, MissingGone, RoutesOf, Gone
<1>9. Orphans'
    BY <1>1, <1>8, OrphansShrink DEF Inv
<1> QED
    BY <1>5, <1>6, <1>7, <1>9 DEF Inv

-----------------------------------------------------------------------------
(* The calls of an administrative write.                                     *)

CallsOf == ProbeCalls \cup RouteCalls

LEMMA ArgIs ==
    ASSUME Inv, NEW name, Call(name)
    PROVE  /\ admin \in Seq(CallsOf) /\ admin # <<>> /\ Len(admin) >= 1
           /\ admin[1] = <<name, Arg>> /\ Arg \in Routes \cup Ups
           /\ Tail(admin) \in Seq(CallsOf) /\ Len(Tail(admin)) = Len(admin) - 1
           /\ \A i \in 1 .. Len(admin) - 1 : Tail(admin)[i] = admin[i + 1]
           /\ name = "drop2" \/ name = "look2" => Arg \in Routes
           /\ name = "drop1" \/ name = "look1" => Arg \in Ups
<1>1. admin \in Seq(CallsOf) /\ admin # <<>>
    BY DEF Inv, Types, ConfTypes, Call, CallsOf
<1>2. /\ Head(admin) \in CallsOf /\ Len(admin) \in Nat /\ Len(admin) >= 1 /\ Head(admin) = admin[1]
      /\ Tail(admin) \in Seq(CallsOf) /\ Len(Tail(admin)) = Len(admin) - 1
      /\ \A i \in 1 .. Len(admin) - 1 : Tail(admin)[i] = admin[i + 1]
    BY <1>1, HeadTailProperties
<1>3. /\ Head(admin) = <<name, Arg>> /\ Arg \in Routes \cup Ups
      /\ name = "drop2" \/ name = "look2" => Arg \in Routes
      /\ name = "drop1" \/ name = "look1" => Arg \in Ups
    BY <1>2 DEF Call, Arg, CallsOf, ProbeCalls, RouteCalls
<1> QED
    BY <1>1, <1>2, <1>3

(* A call that has been made, or that another takes the place of: the other  *)
(* calls are still to be made.                                               *)
LEMMA CallMade ==
    ASSUME Inv, NEW name, Call(name), UNCHANGED <<shape, conf, left>>,
           \/ admin' = Tail(admin)
           \/ \E c \in CallsOf : c[1] # "drop1" /\ admin' = <<c>> \o Tail(admin)
    PROVE  /\ ConfTypes' /\ Deletions'
           /\ \A r \in Routes : ToDrop(r) /\ <<name, Arg>> # <<"drop2", r>> => ToDrop(r)'
<1> DEFINE rest == Tail(admin)
<1>1. /\ admin \in Seq(CallsOf) /\ Len(admin) \in Nat /\ Len(admin) >= 1
      /\ admin[1] = <<name, Arg>>
      /\ rest \in Seq(CallsOf) /\ Len(rest) = Len(admin) - 1
      /\ \A i \in 1 .. Len(admin) - 1 : rest[i] = admin[i + 1]
    BY ArgIs, LenProperties
<1> HIDE DEF rest
<1>2. PICK k \in {0, 1} :
        /\ admin' \in Seq(CallsOf) /\ Len(admin') = k + Len(rest)
        /\ \A i \in 1 .. Len(rest) : admin'[i + k] = rest[i]
        /\ k = 1 => admin'[1][1] # "drop1"
    <2>1. CASE admin' = rest
        BY <1>1, <2>1
    <2>2. CASE admin' # rest
        <3>1. PICK c \in CallsOf : c[1] # "drop1" /\ admin' = <<c>> \o rest
            BY <2>2 DEF rest
        <3>2. <<c>> \in Seq(CallsOf) /\ Len(<<c>>) = 1 /\ <<c>>[1] = c
            OBVIOUS
        <3>3. /\ admin' \in Seq(CallsOf) /\ Len(admin') = 1 + Len(rest)
              /\ \A i \in 1 .. 1 + Len(rest) : admin'[i] = IF i <= 1 THEN <<c>>[i] ELSE rest[i - 1]
            BY <1>1, <3>1, <3>2, ConcatProperties
        <3> QED
            BY <1>1, <3>1, <3>2, <3>3
    <2> QED
        BY <2>1, <2>2
<1>3. ConfTypes'
    BY <1>2 DEF Inv, Types, ConfTypes, CallsOf
<1>4. ASSUME NEW r \in Routes, ToDrop(r), <<name, Arg>> # <<"drop2", r>>
      PROVE  ToDrop(r)'
    <2>1. PICK i \in 1 .. Len(admin) : admin[i] = <<"drop2", r>>
        BY <1>4 DEF ToDrop
    <2>2. i # 1 /\ i - 1 \in 1 .. Len(rest) /\ rest[i - 1] = <<"drop2", r>>
        BY <1>1, <1>4, <2>1
    <2>3. i - 1 + k \in 1 .. Len(admin') /\ admin'[i - 1 + k] = <<"drop2", r>>
        BY <1>1, <1>2, <2>2
    <2> QED
        BY <2>3 DEF ToDrop
<1>5. MissingGone'
    BY DEF Inv, Deletions, MissingGone, RoutesOf, Up
<1>6. Untouched'
    BY <1>1 DEF Inv, Deletions, Untouched, Edits
<1>7. DropFirst'
    <2>1. ASSUME NEW i \in 1 .. Len(admin'), admin'[i][1] = "drop1"
          PROVE  FALSE
        <3>1. i - k \in 1 .. Len(rest) /\ rest[i - k] = admin'[i]
            BY <1>1, <1>2, <2>1
        <3>2. i - k + 1 \in 1 .. Len(admin) /\ admin[i - k + 1][1] = "drop1" /\ i - k + 1 # 1
            BY <1>1, <1>2, <2>1, <3>1
        <3> QED
            BY <3>2 DEF Inv, Deletions, DropFirst
    <2> QED
        BY <2>1 DEF DropFirst
<1> QED
    BY <1>3, <1>4, <1>5, <1>6, <1>7 DEF Deletions

LEMMA QuietCall ==
    ASSUME Inv, NEW name, Call(name), name # "drop2",
           UNCHANGED <<shape, conf, left, marks, tick>>,
           \/ admin' = Tail(admin)
           \/ \E c \in CallsOf : c[1] # "drop1" /\ admin' = <<c>> \o Tail(admin),
           ProbeTypes', \A h \in Holds : Alive(h) => Alive(h)'
    PROVE  Inv'
<1>1. /\ ConfTypes' /\ Deletions' /\ \A r \in Routes : ToDrop(r) => ToDrop(r)'
    BY CallMade
<1>2. Types'
    BY <1>1 DEF Inv, Types, MarkTypes, TickTypes, marks
<1>3. Owners' /\ Counted'
    BY OwnersKept, CountedKept DEF Inv, marks
<1>4. Orphans'
    BY <1>1 DEF Inv, Orphans, Orphan, Edits, Up, marks
<1> QED
    BY <1>1, <1>2, <1>3, <1>4 DEF Inv

LEMMA PlainCalls ==
    ASSUME Inv, Unpend \/ Mark \/ TriggerRoute
    PROVE  Inv'
<1>1. PICK name \in {"unpend1", "unpend2", "mark1", "mark2", "trigger"} : Call(name)
    BY DEF Unpend, Mark, TriggerRoute
<1>2. /\ UNCHANGED <<shape, conf, left, marks, tick, probes>> /\ admin' = Tail(admin)
    BY DEF Unpend, Mark, TriggerRoute, Done
<1>3. ProbeTypes' /\ \A h \in Holds : Alive(h) => Alive(h)'
    BY <1>2 DEF Inv, Types, ProbeTypes, Alive
<1> QED
    BY <1>1, <1>2, <1>3, QuietCall

LEMMA Resetting ==
    ASSUME Inv, Reset
    PROVE  Inv'
<1>1. /\ UNCHANGED <<shape, conf, left, marks, tick>> /\ admin' = Tail(admin) /\ Call("reset")
    BY DEF Reset, Done
<1>2. ProbeTypes' /\ \A h \in Holds : probes'[h].pc = probes[h].pc
    <2>1. probes \in [Holds -> ProbeStates]
        BY DEF Inv, Types, ProbeTypes
    <2>2. \A h \in Holds : /\ [probes[h] EXCEPT !.live = @ \ {Arg}] \in ProbeStates
                           /\ [probes[h] EXCEPT !.live = @ \ {Arg}].pc = probes[h].pc
        BY <2>1 DEF ProbeStates
    <2> QED
        BY <2>1, <2>2 DEF Reset, Forgotten, ProbeTypes
<1>3. \A h \in Holds : Alive(h) => Alive(h)'
    BY <1>2 DEF Alive
<1> QED
    BY <1>1, <1>2, <1>3, QuietCall

LEMMA Looking ==
    ASSUME Inv, Look
    PROVE  Inv'
<1>1. UNCHANGED <<shape, conf, left, marks, tick, probes>>
    BY DEF Look
<1>2. ProbeTypes' /\ \A h \in Holds : Alive(h) => Alive(h)'
    BY <1>1 DEF Inv, Types, ProbeTypes, Alive
<1>3. CASE Call("look2") /\ \E name \in {"mark2", "trigger"} :
                               admin' = << <<name, Arg>> >> \o Tail(admin)
    <2>1. Arg \in Routes
        BY <1>3, ArgIs
    <2>2. \A name \in {"mark2", "trigger"} : <<name, Arg>> \in CallsOf /\ <<name, Arg>>[1] # "drop1"
        BY <2>1 DEF CallsOf, RouteCalls
    <2> QED
        BY <1>1, <1>2, <1>3, <2>2, QuietCall
<1>4. CASE Call("look1") /\ \/ admin' = << <<"mark1", Arg>> >> \o Tail(admin)
                            \/ admin' = <<>> \o Tail(admin)
    <2>1. Arg \in Ups /\ Tail(admin) \in Seq(CallsOf)
        BY <1>4, ArgIs
    <2>2. <<"mark1", Arg>> \in CallsOf /\ <<"mark1", Arg>>[1] # "drop1"
        BY <2>1 DEF CallsOf, ProbeCalls
    <2>3. <<>> \o Tail(admin) = Tail(admin)
        BY <2>1, ConcatEmptySeq
    <2> QED
        BY <1>1, <1>2, <1>4, <2>2, <2>3, QuietCall
<1> QED
    BY <1>3, <1>4 DEF Look

LEMMA RouteDropped ==
    ASSUME Inv, DropRoute
    PROVE  Inv'
<1>1. /\ UNCHANGED <<shape, conf, left, tick, probes>> /\ admin' = Tail(admin)
      /\ Call("drop2") /\ Dropped({Arg}, {})
    BY DEF DropRoute, Done
<1>2. Arg \in Routes
    BY <1>1, ArgIs
<1>3. ProbeTypes' /\ \A h \in Holds : Alive(h) => Alive(h)'
    BY <1>1 DEF Inv, Types, ProbeTypes, Alive
<1>4. /\ MarkTypes' /\ Owners' /\ Counted'
      /\ \A r \in Routes : Orphan(r)' => r # Arg /\ Orphan(r)
    <2>1. {Arg} \in SUBSET Routes /\ {} \in SUBSET Ups
        BY <1>2
    <2> QED
        BY <1>1, <1>3, <2>1, Dropping
<1>5. /\ ConfTypes' /\ Deletions'
      /\ \A r \in Routes : ToDrop(r) /\ r # Arg => ToDrop(r)'
    BY <1>1, CallMade
<1>6. TickTypes'
    BY <1>1 DEF Inv, Types, TickTypes
<1>7. Orphans'
    BY <1>1, <1>4, <1>5 DEF Inv, Orphans, Edits, Up
<1> QED
    BY <1>3, <1>4, <1>5, <1>6, <1>7 DEF Inv, Types

LEMMA UpstreamDropped ==
    ASSUME Inv, DropUpstream
    PROVE  Inv'
<1>1. /\ UNCHANGED <<shape, conf, left, tick, probes, mark2, count>> /\ admin' = Tail(admin)
      /\ Call("drop1")
      /\ mark1' = [mark1 EXCEPT ![Arg] = NoHold] /\ busy' = [busy EXCEPT ![Arg] = NoHold]
    BY DEF DropUpstream, Done
<1>2. Arg \in Ups /\ admin[1] = <<"drop1", Arg>> /\ 1 \in 1 .. Len(admin)
    BY <1>1, ArgIs
<1>3. /\ ConfTypes' /\ Deletions' /\ \A r \in Routes : ToDrop(r) => ToDrop(r)'
    BY <1>1, CallMade
<1>4. /\ mark1 \in [Ups -> MarkValues] /\ busy \in [Ups -> MarkValues]
    BY DEF Inv, Types, MarkTypes
<1>5. MarkTypes'
    BY <1>1, <1>4 DEF Inv, Types, MarkTypes, MarkValues
<1>6. ProbeTypes' /\ TickTypes' /\ \A h \in Holds : Alive(h) => Alive(h)'
    BY <1>1 DEF Inv, Types, ProbeTypes, TickTypes, Alive
<1>7. /\ \A u \in Ups : mark1'[u] = IF u = Arg THEN NoHold ELSE mark1[u]
      /\ \A u \in Ups : busy'[u] = IF u = Arg THEN NoHold ELSE busy[u]
    BY <1>1, <1>2, <1>4
<1>8. Owners'
    BY <1>1, <1>6, <1>7 DEF Inv, Owners, Up, Target
<1>9. Counted'
    BY <1>1, CountedKept DEF Inv
<1>10. Orphans'
    <2>1. Arg \notin conf.ups /\ (Edits <= 1 => \A r \in RoutesOf(Arg) : ToDrop(r))
        BY <1>2 DEF Inv, Deletions, DropFirst
    <2>2. \A r \in Routes : Orphan(r)' => Orphan(r) \/ Up(r) = Arg
        BY <1>1, <1>7, UpType DEF Orphan, Up
    <2>3. \A r \in Routes : Up(r) = Arg => r \in RoutesOf(Arg)
        BY DEF RoutesOf
    <2> QED
        BY <1>1, <1>3, <2>1, <2>2, <2>3 DEF Inv, Orphans, Edits, Up
<1> QED
    BY <1>3, <1>5, <1>6, <1>8, <1>9, <1>10 DEF Inv, Types

-----------------------------------------------------------------------------
(* An administrative write and the calls it has to make.                     *)

Plain == {c \in CallsOf : c[1] # "drop1"}
Has(calls, c) == \E i \in 1 .. Len(calls) : calls[i] = c

LEMMA PlainCallsAre ==
    ASSUME NEW R \in SUBSET Routes, NEW name \in {"drop2", "unpend2", "look2", "reset"}
    PROVE  Calls(name, R) \in Seq(Plain) /\ \A r \in R : Has(Calls(name, R), <<name, r>>)
<1>1. {name} \X Routes \subseteq Plain
    BY DEF Plain, CallsOf, RouteCalls
<1>2. Calls(name, R) \in Seq({name} \X Routes)
    BY CallsAre
<1>3. Calls(name, R) \in Seq(Plain)
    BY <1>1, <1>2, SeqMonotonic
<1> QED
    BY <1>3, CallsAre DEF Has

LEMMA OneCall ==
    ASSUME NEW c \in Plain
    PROVE  <<c>> \in Seq(Plain)
OBVIOUS

(* Calls put behind others leave those where they were.                      *)
LEMMA Behind ==
    ASSUME NEW s \in Seq(CallsOf), NEW t \in Seq(Plain),
           \A i \in 1 .. Len(s) : s[i][1] = "drop1" => i = 1
    PROVE  /\ s \o t \in Seq(CallsOf)
           /\ \A i \in 1 .. Len(s \o t) : (s \o t)[i][1] = "drop1" => i = 1
           /\ Len(s) >= 1 => Len(s \o t) >= 1 /\ (s \o t)[1] = s[1]
           /\ \A c : Has(s, c) \/ Has(t, c) => Has(s \o t, c)
<1>1. t \in Seq(CallsOf) /\ \A i \in 1 .. Len(t) : t[i][1] # "drop1"
    BY SeqMonotonic, ElementOfSeq DEF Plain
<1>2. Len(s) \in Nat /\ Len(t) \in Nat
    BY <1>1, LenProperties
<1>3. /\ s \o t \in Seq(CallsOf) /\ Len(s \o t) = Len(s) + Len(t)
      /\ \A i \in 1 .. Len(s) + Len(t) : (s \o t)[i] = IF i <= Len(s) THEN s[i] ELSE t[i - Len(s)]
    BY <1>1, ConcatProperties
<1> DEFINE st == s \o t
<1> HIDE DEF st
<1>4. /\ st \in Seq(CallsOf) /\ Len(st) = Len(s) + Len(t)
      /\ \A i \in 1 .. Len(s) : i \in 1 .. Len(st) /\ st[i] = s[i]
      /\ \A i \in 1 .. Len(t) : i + Len(s) \in 1 .. Len(st) /\ st[i + Len(s)] = t[i]
    BY <1>2, <1>3 DEF st
<1>5. ASSUME NEW i \in 1 .. Len(st), st[i][1] = "drop1"
      PROVE  i = 1
    <2>1. CASE i <= Len(s)
        BY <1>2, <1>4, <1>5, <2>1
    <2>2. CASE i > Len(s)
        <3>1. i - Len(s) \in 1 .. Len(t)
            BY <1>2, <1>4, <2>2
        <3>2. st[i] = t[i - Len(s)]
            BY <1>2, <1>4, <3>1
        <3> QED
            BY <1>1, <1>5, <3>1, <3>2
    <2> QED
        BY <1>2, <2>1, <2>2
<1>6. \A c : Has(s, c) \/ Has(t, c) => Has(st, c)
    BY <1>4 DEF Has
<1>7. Len(s) >= 1 => Len(st) >= 1 /\ st[1] = s[1]
    BY <1>2, <1>4
<1> QED
    BY <1>4, <1>5, <1>6, <1>7 DEF st

LEMMA PlainFollows ==
    ASSUME NEW s \in Seq(Plain), NEW t \in Seq(Plain)
    PROVE  s \o t \in Seq(Plain)
BY ConcatProperties

LEMMA Writing ==
    ASSUME Inv, NEW c \in Confs, NEW calls \in Seq(CallsOf), Write(c, calls),
           \A u \in Ups \ c.ups : \A r \in RoutesOf(u) : c.route[r] = "gone",
           \A i \in 1 .. Len(calls) : calls[i][1] = "drop1" =>
               /\ i = 1 /\ calls[i][2] \notin c.ups
               /\ Edits <= 0 => \A r \in RoutesOf(calls[i][2]) : Has(calls, <<"drop2", r>>)
    PROVE  Inv'
<1>1. /\ admin = <<>> /\ left.edits > 0 /\ left' = [left EXCEPT !.edits = @ - 1]
      /\ conf' = c /\ admin' = calls /\ UNCHANGED <<shape, tick, marks, probes>>
    BY DEF Write
<1>2. left \in Budgets /\ shape.edits \in Nat /\ shape \in Shapes
    BY ShapesAssumption DEF Inv, Types, ConfTypes
<1>3. left' \in Budgets /\ Edits' = Edits + 1 /\ Edits \in Int
    BY <1>1, <1>2 DEF Budgets, Edits
<1>4. Types'
    BY <1>1, <1>3 DEF Inv, Types, MarkTypes, ConfTypes, TickTypes, ProbeTypes, marks, CallsOf
<1>5. Owners' /\ Counted'
    <2>1. \A h \in Holds : Alive(h) => Alive(h)'
        BY <1>1 DEF Alive
    <2> QED
        BY <1>1, <2>1, OwnersKept, CountedKept DEF Inv, marks
<1>6. MissingGone'
    BY <1>1 DEF MissingGone, RoutesOf, Up
<1>7. Untouched'
    BY <1>3 DEF Inv, Deletions, Untouched
<1>8. DropFirst'
    <2>1. \A r \in Routes : Has(calls, <<"drop2", r>>) => ToDrop(r)'
        BY <1>1 DEF ToDrop, Has
    <2>2. ASSUME NEW i \in 1 .. Len(calls), calls[i][1] = "drop1"
          PROVE  /\ i = 1 /\ calls[i][2] \notin c.ups
                 /\ Edits <= 0 => \A r \in RoutesOf(calls[i][2]) : ToDrop(r)'
        BY <2>1, <2>2 DEF RoutesOf
    <2>3. Edits' <= 1 => Edits <= 0
        BY <1>3
    <2>4. \A i \in 1 .. Len(calls) : RoutesOf(calls[i][2])' = RoutesOf(calls[i][2])
        BY <1>1 DEF RoutesOf, Up
    <2> QED
        BY <1>1, <2>2, <2>3, <2>4 DEF DropFirst
<1>9. Orphans'
    <2>1. \A r \in Routes : ~ToDrop(r)
        BY <1>1 DEF ToDrop
    <2>2. Edits <= 1 => \A r \in Routes : ~Orphan(r)
        BY <2>1 DEF Inv, Orphans
    <2>3. \A r \in Routes : Orphan(r)' => Orphan(r)
        BY <1>1 DEF Orphan, Up, marks
    <2> QED
        BY <1>3, <2>2, <2>3 DEF Orphans
<1> QED
    BY <1>4, <1>5, <1>6, <1>7, <1>8, <1>9 DEF Inv, Deletions

(* A write none of whose calls forgets an upstream.                          *)
LEMMA PlainWriting ==
    ASSUME Inv, NEW c \in Confs, NEW calls \in Seq(Plain), Write(c, calls),
           \A u \in Ups \ c.ups : \A r \in RoutesOf(u) : c.route[r] = "gone"
    PROVE  Inv'
<1>1. calls \in Seq(CallsOf) /\ \A i \in 1 .. Len(calls) : calls[i][1] # "drop1"
    BY SeqMonotonic, ElementOfSeq DEF Plain
<1> QED
    BY <1>1, Writing

LEMMA RouteWritten ==
    ASSUME Inv, NEW r \in Routes,
           EditRoute(r) \/ DisableRoute(r) \/ EnableRoute(r) \/ DeleteRoute(r) \/ CreateRoute(r)
    PROVE  Inv'
<1>1. conf \in Confs /\ MissingGone /\ Up(r) \in Ups
    BY UpType DEF Inv, Types, ConfTypes, Deletions
<1>2. \A name \in {"drop2", "unpend2", "look2", "reset"} : <<name, r>> \in Plain
    BY DEF Plain, CallsOf, RouteCalls
<1>3. /\ <<>> \in Seq(Plain) /\ << <<"reset", r>> >> \in Seq(Plain)
      /\ << <<"reset", r>>, <<"look2", r>> >> \in Seq(Plain)
      /\ << <<"drop2", r>>, <<"unpend2", r>>, <<"reset", r>>, <<"look2", r>> >> \in Seq(Plain)
    BY <1>2
<1>4. CASE EditRoute(r)
    BY <1>1, <1>3, <1>4, PlainWriting DEF EditRoute, MissingGone
<1>5. CASE DisableRoute(r)
    <2>1. [conf EXCEPT !.route[r] = "off"] \in Confs
        BY <1>1 DEF Confs
    <2>2. \A q \in Routes : conf.route[q] = "gone" => [conf EXCEPT !.route[r] = "off"].route[q] = "gone"
        BY <1>1, <1>5 DEF Confs, DisableRoute, On
    <2>3. [conf EXCEPT !.route[r] = "off"].ups = conf.ups
        BY <1>1 DEF Confs
    <2> QED
        BY <1>1, <1>3, <1>5, <2>1, <2>2, <2>3, PlainWriting DEF DisableRoute, MissingGone, RoutesOf
<1>6. CASE EnableRoute(r)
    <2>1. [conf EXCEPT !.route[r] = "on"] \in Confs
        BY <1>1 DEF Confs
    <2>2. \A q \in Routes : conf.route[q] = "gone" => [conf EXCEPT !.route[r] = "on"].route[q] = "gone"
        BY <1>1, <1>6 DEF Confs, EnableRoute
    <2>3. [conf EXCEPT !.route[r] = "on"].ups = conf.ups
        BY <1>1 DEF Confs
    <2> QED
        BY <1>1, <1>3, <1>6, <2>1, <2>2, <2>3, PlainWriting DEF EnableRoute, MissingGone, RoutesOf
<1>7. CASE DeleteRoute(r)
    <2>1. [conf EXCEPT !.route[r] = "gone"] \in Confs
        BY <1>1 DEF Confs
    <2>2. \A q \in Routes : conf.route[q] = "gone" => [conf EXCEPT !.route[r] = "gone"].route[q] = "gone"
        BY <1>1 DEF Confs
    <2>3. [conf EXCEPT !.route[r] = "gone"].ups = conf.ups
        BY <1>1 DEF Confs
    <2> QED
        BY <1>1, <1>3, <1>7, <2>1, <2>2, <2>3, PlainWriting DEF DeleteRoute, MissingGone, RoutesOf
<1>8. CASE CreateRoute(r)
    <2> DEFINE c == [route |-> [conf.route EXCEPT ![r] = "on"], ups |-> conf.ups \cup {Up(r)}]
    <2>1. c \in Confs
        BY <1>1 DEF Confs
    <2>2. \A q \in Routes : q # r => c.route[q] = conf.route[q]
        BY <1>1 DEF Confs
    <2>3. c.ups = conf.ups \cup {Up(r)}
        OBVIOUS
    <2> HIDE DEF c
    <2>4. \A u \in Ups \ c.ups : \A q \in RoutesOf(u) : c.route[q] = "gone"
        BY <1>1, <2>2, <2>3 DEF MissingGone, RoutesOf
    <2>5. Write(c, << <<"reset", r>>, <<"look2", r>> >>)
        BY <1>8 DEF c, CreateRoute
    <2> QED
        BY <1>3, <2>1, <2>4, <2>5, PlainWriting
<1> QED
    BY <1>4, <1>5, <1>6, <1>7, <1>8

LEMMA UpstreamEdited ==
    ASSUME Inv, NEW u \in Ups, EditUpstream(u)
    PROVE  Inv'
<1> DEFINE R == {r \in RoutesOf(u) : conf.route[r] # "gone"}
<1>1. R \in SUBSET Routes
    BY DEF RoutesOf
<1>2. conf \in Confs /\ MissingGone
    BY DEF Inv, Types, ConfTypes, Deletions
<1>3. Write(conf, Calls("reset", R) \o << <<"look1", u>> >> \o Calls("look2", R))
    BY DEF EditUpstream
<1> HIDE DEF R
<1>4. Calls("reset", R) \in Seq(Plain) /\ Calls("look2", R) \in Seq(Plain)
    BY <1>1, PlainCallsAre
<1>5. << <<"look1", u>> >> \in Seq(Plain)
    <2>1. <<"look1", u>> \in Plain
        BY DEF Plain, CallsOf, ProbeCalls
    <2> QED
        BY <2>1, OneCall
<1>6. Calls("reset", R) \o << <<"look1", u>> >> \o Calls("look2", R) \in Seq(Plain)
    BY <1>4, <1>5, PlainFollows
<1> QED
    BY <1>2, <1>3, <1>6, PlainWriting DEF MissingGone

LEMMA UpstreamDeleted ==
    ASSUME Inv, NEW u \in Ups, DeleteUpstream(u)
    PROVE  Inv'
<1> DEFINE R == {r \in RoutesOf(u) : conf.route[r] # "gone"}
           c == [route |-> [r \in Routes |-> IF r \in R THEN "gone" ELSE conf.route[r]],
                 ups |-> conf.ups \ {u}]
           s1 == << <<"drop1", u>>, <<"unpend1", u>> >>
           s2 == s1 \o Calls("drop2", R)
           s3 == s2 \o Calls("unpend2", R)
           s4 == s3 \o Calls("reset", R)
           s5 == s4 \o << <<"look1", u>> >>
<1>1. R \in SUBSET Routes
    BY DEF RoutesOf
<1>2. conf \in Confs /\ MissingGone /\ Untouched
    BY DEF Inv, Types, ConfTypes, Deletions
<1>3. Write(c, s5)
    BY DEF DeleteUpstream
<1>4. c \in Confs
    BY <1>2 DEF Confs
<1>5. \A v \in Ups \ c.ups : \A r \in RoutesOf(v) : c.route[r] = "gone"
    BY <1>2 DEF MissingGone, RoutesOf
<1>6. Edits <= 0 => \A r \in RoutesOf(u) : r \in R
    <2>1. Edits \in Int
        BY ShapesAssumption DEF Inv, Types, ConfTypes, Budgets, Edits
    <2>2. Edits <= 0 => Edits = 0
        BY <1>2, <2>1 DEF Untouched
    <2>3. Edits = 0 => \A r \in Routes : conf.route[r] = "on"
        BY <1>2 DEF Untouched, On
    <2> QED
        BY <2>2, <2>3 DEF RoutesOf
<1>7. c.ups = conf.ups \ {u}
    OBVIOUS
<1> HIDE DEF R, c
<1>8. s1 \in Seq(CallsOf) /\ Len(s1) = 2 /\ s1[1] = <<"drop1", u>> /\ s1[2] = <<"unpend1", u>>
    BY DEF CallsOf, ProbeCalls
<1>9. \A i \in 1 .. Len(s1) : s1[i][1] = "drop1" => i = 1
    BY <1>8
<1>10. /\ \A name \in {"drop2", "unpend2", "reset"} : Calls(name, R) \in Seq(Plain)
       /\ \A r \in R : Has(Calls("drop2", R), <<"drop2", r>>)
    BY <1>1, PlainCallsAre
<1>11. << <<"look1", u>> >> \in Seq(Plain)
    <2>1. <<"look1", u>> \in Plain
        BY DEF Plain, CallsOf, ProbeCalls
    <2> QED
        BY <2>1, OneCall
<1> DEFINE Good(s) == /\ s \in Seq(CallsOf) /\ Len(s) >= 1 /\ s[1] = <<"drop1", u>>
                      /\ \A i \in 1 .. Len(s) : s[i][1] = "drop1" => i = 1
           Drops(s) == \A r \in R : Has(s, <<"drop2", r>>)
<1>12. ASSUME NEW s, Good(s), NEW t \in Seq(Plain)
       PROVE  Good(s \o t) /\ (Drops(s) \/ Drops(t) => Drops(s \o t))
    BY <1>12, Behind
<1>13. Good(s1)
    BY <1>8, <1>9
<1> HIDE DEF s1, Good
<1>14. Good(s2) /\ Drops(s2)
    BY <1>10, <1>12, <1>13
<1> HIDE DEF s2
<1>15. Good(s3) /\ Drops(s3)
    BY <1>10, <1>12, <1>14
<1> HIDE DEF s3
<1>16. Good(s4) /\ Drops(s4)
    BY <1>10, <1>12, <1>15
<1> HIDE DEF s4
<1>17. Good(s5) /\ Drops(s5)
    BY <1>11, <1>12, <1>16
<1> HIDE DEF s5
<1>18. \A i \in 1 .. Len(s5) : s5[i][1] = "drop1" =>
           /\ i = 1 /\ s5[i][2] \notin c.ups
           /\ Edits <= 0 => \A r \in RoutesOf(s5[i][2]) : Has(s5, <<"drop2", r>>)
    BY <1>6, <1>7, <1>17 DEF Good
<1>19. s5 \in Seq(CallsOf)
    BY <1>17 DEF Good
<1> QED
    BY <1>3, <1>4, <1>5, <1>18, <1>19, Writing

-----------------------------------------------------------------------------
(* The service is paused and resumed, and time goes by.                      *)

LEMMA AroundIt ==
    ASSUME Inv, \/ Pause \/ Resume \/ \E r \in Routes : ElapseL1(r) \/ ElapseL2(r)
    PROVE  Inv'
<1>1. /\ UNCHANGED <<shape, conf, admin, marks, tick, probes>>
      /\ left' = left \/ left' = [left EXCEPT !.pauses = @ - 1]
    BY DEF Pause, Resume, PrepareResume, OpenGate, ResumeGradually, ElapseL1, ElapseL2
<1>2. left' \in Budgets /\ left'.edits = left.edits
    BY <1>1 DEF Inv, Types, ConfTypes, Budgets
<1>3. TickTypes' /\ ProbeTypes' /\ \A h \in Holds : Alive(h) => Alive(h)'
    BY <1>1 DEF Inv, Types, TickTypes, ProbeTypes, Alive
<1> QED
    BY <1>1, <1>2, <1>3, QuietStep

LEMMA InvInit == Init => Inv
<1> SUFFICES ASSUME Init PROVE Inv
    OBVIOUS
<1>1. shape \in Shapes /\ shape.up \in [Routes -> Ups] /\ shape.limit \in Nat
      /\ shape.edits \in Nat /\ shape.pauses \in Nat
    BY ShapesAssumption DEF Init
<1>2. MarkTypes
    BY DEF Init, MarkTypes, MarkValues
<1>3. conf \in Confs /\ admin \in Seq(ProbeCalls \cup RouteCalls)
    BY DEF Init, Confs
<1>4. left \in Budgets
    BY <1>1 DEF Init, Budgets
<1>5. TickTypes
    BY DEF Init, TickTypes, Ticks
<1>6. ProbeTypes
    BY DEF Init, ProbeTypes, ProbeStates, Pcs, Idle
<1>7. Owners
    BY DEF Init, Owners
<1>8. Counted
    <2>1. Marked = {}
        BY DEF Init, Marked
    <2> QED
        BY <1>1, <2>1, FS_EmptySet DEF Init, Counted
<1>9. Deletions
    BY <1>1 DEF Init, Deletions, MissingGone, Untouched, DropFirst, Edits, On
<1>10. Orphans
    BY DEF Init, Orphans, Orphan
<1> QED
    BY <1>1, <1>2, <1>3, <1>4, <1>5, <1>6, <1>7, <1>8, <1>9, <1>10 DEF Inv, Types, ConfTypes

LEMMA InvNext == Inv /\ [Next]_vars => Inv'
<1> SUFFICES ASSUME Inv, [Next]_vars PROVE Inv'
    OBVIOUS
<1>1. CASE Tick
    BY <1>1, LookingOn, Ticking, BeginningL1, BeginningL2 DEF Tick
<1>2. ASSUME NEW h \in Holds, Probe(h) PROVE Inv'
    BY <1>2, Sending, Concluding, CompletingL1, CompletingL2, NotingL1, Leaving,
       EndingL1, EndingL2 DEF Probe
<1>3. CASE AdminWrite
    BY <1>3, RouteWritten, UpstreamEdited, UpstreamDeleted DEF AdminWrite
<1>4. CASE AdminCall
    BY <1>4, UpstreamDropped, RouteDropped, PlainCalls, Resetting, Looking DEF AdminCall
<1>5. CASE \/ Pause \/ Resume \/ \E r \in Routes : ElapseL1(r) \/ ElapseL2(r)
    BY <1>5, AroundIt
<1>6. CASE UNCHANGED vars
    <2>1. UNCHANGED <<shape, conf, admin, marks, tick, probes, left>>
        BY <1>6 DEF vars
    <2>2. TickTypes' /\ ProbeTypes' /\ left' \in Budgets /\ left'.edits = left.edits
        BY <2>1 DEF Inv, Types, TickTypes, ProbeTypes, ConfTypes
    <2>3. \A h \in Holds : Alive(h) => Alive(h)'
        BY <2>1 DEF Alive
    <2> QED
        BY <2>1, <2>2, <2>3, QuietStep
<1> QED
    BY <1>1, <1>2, <1>3, <1>4, <1>5, <1>6 DEF Next

THEOREM InvAlways == Spec => []Inv
<1>1. Init => Inv
    BY InvInit
<1>2. Inv /\ [Next]_vars => Inv'
    BY InvNext
<1> QED
    BY <1>1, <1>2, PTL DEF Spec

LEMMA InvAddsUp == Inv => MarksAddUp
<1> SUFFICES ASSUME Inv PROVE MarksAddUp
    OBVIOUS
<1>1. MarksHaveOwners
    <2>1. ASSUME NEW u \in Ups, busy[u] # NoHold
          PROVE  Alive(busy[u]) /\ UpOf(busy[u]) = u /\ mark2[Target(busy[u])] = busy[u]
        BY <2>1, TargetAssumption, NoHoldIsNone DEF Inv, Owners, UpOf, IsL1
    <2> QED
        BY <2>1 DEF Inv, Owners, MarksHaveOwners
<1>2. ASSUME NEW u \in conf.ups, Edits <= 2
      PROVE  Cardinality(MarkedOf(u)) <= 1
    <2>1. \A r \in MarkedOf(u) : r \in Routes /\ mark2[r] = busy[u] /\ mark2[r] # NoHold
        BY <1>2 DEF Inv, Orphans, Orphan, MarkedOf, RoutesOf
    <2>2. \A r, q \in MarkedOf(u) : r = q
        BY <2>1 DEF Inv, Owners
    <2>3. CASE MarkedOf(u) = {}
        BY <2>3, FS_EmptySet
    <2>4. CASE \E r : MarkedOf(u) = {r}
        BY <2>4, FS_Singleton
    <2> QED
        BY <2>2, <2>3, <2>4
<1> QED
    BY <1>1, <1>2 DEF Inv, Counted, Marked, MarksAddUp, LimitKept, Edits

(* The marks, the count and the probes under way agree, whatever is deleted  *)
(* and created again meanwhile; and the routes of an upstream are probed one *)
(* at a time until the third administrative write.                           *)
THEOREM MarksAddUpAlways == Spec => []MarksAddUp
<1>1. Inv => MarksAddUp
    BY InvAddsUp
<1> QED
    BY <1>1, InvAlways, PTL

-----------------------------------------------------------------------------
(* A probe that ends.                                                        *)

LEMMA OthersKept ==
    ASSUME Inv, [Next]_vars, NEW h \in Holds, probes[h].pc = "ended", probes'[h].pc # "ended"
    PROVE  /\ \A r \in Routes : mark2[r] # h => mark2'[r] = mark2[r]
           /\ \A u \in Ups : /\ mark1[u] # h => mark1'[u] = mark1[u]
                             /\ busy[u] # h => busy'[u] = busy[u]
<1>1. /\ mark1 \in [Ups -> MarkValues] /\ busy \in [Ups -> MarkValues]
      /\ mark2 \in [Routes -> MarkValues] /\ probes \in [Holds -> ProbeStates]
    BY DEF Inv, Types, MarkTypes, ProbeTypes
<1>2. CASE EndL1(h)
    BY <1>1, <1>2 DEF EndL1
<1>3. CASE EndL2(h)
    BY <1>1, <1>3 DEF EndL2
<1>4. CASE UNCHANGED marks
    BY <1>4 DEF marks
<1>5. CASE ~EndL1(h) /\ ~EndL2(h) /\ ~UNCHANGED marks
    <2>1. ASSUME NEW g \in Holds, EndL1(g) \/ EndL2(g)
          PROVE  FALSE
        <3>1. \A f \in Holds : f # g => probes'[f] = probes[f]
            BY <1>1, <2>1 DEF EndL1, EndL2, To
        <3> QED
            BY <1>5, <2>1, <3>1
    <2>2. CASE TickStart
        <3>1. \A f \in Holds : [probes[f] EXCEPT !.live = @ \ Gone].pc = probes[f].pc
            BY <1>1 DEF ProbeStates
        <3> QED
            BY <2>2, <3>1 DEF TickStart
    <2>3. CASE BeginL1 \/ BeginL2
        <3>1. PICK x : Fresh(x) # {} /\ \E p : probes' = [probes EXCEPT ![NextHold(x)] = p]
            BY <2>3 DEF BeginL1, BeginL2
        <3>2. NextHold(x) \in Holds /\ probes[NextHold(x)].pc = "idle"
            BY <3>1, FreshIs
        <3> QED
            BY <1>1, <3>1, <3>2
    <2>4. CASE DropUpstream \/ DropRoute
        BY <2>4 DEF DropUpstream, DropRoute
    <2>5. \/ TickStart \/ BeginL1 \/ BeginL2 \/ DropUpstream \/ DropRoute
          \/ \E g \in Holds : EndL1(g) \/ EndL2(g)
        <3>1. CASE Tick
            BY <1>5, <3>1 DEF Tick, OnPaused, TickEnd, NotDueL1, RampFull, FollowL1, SkipL2,
                              Piggyback, RefuseL2
        <3>2. ASSUME NEW g \in Holds, Probe(g), ~EndL1(g), ~EndL2(g) PROVE UNCHANGED marks
            BY <3>2 DEF Probe, Send, Ignored, Reached, Unreached, Answered, Refused,
                        CompleteL1, NoteL1, LeaveRamp, CompleteL2, NoteL2
        <3>3. CASE AdminWrite
            BY <3>3 DEF AdminWrite, EditRoute, DisableRoute, EnableRoute, DeleteRoute,
                        CreateRoute, EditUpstream, DeleteUpstream, Write
        <3>4. CASE AdminCall
            BY <1>5, <3>4 DEF AdminCall, Unpend, Reset, Look, Mark, TriggerRoute
        <3>5. CASE \/ Pause \/ Resume \/ \E r \in Routes : ElapseL1(r) \/ ElapseL2(r)
            BY <1>5, <3>5 DEF Pause, Resume, PrepareResume, OpenGate, ResumeGradually,
                              ElapseL1, ElapseL2
        <3>6. CASE UNCHANGED vars
            BY <1>5, <3>6 DEF vars
        <3> QED
            BY <1>5, <3>1, <3>2, <3>3, <3>4, <3>5, <3>6 DEF Next
    <2> QED
        BY <2>1, <2>2, <2>3, <2>4, <2>5
<1> QED
    BY <1>2, <1>3, <1>4, <1>5

(* A probe that ends takes no mark of another, of whichever target: its own  *)
(* may have been dropped and the target marked again for a new one.          *)
THEOREM OwnMarkOnlyAlways == Spec => OwnMarkOnly
<1>1. ASSUME Inv, [Next]_vars
      PROVE  [\A h \in Holds : probes[h].pc = "ended" /\ probes'[h].pc # "ended" =>
                /\ \A r \in Routes : mark2[r] # h => mark2'[r] = mark2[r]
                /\ \A u \in Ups : /\ mark1[u] # h => mark1'[u] = mark1[u]
                                  /\ busy[u] # h => busy'[u] = busy[u]]_vars
    BY <1>1, OthersKept
<1> QED
    BY <1>1, InvAlways, PTL DEF Spec, OwnMarkOnly

-----------------------------------------------------------------------------
(* What the probes send, and what was tested of it, for any set of secrets   *)
(* and profiles and any number of recipes, versions and writes.              *)
(*                                                                           *)
(* A secret that is referenced cannot be deleted, and the references of a    *)
(* published recipe and of the endpoint are those they were bound to         *)
(* (References).  Of a row that was read, none is from the future: its       *)
(* identity was given out, and while a row of its name has that identity its *)
(* revision has only risen (Before).  A name that was deleted and created    *)
(* again has a new identity, so that secrets that are as they were read are  *)
(* the ones that were read (Read, Earlier); that makes the token of a test,  *)
(* read before the secrets were, say what was sent.  HealthFresh is what a   *)
(* write keeps of the health row, and Upgrade and Identities what makes it   *)
(* outlive a start: the one repair of old bindings dates every row before it *)
(* by the revision it gives the endpoint.                                    *)

Secrets   == [id : Nat, rev : Nat]
Refs      == UNION {[S -> Nat] : S \in SUBSET Names}
Revisions == UNION {[S -> Secrets \cup {Absent}] : S \in SUBSET Names}
RecipeRows == [scope : {"route", "upstream"},
               status : {"draft", "published", "archived", "disabled",
                         "legacy_compat", "legacy_quarantined"},
               rev : Nat, binding : Nat, draft : Nat, published : Nat, refs : SUBSET Nat]
Versions  == [recipe : Nat, bound : Refs]
Profiled  == [status : {"none", "candidate", "tested", "disabled", "gone"}, rev : Nat]

RecipesTypeOK ==
    /\ secret \in [Names -> Secrets \cup {Absent}] /\ ids \in Nat
    /\ target \in [conf : Nat, enabled : BOOLEAN]
    /\ endpoint \in [rev : Nat, needs : SUBSET Names, refs : Refs, repaired : Nat]
    /\ recipe \in Seq(RecipeRows) /\ version \in Seq(Versions)
    /\ profile \in [Profiles -> Profiled]
    /\ up \in BOOLEAN /\ marker \in BOOLEAN

(* Versions belong to recipes, and identities were given out.                *)
Rows ==
    /\ \A v \in DOMAIN version : version[v].recipe \in DOMAIN recipe
    /\ \A r \in DOMAIN recipe : recipe[r].published \in 0 .. Len(version)
    /\ \A n \in Names : secret[n] # Absent => secret[n].id \in 1 .. ids

(* A published recipe has the references that keep its secrets; one that     *)
(* migrated names a secret it was never bound to.                            *)
References ==
    /\ \A r \in DOMAIN recipe :
          recipe[r].status = "published" =>
             /\ Bound(VersionRefs(recipe[r].published))
             /\ recipe[r].refs = ActiveRefs(recipe[r].published)
    /\ \A r \in DOMAIN recipe :
          recipe[r].status = "legacy_compat" => 0 \in ActiveRefs(recipe[r].published)
    /\ Bound(endpoint.refs)

(* A row of a secret that was read is not from the future.                   *)
Before(s, n) ==
    /\ s.id <= ids
    /\ secret[n] # Absent =>
          s.id < secret[n].id \/ (s.id = secret[n].id /\ s.rev <= secret[n].rev)

(* What was read of the configuration to send version v.                     *)
Read(i, v) ==
    /\ i.conf \in Nat /\ i.endpoint \in Nat /\ i.secrets \in Revisions
    /\ v \in 0 .. Len(version)
    /\ i.conf <= target.conf /\ i.endpoint <= endpoint.rev
    /\ i.endpoint = endpoint.rev => DOMAIN i.secrets = Required(v)
    /\ \A n \in DOMAIN i.secrets : i.secrets[n] # Absent => Before(i.secrets[n], n)

\* Of what was sent, every secret was there.
Complete(i) == \A n \in DOMAIN i.secrets : i.secrets[n] # Absent

(* The identities that observations were made under, and the stored one is   *)
(* that of the present configuration.                                        *)
Identities ==
    \A i \in {stored, tracker} \ {Absent} :
        /\ Read(i, i.by.of) /\ Complete(i)
        /\ marker /\ i.endpoint >= endpoint.repaired => 0 \notin ActiveRefs(i.by.of)

Upgrade ==
    /\ endpoint.repaired <= endpoint.rev
    /\ up => marker
    /\ ~marker => /\ endpoint.needs # {}
                  /\ \A i \in {stored} \ {Absent} : i.endpoint <= endpoint.rev

HealthFresh ==
    \A i \in {stored} \ {Absent} :
        marker /\ i.endpoint >= endpoint.repaired => IdentityCurrent(i)

(* A test read the configuration twice, for its token first.                 *)
Earlier(i, j) ==
    /\ i.conf <= j.conf /\ i.endpoint <= j.endpoint
    /\ i.endpoint = j.endpoint => DOMAIN i.secrets = DOMAIN j.secrets
    /\ \A n \in DOMAIN i.secrets \cap DOMAIN j.secrets :
          i.secrets[n] # Absent /\ j.secrets[n] # Absent =>
             \/ i.secrets[n].id < j.secrets[n].id
             \/ /\ i.secrets[n].id = j.secrets[n].id
                /\ i.secrets[n].rev <= j.secrets[n].rev

Tokens == [conf : Nat, endpoint : Nat, secrets : Revisions]

About(of) ==
    \/ of.kind = "recipe" /\ of.holder \in DOMAIN recipe /\ of.of \in DOMAIN version
    \/ of.kind = "profile" /\ of.holder \in Profiles /\ of.of = 0

Testing ==
    \A t \in {test} :
        /\ t.state \in {"none", "loaded", "checked", "sent", "done"}
        /\ t.state # "none" =>
              About(t.about) /\ t.token \in Tokens /\ Read(t.token, t.about.of)
        /\ t.state \in {"sent", "done"} =>
              /\ t.used \in Tokens /\ Read(t.used, t.about.of)
              /\ Earlier(t.token, t.used)
        /\ t.state = "sent" \/ (t.state = "done" /\ t.result # "unsent") =>
              Complete(t.used)

RecipeInv ==
    /\ RecipesTypeOK /\ Rows /\ References /\ Identities /\ Upgrade /\ HealthFresh /\ Testing

(* What every step does to the configuration: revisions and identities rise, *)
(* versions stay what they are.                                              *)
Later ==
    /\ target.conf <= target'.conf /\ endpoint.rev <= endpoint'.rev
    /\ endpoint'.rev = endpoint.rev => endpoint'.refs = endpoint.refs
    /\ ids <= ids'
    /\ \A n \in Names : secret'[n] # Absent =>
          \/ secret'[n].id > ids
          \/ /\ secret[n] # Absent /\ secret'[n].id = secret[n].id
             /\ secret[n].rev <= secret'[n].rev
    /\ Len(version) <= Len(version')
    /\ \A v \in DOMAIN version : version'[v] = version[v]
    /\ DOMAIN recipe \subseteq DOMAIN recipe'

-----------------------------------------------------------------------------
LEMMA RefsAre ==
    /\ \A f \in Refs : DOMAIN f \subseteq Names /\ \A n \in DOMAIN f : f[n] \in Nat
    /\ \A f \in Revisions : /\ DOMAIN f \subseteq Names
                            /\ f = [n \in DOMAIN f |-> f[n]]
                            /\ \A n \in DOMAIN f : f[n] \in Secrets \cup {Absent}
    /\ NoRefs \in Refs /\ DOMAIN NoRefs = {}
BY DEF Refs, Revisions, NoRefs

LEMMA TypesAre ==
    ASSUME RecipesTypeOK
    PROVE  /\ \A n \in Names : secret[n] \in Secrets \cup {Absent}
           /\ \A n \in Names : secret[n] # Absent => secret[n].id \in Nat /\ secret[n].rev \in Nat
           /\ ids \in Nat /\ target.conf \in Nat /\ target.enabled \in BOOLEAN
           /\ endpoint.rev \in Nat /\ endpoint.repaired \in Nat /\ endpoint.refs \in Refs
           /\ endpoint.needs \subseteq Names /\ DOMAIN endpoint.refs \subseteq Names
           /\ Len(recipe) \in Nat /\ DOMAIN recipe = 1 .. Len(recipe)
           /\ \A r \in DOMAIN recipe : recipe[r] \in RecipeRows
           /\ Len(version) \in Nat /\ DOMAIN version = 1 .. Len(version)
           /\ \A v \in DOMAIN version : version[v] \in Versions /\ version[v].bound \in Refs
<1>1. /\ secret \in [Names -> Secrets \cup {Absent}] /\ ids \in Nat
      /\ target \in [conf : Nat, enabled : BOOLEAN]
      /\ endpoint \in [rev : Nat, needs : SUBSET Names, refs : Refs, repaired : Nat]
      /\ recipe \in Seq(RecipeRows) /\ version \in Seq(Versions)
    BY DEF RecipesTypeOK
<1>2. /\ \A n \in Names : secret[n] \in Secrets \cup {Absent}
      /\ \A n \in Names : secret[n] # Absent => secret[n].id \in Nat /\ secret[n].rev \in Nat
    BY <1>1 DEF Secrets
<1>3. /\ endpoint.rev \in Nat /\ endpoint.repaired \in Nat /\ endpoint.refs \in Refs
      /\ endpoint.needs \subseteq Names
    BY <1>1
<1>4. /\ Len(recipe) \in Nat /\ DOMAIN recipe = 1 .. Len(recipe)
      /\ \A r \in DOMAIN recipe : recipe[r] \in RecipeRows
    BY <1>1, LenProperties, ElementOfSeq
<1>5. /\ Len(version) \in Nat /\ DOMAIN version = 1 .. Len(version)
      /\ \A v \in DOMAIN version : version[v] \in Versions
    BY <1>1, LenProperties, ElementOfSeq
<1>6. \A v \in DOMAIN version : version[v].bound \in Refs
    BY <1>5 DEF Versions
<1>7. DOMAIN endpoint.refs \subseteq Names
    BY <1>3, RefsAre
<1>8. target.conf \in Nat /\ target.enabled \in BOOLEAN
    BY <1>1
<1> QED
    BY <1>1, <1>2, <1>3, <1>4, <1>5, <1>6, <1>7, <1>8

LEMMA VersionRefsAre ==
    ASSUME RecipesTypeOK, NEW v \in 0 .. Len(version)
    PROVE  /\ VersionRefs(v) \in Refs /\ DOMAIN VersionRefs(v) \subseteq Names
           /\ Required(v) \subseteq Names /\ ActiveRefs(v) \subseteq Nat
           /\ v # 0 => v \in DOMAIN version
<1>1. v # 0 => v \in DOMAIN version
    BY TypesAre
<1>2. VersionRefs(v) \in Refs
    BY <1>1, TypesAre, RefsAre DEF VersionRefs
<1>3. /\ DOMAIN VersionRefs(v) \subseteq Names
      /\ \A n \in DOMAIN VersionRefs(v) : VersionRefs(v)[n] \in Nat
    BY <1>2, RefsAre
<1>4. DOMAIN endpoint.refs \subseteq Names
    BY TypesAre
<1> QED
    BY <1>1, <1>2, <1>3, <1>4 DEF Required, ActiveRefs

\* The rows of a record of revisions.
LEMMA RevisionsAre ==
    ASSUME RecipesTypeOK, NEW S \in SUBSET Names
    PROVE  /\ SecretRevisions(S) \in Revisions /\ DOMAIN SecretRevisions(S) = S
           /\ \A n \in S : SecretRevisions(S)[n] = secret[n]
<1>1. \A n \in S : secret[n] \in Secrets \cup {Absent}
    BY TypesAre
<1>2. SecretRevisions(S) \in [S -> Secrets \cup {Absent}]
    BY <1>1 DEF SecretRevisions
<1> QED
    BY <1>2 DEF SecretRevisions, Revisions

\* What is read now.
LEMMA ReadNow ==
    ASSUME RecipesTypeOK, Rows, NEW v \in 0 .. Len(version), NEW i,
           i.conf = target.conf, i.endpoint = endpoint.rev,
           i.secrets = SecretRevisions(Required(v))
    PROVE  Read(i, v)
<1>1. Required(v) \subseteq Names
    BY VersionRefsAre
<1>2. /\ i.secrets \in Revisions /\ DOMAIN i.secrets = Required(v)
      /\ \A n \in Required(v) : i.secrets[n] = secret[n]
    BY <1>1, RevisionsAre
<1>3. ASSUME NEW n \in DOMAIN i.secrets, i.secrets[n] # Absent
      PROVE  Before(i.secrets[n], n)
    <2>1. n \in Names /\ i.secrets[n] = secret[n] /\ secret[n] # Absent
        BY <1>1, <1>2, <1>3
    <2>2. secret[n].id \in 1 .. ids /\ secret[n].rev \in Nat /\ ids \in Nat
        BY <2>1, TypesAre DEF Rows
    <2> QED
        BY <2>1, <2>2 DEF Before
<1>4. target.conf \in Nat /\ endpoint.rev \in Nat
    BY TypesAre
<1> QED
    BY <1>2, <1>3, <1>4 DEF Read

LEMMA LaterRefs ==
    ASSUME RecipesTypeOK, RecipesTypeOK', Later, NEW v \in 0 .. Len(version)
    PROVE  /\ VersionRefs(v)' = VersionRefs(v) /\ ActiveRefs(v)' = ActiveRefs(v)
           /\ v \in 0 .. Len(version')
           /\ endpoint'.rev = endpoint.rev => Required(v)' = Required(v)
<1>1. v # 0 => v \in DOMAIN version
    BY VersionRefsAre
<1>2. VersionRefs(v)' = VersionRefs(v)
    BY <1>1 DEF VersionRefs, Later, NoRefs
<1>3. v \in 0 .. Len(version')
    <2>1. Len(version) \in Nat /\ Len(version') \in Nat /\ Len(version) <= Len(version')
        BY TypesAre DEF Later, RecipesTypeOK
    <2> QED
        BY <2>1
<1> QED
    BY <1>2, <1>3 DEF ActiveRefs, Required, Later

\* What was read stays read.
LEMMA LaterRead ==
    ASSUME RecipesTypeOK, RecipesTypeOK', Later, NEW i, NEW v, Read(i, v)
    PROVE  Read(i, v)'
<1>1. /\ i.conf \in Nat /\ i.endpoint \in Nat /\ i.secrets \in Revisions
      /\ v \in 0 .. Len(version)
      /\ i.conf <= target.conf /\ i.endpoint <= endpoint.rev
      /\ i.endpoint = endpoint.rev => DOMAIN i.secrets = Required(v)
    BY DEF Read
<1>2. /\ target.conf \in Nat /\ target'.conf \in Nat /\ endpoint.rev \in Nat
      /\ endpoint'.rev \in Nat /\ ids \in Nat /\ ids' \in Nat
    BY DEF RecipesTypeOK
<1>3. /\ target.conf <= target'.conf /\ endpoint.rev <= endpoint'.rev /\ ids <= ids'
    BY DEF Later
<1>4. i.conf <= target'.conf /\ i.endpoint <= endpoint'.rev
    BY <1>1, <1>2, <1>3
<1>5. v \in 0 .. Len(version')
    BY <1>1, LaterRefs
<1>6. i.endpoint = endpoint'.rev => DOMAIN i.secrets = Required(v)'
    <2>1. i.endpoint = endpoint'.rev => endpoint'.rev = endpoint.rev
        BY <1>1, <1>2, <1>3
    <2> QED
        BY <1>1, <2>1, LaterRefs
<1>7. ASSUME NEW n \in DOMAIN i.secrets, i.secrets[n] # Absent
      PROVE  Before(i.secrets[n], n)'
    <2> DEFINE s == i.secrets[n]
    <2>1. n \in Names /\ s \in Secrets
        BY <1>1, <1>7, RefsAre
    <2>2. /\ s.id \in Nat /\ s.rev \in Nat /\ Before(s, n)
        BY <1>7, <2>1 DEF Secrets, Read
    <2> HIDE DEF s
    <2>3. s.id <= ids'
        BY <1>2, <1>3, <2>2 DEF Before
    <2>4. ASSUME secret'[n] # Absent
          PROVE  s.id < secret'[n].id \/ (s.id = secret'[n].id /\ s.rev <= secret'[n].rev)
        <3>1. secret'[n].id \in Nat /\ secret'[n].rev \in Nat
            BY <2>1, <2>4 DEF RecipesTypeOK, Secrets
        <3>2. CASE secret'[n].id > ids
            BY <1>2, <2>2, <3>1, <3>2 DEF Before
        <3>3. CASE /\ secret[n] # Absent /\ secret'[n].id = secret[n].id
                   /\ secret[n].rev <= secret'[n].rev
            <4>1. secret[n].id \in Nat /\ secret[n].rev \in Nat
                BY <2>1, <3>3, TypesAre
            <4> QED
                BY <2>2, <3>1, <3>3, <4>1 DEF Before
        <3> QED
            BY <2>1, <2>4, <3>2, <3>3 DEF Later
    <2>5. Before(s, n)'
        BY <2>3, <2>4 DEF Before
    <2> QED
        BY <2>5 DEF s
<1> QED
    BY <1>1, <1>4, <1>5, <1>6, <1>7 DEF Read

-----------------------------------------------------------------------------
(* What a write needs of each part.                                          *)

\* A secret is still there, or nobody refers to it.
LEMMA BoundKept ==
    ASSUME RecipesTypeOK, NEW refs \in Refs, Bound(refs),
           \A n \in DOMAIN refs : secret[n] # Absent =>
              (secret'[n] # Absent /\ secret'[n].id = secret[n].id)
    PROVE  Bound(refs)'
BY DEF Bound

LEMMA RecipesKept ==
    ASSUME RecipesTypeOK, RecipesTypeOK', Rows, References, Later,
           \A n \in Names : secret[n] # Absent =>
              \/ secret'[n] # Absent /\ secret'[n].id = secret[n].id
              \/ ~Referenced(secret[n].id),
           \A r \in DOMAIN recipe' :
              \/ /\ r \in DOMAIN recipe /\ recipe'[r].status = recipe[r].status
                 /\ recipe'[r].published = recipe[r].published
                 /\ recipe'[r].refs = recipe[r].refs
              \/ recipe'[r].status \notin {"published", "legacy_compat"},
           endpoint'.refs = endpoint.refs
    PROVE  References'
<1>1. ASSUME NEW r \in DOMAIN recipe', recipe'[r].status \in {"published", "legacy_compat"}
      PROVE  /\ r \in DOMAIN recipe /\ recipe'[r].status = recipe[r].status
             /\ recipe'[r].published = recipe[r].published /\ recipe'[r].refs = recipe[r].refs
             /\ recipe[r].published \in 0 .. Len(version)
    BY <1>1 DEF Rows
<1>2. ASSUME NEW r \in DOMAIN recipe', recipe'[r].status = "published"
      PROVE  /\ Bound(VersionRefs(recipe[r].published))'
             /\ (recipe[r].refs = ActiveRefs(recipe[r].published))'
    <2>1. PICK v \in 0 .. Len(version) : v = recipe[r].published
        BY <1>1, <1>2
    <2>2. /\ Bound(VersionRefs(v)) /\ recipe[r].refs = ActiveRefs(v)
          /\ r \in DOMAIN recipe
        BY <1>1, <1>2, <2>1 DEF References
    <2>3. PICK refs \in Refs : refs = VersionRefs(v) /\ DOMAIN refs \subseteq Names
        BY VersionRefsAre
    <2>4. ASSUME NEW n \in DOMAIN refs, secret[n] # Absent
          PROVE  secret'[n] # Absent /\ secret'[n].id = secret[n].id
        <3>1. secret[n].id \in recipe[r].refs
            BY <2>2, <2>3, <2>4 DEF Bound, ActiveRefs
        <3>2. Referenced(secret[n].id)
            BY <2>2, <3>1 DEF Referenced
        <3> QED
            BY <2>3, <2>4, <3>2
    <2>5. Bound(refs)'
        BY <2>2, <2>3, <2>4, BoundKept
    <2>6. VersionRefs(v)' = refs /\ ActiveRefs(v)' = ActiveRefs(v)
        BY <2>3, LaterRefs
    <2>7. (VersionRefs(recipe[r].published))' = refs
        BY <1>1, <1>2, <2>1, <2>6 DEF VersionRefs
    <2>8. Bound(VersionRefs(recipe[r].published))'
        BY <2>5, <2>7 DEF Bound
    <2>9. ActiveRefs(v) = {refs[n] : n \in DOMAIN refs}
        BY <2>3 DEF ActiveRefs
    <2>10. (ActiveRefs(recipe[r].published))' = {refs[n] : n \in DOMAIN refs}
        BY <2>7 DEF ActiveRefs
    <2> QED
        BY <1>1, <1>2, <2>2, <2>8, <2>9, <2>10
<1>3. ASSUME NEW r \in DOMAIN recipe', recipe'[r].status = "legacy_compat"
      PROVE  0 \in (ActiveRefs(recipe[r].published))'
    <2>1. PICK v \in 0 .. Len(version) : v = recipe[r].published
        BY <1>1, <1>3
    <2>2. 0 \in ActiveRefs(v)
        BY <1>1, <1>3, <2>1 DEF References
    <2>3. VersionRefs(v)' = VersionRefs(v)
        BY LaterRefs
    <2>4. (VersionRefs(recipe[r].published))' = VersionRefs(v)
        BY <1>1, <1>3, <2>1, <2>3 DEF VersionRefs
    <2> QED
        BY <2>2, <2>4 DEF ActiveRefs
<1>4. Bound(endpoint.refs)'
    <2>1. PICK refs \in Refs : refs = endpoint.refs /\ DOMAIN refs \subseteq Names
        BY TypesAre
    <2>2. ASSUME NEW n \in DOMAIN refs, secret[n] # Absent
          PROVE  secret'[n] # Absent /\ secret'[n].id = secret[n].id
        <3>1. Referenced(secret[n].id)
            BY <2>1, <2>2 DEF References, Bound, Referenced
        <3> QED
            BY <2>1, <2>2, <3>1
    <2>3. Bound(refs)'
        BY <2>1, <2>2, BoundKept DEF References
    <2> QED
        BY <2>1, <2>3 DEF Bound
<1> QED
    BY <1>2, <1>3, <1>4 DEF References

\* A stored or tracked identity goes on to be one.
LEMMA IdentityKept ==
    ASSUME RecipesTypeOK, RecipesTypeOK', Later, NEW i, Read(i, i.by.of), Complete(i),
           marker /\ i.endpoint >= endpoint.repaired => 0 \notin ActiveRefs(i.by.of),
           marker' /\ i.endpoint >= endpoint'.repaired =>
              marker /\ i.endpoint >= endpoint.repaired
    PROVE  /\ Read(i, i.by.of)' /\ Complete(i)'
           /\ (marker /\ i.endpoint >= endpoint.repaired => 0 \notin ActiveRefs(i.by.of))'
<1>1. PICK v : v = i.by.of
    OBVIOUS
<1>2. Read(i, v)'
    BY <1>1, LaterRead
<1>3. v \in 0 .. Len(version)
    BY <1>1 DEF Read
<1>4. ActiveRefs(v)' = ActiveRefs(v)
    BY <1>3, LaterRefs
<1>5. ASSUME marker', i.endpoint >= endpoint'.repaired
      PROVE  0 \notin ActiveRefs(i.by.of)'
    BY <1>1, <1>4, <1>5
<1>6. Complete(i)'
    BY DEF Complete
<1> QED
    BY <1>1, <1>2, <1>5, <1>6

LEMMA TestingKept ==
    ASSUME RecipesTypeOK, RecipesTypeOK', Later, Testing, UNCHANGED test
    PROVE  Testing'
<1> SUFFICES ASSUME NEW t, t = test, t = test'
             PROVE  (/\ t.state \in {"none", "loaded", "checked", "sent", "done"}
                     /\ t.state # "none" =>
                           /\ About(t.about) /\ t.token \in Tokens
                           /\ Read(t.token, t.about.of)
                     /\ t.state \in {"sent", "done"} =>
                           /\ t.used \in Tokens /\ Read(t.used, t.about.of)
                           /\ Earlier(t.token, t.used)
                     /\ t.state = "sent" \/ (t.state = "done" /\ t.result # "unsent") =>
                           Complete(t.used))'
    BY DEF Testing
<1>1. /\ t.state \in {"none", "loaded", "checked", "sent", "done"}
      /\ t.state # "none" =>
            About(t.about) /\ t.token \in Tokens /\ Read(t.token, t.about.of)
      /\ t.state \in {"sent", "done"} =>
            /\ t.used \in Tokens /\ Read(t.used, t.about.of)
            /\ Earlier(t.token, t.used)
      /\ t.state = "sent" \/ (t.state = "done" /\ t.result # "unsent") =>
            Complete(t.used)
    BY DEF Testing
<1>2. PICK v : v = t.about.of
    OBVIOUS
<1>3. PICK i : i = t.token
    OBVIOUS
<1>4. PICK j : j = t.used
    OBVIOUS
<1>5. Read(i, v) => Read(i, v)'
    BY LaterRead
<1>6. Read(j, v) => Read(j, v)'
    BY LaterRead
<1>7. ASSUME About(t.about) PROVE About(t.about)'
    <2>1. DOMAIN version \subseteq DOMAIN version'
        <3>1. DOMAIN version = 1 .. Len(version) /\ Len(version) \in Nat
            BY TypesAre
        <3>2. DOMAIN version' = 1 .. Len(version') /\ Len(version') \in Nat
            BY LenProperties DEF RecipesTypeOK
        <3> QED
            BY <3>1, <3>2 DEF Later
    <2> QED
        BY <1>7, <2>1 DEF About, Later
<1>8. /\ Tokens' = Tokens /\ Earlier(i, j)' = Earlier(i, j) /\ Complete(j)' = Complete(j)
    BY DEF Tokens, Earlier, Complete
<1> QED
    BY <1>1, <1>2, <1>3, <1>4, <1>5, <1>6, <1>7, <1>8

\* The row of the health is cleared, or still of the configuration.
LEMMA WriteKept ==
    ASSUME RecipeInv, RecipesTypeOK', Rows', References', Later, up,
           UNCHANGED <<tracker, up, marker, test>>, endpoint'.repaired = endpoint.repaired,
           \/ ClearStale
           \/ /\ UNCHANGED stored
              /\ \A i \in {stored} \ {Absent} : IdentityCurrent(i) => IdentityCurrent(i)'
    PROVE  RecipeInv'
<1>1. stored' \in {stored, Absent}
    BY DEF ClearStale
<1>2. Identities'
    <2>1. SUFFICES ASSUME NEW i \in {stored, tracker} \ {Absent}
                   PROVE  /\ Read(i, i.by.of)' /\ Complete(i)'
                          /\ (marker /\ i.endpoint >= endpoint.repaired =>
                                0 \notin ActiveRefs(i.by.of))'
        BY <1>1 DEF Identities
    <2> QED
        BY IdentityKept DEF RecipeInv, Identities
<1>3. Testing'
    BY TestingKept DEF RecipeInv
<1>4. Upgrade' /\ marker
    <2>1. endpoint.repaired \in Nat /\ endpoint.rev \in Nat /\ endpoint'.rev \in Nat
        BY DEF RecipeInv, RecipesTypeOK
    <2>2. endpoint'.repaired <= endpoint'.rev
        BY <2>1 DEF RecipeInv, Upgrade, Later
    <2> QED
        BY <2>2 DEF RecipeInv, Upgrade
<1>5. HealthFresh'
    <2>1. CASE ClearStale
        <3>1. PICK h : /\ h = stored
                       /\ stored' = IF h # Absent /\ IdentityCurrent(h)' THEN h ELSE Absent
            BY <2>1 DEF ClearStale
        <3> QED
            BY <3>1 DEF HealthFresh
    <2>2. CASE /\ UNCHANGED stored
               /\ \A i \in {stored} \ {Absent} : IdentityCurrent(i) => IdentityCurrent(i)'
        BY <2>2 DEF RecipeInv, HealthFresh
    <2> QED
        BY <2>1, <2>2
<1> QED
    BY <1>2, <1>3, <1>4, <1>5 DEF RecipeInv

\* What an identity is compared with.
LEMMA CurrentKept ==
    ASSUME NEW i, IdentityCurrent(i), UNCHANGED target, endpoint'.rev = endpoint.rev,
           FirstLayer' = FirstLayer,
           \A n \in DOMAIN i.secrets : secret'[n] = secret[n]
    PROVE  IdentityCurrent(i)'
<1>1. Resolve' = Resolve
    BY DEF Resolve
<1>2. SecretRevisions(DOMAIN i.secrets)' = SecretRevisions(DOMAIN i.secrets)
    BY DEF SecretRevisions
<1> QED
    BY <1>1, <1>2 DEF IdentityCurrent, CurrentRevision, BindingCurrent

LEMMA LayerKept ==
    ASSUME UNCHANGED profile, DOMAIN recipe \subseteq DOMAIN recipe',
           \A r \in DOMAIN recipe :
              /\ recipe'[r].scope = recipe[r].scope /\ recipe'[r].status = recipe[r].status
              /\ recipe'[r].published = recipe[r].published
              /\ recipe'[r].binding = recipe[r].binding,
           \A r \in DOMAIN recipe' \ DOMAIN recipe : recipe'[r].published = 0
    PROVE  FirstLayer' = FirstLayer
<1>1. \A r \in DOMAIN recipe : Serving(r)' = Serving(r) /\ \A s : FromBinding(s, r)' = FromBinding(s, r)
    BY DEF Serving, FromBinding
<1>2. \A s \in {"route", "upstream"} : Published(s)' = Published(s) /\ Published(s) \subseteq DOMAIN recipe
    BY DEF Published, Serving
<1>3. Tested' = Tested /\ \A p : FromProfile(p)' = FromProfile(p)
    BY DEF Tested, FromProfile
<1>4. \A s \in {"route", "upstream"} :
         {FromBinding(s, r) : r \in Published(s)}' = {FromBinding(s, r) : r \in Published(s)}
    BY <1>1, <1>2
<1> QED
    BY <1>2, <1>3, <1>4 DEF FirstLayer, FromBuiltin

-----------------------------------------------------------------------------
(* The writes.                                                               *)

\* The rows a new value of one secret leaves.
LEMMA SecretWritten ==
    ASSUME RecipeInv, NEW n \in Names, NEW row \in Secrets, ids' \in Nat, ids <= ids',
           secret' = [secret EXCEPT ![n] = row], row.id \in 1 .. ids',
           \/ secret[n] = Absent /\ row.id > ids
           \/ secret[n] # Absent /\ row.id = secret[n].id /\ secret[n].rev <= row.rev,
           UNCHANGED <<target, endpoint, recipe, version, profile, up, marker>>
    PROVE  RecipesTypeOK' /\ Rows' /\ References' /\ Later
<1> USE DEF RecipeInv
<1>1. row # Absent /\ ids \in Nat /\ \A m \in Names \ {n} : secret'[m] = secret[m]
    BY RecipesAssumption, TypesAre DEF Secrets, RecipesTypeOK
<1>2. secret'[n] = row
    BY DEF RecipesTypeOK
<1>3. RecipesTypeOK'
    BY DEF RecipesTypeOK
<1>4. Rows'
    <2>1. ASSUME NEW m \in Names, secret'[m] # Absent PROVE secret'[m].id \in 1 .. ids'
        <3>1. CASE m = n
            BY <1>2, <3>1
        <3>2. CASE m # n
            <4>1. secret'[m] = secret[m] /\ secret[m].id \in 1 .. ids
                BY <1>1, <2>1, <3>2 DEF Rows
            <4> QED
                BY <1>1, <4>1
        <3> QED
            BY <3>1, <3>2
    <2> QED
        BY <2>1 DEF Rows
<1>5. Later
    <2>1. /\ target.conf \in Nat /\ endpoint.rev \in Nat /\ Len(version) \in Nat
          /\ \A m \in Names : secret[m] # Absent => secret[m].rev \in Nat
        BY TypesAre
    <2>2. ASSUME NEW m \in Names, secret'[m] # Absent
          PROVE  \/ secret'[m].id > ids
                 \/ /\ secret[m] # Absent /\ secret'[m].id = secret[m].id
                    /\ secret[m].rev <= secret'[m].rev
        <3>1. CASE m = n
            BY <1>2, <3>1
        <3>2. CASE m # n
            <4>1. secret'[m] = secret[m] /\ secret[m].rev \in Nat
                BY <1>1, <2>1, <2>2, <3>2
            <4> QED
                BY <2>2, <4>1
        <3> QED
            BY <3>1, <3>2
    <2> QED
        BY <2>1, <2>2 DEF Later
<1>6. References'
    <2>1. \A m \in Names : secret[m] # Absent => secret'[m] # Absent /\ secret'[m].id = secret[m].id
        BY <1>1, <1>2
    <2> QED
        BY <1>3, <1>5, <2>1, RecipesKept
<1> QED
    BY <1>3, <1>4, <1>5, <1>6

LEMMA CreateSecretStep ==
    ASSUME RecipeInv, NEW n \in Names, CreateProbeSecret(n)
    PROVE  RecipeInv'
<1>1. /\ UNCHANGED <<target, endpoint, recipe, version, profile, stored, test, tracker, up, marker>>
      /\ up /\ secret[n] = Absent /\ ids' = ids + 1
    BY DEF CreateProbeSecret, RecipeWrite
<1>2. ids \in Nat
    BY DEF RecipeInv, RecipesTypeOK
<1>3. PICK row \in Secrets : /\ secret' = [secret EXCEPT ![n] = row]
                             /\ row.id = ids + 1
    <2>1. [id |-> ids + 1, rev |-> 1] \in Secrets
        BY <1>2 DEF Secrets
    <2> QED
        BY <2>1 DEF CreateProbeSecret
<1>4. row.id \in 1 .. ids' /\ row.id > ids /\ ids' \in Nat /\ ids <= ids'
    BY <1>1, <1>2, <1>3
<1>5. RecipesTypeOK' /\ Rows' /\ References' /\ Later
    BY <1>1, <1>3, <1>4, SecretWritten
<1>6. ASSUME NEW i \in {stored} \ {Absent}, IdentityCurrent(i) PROVE IdentityCurrent(i)'
    <2>1. i.secrets = SecretRevisions(DOMAIN i.secrets) /\ Complete(i) /\ i.secrets \in Revisions
        BY <1>6 DEF IdentityCurrent, CurrentRevision, RecipeInv, Identities, Read
    <2>2. DOMAIN i.secrets \subseteq Names
        BY <2>1, RefsAre
    <2>3. n \notin DOMAIN i.secrets
        BY <1>1, <2>1 DEF Complete, SecretRevisions
    <2>4. \A m \in DOMAIN i.secrets : secret'[m] = secret[m]
        BY <1>3, <2>2, <2>3 DEF RecipeInv, RecipesTypeOK
    <2>5. FirstLayer' = FirstLayer
        BY <1>1, LayerKept
    <2> QED
        BY <1>1, <1>6, <2>4, <2>5, CurrentKept
<1> QED
    BY <1>1, <1>5, <1>6, WriteKept

LEMMA UpdateSecretStep ==
    ASSUME RecipeInv, NEW n \in Names, UpdateProbeSecret(n)
    PROVE  RecipeInv'
<1>1. /\ UNCHANGED <<target, endpoint, recipe, version, profile, ids, test, tracker, up, marker>>
      /\ up /\ secret[n] # Absent /\ ClearStale
    BY DEF UpdateProbeSecret, RecipeWrite
<1>2. ids \in Nat /\ secret[n] \in Secrets /\ secret[n].id \in 1 .. ids
    BY <1>1 DEF RecipeInv, RecipesTypeOK, Rows
<1>3. PICK row \in Secrets : /\ secret' = [secret EXCEPT ![n] = row]
                             /\ row.id = secret[n].id /\ secret[n].rev <= row.rev
    <2>1. [secret[n] EXCEPT !.rev = @ + 1] \in Secrets
        BY <1>2 DEF Secrets
    <2>2. secret' = [secret EXCEPT ![n] = [secret[n] EXCEPT !.rev = @ + 1]]
        BY DEF UpdateProbeSecret
    <2>3. /\ [secret[n] EXCEPT !.rev = @ + 1].id = secret[n].id
          /\ secret[n].rev <= [secret[n] EXCEPT !.rev = @ + 1].rev
        BY <1>2 DEF Secrets
    <2> QED
        BY <2>1, <2>2, <2>3
<1>4. ids' \in Nat /\ ids <= ids'
    BY <1>1, <1>2
<1>5. RecipesTypeOK' /\ Rows' /\ References' /\ Later
    BY <1>1, <1>2, <1>3, <1>4, SecretWritten
<1> QED
    BY <1>1, <1>5, WriteKept

\* The versions a layer sends are of serving recipes.
LEMMA Resolved ==
    ASSUME RecipesTypeOK
    PROVE  \/ Resolve.of = 0
           \/ \E r \in DOMAIN recipe : /\ recipe[r].published = Resolve.of
                                       /\ recipe[r].status \in {"published", "legacy_compat"}
<1>1. FirstLayer # {}
    BY DEF FirstLayer
<1>2. Resolve \in FirstLayer
    BY <1>1 DEF Resolve
<1> QED
    BY <1>2 DEF FirstLayer, FromBinding, FromProfile, FromBuiltin, Published, Serving

LEMMA DeleteSecretStep ==
    ASSUME RecipeInv, NEW n \in Names, DeleteProbeSecret(n)
    PROVE  RecipeInv'
<1>1. /\ UNCHANGED <<target, endpoint, recipe, version, profile, ids, stored, test, tracker, up, marker>>
      /\ up /\ secret[n] # Absent /\ ~Referenced(secret[n].id)
      /\ secret' = [secret EXCEPT ![n] = Absent]
    BY DEF DeleteProbeSecret, RecipeWrite
<1>2. /\ ids \in Nat /\ secret \in [Names -> Secrets \cup {Absent}]
      /\ secret' \in [Names -> Secrets \cup {Absent}]
      /\ secret'[n] = Absent /\ \A m \in Names \ {n} : secret'[m] = secret[m]
    BY <1>1 DEF RecipeInv, RecipesTypeOK
<1>3. RecipesTypeOK' /\ Rows'
    BY <1>1, <1>2 DEF RecipeInv, RecipesTypeOK, Rows
<1>4. Later
    <2>1. /\ target.conf \in Nat /\ endpoint.rev \in Nat /\ Len(version) \in Nat
          /\ \A m \in Names : secret[m] # Absent => secret[m].rev \in Nat
        BY TypesAre DEF RecipeInv
    <2> QED
        BY <1>1, <1>2, <2>1 DEF Later
<1>5. References'
    BY <1>1, <1>2, <1>3, <1>4, RecipesKept DEF RecipeInv
<1>6. ASSUME NEW i \in {stored} \ {Absent}, IdentityCurrent(i) PROVE IdentityCurrent(i)'
    <2>1. /\ i.endpoint = endpoint.rev /\ i.by = Resolve /\ Read(i, i.by.of)
          /\ marker /\ endpoint.repaired <= endpoint.rev
        BY <1>1, <1>6 DEF IdentityCurrent, CurrentRevision, BindingCurrent, RecipeInv,
                          Identities, Upgrade
    <2>2. PICK v \in 0 .. Len(version) : v = i.by.of
        BY <2>1 DEF Read
    <2>3. DOMAIN i.secrets = Required(v) /\ 0 \notin ActiveRefs(v)
        BY <1>6, <2>1, <2>2 DEF Read, RecipeInv, Identities
    <2>4. n \notin DOMAIN endpoint.refs
        BY <1>1 DEF Referenced, RecipeInv, References, Bound
    <2>5. n \notin DOMAIN VersionRefs(v)
        <3>1. CASE v = 0
            BY <3>1, RefsAre DEF VersionRefs
        <3>2. CASE v # 0
            <4>1. PICK r \in DOMAIN recipe : /\ recipe[r].published = v
                                             /\ recipe[r].status \in {"published", "legacy_compat"}
                BY <2>1, <2>2, <3>2, Resolved DEF RecipeInv
            <4>2. recipe[r].status = "published"
                BY <2>3, <4>1 DEF RecipeInv, References
            <4>3. Bound(VersionRefs(v)) /\ recipe[r].refs = ActiveRefs(v)
                BY <4>1, <4>2 DEF RecipeInv, References
            <4> QED
                BY <1>1, <4>3 DEF Referenced, Bound, ActiveRefs
        <3> QED
            BY <3>1, <3>2
    <2>6. \A m \in DOMAIN i.secrets : secret'[m] = secret[m]
        <3>1. Required(v) \subseteq Names /\ n \notin Required(v)
            BY <2>4, <2>5, VersionRefsAre DEF Required, RecipeInv
        <3> QED
            BY <1>2, <2>3, <3>1
    <2>7. FirstLayer' = FirstLayer
        BY <1>1, LayerKept
    <2> QED
        BY <1>1, <1>6, <2>6, <2>7, CurrentKept
<1> QED
    BY <1>1, <1>3, <1>4, <1>5, <1>6, WriteKept
\* A write that leaves secrets, versions and the references of recipes alone.
LEMMA SecretsStay ==
    ASSUME RecipeInv, RecipesTypeOK',
           UNCHANGED <<secret, ids>>, target.conf <= target'.conf,
           endpoint'.rev = endpoint.rev, endpoint'.refs = endpoint.refs,
           Len(version) <= Len(version'),
           \A v \in DOMAIN version : version'[v] = version[v],
           DOMAIN recipe \subseteq DOMAIN recipe',
           \A r \in DOMAIN recipe' :
              \/ /\ r \in DOMAIN recipe /\ recipe'[r].status = recipe[r].status
                 /\ recipe'[r].published = recipe[r].published
                 /\ recipe'[r].refs = recipe[r].refs
              \/ recipe'[r].status \notin {"published", "legacy_compat"}
    PROVE  Later /\ References'
<1>1. /\ endpoint.rev \in Nat /\ ids \in Nat
      /\ \A m \in Names : secret[m] # Absent => secret[m].rev \in Nat
    BY TypesAre DEF RecipeInv
<1>2. Later
    BY <1>1 DEF Later
<1>3. References'
    BY <1>2, RecipesKept DEF RecipeInv
<1> QED
    BY <1>2, <1>3

LEMMA UpdateEndpointStep ==
    ASSUME RecipeInv, NEW names \in SUBSET Names, UpdateEndpoint(names)
    PROVE  RecipeInv'
<1>1. /\ UNCHANGED <<secret, ids, target, recipe, version, profile, test, tracker, up, marker>>
      /\ up /\ ClearStale /\ \A n \in names : secret[n] # Absent
    BY DEF UpdateEndpoint, RecipeWrite
<1>2. /\ endpoint'.rev = endpoint.rev + 1 /\ endpoint'.repaired = endpoint.repaired
      /\ endpoint'.refs = [n \in names |-> secret[n].id] /\ endpoint'.needs = names
      /\ endpoint' = [endpoint EXCEPT !.rev = endpoint'.rev, !.needs = names,
                                      !.refs = endpoint'.refs]
      /\ endpoint.rev \in Nat
    BY DEF UpdateEndpoint, RecipeInv, RecipesTypeOK
<1>3. endpoint'.refs \in Refs
    <2>1. endpoint'.refs \in [names -> Nat]
        BY <1>1, <1>2, TypesAre DEF RecipeInv
    <2> QED
        BY <2>1 DEF Refs
<1>4. RecipesTypeOK'
    <2>1. endpoint' \in [rev : Nat, needs : SUBSET Names, refs : Refs, repaired : Nat]
        <3>1. /\ endpoint \in [rev : Nat, needs : SUBSET Names, refs : Refs, repaired : Nat]
              /\ endpoint'.rev \in Nat
            BY <1>2 DEF RecipeInv, RecipesTypeOK
        <3> QED
            BY <1>2, <1>3, <3>1
    <2> QED
        BY <1>1, <2>1 DEF RecipeInv, RecipesTypeOK
<1>5. Rows'
    BY <1>1 DEF RecipeInv, Rows
<1>6. Later
    <2>1. /\ target.conf \in Nat /\ ids \in Nat /\ Len(version) \in Nat
          /\ \A m \in Names : secret[m] # Absent => secret[m].rev \in Nat
        BY TypesAre DEF RecipeInv
    <2> QED
        BY <1>1, <1>2, <2>1 DEF Later
<1>7. References'
    <2>1. \A v : VersionRefs(v)' = VersionRefs(v)
        BY <1>1 DEF VersionRefs, NoRefs
    <2>2. Bound(endpoint.refs)'
        BY <1>1, <1>2 DEF Bound
    <2>3. \A v : Bound(VersionRefs(v))' = Bound(VersionRefs(v)) /\ ActiveRefs(v)' = ActiveRefs(v)
        BY <1>1, <2>1 DEF Bound, ActiveRefs
    <2> QED
        BY <1>1, <2>2, <2>3 DEF RecipeInv, References
<1> QED
    BY <1>1, <1>2, <1>4, <1>5, <1>6, <1>7, WriteKept

LEMMA EditTargetStep ==
    ASSUME RecipeInv, EditTarget
    PROVE  RecipeInv'
<1>1. /\ UNCHANGED <<secret, ids, endpoint, recipe, version, profile, test, tracker, up, marker>>
      /\ up /\ ClearStale
    BY DEF EditTarget, RecipeWrite
<1>2. target' \in [conf : Nat, enabled : BOOLEAN] /\ target.conf <= target'.conf
    <2>1. target \in [conf : Nat, enabled : BOOLEAN]
        BY DEF RecipeInv, RecipesTypeOK
    <2>2. CASE target' = [target EXCEPT !.conf = @ + 1]
        BY <2>1, <2>2
    <2>3. CASE target' = [target EXCEPT !.enabled = ~@]
        <3>1. target'.conf = target.conf /\ target.conf \in Nat
            BY <2>1, <2>3
        <3>2. target' \in [conf : Nat, enabled : BOOLEAN]
            BY <2>1, <2>3, Zenon
        <3> QED
            BY <3>1, <3>2
    <2> QED
        BY <2>2, <2>3 DEF EditTarget
<1>3. RecipesTypeOK' /\ Rows'
    BY <1>1, <1>2 DEF RecipeInv, RecipesTypeOK, Rows
<1>4. Later /\ References'
    <2>1. Len(version) \in Nat
        BY TypesAre DEF RecipeInv
    <2> QED
        BY <1>1, <1>2, <1>3, <2>1, SecretsStay
<1> QED
    BY <1>1, <1>3, <1>4, WriteKept

\* Of two rows of a profile.
LEMMA ProfileStep ==
    ASSUME RecipeInv, up,
           UNCHANGED <<secret, ids, target, endpoint, recipe, version, test, tracker, up, marker>>,
           profile' \in [Profiles -> Profiled],
           ClearStale \/ (UNCHANGED stored /\ FirstLayer' = FirstLayer)
    PROVE  RecipeInv'
<1>1. RecipesTypeOK' /\ Rows'
    BY DEF RecipeInv, RecipesTypeOK, Rows
<1>2. Later /\ References'
    <2>1. Len(version) \in Nat /\ target.conf \in Nat
        BY TypesAre DEF RecipeInv
    <2> QED
        BY <1>1, <2>1, SecretsStay
<1>3. ASSUME FirstLayer' = FirstLayer
      PROVE  \A i \in {stored} \ {Absent} : IdentityCurrent(i) => IdentityCurrent(i)'
    BY <1>3, CurrentKept
<1> QED
    BY <1>1, <1>2, <1>3, WriteKept

\* A candidate is not in any layer.
LEMMA CandidateKept ==
    ASSUME RecipeInv, NEW p \in Profiles, UNCHANGED recipe, profile[p].status # "tested",
           profile' \in [Profiles -> Profiled], profile'[p].status # "tested",
           \A q \in Profiles \ {p} : profile'[q] = profile[q]
    PROVE  FirstLayer' = FirstLayer
<1>1. Tested' = Tested /\ p \notin Tested /\ Tested \subseteq Profiles
    BY DEF Tested
<1>2. {FromProfile(q) : q \in Tested}' = {FromProfile(q) : q \in Tested}
    BY <1>1 DEF FromProfile
<1>3. /\ \A s : Published(s)' = Published(s)
      /\ \A s, r : FromBinding(s, r)' = FromBinding(s, r)
    BY DEF Published, Serving, FromBinding
<1> QED
    BY <1>1, <1>2, <1>3 DEF FirstLayer, FromBuiltin

LEMMA ProfileSteps ==
    ASSUME RecipeInv, NEW p \in Profiles,
           CreateCandidate(p) \/ UpdateCandidate(p) \/ EvictCandidate(p) \/ DisableProfile(p)
    PROVE  RecipeInv'
<1>1. /\ UNCHANGED <<secret, ids, target, endpoint, recipe, version, test, tracker, up, marker>>
      /\ up
    BY DEF CreateCandidate, UpdateCandidate, EvictCandidate, DisableProfile, RecipeWrite
<1>2. profile \in [Profiles -> Profiled] /\ profile[p] \in Profiled
    BY DEF RecipeInv, RecipesTypeOK
<1>3. PICK row \in Profiled : profile' = [profile EXCEPT ![p] = row]
    <2>1. CASE CreateCandidate(p)
        BY <2>1 DEF CreateCandidate, Row, Profiled
    <2>2. CASE UpdateCandidate(p)
        <3>1. profile' = [profile EXCEPT ![p] = [profile[p] EXCEPT !.rev = @ + 1]]
            BY <2>2 DEF UpdateCandidate
        <3>2. [profile[p] EXCEPT !.rev = @ + 1] \in Profiled
            BY <1>2 DEF Profiled
        <3> QED
            BY <3>1, <3>2
    <2>3. CASE EvictCandidate(p)
        <3>1. profile' = [profile EXCEPT ![p] = [profile[p] EXCEPT !.status = "gone"]]
            BY <2>3 DEF EvictCandidate
        <3>2. [profile[p] EXCEPT !.status = "gone"] \in Profiled
            BY <1>2 DEF Profiled
        <3> QED
            BY <3>1, <3>2
    <2>4. CASE DisableProfile(p)
        <3>1. [status |-> "disabled", rev |-> profile[p].rev + 1] \in Profiled
            BY <1>2 DEF Profiled
        <3> QED
            BY <2>4, <3>1 DEF DisableProfile
    <2> QED
        BY <2>1, <2>2, <2>3, <2>4
<1>4. profile' \in [Profiles -> Profiled] /\ \A q \in Profiles \ {p} : profile'[q] = profile[q]
    BY <1>2, <1>3
<1>5. CASE DisableProfile(p)
    BY <1>1, <1>4, <1>5, ProfileStep DEF DisableProfile
<1>6. CASE CreateCandidate(p) \/ UpdateCandidate(p) \/ EvictCandidate(p)
    <2>1. UNCHANGED stored /\ profile[p].status # "tested" /\ profile'[p].status # "tested"
        BY <1>2, <1>6 DEF CreateCandidate, UpdateCandidate, EvictCandidate, Row, Profiled
    <2>2. FirstLayer' = FirstLayer
        BY <1>1, <1>4, <2>1, CandidateKept
    <2> QED
        BY <1>1, <1>4, <2>1, <2>2, ProfileStep
<1> QED
    BY <1>5, <1>6

LEMMA MarkProfileStep ==
    ASSUME RecipeInv, MarkProfileTested
    PROVE  RecipeInv'
<1>1. /\ UNCHANGED <<secret, ids, target, endpoint, recipe, version, test, tracker, up, marker>>
      /\ up /\ ClearStale
    BY DEF MarkProfileTested, RecipeWrite
<1>2. \A q \in Profiles : profile[q] \in Profiled /\ profile[q].rev + 1 \in Nat
    BY DEF RecipeInv, RecipesTypeOK, Profiled
<1>3. profile' \in [Profiles -> Profiled]
    <2>1. \A q \in Profiles : [status |-> "tested", rev |-> profile[q].rev + 1] \in Profiled
        BY <1>2 DEF Profiled
    <2>2. \A q \in Profiles : [status |-> "disabled", rev |-> profile[q].rev + 1] \in Profiled
        BY <1>2 DEF Profiled
    <2>3. PICK p : profile' = [q \in Profiles |->
                CASE q = p -> [status |-> "tested", rev |-> profile[q].rev + 1]
                  [] profile[q].status = "tested" /\ q # p ->
                       [status |-> "disabled", rev |-> profile[q].rev + 1]
                  [] OTHER -> profile[q]]
        BY DEF MarkProfileTested
    <2> QED
        BY <1>2, <2>1, <2>2, <2>3
<1> QED
    BY <1>1, <1>3, ProfileStep
\* Rows of recipes as they are rewritten.
Bind(x, st, p, e, b, refs) ==
    [x EXCEPT !.status = st, !.published = p, !.rev = e, !.binding = b, !.refs = refs]
Draft(x, d, e) == [x EXCEPT !.draft = d, !.rev = e]

LEMMA RowBound ==
    ASSUME NEW x \in RecipeRows, NEW e \in Nat, NEW b \in Nat, NEW p \in Nat,
           NEW st \in {"draft", "published", "archived", "disabled"},
           NEW refs \in SUBSET Nat
    PROVE  /\ Bind(x, st, p, e, b, refs) \in RecipeRows
           /\ Bind(x, st, p, e, b, refs).status = st
           /\ Bind(x, st, p, e, b, refs).published = p
           /\ Bind(x, st, p, e, b, refs).refs = refs
BY DEF RecipeRows, Bind

LEMMA RowDrafted ==
    ASSUME NEW x \in RecipeRows, NEW e \in Nat, NEW d \in Nat
    PROVE  /\ Draft(x, d, e) \in RecipeRows /\ Draft(x, d, e).scope = x.scope
           /\ Draft(x, d, e).status = x.status /\ Draft(x, d, e).published = x.published
           /\ Draft(x, d, e).binding = x.binding /\ Draft(x, d, e).refs = x.refs
BY DEF RecipeRows, Draft

LEMMA ReboundIs ==
    ASSUME RecipesTypeOK, NEW r \in DOMAIN recipe, NEW p \in Nat,
           NEW st \in {"draft", "published", "archived", "disabled"},
           NEW refs \in SUBSET Nat, NEW y, y = Rebound(r, st, p, refs)
    PROVE  y \in RecipeRows /\ y.status = st /\ y.published = p /\ y.refs = refs
<1>1. PICK x \in RecipeRows : x = recipe[r]
    BY TypesAre
<1>2. x.rev + 1 \in Nat /\ x.binding + 1 \in Nat
    BY DEF RecipeRows
<1>3. y = Bind(x, st, p, x.rev + 1, x.binding + 1, refs)
    BY <1>1, Zenon DEF Rebound, Bind
<1> QED
    BY <1>2, <1>3, RowBound

\* One row of a recipe is written.
LEMMA RowWritten ==
    ASSUME RecipesTypeOK, NEW r \in DOMAIN recipe, NEW row \in RecipeRows,
           recipe' = [recipe EXCEPT ![r] = row]
    PROVE  /\ recipe' \in Seq(RecipeRows) /\ DOMAIN recipe' = DOMAIN recipe
           /\ recipe'[r] = row
           /\ \A q \in DOMAIN recipe \ {r} : recipe'[q] = recipe[q]
<1>1. recipe \in Seq(RecipeRows) /\ DOMAIN recipe = 1 .. Len(recipe)
    BY TypesAre DEF RecipesTypeOK
<1>2. /\ recipe' \in Seq(RecipeRows)
      /\ \A q \in 1 .. Len(recipe) : recipe'[q] = IF q = r THEN row ELSE recipe[q]
    BY <1>1, ExceptSeq
<1> QED
    BY <1>1, <1>2
LEMMA RetireStep ==
    ASSUME RecipeInv, NEW r \in DOMAIN recipe, NEW st \in {"archived", "disabled"},
           RetireRecipe(r, st)
    PROVE  RecipeInv'
<1>1. /\ UNCHANGED <<secret, ids, target, endpoint, version, profile, test, tracker, up, marker>>
      /\ up /\ ClearStale
    BY DEF RetireRecipe, RecipeWrite
<1>2. RecipesTypeOK /\ recipe[r].published \in 0 .. Len(version) /\ Len(version) \in Nat
    BY TypesAre DEF RecipeInv, Rows
<1>3. PICK row : row = Rebound(r, st, recipe[r].published, {})
    OBVIOUS
<1>4. row \in RecipeRows /\ row.status = st /\ row.published = recipe[r].published
    BY <1>2, <1>3, ReboundIs
<1>5. /\ recipe' \in Seq(RecipeRows) /\ DOMAIN recipe' = DOMAIN recipe /\ recipe'[r] = row
      /\ \A q \in DOMAIN recipe \ {r} : recipe'[q] = recipe[q]
    BY <1>2, <1>3, <1>4, RowWritten DEF RetireRecipe
<1>6. RecipesTypeOK' /\ Rows'
    BY <1>1, <1>2, <1>4, <1>5 DEF RecipeInv, RecipesTypeOK, Rows
<1>7. target.conf <= target'.conf /\ Len(version) <= Len(version')
    BY <1>1, <1>2, TypesAre
<1>8. Later /\ References'
    BY <1>1, <1>4, <1>5, <1>6, <1>7, SecretsStay
<1> QED
    BY <1>1, <1>6, <1>8, WriteKept

LEMMA CreateRecipeStep ==
    ASSUME RecipeInv, NEW s \in {"route", "upstream"}, CreateRecipe(s)
    PROVE  RecipeInv'
<1>1. /\ UNCHANGED <<secret, ids, target, endpoint, version, profile, stored, test, tracker, up, marker>>
      /\ up /\ recipe' = Append(recipe, Recipe(s, "draft", 0, {}))
    BY DEF CreateRecipe, RecipeWrite
<1>2. PICK row \in RecipeRows : /\ row = Recipe(s, "draft", 0, {})
                                /\ row.status = "draft" /\ row.published = 0
    <2>1. Recipe(s, "draft", 0, {}) \in RecipeRows
        BY DEF Recipe, RecipeRows
    <2>2. Recipe(s, "draft", 0, {}).status = "draft" /\ Recipe(s, "draft", 0, {}).published = 0
        BY DEF Recipe
    <2> QED
        BY <2>1, <2>2
<1>3. /\ recipe \in Seq(RecipeRows) /\ Len(recipe) \in Nat /\ DOMAIN recipe = 1 .. Len(recipe)
      /\ Len(version) \in Nat /\ target.conf \in Nat
    BY TypesAre DEF RecipeInv, RecipesTypeOK
<1>4. /\ recipe' \in Seq(RecipeRows) /\ Len(recipe') = Len(recipe) + 1
      /\ recipe'[Len(recipe) + 1] = row
      /\ \A q \in 1 .. Len(recipe) : recipe'[q] = recipe[q]
    BY <1>1, <1>2, <1>3, AppendProperties
<1>5. DOMAIN recipe' = (DOMAIN recipe) \cup {Len(recipe) + 1}
    BY <1>3, <1>4
<1>6. /\ \A q \in DOMAIN recipe : recipe'[q] = recipe[q]
      /\ \A q \in DOMAIN recipe' \ DOMAIN recipe : recipe'[q] = row
    BY <1>3, <1>4, <1>5
<1>7. RecipesTypeOK' /\ Rows'
    BY <1>1, <1>2, <1>3, <1>4, <1>5, <1>6 DEF RecipeInv, RecipesTypeOK, Rows
<1>8. Later /\ References'
    BY <1>1, <1>2, <1>3, <1>5, <1>6, <1>7, SecretsStay
<1>9. FirstLayer' = FirstLayer
    BY <1>1, <1>2, <1>5, <1>6, LayerKept
<1>10. \A i \in {stored} \ {Absent} : IdentityCurrent(i) => IdentityCurrent(i)'
    BY <1>1, <1>9, CurrentKept
<1> QED
    BY <1>1, <1>7, <1>8, <1>10, WriteKept

LEMMA AddVersionStep ==
    ASSUME RecipeInv, NEW r \in DOMAIN recipe, NEW names \in SUBSET Names,
           AddRecipeVersion(r, names)
    PROVE  RecipeInv'
<1>1. /\ UNCHANGED <<secret, ids, target, endpoint, profile, stored, test, tracker, up, marker>>
      /\ up /\ \A n \in names : secret[n] # Absent
    BY DEF AddRecipeVersion, RecipeWrite
<1>2. /\ Len(version) \in Nat /\ target.conf \in Nat /\ version \in Seq(Versions)
      /\ DOMAIN version = 1 .. Len(version) /\ Len(version) + 1 \in Nat
      /\ Len(recipe) \in Nat /\ DOMAIN recipe = 1 .. Len(recipe) /\ RecipesTypeOK
    BY TypesAre DEF RecipeInv, RecipesTypeOK
<1>3. PICK x \in RecipeRows : x = recipe[r]
    BY <1>2, TypesAre
<1>4. x.rev + 1 \in Nat
    BY DEF RecipeRows
<1>5. PICK row : row = Draft(x, Len(version) + 1, x.rev + 1)
    OBVIOUS
<1>6. /\ row \in RecipeRows /\ row.scope = x.scope /\ row.status = x.status
      /\ row.published = x.published /\ row.binding = x.binding /\ row.refs = x.refs
    BY <1>2, <1>4, <1>5, RowDrafted
<1>7. recipe' = [recipe EXCEPT ![r] = row]
    BY <1>3, <1>5, Zenon DEF AddRecipeVersion, Draft
<1>8. /\ recipe' \in Seq(RecipeRows) /\ DOMAIN recipe' = DOMAIN recipe /\ recipe'[r] = row
      /\ \A q \in DOMAIN recipe \ {r} : recipe'[q] = recipe[q]
    BY <1>2, <1>6, <1>7, RowWritten
<1>9. PICK made \in Versions : made = [recipe |-> r, bound |-> [n \in names |-> secret[n].id]]
    <2>1. [n \in names |-> secret[n].id] \in [names -> Nat]
        BY <1>1, <1>2, TypesAre
    <2>2. [n \in names |-> secret[n].id] \in Refs
        BY <2>1 DEF Refs
    <2>3. r \in Nat
        BY <1>2
    <2> QED
        BY <2>2, <2>3 DEF Versions
<1>10. /\ version' \in Seq(Versions) /\ Len(version') = Len(version) + 1
       /\ version'[Len(version) + 1] = made /\ made.recipe = r
       /\ \A v \in DOMAIN version : version'[v] = version[v]
    BY <1>2, <1>9, AppendProperties DEF AddRecipeVersion
<1>11. DOMAIN version' = DOMAIN version \cup {Len(version) + 1}
    BY <1>2, <1>10
<1>12. \A q \in DOMAIN recipe :
          /\ recipe'[q].scope = recipe[q].scope /\ recipe'[q].status = recipe[q].status
          /\ recipe'[q].published = recipe[q].published
          /\ recipe'[q].binding = recipe[q].binding /\ recipe'[q].refs = recipe[q].refs
    BY <1>3, <1>6, <1>8
<1>13. RecipesTypeOK'
    BY <1>1, <1>8, <1>10 DEF RecipeInv, RecipesTypeOK
<1>14. Rows'
    <2>1. \A q \in DOMAIN recipe' : recipe'[q].published \in 0 .. Len(version')
        <3>1. \A q \in DOMAIN recipe : recipe[q].published \in 0 .. Len(version)
            BY DEF RecipeInv, Rows
        <3> QED
            BY <1>2, <1>8, <1>10, <1>12, <3>1
    <2>2. \A v \in DOMAIN version' : version'[v].recipe \in DOMAIN recipe'
        BY <1>8, <1>10, <1>11 DEF RecipeInv, Rows
    <2> QED
        BY <1>1, <2>1, <2>2 DEF RecipeInv, Rows
<1>15. Later /\ References'
    BY <1>1, <1>2, <1>8, <1>10, <1>12, <1>13, SecretsStay
<1>16. FirstLayer' = FirstLayer
    BY <1>1, <1>8, <1>12, LayerKept
<1>17. \A i \in {stored} \ {Absent} : IdentityCurrent(i) => IdentityCurrent(i)'
    BY <1>1, <1>16, CurrentKept
<1> QED
    BY <1>1, <1>13, <1>14, <1>15, <1>17, WriteKept

LEMMA PublishStep ==
    ASSUME RecipeInv, NEW force \in BOOLEAN, PublishRecipeVersion(force)
    PROVE  RecipeInv'
<1>1. /\ UNCHANGED <<secret, ids, target, endpoint, version, profile, test, tracker, up, marker>>
      /\ up /\ ClearStale /\ test.state = "done" /\ test.about.kind = "recipe"
    BY DEF PublishRecipeVersion, RecipeWrite, TestAccepted
<1>2. /\ RecipesTypeOK /\ Len(version) \in Nat /\ DOMAIN version = 1 .. Len(version)
      /\ target.conf \in Nat
    BY TypesAre DEF RecipeInv
<1>3. PICK r \in DOMAIN recipe, v \in DOMAIN version :
        /\ r = test.about.holder /\ v = test.about.of
        /\ Bound(VersionRefs(v))
        /\ recipe' = [recipe EXCEPT ![r] = Rebound(r, "published", v, ActiveRefs(v))]
    <2>1. test.about.holder \in DOMAIN recipe /\ test.about.of \in DOMAIN version
        BY <1>1 DEF RecipeInv, Testing, About
    <2>2. PICK r \in {test.about.holder}, v \in {test.about.of} :
            /\ Bound(VersionRefs(test.about.of))
            /\ recipe' = [recipe EXCEPT ![r] = Rebound(r, "published", v, ActiveRefs(v))]
        BY DEF PublishRecipeVersion, TestTargetCurrent, TestSecretsCurrent
    <2> QED
        BY <2>1, <2>2
<1>4. v \in 0 .. Len(version) /\ v \in Nat
    BY <1>2
<1>5. ActiveRefs(v) \in SUBSET Nat
    BY <1>2, <1>4, VersionRefsAre
<1>6. PICK row : row = Rebound(r, "published", v, ActiveRefs(v))
    OBVIOUS
<1>7. /\ row \in RecipeRows /\ row.status = "published" /\ row.published = v
      /\ row.refs = ActiveRefs(v)
    BY <1>2, <1>4, <1>5, <1>6, ReboundIs
<1>8. /\ recipe' \in Seq(RecipeRows) /\ DOMAIN recipe' = DOMAIN recipe /\ recipe'[r] = row
      /\ \A q \in DOMAIN recipe \ {r} : recipe'[q] = recipe[q]
    BY <1>2, <1>3, <1>6, <1>7, RowWritten
<1>9. RecipesTypeOK' /\ Rows'
    BY <1>1, <1>4, <1>7, <1>8 DEF RecipeInv, RecipesTypeOK, Rows
<1>10. Later
    <2>1. /\ endpoint.rev \in Nat /\ ids \in Nat
          /\ \A m \in Names : secret[m] # Absent => secret[m].rev \in Nat
        BY <1>2, TypesAre
    <2> QED
        BY <1>1, <1>2, <1>8, <2>1 DEF Later
<1>11. References'
    <2>1. \A w : VersionRefs(w)' = VersionRefs(w)
        BY <1>1 DEF VersionRefs, NoRefs
    <2>2. /\ \A w : Bound(VersionRefs(w))' = Bound(VersionRefs(w))
          /\ \A w : ActiveRefs(w)' = ActiveRefs(w)
          /\ Bound(endpoint.refs)' = Bound(endpoint.refs)
        BY <1>1, <2>1 DEF Bound, ActiveRefs
    <2>3. ASSUME NEW q \in DOMAIN recipe', NEW w, w = recipe'[q].published,
                 recipe'[q].status = "published"
          PROVE  Bound(VersionRefs(w)) /\ recipe'[q].refs = ActiveRefs(w)
        <3>1. CASE q = r
            BY <1>3, <1>7, <1>8, <2>3, <3>1
        <3>2. CASE q # r
            BY <1>8, <2>3, <3>2 DEF RecipeInv, References
        <3> QED
            BY <3>1, <3>2
    <2>4. ASSUME NEW q \in DOMAIN recipe', NEW w, w = recipe'[q].published,
                 recipe'[q].status = "legacy_compat"
          PROVE  0 \in ActiveRefs(w)
        BY <1>7, <1>8, <2>4 DEF RecipeInv, References
    <2>5. \A q \in DOMAIN recipe' :
             (recipe[q].status = "published" =>
                 /\ Bound(VersionRefs(recipe[q].published))
                 /\ recipe[q].refs = ActiveRefs(recipe[q].published))'
        <3> SUFFICES ASSUME NEW q \in DOMAIN recipe', recipe'[q].status = "published"
                     PROVE  (/\ Bound(VersionRefs(recipe[q].published))
                             /\ recipe[q].refs = ActiveRefs(recipe[q].published))'
            OBVIOUS
        <3>1. PICK w : w = recipe'[q].published
            OBVIOUS
        <3>2. (VersionRefs(recipe[q].published))' = VersionRefs(w)
            BY <1>1, <3>1 DEF VersionRefs, NoRefs
        <3>3. Bound(VersionRefs(w)) /\ recipe'[q].refs = ActiveRefs(w)
            BY <2>3, <3>1
        <3> QED
            BY <1>1, <3>2, <3>3 DEF Bound, ActiveRefs
    <2>6. \A q \in DOMAIN recipe' :
             (recipe[q].status = "legacy_compat" => 0 \in ActiveRefs(recipe[q].published))'
        <3> SUFFICES ASSUME NEW q \in DOMAIN recipe', recipe'[q].status = "legacy_compat"
                     PROVE  (0 \in ActiveRefs(recipe[q].published))'
            OBVIOUS
        <3>1. PICK w : w = recipe'[q].published
            OBVIOUS
        <3>2. (VersionRefs(recipe[q].published))' = VersionRefs(w)
            BY <1>1, <3>1 DEF VersionRefs, NoRefs
        <3> QED
            BY <2>4, <3>1, <3>2 DEF ActiveRefs
    <2> QED
        BY <2>2, <2>5, <2>6 DEF RecipeInv, References
<1> QED
    BY <1>1, <1>9, <1>10, <1>11, WriteKept
-----------------------------------------------------------------------------
(* What leaves the configuration alone.                                      *)

LEMMA RecipeQuiet ==
    ASSUME RecipeInv, UNCHANGED <<secret, ids, target, endpoint, recipe, version, profile, marker>>,
           up' \in BOOLEAN, up' => up,
           \/ UNCHANGED test
           \/ RecipesTypeOK' /\ Later => Testing',
           \A i \in {stored', tracker'} \ {Absent} :
              i \in {stored, tracker}
                 \/ (Read(i, i.by.of) /\ Complete(i) /\ 0 \notin ActiveRefs(i.by.of)),
           \A i \in {stored'} \ {Absent} : i = stored \/ IdentityCurrent(i)
    PROVE  RecipeInv'
<1>1. RecipesTypeOK' /\ Rows'
    BY DEF RecipeInv, RecipesTypeOK, Rows
<1>2. /\ target.conf \in Nat /\ Len(version) \in Nat /\ endpoint.rev \in Nat
    BY TypesAre DEF RecipeInv
<1>3. Later /\ References'
    BY <1>1, <1>2, SecretsStay
<1>4. Identities'
    <2>1. SUFFICES ASSUME NEW i \in {stored', tracker'} \ {Absent}
                   PROVE  /\ Read(i, i.by.of)' /\ Complete(i)'
                          /\ (marker /\ i.endpoint >= endpoint.repaired =>
                                0 \notin ActiveRefs(i.by.of))'
        BY DEF Identities
    <2>2. /\ Read(i, i.by.of) /\ Complete(i)
          /\ marker /\ i.endpoint >= endpoint.repaired => 0 \notin ActiveRefs(i.by.of)
        BY DEF RecipeInv, Identities
    <2> QED
        BY <1>1, <1>3, <2>2, IdentityKept DEF RecipeInv
<1>5. Testing'
    BY <1>1, <1>3, TestingKept DEF RecipeInv
<1>6. FirstLayer' = FirstLayer
    BY LayerKept
<1>7. \A i : IdentityCurrent(i) => IdentityCurrent(i)'
    BY <1>6, CurrentKept
<1>8. HealthFresh'
    BY <1>7 DEF RecipeInv, HealthFresh
<1>9. Upgrade'
    BY <1>2 DEF RecipeInv, Upgrade, IdentityCurrent, CurrentRevision
<1> QED
    BY <1>1, <1>3, <1>4, <1>5, <1>8, <1>9 DEF RecipeInv

LEMMA CrashStep ==
    ASSUME RecipeInv, Crash
    PROVE  RecipeInv'
<1>1. /\ UNCHANGED <<secret, ids, target, endpoint, recipe, version, profile, stored, marker>>
      /\ up' = FALSE /\ tracker' = Absent
      /\ UNCHANGED test \/ test' = NoTest
    BY DEF Crash
<1>2. test' = NoTest => Testing'
    BY DEF NoTest, Testing
<1> QED
    BY <1>1, <1>2, RecipeQuiet

\* What an observation is made under.
LEMMA IdentityIs ==
    ASSUME RecipeInv, up, CanBind(Resolve.of), NEW i, i = Identity(Resolve)
    PROVE  Read(i, i.by.of) /\ Complete(i) /\ 0 \notin ActiveRefs(i.by.of)
<1>1. Resolve.of \in 0 .. Len(version)
    <2>1. Len(version) \in Nat
        BY TypesAre DEF RecipeInv
    <2> QED
        BY <2>1, Resolved DEF RecipeInv, Rows
<1>2. PICK v \in 0 .. Len(version) : v = Resolve.of
    BY <1>1
<1>3. /\ i.by.of = v /\ i.conf = target.conf /\ i.endpoint = endpoint.rev
      /\ i.secrets = SecretRevisions(Required(v))
    BY <1>2 DEF Identity
<1>4. Read(i, v)
    BY <1>3, ReadNow DEF RecipeInv
<1>5. Bound(VersionRefs(v)) /\ Bound(endpoint.refs)
    BY <1>2 DEF CanBind
<1>6. Complete(i)
    BY <1>3, <1>5 DEF Complete, SecretRevisions, Required, Bound
<1>7. 0 \notin ActiveRefs(v)
    <2>1. /\ DOMAIN VersionRefs(v) \subseteq Names
          /\ \A n \in Names : secret[n] # Absent => secret[n].id \in 1 .. ids
          /\ ids \in Nat
        BY VersionRefsAre DEF RecipeInv, Rows, RecipesTypeOK
    <2> QED
        BY <1>5, <2>1 DEF Bound, ActiveRefs
<1> QED
    BY <1>3, <1>4, <1>6, <1>7

LEMMA ProbeStep ==
    ASSUME RecipeInv, ProbeRoute \/ SaveRouteHealth
    PROVE  RecipeInv'
<1>1. UNCHANGED <<secret, ids, target, endpoint, recipe, version, profile, test, up, marker>> /\ up
    BY DEF ProbeRoute, SaveRouteHealth
<1>2. up' \in BOOLEAN
    BY <1>1 DEF RecipeInv, RecipesTypeOK
<1>3. CASE ProbeRoute
    <2>1. PICK i : i = Identity(Resolve)
        OBVIOUS
    <2>2. tracker' = i /\ UNCHANGED stored /\ CanBind(Resolve.of)
        BY <1>3, <2>1 DEF ProbeRoute
    <2>3. Read(i, i.by.of) /\ Complete(i) /\ 0 \notin ActiveRefs(i.by.of)
        BY <1>1, <2>1, <2>2, IdentityIs
    <2> QED
        BY <1>1, <1>2, <2>2, <2>3, RecipeQuiet
<1>4. CASE SaveRouteHealth
    <2>1. stored' = tracker /\ UNCHANGED tracker /\ IdentityCurrent(tracker)
        BY <1>4 DEF SaveRouteHealth
    <2> QED
        BY <1>1, <1>2, <2>1, RecipeQuiet
<1> QED
    BY <1>3, <1>4

-----------------------------------------------------------------------------
(* The explicit tests.                                                       *)

LEMMA TokenIs ==
    ASSUME RecipeInv, NEW v \in 0 .. Len(version), NEW i, i = Token(v)
    PROVE  /\ i \in Tokens /\ Read(i, v) /\ DOMAIN i.secrets = Required(v)
           /\ \A n \in Required(v) : i.secrets[n] = secret[n]
           /\ i.conf = target.conf /\ i.endpoint = endpoint.rev
<1>1. /\ i.conf = target.conf /\ i.endpoint = endpoint.rev
      /\ i.secrets = SecretRevisions(Required(v))
    BY DEF Token
<1>2. Read(i, v)
    BY <1>1, ReadNow DEF RecipeInv
<1>3. Required(v) \subseteq Names
    BY VersionRefsAre DEF RecipeInv
<1>4. /\ SecretRevisions(Required(v)) \in Revisions
      /\ DOMAIN SecretRevisions(Required(v)) = Required(v)
      /\ \A n \in Required(v) : SecretRevisions(Required(v))[n] = secret[n]
    BY <1>3, RevisionsAre DEF RecipeInv
<1>5. target.conf \in Nat /\ endpoint.rev \in Nat
    BY TypesAre DEF RecipeInv
<1> QED
    BY <1>1, <1>2, <1>4, <1>5 DEF Token, Tokens

\* A new test, for the configuration as it was.
LEMMA Tested1 ==
    ASSUME RecipeInv, UNCHANGED <<secret, ids, target, endpoint, recipe, version>>,
           RecipesTypeOK', Later, NEW t, t = test',
           t.state \in {"loaded", "checked", "sent", "done"},
           About(t.about), t.token \in Tokens, Read(t.token, t.about.of),
           t.state \in {"sent", "done"} =>
              t.used \in Tokens /\ Read(t.used, t.about.of) /\ Earlier(t.token, t.used),
           t.state = "sent" \/ (t.state = "done" /\ t.result # "unsent") => Complete(t.used)
    PROVE  Testing'
<1>1. PICK v : v = t.about.of
    OBVIOUS
<1>2. PICK i : i = t.token
    OBVIOUS
<1>3. PICK j : j = t.used
    OBVIOUS
<1>4. Read(i, v)'
    BY <1>1, <1>2, LaterRead DEF RecipeInv
<1>5. Read(j, v) => Read(j, v)'
    BY LaterRead DEF RecipeInv
<1>6. About(t.about)'
    BY DEF About
<1>7. /\ Tokens' = Tokens /\ Earlier(i, j)' = Earlier(i, j) /\ Complete(j)' = Complete(j)
    BY DEF Tokens, Earlier, Complete
<1> QED
    BY <1>1, <1>2, <1>3, <1>4, <1>5, <1>6, <1>7 DEF Testing

LEMMA LoadStep ==
    ASSUME RecipeInv, NEW of, About(of), LoadTest(of)
    PROVE  RecipeInv'
<1>1. /\ UNCHANGED <<secret, ids, target, endpoint, recipe, version, profile, stored, tracker, up, marker>>
      /\ up' \in BOOLEAN
    BY DEF LoadTest, RecipeInv, RecipesTypeOK
<1>2. of.of \in 0 .. Len(version)
    BY TypesAre DEF About, RecipeInv
<1>3. PICK v \in 0 .. Len(version) : v = of.of
    BY <1>2
<1>4. PICK i : i = Token(v)
    OBVIOUS
<1>5. PICK t : t = [state |-> "loaded", about |-> of, token |-> i]
    OBVIOUS
<1>6. test' = t /\ t.state = "loaded" /\ t.about = of /\ t.token = i
    BY <1>3, <1>4, <1>5 DEF LoadTest
<1>7. i \in Tokens /\ Read(i, v)
    BY <1>4, TokenIs
<1>8. RecipesTypeOK' /\ Later => Testing'
    BY <1>1, <1>3, <1>6, <1>7, Tested1
<1> QED
    BY <1>1, <1>8, RecipeQuiet

LEMMA CheckStep ==
    ASSUME RecipeInv, CheckTest
    PROVE  RecipeInv'
<1>1. /\ UNCHANGED <<secret, ids, target, endpoint, recipe, version, profile, stored, tracker, up, marker>>
      /\ up' \in BOOLEAN /\ test.state = "loaded"
    BY DEF CheckTest, RecipeInv, RecipesTypeOK
<1>2. CASE test' = NoTest
    <2>1. Testing'
        BY <1>2 DEF NoTest, Testing
    <2> QED
        BY <1>1, <2>1, RecipeQuiet
<1>3. CASE test' = [state |-> "checked", about |-> test.about, token |-> test.token]
    <2>1. PICK t : t = test'
        OBVIOUS
    <2>2. t.state = "checked" /\ t.about = test.about /\ t.token = test.token
        BY <1>3, <2>1
    <2>3. About(t.about) /\ t.token \in Tokens /\ Read(t.token, t.about.of)
        BY <1>1, <2>2 DEF RecipeInv, Testing
    <2>4. RecipesTypeOK' /\ Later => Testing'
        BY <1>1, <2>1, <2>2, <2>3, Tested1
    <2> QED
        BY <1>1, <2>4, RecipeQuiet
<1> QED
    BY <1>2, <1>3 DEF CheckTest

LEMMA SendStep ==
    ASSUME RecipeInv, SendTest
    PROVE  RecipeInv'
<1>1. /\ UNCHANGED <<secret, ids, target, endpoint, recipe, version, profile, stored, tracker, up, marker>>
      /\ up' \in BOOLEAN /\ test.state = "checked"
    BY DEF SendTest, RecipeInv, RecipesTypeOK
<1>2. /\ About(test.about) /\ test.token \in Tokens /\ Read(test.token, test.about.of)
    BY <1>1 DEF RecipeInv, Testing
<1>3. PICK v \in 0 .. Len(version) : v = test.about.of
    BY <1>2 DEF Read
<1>4. PICK i : i = test.token
    OBVIOUS
<1>5. PICK j : j = Token(v)
    OBVIOUS
<1>6. /\ j \in Tokens /\ Read(j, v) /\ DOMAIN j.secrets = Required(v)
      /\ \A n \in Required(v) : j.secrets[n] = secret[n]
      /\ j.conf = target.conf /\ j.endpoint = endpoint.rev
    BY <1>5, TokenIs
<1>7. Earlier(i, j)
    BY <1>2, <1>3, <1>4, <1>6 DEF Read, Earlier, Before
<1>8. CanBind(v) => Complete(j)
    BY <1>6 DEF CanBind, Complete, Required, Bound
<1>9. PICK t : t = test'
    OBVIOUS
<1>10. /\ t.about = test.about /\ t.token = i /\ t.used = j
       /\ \/ t.state = "sent" /\ CanBind(v)
          \/ t.state = "done" /\ t.result = "unsent"
    BY <1>3, <1>4, <1>5, <1>9 DEF SendTest
<1>11. RecipesTypeOK' /\ Later => Testing'
    BY <1>1, <1>2, <1>3, <1>4, <1>6, <1>7, <1>8, <1>9, <1>10, Tested1
<1> QED
    BY <1>1, <1>11, RecipeQuiet

LEMMA RecordStep ==
    ASSUME RecipeInv, NEW result \in {"ok", "failed", "cancelled"}, RecordTest(result)
    PROVE  RecipeInv'
<1>1. /\ UNCHANGED <<secret, ids, target, endpoint, recipe, version, profile, stored, tracker, up, marker>>
      /\ up' \in BOOLEAN /\ test.state = "sent"
    BY DEF RecordTest, RecipeInv, RecipesTypeOK
<1>2. PICK t : t = test'
    OBVIOUS
<1>3. /\ t.state = "done" /\ t.about = test.about /\ t.token = test.token /\ t.used = test.used
    BY <1>2 DEF RecordTest
<1>4. /\ About(t.about) /\ t.token \in Tokens /\ Read(t.token, t.about.of)
      /\ t.used \in Tokens /\ Read(t.used, t.about.of) /\ Earlier(t.token, t.used)
      /\ Complete(t.used)
    BY <1>1, <1>3 DEF RecipeInv, Testing
<1>5. RecipesTypeOK' /\ Later => Testing'
    BY <1>1, <1>2, <1>3, <1>4, Tested1
<1> QED
    BY <1>1, <1>5, RecipeQuiet
-----------------------------------------------------------------------------
(* Start.                                                                    *)

LEMMA BootStep ==
    ASSUME RecipeInv, Boot
    PROVE  RecipeInv'
<1>1. /\ UNCHANGED <<secret, ids, target, recipe, version, profile, stored, test>>
      /\ up' = TRUE /\ tracker' \in {stored, Absent} /\ RepairAuthBindings
    BY DEF Boot
<1>2. /\ endpoint \in [rev : Nat, needs : SUBSET Names, refs : Refs, repaired : Nat]
      /\ endpoint.rev \in Nat /\ endpoint.repaired \in Nat /\ target.conf \in Nat
      /\ ids \in Nat /\ Len(version) \in Nat
      /\ \A n \in Names : secret[n] # Absent => secret[n].id \in Nat /\ secret[n].rev \in Nat
    BY TypesAre DEF RecipeInv, RecipesTypeOK
<1>3. CASE marker
    <2>1. UNCHANGED <<endpoint, marker>>
        BY <1>1, <1>3 DEF RepairAuthBindings
    <2>2. RecipesTypeOK' /\ Rows'
        BY <1>1, <2>1 DEF RecipeInv, RecipesTypeOK, Rows
    <2>3. Later /\ References'
        BY <1>1, <1>2, <2>1, <2>2, SecretsStay
    <2>4. Testing'
        BY <1>1, <2>2, <2>3, TestingKept DEF RecipeInv
    <2>5. Identities'
        <3> SUFFICES ASSUME NEW i \in {stored} \ {Absent}
                     PROVE  /\ Read(i, i.by.of)' /\ Complete(i)'
                            /\ (marker /\ i.endpoint >= endpoint.repaired =>
                                  0 \notin ActiveRefs(i.by.of))'
            BY <1>1 DEF Identities
        <3> QED
            BY <2>1, <2>2, <2>3, IdentityKept DEF RecipeInv, Identities
    <2>6. FirstLayer' = FirstLayer
        BY <1>1, LayerKept
    <2>7. \A i : IdentityCurrent(i) => IdentityCurrent(i)'
        BY <1>1, <2>1, <2>6, CurrentKept
    <2>8. HealthFresh' /\ Upgrade'
        BY <1>1, <1>3, <2>1, <2>7 DEF RecipeInv, HealthFresh, Upgrade
    <2> QED
        BY <2>2, <2>3, <2>4, <2>5, <2>8 DEF RecipeInv
<1>4. CASE ~marker
    <2>a. PICK there \in SUBSET Names : there = {m \in endpoint.needs : secret[m] # Absent}
        BY <1>2
    <2>b. PICK f : f = [n \in there |-> secret[n].id]
        OBVIOUS
    <2>1. /\ marker' = TRUE /\ endpoint.needs # {}
          /\ endpoint' = [endpoint EXCEPT !.refs = f, !.rev = @ + 1,
                                          !.repaired = endpoint.rev + 1]
        BY <1>1, <1>4, <2>a, <2>b DEF RepairAuthBindings, RecipeInv, Upgrade
    <2>2. f \in Refs /\ \A n \in DOMAIN f : secret[n] # Absent /\ secret[n].id = f[n]
        <3>1. /\ f \in [there -> Nat] /\ DOMAIN f = there
              /\ \A n \in there : f[n] = secret[n].id /\ secret[n] # Absent
            BY <1>2, <2>a, <2>b
        <3> QED
            BY <3>1 DEF Refs
    <2>3. /\ endpoint' \in [rev : Nat, needs : SUBSET Names, refs : Refs, repaired : Nat]
          /\ endpoint'.refs = f /\ endpoint'.rev = endpoint.rev + 1
          /\ endpoint'.repaired = endpoint.rev + 1
        <3>1. PICK e \in Nat : e = endpoint.rev + 1
            BY <1>2
        <3>2. endpoint' = [endpoint EXCEPT !.refs = f, !.rev = e, !.repaired = e]
            BY <2>1, <3>1, Zenon
        <3>3. /\ endpoint'.refs = f /\ endpoint'.rev = e /\ endpoint'.repaired = e
              /\ endpoint' \in [rev : Nat, needs : SUBSET Names, refs : Refs, repaired : Nat]
            BY <1>2, <2>2, <3>2
        <3> QED
            BY <3>1, <3>3
    <2>4. RecipesTypeOK' /\ Rows'
        BY <1>1, <2>1, <2>3 DEF RecipeInv, RecipesTypeOK, Rows
    <2>5. Later
        BY <1>1, <1>2, <2>3 DEF Later
    <2>6. References'
        <3>1. Bound(endpoint.refs)'
            BY <1>1, <2>2, <2>3 DEF Bound
        <3>2. \A v : VersionRefs(v)' = VersionRefs(v)
            BY <1>1 DEF VersionRefs, NoRefs
        <3>3. /\ \A v : Bound(VersionRefs(v))' = Bound(VersionRefs(v))
              /\ \A v : ActiveRefs(v)' = ActiveRefs(v)
            BY <1>1, <3>2 DEF Bound, ActiveRefs
        <3> QED
            BY <1>1, <3>1, <3>3 DEF RecipeInv, References
    <2>7. Testing'
        BY <1>1, <2>4, <2>5, TestingKept DEF RecipeInv
    <2>8. ASSUME NEW i \in {stored} \ {Absent}
          PROVE  ~(i.endpoint >= endpoint'.repaired)
        <3>1. i.endpoint <= endpoint.rev /\ i.endpoint \in Nat
            BY <1>4, <2>8 DEF RecipeInv, Upgrade, Identities, Read
        <3> QED
            BY <1>2, <2>3, <3>1
    <2>9. Identities'
        <3> SUFFICES ASSUME NEW i \in {stored} \ {Absent}
                     PROVE  /\ Read(i, i.by.of)' /\ Complete(i)'
                            /\ (marker /\ i.endpoint >= endpoint.repaired =>
                                  0 \notin ActiveRefs(i.by.of))'
            BY <1>1 DEF Identities
        <3> QED
            BY <2>4, <2>5, <2>8, IdentityKept DEF RecipeInv, Identities
    <2>10. HealthFresh' /\ Upgrade'
        BY <1>1, <1>2, <2>1, <2>3, <2>8 DEF HealthFresh, Upgrade
    <2> QED
        BY <2>4, <2>5, <2>6, <2>7, <2>9, <2>10 DEF RecipeInv
<1> QED
    BY <1>3, <1>4

LEMMA InitRecipe == RecipesInit => RecipeInv
<1> SUFFICES ASSUME RecipesInit PROVE RecipeInv
    OBVIOUS
<1>1. /\ ids = 1 /\ target = [conf |-> 1, enabled |-> TRUE]
      /\ stored \in {Absent, Identity(Resolve)} /\ tracker = Absent /\ test = NoTest
      /\ up = FALSE
    BY DEF RecipesInit
<1>2. PICK n \in Names :
          /\ secret = [m \in Names |-> IF m = n THEN [id |-> 1, rev |-> 1] ELSE Absent]
          /\ \/ /\ recipe = <<>> /\ version = <<>> /\ marker = TRUE
                /\ endpoint = [rev |-> 1, needs |-> {}, refs |-> NoRefs, repaired |-> 0]
                /\ profile = [p \in Profiles |-> Row("none")]
             \/ /\ recipe = <<Recipe("route", "published", 1, {1}), Recipe("upstream", "draft", 0, {})>>
                /\ version = <<[recipe |-> 1, bound |-> [m \in {n} |-> 1]]>>
                /\ marker = TRUE
                /\ endpoint = [rev |-> 1, needs |-> {}, refs |-> NoRefs, repaired |-> 0]
                /\ profile = [p \in Profiles |-> Row("candidate")]
             \/ /\ Legacy /\ marker = FALSE
                /\ recipe = <<Recipe("upstream", "legacy_compat", 1, {}),
                              Recipe("route", "legacy_quarantined", 0, {})>>
                /\ version = <<[recipe |-> 1, bound |-> [m \in {n} |-> 0]],
                               [recipe |-> 2, bound |-> NoRefs]>>
                /\ endpoint = [rev |-> 1, needs |-> {n}, refs |-> NoRefs, repaired |-> 0]
                /\ profile = [p \in Profiles |-> Row("none")]
    BY Zenon DEF RecipesInit
<1>3. /\ secret \in [Names -> Secrets \cup {Absent}]
      /\ secret[n] = [id |-> 1, rev |-> 1] /\ secret[n] # Absent
      /\ \A m \in Names \ {n} : secret[m] = Absent
    <2>1. [id |-> 1, rev |-> 1] \in Secrets /\ Absent \notin Secrets
        BY RecipesAssumption DEF Secrets
    <2> QED
        BY <1>2, <2>1
<1>4. /\ [m \in {n} |-> 1] \in Refs /\ [m \in {n} |-> 0] \in Refs /\ NoRefs \in Refs
      /\ DOMAIN NoRefs = {}
    <2>1. /\ {n} \in SUBSET Names
          /\ [m \in {n} |-> 1] \in [{n} -> Nat] /\ [m \in {n} |-> 0] \in [{n} -> Nat]
        OBVIOUS
    <2>2. [{n} -> Nat] \subseteq Refs
        BY <2>1 DEF Refs
    <2> QED
        BY <2>1, <2>2, RefsAre
<1>5. /\ endpoint \in [rev : Nat, needs : SUBSET Names, refs : Refs, repaired : Nat]
      /\ endpoint.rev = 1 /\ endpoint.repaired = 0 /\ endpoint.refs = NoRefs
      /\ ~marker => endpoint.needs # {}
    BY <1>2, <1>4
<1>6. profile \in [Profiles -> Profiled]
    BY <1>2 DEF Row, Profiled
\* The rows of the three databases: none, one published, one migrated.
<1>7. PICK p, d, l, q \in RecipeRows :
         /\ p = Recipe("route", "published", 1, {1}) /\ d = Recipe("upstream", "draft", 0, {})
         /\ l = Recipe("upstream", "legacy_compat", 1, {})
         /\ q = Recipe("route", "legacy_quarantined", 0, {})
    <2>1. /\ Recipe("route", "published", 1, {1}) \in RecipeRows
          /\ Recipe("upstream", "draft", 0, {}) \in RecipeRows
          /\ Recipe("upstream", "legacy_compat", 1, {}) \in RecipeRows
          /\ Recipe("route", "legacy_quarantined", 0, {}) \in RecipeRows
        BY DEF Recipe, RecipeRows
    <2> QED
        BY <2>1, Zenon
<1>a. /\ p.published = 1 /\ d.published = 0 /\ l.published = 1 /\ q.published = 0
    BY <1>7 DEF Recipe
<1>b. PICK w, y, z \in Versions :
         /\ w = [recipe |-> 1, bound |-> [m \in {n} |-> 1]]
         /\ y = [recipe |-> 1, bound |-> [m \in {n} |-> 0]]
         /\ z = [recipe |-> 2, bound |-> NoRefs]
    BY <1>4 DEF Versions
<1>c. /\ w.recipe = 1 /\ y.recipe = 1 /\ z.recipe = 2
    BY <1>b
<1>d. \/ recipe = <<>> /\ version = <<>>
      \/ recipe = <<p, d>> /\ version = << w >>
      \/ recipe = <<l, q>> /\ version = <<y, z>>
    BY <1>2, <1>7, <1>b, Zenon
<1>8. recipe \in Seq(RecipeRows) /\ version \in Seq(Versions)
    <2>1. CASE recipe = <<>> /\ version = <<>>
        BY <2>1
    <2>2. CASE recipe = <<p, d>> /\ version = << w >>
        BY <2>2
    <2>3. CASE recipe = <<l, q>> /\ version = <<y, z>>
        BY <2>3
    <2> QED
        BY <1>d, <2>1, <2>2, <2>3
<1>9. /\ \A v \in DOMAIN version : version[v].recipe \in DOMAIN recipe
      /\ \A r \in DOMAIN recipe : recipe[r].published \in 0 .. Len(version)
    <2>1. CASE recipe = <<>> /\ version = <<>>
        BY <2>1
    <2>2. CASE recipe = <<p, d>> /\ version = << w >>
        BY <1>a, <1>c, <2>2
    <2>3. CASE recipe = <<l, q>> /\ version = <<y, z>>
        BY <1>a, <1>c, <2>3
    <2> QED
        BY <1>d, <2>1, <2>2, <2>3
<1>10. RecipesTypeOK
    BY <1>1, <1>2, <1>3, <1>5, <1>6, <1>8 DEF RecipesTypeOK
<1>11. Rows
    BY <1>1, <1>3, <1>9 DEF Rows
<1>12. References
    BY <1>2, <1>3, <1>4, <1>5 DEF References, Recipe, VersionRefs, ActiveRefs, Bound
<1>13. Testing
    BY <1>1 DEF Testing, NoTest
<1>14. ASSUME stored # Absent
       PROVE  /\ Read(stored, stored.by.of) /\ Complete(stored)
              /\ marker => 0 \notin ActiveRefs(stored.by.of)
              /\ stored.endpoint = 1 /\ IdentityCurrent(stored)
    <2>1. Resolve.of \in 0 .. Len(version)
        <3>1. Len(version) \in Nat
            BY <1>10, TypesAre
        <3> QED
            BY <1>10, <1>11, <3>1, Resolved DEF Rows
    <2>2. PICK v \in 0 .. Len(version) : v = Resolve.of
        BY <2>1
    <2>3. /\ stored.by = Resolve /\ stored.conf = target.conf /\ stored.endpoint = endpoint.rev
          /\ stored.secrets = SecretRevisions(Required(v))
        BY <1>1, <1>14, <2>2 DEF Identity
    <2>4. Read(stored, v)
        BY <1>10, <1>11, <2>3, ReadNow
    <2>5. /\ v = 0 \/ v = 1
          /\ Required(v) \subseteq {n}
          /\ marker => 0 \notin ActiveRefs(v)
        <3>1. v = 0 \/ v = 1
            BY <1>2, <1>10, <2>2, Resolved DEF Recipe
        <3>2. v = 0 => VersionRefs(v) = NoRefs
            BY DEF VersionRefs
        <3>3. v = 1 => \/ VersionRefs(v) = [m \in {n} |-> 1]
                       \/ VersionRefs(v) = [m \in {n} |-> 0] /\ ~marker
            BY <1>2, <2>2, <1>10, Resolved DEF VersionRefs, Recipe
        <3> QED
            BY <1>4, <1>5, <3>1, <3>2, <3>3 DEF Required, ActiveRefs
    <2>6. Complete(stored)
        BY <1>3, <2>3, <2>5 DEF Complete, SecretRevisions
    <2>7. IdentityCurrent(stored)
        BY <1>1, <2>3 DEF IdentityCurrent, CurrentRevision, BindingCurrent, SecretRevisions
    <2> QED
        BY <1>5, <2>2, <2>3, <2>4, <2>5, <2>6, <2>7
<1>15. Identities /\ HealthFresh
    BY <1>1, <1>14 DEF Identities, HealthFresh
<1>16. Upgrade
    BY <1>1, <1>5, <1>14 DEF Upgrade
<1> QED
    BY <1>10, <1>11, <1>12, <1>13, <1>15, <1>16 DEF RecipeInv

LEMMA NextRecipe == RecipeInv /\ [RecipesNext]_recipeVars => RecipeInv'
<1> SUFFICES ASSUME RecipeInv, [RecipesNext]_recipeVars PROVE RecipeInv'
    OBVIOUS
<1>1. CASE UNCHANGED recipeVars
    <2>1. up \in BOOLEAN
        BY DEF RecipeInv, RecipesTypeOK
    <2> QED
        BY <1>1, <2>1, RecipeQuiet DEF recipeVars
<1>2. ASSUME NEW v \in DOMAIN version, LoadTest(OfVersion(v)) PROVE RecipeInv'
    <2>1. About(OfVersion(v))
        BY DEF About, OfVersion, RecipeInv, Rows
    <2> QED
        BY <1>2, <2>1, LoadStep
<1>3. ASSUME NEW p \in Profiles, LoadTest(OfProfile(p)) PROVE RecipeInv'
    <2>1. About(OfProfile(p))
        BY DEF About, OfProfile
    <2> QED
        BY <1>3, <2>1, LoadStep
<1> QED
    BY <1>1, <1>2, <1>3, BootStep, CrashStep, CheckStep, SendStep, ProbeStep,
       EditTargetStep, MarkProfileStep, CreateSecretStep, UpdateSecretStep,
       DeleteSecretStep, UpdateEndpointStep, CreateRecipeStep, AddVersionStep,
       RetireStep, ProfileSteps, RecordStep, PublishStep DEF RecipesNext

LEMMA RecipesInductive == RecipesSpec => []RecipeInv
BY InitRecipe, NextRecipe, PTL DEF RecipesSpec

-----------------------------------------------------------------------------
(* What is published finds its secrets, and no stored health outlives the    *)
(* configuration it was observed under, for any number of recipes, versions, *)
(* secrets, profiles and writes, with restarts and the one-time repair.      *)
THEOREM RecipesHoldAlways == RecipesSpec => []RecipesHold
<1>1. RecipeInv => RecipesHold
    BY DEF RecipeInv, References, HealthFresh, Upgrade, RecipesHold, BoundSecretsStay,
           HealthFollowsConfig
<1> QED
    BY <1>1, RecipesInductive, PTL

\* A ticket that still fits: the test sent what would be sent now.
LEMMA SentAsNow ==
    ASSUME RecipeInv, test.state = "done", test.result # "unsent", TestTargetCurrent
    PROVE  test.used = Token(test.about.of)
<1>1. PICK t : t = test
    OBVIOUS
<1>2. /\ t.token \in Tokens /\ t.used \in Tokens /\ Read(t.token, t.about.of)
      /\ Read(t.used, t.about.of) /\ Earlier(t.token, t.used) /\ Complete(t.used)
    BY <1>1 DEF RecipeInv, Testing
<1>3. PICK v \in 0 .. Len(version) : v = t.about.of
    BY <1>2 DEF Read
<1>4. PICK i \in Tokens : i = t.token
    BY <1>2
<1>5. PICK j \in Tokens : j = t.used
    BY <1>2
<1>6. /\ i = Token(v) /\ Bound(VersionRefs(v)) /\ Bound(endpoint.refs)
    BY <1>1, <1>3, <1>4 DEF TestTargetCurrent, TestSecretsCurrent
<1>7. /\ DOMAIN i.secrets = Required(v) /\ \A n \in Required(v) : i.secrets[n] = secret[n]
      /\ i.conf = target.conf /\ i.endpoint = endpoint.rev
    BY <1>6, TokenIs
<1>8. j.conf = i.conf /\ j.endpoint = i.endpoint
    <2>1. /\ i.conf <= j.conf /\ j.conf <= target.conf
          /\ i.endpoint <= j.endpoint /\ j.endpoint <= endpoint.rev
        BY <1>2, <1>4, <1>5 DEF Earlier, Read
    <2>2. i.conf \in Nat /\ j.conf \in Nat /\ i.endpoint \in Nat /\ j.endpoint \in Nat
        BY DEF Tokens
    <2> QED
        BY <1>7, <2>1, <2>2
<1>9. DOMAIN j.secrets = Required(v) /\ Required(v) \subseteq Names
    BY <1>2, <1>3, <1>5, <1>7, <1>8, VersionRefsAre DEF Read, RecipeInv
<1>10. ASSUME NEW n \in Required(v) PROVE j.secrets[n] = i.secrets[n]
    <2>1. n \in Names /\ secret[n] # Absent /\ secret[n] \in Secrets
        BY <1>6, <1>9, TypesAre DEF Required, Bound, RecipeInv
    <2>2. j.secrets[n] # Absent /\ j.secrets[n] \in Secrets
        <3>1. j.secrets \in Revisions
            BY DEF Tokens
        <3> QED
            BY <1>2, <1>5, <1>9, <3>1, RefsAre DEF Complete
    <2>3. PICK a \in Secrets : a = secret[n]
        BY <2>1
    <2>4. PICK b \in Secrets : b = j.secrets[n]
        BY <2>2
    <2>5. b.id < a.id \/ (b.id = a.id /\ b.rev <= a.rev)
        BY <1>2, <1>3, <1>5, <1>9, <2>1, <2>2, <2>3, <2>4 DEF Read, Before
    <2>6. a.id < b.id \/ (a.id = b.id /\ a.rev <= b.rev)
        BY <1>2, <1>4, <1>5, <1>7, <1>9, <2>1, <2>2, <2>3, <2>4 DEF Earlier
    <2>7. a.id \in Nat /\ b.id \in Nat /\ a.rev \in Nat /\ b.rev \in Nat
        BY DEF Secrets
    <2>8. a.id = b.id /\ a.rev = b.rev
        BY <2>5, <2>6, <2>7
    <2>9. a = b
        BY <2>8 DEF Secrets
    <2> QED
        BY <1>7, <2>3, <2>4, <2>9
<1>11. i.secrets = j.secrets
    <2>1. i.secrets \in Revisions /\ j.secrets \in Revisions
        BY DEF Tokens
    <2>2. /\ i.secrets = [n \in Required(v) |-> i.secrets[n]]
          /\ j.secrets = [n \in Required(v) |-> j.secrets[n]]
        BY <1>7, <1>9, <2>1, RefsAre
    <2> QED
        BY <1>10, <2>2
<1>12. i = j
    BY <1>8, <1>11 DEF Tokens
<1> QED
    BY <1>1, <1>3, <1>5, <1>6, <1>12

(* Nothing is published, and no profile becomes the tested one, that an      *)
(* explicit test did not send to its end as it will be sent from now on,     *)
(* whatever was written while the test was under way.                        *)
THEOREM PublishedWasTestedAlways == RecipesSpec => PublishedWasTested
<1> DEFINE Ticket ==
      /\ \A r \in DOMAIN recipe :
             recipe'[r].published # recipe[r].published
                \/ (recipe'[r].status = "published" /\ recipe[r].status # "published") =>
                /\ TestedWith(OfVersion(recipe'[r].published))
                /\ test.result \in {"ok", "failed"}
      /\ \A p \in Profiles :
             profile'[p].status = "tested" /\ profile[p].status # "tested" =>
                TestedWith(OfProfile(p)) /\ test.result = "ok"
<1>1. RecipeInv /\ [RecipesNext]_recipeVars => [Ticket]_recipeVars
    <2> SUFFICES ASSUME RecipeInv, RecipesNext PROVE Ticket
        OBVIOUS
    <2>1. ASSUME NEW force \in BOOLEAN, PublishRecipeVersion(force) PROVE Ticket
        <3>1. /\ UNCHANGED profile /\ test.state = "done"
              /\ test.result \in {"ok", "failed"} /\ TestTargetCurrent
            BY <2>1 DEF PublishRecipeVersion, TestAccepted
        <3>2. test.used = Token(test.about.of)
            BY <3>1, SentAsNow
        <3>3. PICK r, v : /\ r = test.about.holder /\ v = test.about.of
                          /\ test.about = OfVersion(v)
                          /\ recipe' = [recipe EXCEPT ![r] =
                                           Rebound(r, "published", v, ActiveRefs(v))]
            BY <2>1 DEF PublishRecipeVersion
        <3>4. r \in DOMAIN recipe /\ v \in DOMAIN version
            <4>1. test.about.kind = "recipe"
                BY <2>1 DEF PublishRecipeVersion
            <4> QED
                BY <3>1, <3>3, <4>1 DEF RecipeInv, Testing, About
        <3>5. PICK row : row = Rebound(r, "published", v, ActiveRefs(v))
            OBVIOUS
        <3>6. v \in 0 .. Len(version) /\ v \in Nat /\ RecipesTypeOK
            BY <3>4, TypesAre DEF RecipeInv
        <3>7. row \in RecipeRows /\ row.published = v
            BY <3>4, <3>5, <3>6, VersionRefsAre, ReboundIs
        <3>8. recipe'[r] = row /\ \A q \in DOMAIN recipe \ {r} : recipe'[q] = recipe[q]
            BY <3>3, <3>4, <3>5, <3>6, <3>7, RowWritten
        <3>9. TestedWith(OfVersion(v))
            <4>1. test.about.of = v /\ test.about = OfVersion(v) /\ OfVersion(v).of = v
                BY <3>3 DEF OfVersion
            <4> QED
                BY <3>1, <3>2, <4>1 DEF TestedWith
        <3> QED
            BY <3>1, <3>7, <3>8, <3>9
    <2>2. ASSUME MarkProfileTested PROVE Ticket
        <3>1. /\ UNCHANGED recipe /\ test.state = "done"
              /\ test.result = "ok" /\ TestTargetCurrent
            BY <2>2 DEF MarkProfileTested, TestAccepted
        <3>2. test.used = Token(test.about.of)
            BY <3>1, SentAsNow
        <3>3. PICK p : /\ test.about = OfProfile(p)
                       /\ profile' = [q \in Profiles |->
                             CASE q = p -> [status |-> "tested", rev |-> profile[q].rev + 1]
                               [] profile[q].status = "tested" /\ q # p ->
                                    [status |-> "disabled", rev |-> profile[q].rev + 1]
                               [] OTHER -> profile[q]]
            BY <2>2 DEF MarkProfileTested
        <3>4. TestedWith(OfProfile(p))
            BY <3>1, <3>2, <3>3 DEF TestedWith
        <3>5. ASSUME NEW q \in Profiles, profile'[q].status = "tested",
                     profile[q].status # "tested"
              PROVE  q = p
            BY <3>3, <3>5
        <3> QED
            BY <3>1, <3>4, <3>5
    <2>3. ASSUME UNCHANGED <<recipe, profile>> PROVE Ticket
        BY <2>3
    <2>4. ASSUME NEW s, CreateRecipe(s) PROVE Ticket
        <3>1. /\ UNCHANGED profile /\ recipe' = Append(recipe, Recipe(s, "draft", 0, {}))
              /\ recipe \in Seq(RecipeRows)
            BY <2>4 DEF CreateRecipe, RecipeInv, RecipesTypeOK
        <3>2. \A q \in DOMAIN recipe : recipe'[q] = recipe[q]
            BY <3>1, LenProperties, AppendProperties
        <3> QED
            BY <3>1, <3>2
    <2>5. ASSUME NEW r \in DOMAIN recipe, NEW names, AddRecipeVersion(r, names) PROVE Ticket
        <3>1. PICK x \in RecipeRows : x = recipe[r]
            BY TypesAre DEF RecipeInv
        <3>2. x.rev + 1 \in Nat /\ Len(version) + 1 \in Nat /\ RecipesTypeOK
            BY TypesAre DEF RecipeInv, RecipeRows
        <3>3. PICK row : row = Draft(x, Len(version) + 1, x.rev + 1)
            OBVIOUS
        <3>4. row \in RecipeRows /\ row.status = x.status /\ row.published = x.published
            BY <3>2, <3>3, RowDrafted
        <3>5. recipe' = [recipe EXCEPT ![r] = row]
            BY <2>5, <3>1, <3>3, Zenon DEF AddRecipeVersion, Draft
        <3>6. recipe'[r] = row /\ \A q \in DOMAIN recipe \ {r} : recipe'[q] = recipe[q]
            BY <3>2, <3>4, <3>5, RowWritten
        <3> QED
            BY <2>5, <3>1, <3>4, <3>6 DEF AddRecipeVersion
    <2>6. ASSUME NEW r \in DOMAIN recipe, NEW st \in {"archived", "disabled"},
                 RetireRecipe(r, st)
          PROVE  Ticket
        <3>1. RecipesTypeOK /\ recipe[r].published \in 0 .. Len(version) /\ Len(version) \in Nat
            BY TypesAre DEF RecipeInv, Rows
        <3>2. PICK row : row = Rebound(r, st, recipe[r].published, {})
            OBVIOUS
        <3>3. row \in RecipeRows /\ row.status = st /\ row.published = recipe[r].published
            BY <3>1, <3>2, ReboundIs
        <3>4. recipe'[r] = row /\ \A q \in DOMAIN recipe \ {r} : recipe'[q] = recipe[q]
            BY <2>6, <3>1, <3>2, <3>3, RowWritten DEF RetireRecipe
        <3> QED
            BY <2>6, <3>3, <3>4 DEF RetireRecipe
    <2>7. ASSUME NEW p \in Profiles,
                 CreateCandidate(p) \/ UpdateCandidate(p) \/ EvictCandidate(p) \/ DisableProfile(p)
          PROVE  Ticket
        <3>1. UNCHANGED recipe /\ profile \in [Profiles -> Profiled]
            BY <2>7 DEF CreateCandidate, UpdateCandidate, EvictCandidate, DisableProfile,
                        RecipeInv, RecipesTypeOK
        <3>2. ASSUME NEW q \in Profiles, profile'[q].status = "tested"
              PROVE  profile[q].status = "tested"
            BY <2>7, <3>1, <3>2 DEF CreateCandidate, UpdateCandidate, EvictCandidate,
                                    DisableProfile, Row, Profiled
        <3> QED
            BY <3>1, <3>2
    <2> QED
        BY <2>1, <2>2, <2>3, <2>4, <2>5, <2>6, <2>7
           DEF RecipesNext, Boot, Crash, CheckTest, SendTest, ProbeRoute, SaveRouteHealth,
               EditTarget, CreateProbeSecret, UpdateProbeSecret, DeleteProbeSecret,
               UpdateEndpoint, LoadTest, RecordTest
<1> QED
    BY <1>1, RecipesInductive, PTL DEF RecipesSpec, PublishedWasTested
=============================================================================
