----------------------------- MODULE RotationProofs ------------------------------
(***************************************************************************)
(* The rotation of the master key: what its protocol promises whatever the *)
(* master keys, the number of rotations and the number of faults are       *)
(* (KeyRotation); what it promises about the rest of the process, for any  *)
(* number of requests, rotations and synthetic attempts (MasterRotation);  *)
(* and that each of its two fences is an exclusion, for any number of      *)
(* workers and drainers (AdmissionFence); at the end, and apart from the   *)
(* rotation, what the public edge promises for any number of certificates, *)
(* generations and failures (PublicEdge), and what the files of the        *)
(* deployment keep for any number of restores, crashes, operators and      *)
(* handlers (Restore and CredentialsFile, as MCStorage composes them).     *)
(*                                                                         *)
(* The argument of the first: every disk state a crash may leave (the      *)
(* current one and those a power loss may bring back) is coherent with the *)
(* database on its own, Coherent below; so a power loss needs no argument  *)
(* at all, and a write only has to show that what it writes is coherent.   *)
(* The handler keeps more: between its steps nothing older can come back,  *)
(* because the step before it was synced, which is what lets the database  *)
(* commit.                                                                 *)
(***************************************************************************)
EXTENDS AdmissionFence, MasterRotation, MCStorage, TLAPS

\* One disk state against the database.
Coherent(d) ==
    /\ d.rid \in 0..made
    /\ Quiet(d) =>
         d.pending = NoKey /\ d.active = dbKey /\ d.relay \in {d.active, NoKey}
    /\ d.phase = "prepared" =>
         /\ d.pending \in Masters /\ d.rid > 0
         /\ d.rid = dbRid =>
              dbKey = d.pending /\ d.relay \in {d.active, d.pending, NoKey}
         /\ d.rid # dbRid => d.active = dbKey /\ d.relay \in {d.active, NoKey}
    /\ d.phase = "db_committed" =>
         /\ d.pending \in Masters /\ d.rid > 0 /\ d.rid = dbRid
         /\ dbKey = d.pending /\ d.relay \in {d.pending, NoKey}
    /\ d.phase = "key_activated" =>
         /\ d.pending = NoKey /\ d.rid > 0 /\ d.rid = dbRid
         /\ d.active = dbKey /\ d.relay \in {d.active, NoKey}

\* What the handler knows between two steps.
Between ==
    /\ pc = "begun" => disk.phase = "prepared" /\ disk.rid # dbRid
    /\ pc = "inspect" => disk.phase = "prepared"
    /\ pc \in {"committed", "resealed"} =>
         disk.phase = "prepared" /\ disk.rid = dbRid
    /\ pc = "resealed" => disk.relay = next /\ relay = next
    /\ pc = "marked" => disk.phase = "db_committed" /\ relay = next
    /\ pc \in {"activated", "adopted"} =>
         disk.phase = "key_activated" /\ disk.active = next /\ relay = next
    /\ pc = "adopted" => key = next
    /\ pc \in {"begun", "inspect", "committed", "resealed", "marked"} =>
         older = {} /\ disk.pending = next
    /\ pc \in {"begun", "inspect", "committed"} =>
         key = disk.active /\ relay = key /\ retired = {}
    /\ pc \in {"begun", "inspect"} /\ disk.rid # dbRid => key = dbKey
    /\ pc = "serving" =>
         Quiet(disk) /\ key = disk.active /\ relay = key /\ retired = {}

Inv ==
    /\ TypeOK
    /\ dbRid \in 0..made
    /\ \A d \in {disk} \cup older : Coherent(d)
    /\ Between

-----------------------------------------------------------------------------
\* The writes of the rotation take disk states to disk states.
LEMMA WritesAreDisks ==
    ASSUME TypeOK, NEW d \in Disks, NEW k \in Masters
    PROVE  /\ made < MaxRotations => Prepared(d, k) \in Disks
           /\ Aborted(d) \in Disks
           /\ Marked(d) \in Disks
           /\ d.pending \in Masters => Activated(d) \in Disks
           /\ Cleaned(d) \in Disks
           /\ Resealed(d, k) \in Disks
  <1>1. made < MaxRotations => Prepared(d, k) \in Disks
    BY RotationAssumption DEF TypeOK, Disks, Phases, Prepared, Ring
  <1>2. Aborted(d) \in Disks
    BY RotationAssumption DEF Disks, Phases, Aborted, Ring
  <1>3. Marked(d) \in Disks
    BY DEF Disks, Phases, Marked, Ring
  <1>4. d.pending \in Masters => Activated(d) \in Disks
    BY DEF Disks, Phases, Activated, Ring
  <1>5. Cleaned(d) \in Disks
    BY RotationAssumption DEF Disks, Phases, Cleaned, Ring
  <1>6. Resealed(d, k) \in Disks
    BY DEF Disks, Phases, Resealed
  <1> QED  BY <1>1, <1>2, <1>3, <1>4, <1>5, <1>6

\* A write that succeeds, or fails in either way, leaves only the new state and
\* states that could be there before.
LEMMA KeyringWrite ==
    ASSUME NEW d \in Disks, TypeOK,
           \A e \in {disk} \cup older : Coherent(e), Coherent(d),
           Write(d) \/ RingWriteFails(d) \/ RelayWriteFails(d),
           UNCHANGED <<db, made>>
    PROVE  /\ \A e \in {disk'} \cup older' : Coherent(e)'
           /\ disk' \in Disks /\ older' \subseteq Disks
           /\ faults' \in 0..MaxFaults
  <1>1. \A e : Coherent(e)' <=> Coherent(e)
    BY DEF Coherent, Quiet, db
  <1>2. faults' \in 0..MaxFaults
    BY RotationAssumption DEF Write, RingWriteFails, RelayWriteFails, Fault, TypeOK
  <1>3. disk' \in {disk, d} /\ older' \subseteq older \cup {disk}
    BY DEF Write, RingWriteFails, RelayWriteFails, files
  <1> QED  BY <1>1, <1>2, <1>3 DEF TypeOK

LEMMA InvInit == Init => Inv
  <1> SUFFICES ASSUME Init PROVE Inv
    OBVIOUS
  <1>1. TypeOK
    BY RotationAssumption DEF Init, TypeOK, Disks, Phases
  <1>2. dbRid \in 0..made
    BY DEF Init
  <1>3. \A d \in {disk} \cup older : Coherent(d)
    BY DEF Init, Coherent, Quiet
  <1>4. Between
    BY DEF Init, Between, Quiet
  <1> QED  BY <1>1, <1>2, <1>3, <1>4 DEF Inv

LEMMA InvBegin ==
    ASSUME Inv, NEW k \in Masters, Begin(k)  PROVE Inv'
  <1>1. PICK d : d = Prepared(disk, k)
    OBVIOUS
  <1>2. /\ disk \in Disks /\ made < MaxRotations /\ made' = made + 1 /\ next' = k
        /\ pc = "serving" /\ dbKey' = dbKey /\ dbRid' = dbRid /\ key' = key
        /\ retired' = retired /\ relay' = relay /\ made \in 0..MaxRotations
        /\ dbRid \in 0..made /\ Coherent(disk) /\ Quiet(disk)
    BY DEF Begin, Inv, Between, TypeOK, db
  <1>3. /\ d.active = disk.active /\ d.pending = k /\ d.phase = "prepared"
        /\ d.rid = made + 1 /\ d.relay = disk.relay /\ d \in Disks
    BY <1>1, <1>2, WritesAreDisks DEF Prepared, Ring, Inv
  <1>4. \A e \in {disk} \cup older : Coherent(e)'
    BY <1>2 DEF Inv, Coherent, Quiet
  <1>5. Coherent(d)'
    BY <1>2, <1>3 DEF Coherent, Quiet
  <1>6. disk' \in {disk, d} /\ older' \subseteq older \cup {disk}
    BY <1>1 DEF Begin, Write, RingWriteFails, files
  <1>7. TypeOK'
    <2>1. faults' \in 0..MaxFaults
      BY RotationAssumption DEF Inv, TypeOK, Begin, Write, RingWriteFails, Fault
    <2>2. pc' \in {"begun", "held", "serving"}
      BY DEF Begin
    <2>3. made' \in 0..MaxRotations
      BY <1>2, RotationAssumption
    <2> QED  BY <1>2, <1>3, <1>6, <2>1, <2>2, <2>3 DEF Inv, TypeOK
  <1>8. Between'
    <2>1. CASE Write(d) /\ pc' = "begun"
      BY <2>1, <1>2, <1>3 DEF Inv, Between, Coherent, Quiet, Write
    <2>2. CASE pc' = "held"
      BY <2>2 DEF Between
    <2>3. CASE pc' = "serving" /\ Quiet(disk')
      BY <2>3, <1>2, <1>3, <1>6 DEF Inv, Between, Quiet
    <2> QED  BY <1>1, <2>1, <2>2, <2>3 DEF Begin
  <1>9. dbRid' \in 0..made'
    BY <1>2
  <1> QED  BY <1>4, <1>5, <1>6, <1>7, <1>8, <1>9 DEF Inv

LEMMA InvRewrap ==
    ASSUME Inv, Rewrap  PROVE Inv'
  <1>1. /\ pc = "begun" /\ disk' = disk /\ older' = older /\ older = {}
        /\ disk.phase = "prepared" /\ disk.rid # dbRid /\ disk.pending = next
        /\ key' = key /\ retired' = retired /\ relay' = relay /\ next' = next
        /\ made' = made /\ Coherent(disk) /\ disk \in Disks /\ made \in Nat
    BY RotationAssumption DEF Rewrap, Inv, Between, TypeOK, files, mem
  <1>2. \/ dbKey' = next /\ dbRid' = disk.rid
        \/ dbKey' = dbKey /\ dbRid' = dbRid /\ pc' = "inspect"
    BY DEF Rewrap, db
  <1>3. TypeOK'
    <2>1. faults' \in 0..MaxFaults
      BY RotationAssumption DEF Inv, TypeOK, Rewrap, Fault
    <2>2. disk.rid \in 0..MaxRotations
      BY <1>1 DEF Disks
    <2> QED  BY <1>1, <1>2, <2>1, <2>2 DEF Inv, TypeOK, Rewrap
  <1>4. dbRid' \in 0..made'
    BY <1>1, <1>2 DEF Inv, Coherent
  <1>5. Coherent(disk)'
    BY <1>1, <1>2 DEF Coherent, Quiet
  <1>6. Between'
    <2>1. CASE pc' = "committed"
      BY <2>1, <1>1, <1>2 DEF Inv, Between
    <2>2. CASE pc' = "inspect"
      BY <2>2, <1>1, <1>2 DEF Inv, Between
    <2> QED  BY <2>1, <2>2 DEF Rewrap
  <1> QED  BY <1>1, <1>3, <1>4, <1>5, <1>6 DEF Inv

\* A step that writes the keyring or the credentials file and not the database.
LEMMA InvWrite ==
    ASSUME Inv, NEW d \in Disks, Coherent(d),
           Write(d) \/ RingWriteFails(d) \/ RelayWriteFails(d),
           UNCHANGED <<db, key, next, made>>,
           retired' \in {retired, {}}, relay' \in Masters,
           pc' \in {"serving", "resealed", "marked", "activated", "held", "down",
                   "boot"},
           Between'
    PROVE  Inv'
  <1>1. /\ \A e \in {disk'} \cup older' : Coherent(e)'
        /\ disk' \in Disks /\ older' \subseteq Disks
        /\ faults' \in 0..MaxFaults
    BY KeyringWrite DEF Inv
  <1>2. TypeOK'
    BY <1>1 DEF Inv, TypeOK, db
  <1>3. dbRid' \in 0..made'
    BY DEF Inv, db
  <1> QED  BY <1>1, <1>2, <1>3 DEF Inv

LEMMA InvInspect ==
    ASSUME Inv, Inspect  PROVE Inv'
  <1>1. CASE pc' = "held" /\ UNCHANGED <<files, faults>>
    BY <1>1 DEF Inspect, Inv, TypeOK, Between, Coherent, Quiet, files, db, mem
  <1>2. CASE dbRid # disk.rid
    <2>1. PICK d : d = Aborted(disk)
      OBVIOUS
    <2>2. d \in Disks
      BY <2>1, WritesAreDisks DEF Inv, TypeOK
    <2>3. /\ d.active = disk.active /\ d.pending = NoKey /\ d.phase = "idle"
          /\ d.rid = 0 /\ d.relay = disk.relay
      BY <2>1 DEF Aborted, Ring
    <2>4. /\ disk.phase = "prepared" /\ Coherent(disk) /\ key = disk.active
          /\ relay = key /\ retired = {} /\ made \in Nat
      BY RotationAssumption DEF Inspect, Inv, Between, TypeOK
    <2>5. Coherent(d)
      BY <1>2, <2>3, <2>4 DEF Coherent, Quiet
    <2>6. Between'
      <3>1. CASE Write(d) /\ pc' = "serving"
        BY <3>1, <2>3, <2>4 DEF Between, Write, Quiet, Inspect, mem
      <3>2. CASE pc' = "held"
        BY <3>2 DEF Between
      <3> QED  BY <1>2, <2>1, <3>1, <3>2 DEF Inspect
    <2>7. Write(d) \/ RingWriteFails(d)
      BY <1>2, <2>1 DEF Inspect
    <2>8. relay' \in Masters
      BY DEF Inspect, mem, Inv, TypeOK
    <2> QED  BY <2>2, <2>5, <2>6, <2>7, <2>8, InvWrite DEF Inspect, mem
  <1> QED  BY <1>1, <1>2 DEF Inspect

LEMMA InvReseal ==
    ASSUME Inv, Reseal  PROVE Inv'
  <1>1. CASE ~CanReseal
    BY <1>1 DEF Reseal, Inv, TypeOK, Between, Coherent, Quiet, files, db
  <1>2. CASE CanReseal
    <2>1. PICK d : d = Resealed(disk, next)
      OBVIOUS
    <2>2. d \in Disks
      BY <2>1, WritesAreDisks DEF Inv, TypeOK
    <2>3. /\ d.active = disk.active /\ d.pending = disk.pending
          /\ d.phase = disk.phase /\ d.rid = disk.rid /\ d.relay = next
      BY <2>1 DEF Resealed, Inv, TypeOK, Disks
    <2>4. /\ disk.phase = "prepared" /\ disk.rid = dbRid /\ Coherent(disk)
          /\ disk.pending = next /\ older = {} /\ pc = "committed"
      BY DEF Reseal, Inv, Between
    <2>5. Coherent(d)
      BY <2>3, <2>4 DEF Coherent, Quiet
    <2>6. Between'
      <3>1. CASE Write(d) /\ relay' = next /\ pc' = "resealed"
        BY <3>1, <2>3, <2>4 DEF Between, Write, Reseal, db
      <3>2. CASE pc' = "held"
        BY <3>2 DEF Between
      <3> QED  BY <1>2, <2>1, <3>1, <3>2 DEF Reseal
    <2>7. Write(d) \/ RelayWriteFails(d)
      BY <1>2, <2>1 DEF Reseal
    <2>8. relay' \in Masters
      BY DEF Reseal, Inv, TypeOK
    <2> QED  BY <2>2, <2>5, <2>6, <2>7, <2>8, InvWrite DEF Reseal
  <1> QED  BY <1>1, <1>2

LEMMA InvMarkDBCommitted ==
    ASSUME Inv, MarkDBCommitted  PROVE Inv'
  <1>1. PICK d : d = Marked(disk)
    OBVIOUS
  <1>2. d \in Disks
    BY <1>1, WritesAreDisks DEF Inv, TypeOK
  <1>3. /\ d.active = disk.active /\ d.pending = disk.pending
        /\ d.phase = "db_committed" /\ d.rid = disk.rid /\ d.relay = disk.relay
    BY <1>1 DEF Marked, Ring
  <1>4. /\ disk.phase = "prepared" /\ disk.rid = dbRid /\ Coherent(disk)
        /\ disk.pending = next /\ disk.relay = next /\ relay = next
    BY DEF MarkDBCommitted, Inv, Between
  <1>5. Coherent(d)
    BY <1>3, <1>4 DEF Coherent, Quiet
  <1>6. Between'
    <2>1. CASE Write(d) /\ pc' = "marked"
      BY <2>1, <1>3, <1>4 DEF Between, Write, MarkDBCommitted, mem, Quiet
    <2>2. CASE pc' = "held"
      BY <2>2 DEF Between
    <2> QED  BY <1>1, <2>1, <2>2 DEF MarkDBCommitted
  <1>7. Write(d) \/ RingWriteFails(d)
    BY <1>1 DEF MarkDBCommitted
  <1>8. relay' \in Masters
    BY DEF MarkDBCommitted, mem, Inv, TypeOK
  <1> QED  BY <1>2, <1>5, <1>6, <1>7, <1>8, InvWrite DEF MarkDBCommitted, mem

LEMMA InvActivatePending ==
    ASSUME Inv, ActivatePending  PROVE Inv'
  <1>1. PICK d : d = Activated(disk)
    OBVIOUS
  <1>2. /\ disk.phase = "db_committed" /\ Coherent(disk)
        /\ disk.pending = next /\ relay = next /\ disk.pending \in Masters
    BY DEF ActivatePending, Inv, Between, Coherent
  <1>3. d \in Disks
    BY <1>1, <1>2, WritesAreDisks DEF Inv, TypeOK
  <1>4. /\ d.active = disk.pending /\ d.pending = NoKey
        /\ d.phase = "key_activated" /\ d.rid = disk.rid /\ d.relay = disk.relay
    BY <1>1 DEF Activated, Ring
  <1>5. Coherent(d)
    BY <1>2, <1>4 DEF Coherent, Quiet
  <1>6. Between'
    <2>1. CASE Write(d) /\ pc' = "activated"
      BY <2>1, <1>2, <1>4 DEF Between, Write, ActivatePending, mem
    <2>2. CASE pc' = "held"
      BY <2>2 DEF Between
    <2> QED  BY <1>1, <2>1, <2>2 DEF ActivatePending
  <1>7. Write(d) \/ RingWriteFails(d)
    BY <1>1 DEF ActivatePending
  <1>8. relay' \in Masters
    BY DEF ActivatePending, mem, Inv, TypeOK
  <1> QED  BY <1>3, <1>5, <1>6, <1>7, <1>8, InvWrite DEF ActivatePending, mem

LEMMA InvActivateMaster ==
    ASSUME Inv, ActivateMaster  PROVE Inv'
  <1>1. /\ \A e : Coherent(e)' <=> Coherent(e)
        /\ disk' = disk /\ older' = older
    BY DEF ActivateMaster, Coherent, Quiet, db, files
  <1>2. TypeOK'
    BY DEF ActivateMaster, Inv, TypeOK, files, db
  <1>3. Between'
    BY DEF ActivateMaster, Inv, Between, files, db
  <1>4. dbRid' \in 0..made'
    BY DEF ActivateMaster, Inv, db
  <1> QED  BY <1>1, <1>2, <1>3, <1>4 DEF Inv

LEMMA InvMarkCleaned ==
    ASSUME Inv, MarkCleaned  PROVE Inv'
  <1>1. PICK d : d = Cleaned(disk)
    OBVIOUS
  <1>2. d \in Disks
    BY <1>1, WritesAreDisks DEF Inv, TypeOK
  <1>3. /\ d.active = disk.active /\ d.pending = disk.pending
        /\ d.phase = "cleaned" /\ d.rid = 0 /\ d.relay = disk.relay
    BY <1>1 DEF Cleaned, Ring
  <1>4. /\ disk.phase = "key_activated" /\ Coherent(disk) /\ made \in Nat
        /\ disk.active = next /\ relay = next /\ key = next
    BY RotationAssumption DEF MarkCleaned, Inv, Between, TypeOK
  <1>5. Coherent(d)
    BY <1>3, <1>4 DEF Coherent, Quiet
  <1>6. Between'
    <2>1. CASE Write(d) /\ pc' = "serving" /\ retired' = {}
      BY <2>1, <1>3, <1>4 DEF Between, Write, MarkCleaned, Quiet
    <2>2. CASE pc' = "held"
      BY <2>2 DEF Between
    <2> QED  BY <1>1, <2>1, <2>2 DEF MarkCleaned
  <1>7. Write(d) \/ RingWriteFails(d)
    BY <1>1 DEF MarkCleaned
  <1>8. relay' \in Masters
    BY DEF MarkCleaned, Inv, TypeOK
  <1> QED  BY <1>2, <1>5, <1>6, <1>7, <1>8, InvWrite DEF MarkCleaned

\* A process that stops, or does not get on, changes nothing the disk depends on.
LEMMA InvStops ==
    ASSUME Inv, CheckFails \/ Crash \/ PowerLoss \/ Start \/ Refuse  PROVE Inv'
  <1>1. /\ disk' \in {disk} \cup older /\ older' \subseteq older
        /\ UNCHANGED <<db, mem, made>> /\ pc' \in {"held", "down", "boot"}
    BY DEF CheckFails, Crash, PowerLoss, Start, Refuse, files
  <1>2. \A e : Coherent(e)' <=> Coherent(e)
    BY <1>1 DEF Coherent, Quiet, db
  <1>3. faults' \in 0..MaxFaults
    BY RotationAssumption DEF CheckFails, Crash, PowerLoss, Start, Refuse, Fault,
                              Inv, TypeOK
  <1>4. TypeOK'
    BY <1>1, <1>3 DEF Inv, TypeOK, db, mem
  <1>5. Between'
    BY <1>1 DEF Between
  <1>6. dbRid' \in 0..made'
    BY <1>1 DEF Inv, db
  <1> QED  BY <1>1, <1>2, <1>4, <1>5, <1>6 DEF Inv

LEMMA InvOpen ==
    ASSUME Inv, Open  PROVE Inv'
  <1>1. /\ \A e : Coherent(e)' <=> Coherent(e)
        /\ disk' = disk /\ older' = older /\ disk.active \in Masters
    BY DEF Open, Coherent, Quiet, db, files, Inv, TypeOK, Disks
  <1>2. TypeOK'
    BY <1>1 DEF Open, Inv, TypeOK, files, db
  <1>3. Between'
    BY <1>1 DEF Open, Between, Quiet
  <1>4. dbRid' \in 0..made'
    BY DEF Open, Inv, db
  <1> QED  BY <1>1, <1>2, <1>3, <1>4 DEF Inv

LEMMA InvRecoverReseal ==
    ASSUME Inv, RecoverReseal  PROVE Inv'
  <1>1. PICK d : d = Resealed(disk, disk.pending)
    OBVIOUS
  <1>2. /\ disk.phase \in {"prepared", "db_committed"} /\ disk.rid = dbRid
        /\ Coherent(disk) /\ disk.pending \in Masters /\ disk \in Disks
    BY DEF RecoverReseal, RollForward, Inv, Coherent, TypeOK
  <1>3. d \in Disks
    BY <1>1, <1>2, WritesAreDisks DEF Inv
  <1>4. /\ d.active = disk.active /\ d.pending = disk.pending
        /\ d.phase = disk.phase /\ d.rid = disk.rid /\ d.relay = disk.pending
    BY <1>1, <1>2 DEF Resealed, Disks
  <1>5. Coherent(d)
    BY <1>2, <1>4 DEF Coherent, Quiet
  <1>6. Write(d) \/ RelayWriteFails(d)
    BY <1>1 DEF RecoverReseal
  <1>7. Between'
    BY DEF RecoverReseal, Between
  <1>8. relay' \in Masters
    BY DEF RecoverReseal, mem, Inv, TypeOK
  <1> QED  BY <1>3, <1>5, <1>6, <1>7, <1>8, InvWrite DEF RecoverReseal, mem

LEMMA InvRecover ==
    ASSUME Inv, Recover  PROVE Inv'
  <1>1. /\ UNCHANGED <<db, key, next, made, retired>> /\ pc' \in {"boot", "down"}
        /\ relay' \in Masters
    BY DEF Recover, mem, Advance, Inv, TypeOK
  <1>2. Between'
    BY <1>1 DEF Between
  <1>3. disk \in Disks /\ Coherent(disk) /\ made \in Nat
    BY RotationAssumption DEF Inv, TypeOK
  <1>4. ASSUME NEW d \in Disks, Coherent(d), Advance(d)  PROVE Inv'
    BY <1>1, <1>2, <1>4, InvWrite DEF Advance
  <1>5. CASE disk.phase = "prepared" /\ ~RollForward /\ Advance(Aborted(disk))
    <2>1. PICK d : d = Aborted(disk)
      OBVIOUS
    <2>2. /\ d.active = disk.active /\ d.pending = NoKey /\ d.phase = "idle"
          /\ d.rid = 0 /\ d.relay = disk.relay /\ d \in Disks
      BY <1>3, <2>1, WritesAreDisks DEF Aborted, Ring, Inv, TypeOK
    <2>3. Coherent(d)
      BY <1>3, <1>5, <2>2 DEF Coherent, Quiet, RollForward
    <2> QED  BY <1>4, <1>5, <2>1, <2>2, <2>3
  <1>6. CASE /\ disk.phase = "prepared" /\ RollForward
             /\ disk.relay \in {disk.pending, NoKey} /\ Advance(Marked(disk))
    <2>1. PICK d : d = Marked(disk)
      OBVIOUS
    <2>2. /\ d.active = disk.active /\ d.pending = disk.pending
          /\ d.phase = "db_committed" /\ d.rid = disk.rid
          /\ d.relay = disk.relay /\ d \in Disks
      BY <1>3, <2>1, WritesAreDisks DEF Marked, Ring, Inv, TypeOK
    <2>3. Coherent(d)
      BY <1>3, <1>6, <2>2 DEF Coherent, Quiet, RollForward
    <2> QED  BY <1>4, <1>6, <2>1, <2>2, <2>3
  <1>7. CASE disk.phase = "db_committed" /\ Advance(Activated(disk))
    <2>1. PICK d : d = Activated(disk)
      OBVIOUS
    <2>2. disk.pending \in Masters
      BY <1>3, <1>7 DEF Coherent
    <2>3. /\ d.active = disk.pending /\ d.pending = NoKey
          /\ d.phase = "key_activated" /\ d.rid = disk.rid
          /\ d.relay = disk.relay /\ d \in Disks
      BY <1>3, <2>1, <2>2, WritesAreDisks DEF Activated, Ring, Inv, TypeOK
    <2>4. Coherent(d)
      BY <1>3, <1>7, <2>3 DEF Coherent, Quiet
    <2> QED  BY <1>4, <1>7, <2>1, <2>3, <2>4
  <1>8. CASE disk.phase = "key_activated" /\ Advance(Cleaned(disk))
    <2>1. PICK d : d = Cleaned(disk)
      OBVIOUS
    <2>2. /\ d.active = disk.active /\ d.pending = disk.pending
          /\ d.phase = "cleaned" /\ d.rid = 0
          /\ d.relay = disk.relay /\ d \in Disks
      BY <1>3, <2>1, WritesAreDisks DEF Cleaned, Ring, Inv, TypeOK
    <2>3. Coherent(d)
      BY <1>3, <1>8, <2>2 DEF Coherent, Quiet
    <2> QED  BY <1>4, <1>8, <2>1, <2>2, <2>3
  <1> QED  BY <1>5, <1>6, <1>7, <1>8 DEF Recover

LEMMA InvNext ==
    ASSUME Inv, [Next]_vars  PROVE Inv'
  <1>1. CASE UNCHANGED vars
    <2>1. \A e : Coherent(e)' <=> Coherent(e)
      BY <1>1 DEF Coherent, Quiet, vars, db
    <2> QED  BY <1>1, <2>1 DEF Inv, TypeOK, Between, Quiet, vars, files, db, mem
  <1>2. CASE Next
    BY <1>2, InvBegin, InvRewrap, InvInspect, InvReseal, InvMarkDBCommitted,
       InvActivatePending, InvActivateMaster, InvMarkCleaned, InvStops, InvOpen,
       InvRecoverReseal, InvRecover DEF Next, Rotation, Boot
  <1> QED  BY <1>1, <1>2

LEMMA InvAlways == Spec => []Inv
  BY InvInit, InvNext, PTL DEF Spec

-----------------------------------------------------------------------------
(* The variables keep their types.                                         *)
THEOREM KeyTypeCorrect == Spec => []TypeOK
  <1>1. Inv => TypeOK
    BY DEF Inv
  <1> QED  BY <1>1, InvAlways, PTL

(* No crash, power loss or failed call at any step of a rotation leaves a  *)
(* disk on which the database or the Relay Key has lost its key.           *)
THEOREM NoSecretLostAlways == Spec => []NoSecretLost
  <1>1. Inv => NoSecretLost
    <2> SUFFICES ASSUME Inv, NEW d \in {disk} \cup older
                 PROVE  /\ dbKey \in {d.active, d.pending}
                        /\ d.relay \in {d.active, d.pending, NoKey}
      BY DEF NoSecretLost
    <2>1. Coherent(d) /\ d.phase \in Phases
      BY DEF Inv, TypeOK, Disks
    <2> QED  BY <2>1 DEF Coherent, Quiet, Phases
  <1> QED  BY <1>1, InvAlways, PTL

(* The recovery never has to refuse what it finds.                         *)
THEOREM BootRecoversAlways == Spec => []BootRecovers
  <1>1. Inv => BootRecovers
    <2> SUFFICES ASSUME Inv  PROVE Recoverable
      BY DEF BootRecovers
    <2>1. Coherent(disk) /\ disk.phase \in Phases
      BY DEF Inv, TypeOK, Disks
    <2>2. CASE Quiet(disk)
      BY <2>1, <2>2 DEF Coherent, Quiet, Recoverable, Opens
    <2>3. CASE disk.phase = "prepared"
      BY <2>1, <2>3 DEF Coherent, Quiet, Recoverable, RollForward, Opens
    <2>4. CASE disk.phase = "db_committed"
      BY <2>1, <2>4 DEF Coherent, Quiet, Recoverable, RollForward, Opens
    <2>5. CASE disk.phase = "key_activated"
      BY <2>1, <2>5 DEF Coherent, Quiet, Recoverable, RollForward, Opens
    <2> QED  BY <2>1, <2>2, <2>3, <2>4, <2>5 DEF Quiet, Phases
  <1> QED  BY <1>1, InvAlways, PTL

(* A serving process uses the key everything on the disk is under.         *)
THEOREM ServingKeyFitsAlways == Spec => []ServingKeyFits
  <1>1. Inv => ServingKeyFits
    BY DEF Inv, Between, Coherent, Quiet, ServingKeyFits
  <1> QED  BY <1>1, InvAlways, PTL

(* Once the database holds a rotation, its key is pending or active in the *)
(* keyring for good: the step that drops it does not exist.                *)
THEOREM PendingPromotedAlways == Spec => PendingPromoted
  <1>1. ASSUME Inv, Inv', [Next]_vars, disk.pending # NoKey, disk.rid = dbRid
        PROVE  disk.pending \in {disk'.pending, disk'.active}
    <2>1. Coherent(disk) /\ Coherent(disk)' /\ disk.phase \in Phases
          /\ (disk.phase \in Phases)'
      BY <1>1 DEF Inv, TypeOK, Disks
    <2>2. dbKey = disk.pending
      BY <1>1, <2>1 DEF Coherent, Quiet, Phases
    <2>3. dbKey' \in {disk'.active, disk'.pending}
      BY <2>1 DEF Coherent, Quiet, Phases
    <2>4. pc # "begun"
      BY <1>1 DEF Inv, Between
    <2>5. dbKey' = dbKey
      BY <1>1, <2>4 DEF Next, Rotation, Boot, Begin, Rewrap, Inspect, Reseal,
         MarkDBCommitted, ActivatePending, ActivateMaster, MarkCleaned,
         CheckFails, Crash, PowerLoss, Start, RecoverReseal, Recover, Open,
         Refuse, db, vars
    <2> QED  BY <2>2, <2>3, <2>5
  <1>2. Inv /\ Inv' /\ [Next]_vars =>
          [disk.pending # NoKey /\ disk.rid = dbRid
             => disk.pending \in {disk'.pending, disk'.active}]_vars
    BY <1>1
  <1> QED  BY <1>2, InvAlways, PTL DEF Spec, PendingPromoted

\* What a deployment with a persisted Relay Key keeps on top of Inv.
Sealed ==
    /\ \A d \in {disk} \cup older : d.relay # NoKey
    /\ pc \in {"inspect", "held"} => faults > 0

LEMMA SealedFiles ==
    ASSUME Inv, Sealed, [Next]_vars
    PROVE  \A d \in {disk'} \cup older' : d.relay # NoKey
  <1> DEFINE RelaysSealed == \A d \in {disk'} \cup older' : d.relay # NoKey
  <1>1. ASSUME NEW d, d.relay # NoKey,
               Write(d) \/ RingWriteFails(d) \/ RelayWriteFails(d)
        PROVE  RelaysSealed
    BY <1>1 DEF Write, RingWriteFails, RelayWriteFails, files, Sealed
  <1>2. \A a, p, ph, r : Ring(disk, a, p, ph, r).relay # NoKey
    BY DEF Ring, Sealed
  <1>3. \A k \in Masters : Resealed(disk, k).relay # NoKey
    BY RotationAssumption DEF Resealed, Inv, TypeOK, Disks
  <1>4. CASE UNCHANGED files \/ PowerLoss
    BY <1>4 DEF PowerLoss, Sealed, files
  <1>5. CASE \E k \in Masters : Begin(k)
    BY <1>1, <1>2, <1>5 DEF Begin, Prepared
  <1>6. CASE Rewrap \/ ActivateMaster \/ CheckFails \/ Crash \/ Start \/ Open \/ Refuse
    BY <1>4, <1>6 DEF Rewrap, ActivateMaster, CheckFails, Crash, Start, Open, Refuse
  <1>7. CASE Inspect
    BY <1>1, <1>2, <1>4, <1>7 DEF Inspect, Aborted, files
  <1>8. CASE Reseal
    BY <1>1, <1>3, <1>4, <1>8 DEF Reseal, Inv, TypeOK, files
  <1>9. CASE MarkDBCommitted
    BY <1>1, <1>2, <1>9 DEF MarkDBCommitted, Marked
  <1>10. CASE ActivatePending
    BY <1>1, <1>2, <1>10 DEF ActivatePending, Activated
  <1>11. CASE MarkCleaned
    BY <1>1, <1>2, <1>11 DEF MarkCleaned, Cleaned
  <1>12. CASE RecoverReseal
    <2>1. disk.pending \in Masters
      BY <1>12 DEF RecoverReseal, Inv, Coherent
    <2> QED  BY <1>1, <1>3, <1>12, <2>1 DEF RecoverReseal
  <1>13. CASE Recover
    BY <1>1, <1>2, <1>13 DEF Recover, Advance, Aborted, Marked, Activated, Cleaned
  <1>14. CASE UNCHANGED vars
    BY <1>4, <1>14 DEF vars
  <1> QED  BY <1>4, <1>5, <1>6, <1>7, <1>8, <1>9, <1>10, <1>11, <1>12, <1>13, <1>14
           DEF Next, Rotation, Boot

LEMMA SealedFaults ==
    ASSUME Inv, Sealed, [Next]_vars, pc' \in {"inspect", "held"}
    PROVE  faults' > 0
  <1>1. /\ faults \in Nat
        /\ \A d : Write(d) => faults' = faults
        /\ \A d : RingWriteFails(d) \/ RelayWriteFails(d) => faults' = faults + 1
        /\ Fault => faults' = faults + 1
    BY DEF Inv, TypeOK, Write, RingWriteFails, RelayWriteFails, Fault
  <1>2. CASE \E k \in Masters : Begin(k)
    BY <1>1, <1>2 DEF Begin
  <1>3. CASE Rewrap
    BY <1>1, <1>3 DEF Rewrap
  <1>4. CASE Inspect
    BY <1>1, <1>4 DEF Inspect, Sealed
  <1>5. CASE Reseal
    <2>1. disk.relay # NoKey /\ relay = key
      BY <1>5 DEF Reseal, Inv, Between, Sealed
    <2> QED  BY <1>1, <1>5, <2>1 DEF Reseal, CanReseal
  <1>6. CASE MarkDBCommitted \/ ActivatePending \/ MarkCleaned \/ CheckFails
    BY <1>1, <1>6 DEF MarkDBCommitted, ActivatePending, MarkCleaned, CheckFails
  <1>7. CASE ActivateMaster \/ Crash \/ PowerLoss \/ Boot
    BY <1>7 DEF ActivateMaster, Crash, PowerLoss, Boot, Start, RecoverReseal,
                Recover, Advance, Open, Refuse
  <1>8. CASE UNCHANGED vars
    BY <1>8 DEF vars, Sealed
  <1> QED  BY <1>2, <1>3, <1>4, <1>5, <1>6, <1>7, <1>8 DEF Next, Rotation

(* With a Relay Key on disk, a rotation that holds maintenance has met a   *)
(* failed call.  (Without one it holds for no other reason; see the run    *)
(* KeyRotationEnv.)                                                        *)
THEOREM HeldNeedsFaultAlways ==
    ASSUME Persisted  PROVE Spec => []HeldNeedsFault
  <1>1. Init => Sealed
    BY RotationAssumption DEF Init, Sealed
  <1>2. Inv /\ Sealed /\ [Next]_vars => Sealed'
    BY SealedFiles, SealedFaults DEF Sealed
  <1>3. Sealed => HeldNeedsFault
    BY DEF HeldNeedsFault, Sealed
  <1> QED  BY <1>1, <1>2, <1>3, InvAlways, PTL DEF Spec

-----------------------------------------------------------------------------
(* The quiet process of a rotation (MasterRotation).                         *)


\* Where a rotation request owns the two fences.
OwnsWrites == {"runtime", "draining", "quiesce", "proxyWait", "flush", "rewrap",
               "releaseProxy", "releaseWrites"}
OwnsProxy == {"flush", "rewrap", "releaseProxy"}

\* Each fence is where the rotation that uses it thinks it is.
WritesFence ==
    /\ \A r \in Rotators :
          /\ writesDrain[r] = "alone" <=> rot[r] \in OwnsWrites
          /\ writesDrain[r] = "waiting" <=> rot[r] = "writesWait"
          /\ rot[r] \in OwnsWrites => writers = {}
    /\ (\E r \in Rotators : writesDrain[r] # "away") <=> writesFrozen
    /\ writesIdle = "open" <=> writers # {}
    /\ \A a \in Admins : admin[a] = "in" <=> a \in writers

ProxyFence ==
    /\ \A r \in Rotators :
          /\ proxyDrain[r] = "alone" <=> rot[r] \in OwnsProxy
          /\ proxyDrain[r] = "waiting" <=> rot[r] = "proxyWait"
          /\ rot[r] \in OwnsProxy => handlers = {}
    /\ (\E r \in Rotators : proxyDrain[r] # "away") <=> proxyFrozen
    /\ proxyIdle = "open" <=> handlers # {}
    /\ \A p \in Proxies : proxy[p] # "away" <=> p \in handlers

\* The overlay admits one rotation at a time, and every one runs under it.
OneRotation ==
    /\ \A r \in Rotators : rot[r] # "idle" => overlay
    /\ \A q, r \in Rotators : rot[q] # "idle" /\ rot[r] # "idle" => q = r
    /\ \A r \in Rotators : held =>
          rot[r] \in {"idle", "releaseProxy", "releaseWrites", "leave"}
    /\ held => overlay

\* The gate is shut again once the writes are out, and stays shut.
GateShut ==
    \A r \in Rotators :
        /\ rot[r] \in {"draining", "quiesce", "proxyWait", "flush", "rewrap"} => ~gate
        /\ rot[r] \in {"quiesce", "proxyWait", "flush", "rewrap"} => leases = {}

MInv == /\ MasterTypeOK /\ WritesFence /\ ProxyFence /\ OneRotation /\ GateShut
        /\ NoTrafficWhileHeld

-----------------------------------------------------------------------------
LEMMA MInit == MasterInit => MInv
  BY DEF MasterInit, MInv, MasterTypeOK, WritesFence, ProxyFence, OneRotation, GateShut,
     NoTrafficWhileHeld, OwnsWrites, OwnsProxy, RotSteps, Writes!FenceInit,
     Requests!FenceInit, Writes!FenceTypeOK, Requests!FenceTypeOK

\* Administrative writes: one that is in keeps the rotation out of every step
\* that needs the gate shut.
LEMMA AdminInv ==
    ASSUME MInv, NEW a \in Admins,
           \/ AdminCheck(a) \/ AdminEnter(a) \/ AdminLeave(a)
           \/ \E s \in BOOLEAN : AdminSet(a, s)
    PROVE  MInv'
  <1> USE DEF MInv, MasterTypeOK, WritesFence, ProxyFence, OneRotation, GateShut,
      NoTrafficWhileHeld, Writes!FenceTypeOK, Requests!FenceTypeOK,
      stateVars, synthVars, writesVars, proxyVars
  <1>1. CASE AdminCheck(a)
    BY <1>1 DEF AdminCheck
  <1>2. CASE AdminEnter(a)
    BY <1>2 DEF AdminEnter, Writes!Enter
  <1>3. CASE AdminLeave(a)
    BY <1>3 DEF AdminLeave, Writes!Leave
  <1>4. ASSUME NEW s \in BOOLEAN, AdminSet(a, s) PROVE MInv'
    <2>1. a \in writers
      BY <1>4 DEF AdminSet
    <2>2. \A r \in Rotators : rot[r] \notin OwnsWrites
      BY <2>1
    <2> QED BY <1>4, <2>2 DEF AdminSet, OwnsWrites
  <1> QED BY <1>1, <1>2, <1>3, <1>4

\* Proxied requests: one that is forwarding was admitted before maintenance.
LEMMA ProxyInv ==
    ASSUME MInv, NEW p \in Proxies, ProxyEnter(p) \/ ProxyAdmit(p) \/ ProxyLeave(p)
    PROVE  MInv'
  <1> USE DEF MInv, MasterTypeOK, WritesFence, ProxyFence, OneRotation, GateShut,
      NoTrafficWhileHeld, Writes!FenceTypeOK, Requests!FenceTypeOK,
      stateVars, synthVars, writesVars, proxyVars
  <1>1. CASE ProxyEnter(p)
    BY <1>1 DEF ProxyEnter, Requests!Enter
  <1>2. CASE ProxyAdmit(p)
    BY <1>2 DEF ProxyAdmit
  <1>3. CASE ProxyLeave(p)
    BY <1>3 DEF ProxyLeave, Requests!Leave
  <1> QED BY <1>1, <1>2, <1>3

LEMMA LeaseInv ==
    ASSUME MInv, NEW j \in Attempts, Acquire(j) \/ ReleaseLease(j) PROVE MInv'
  BY DEF Acquire, ReleaseLease, MInv, MasterTypeOK, WritesFence, ProxyFence,
     OneRotation, GateShut, NoTrafficWhileHeld, Writes!FenceTypeOK,
     Requests!FenceTypeOK, stateVars, synthVars, writesVars, proxyVars

\* The rotation, up to the point where it owns the fence of the writes.
LEMMA EnterInv ==
    ASSUME MInv, NEW r \in Rotators,
           TakeMaintenance(r) \/ EnterCancel(r) \/ FreezeWrites(r) \/ WritesDrained(r)
    PROVE  MInv'
  <1>1. CASE TakeMaintenance(r)
    BY <1>1 DEF TakeMaintenance, MInv, MasterTypeOK, WritesFence,
       ProxyFence, OneRotation, GateShut, NoTrafficWhileHeld,
       Writes!FenceTypeOK, Requests!FenceTypeOK, RotSteps, OwnsWrites,
       OwnsProxy, GoesTo, stateVars, synthVars, writesVars, proxyVars
  <1>2. CASE EnterCancel(r)
    <2>1. MasterTypeOK'
      BY <1>2 DEF EnterCancel, MInv, MasterTypeOK, Writes!FenceTypeOK,
         Requests!FenceTypeOK, RotSteps, GoesTo, stateVars, synthVars,
         writesVars, proxyVars
    <2>2. WritesFence'
      BY <1>2 DEF EnterCancel, MInv, MasterTypeOK, WritesFence, OneRotation,
         Writes!FenceTypeOK, OwnsWrites, GoesTo, RotSteps, writesVars,
         proxyVars, stateVars, synthVars
    <2>3. ProxyFence'
      BY <1>2 DEF EnterCancel, MInv, MasterTypeOK, ProxyFence, OwnsProxy, GoesTo,
         proxyVars, stateVars, synthVars
    <2>4. OneRotation' /\ GateShut' /\ NoTrafficWhileHeld'
      BY <1>2 DEF EnterCancel, MInv, MasterTypeOK, OneRotation, GateShut,
         NoTrafficWhileHeld, GoesTo, stateVars, synthVars
    <2> QED BY <2>1, <2>2, <2>3, <2>4 DEF MInv
  <1>3. CASE FreezeWrites(r)
    <2>1. MasterTypeOK'
      BY <1>3 DEF FreezeWrites, Writes!Freeze, MInv, MasterTypeOK,
         Writes!FenceTypeOK, Requests!FenceTypeOK, RotSteps, GoesTo,
         stateVars, synthVars, writesVars, proxyVars
    <2>2. WritesFence'
      BY <1>3 DEF FreezeWrites, Writes!Freeze, MInv, MasterTypeOK, WritesFence,
         OneRotation, Writes!FenceTypeOK, OwnsWrites, GoesTo, RotSteps,
         writesVars, proxyVars, stateVars, synthVars
    <2>3. ProxyFence'
      BY <1>3 DEF FreezeWrites, Writes!Freeze, MInv, MasterTypeOK, ProxyFence,
         OwnsProxy, GoesTo, proxyVars, stateVars, synthVars
    <2>4. OneRotation' /\ GateShut' /\ NoTrafficWhileHeld'
      BY <1>3 DEF FreezeWrites, Writes!Freeze, MInv, MasterTypeOK, OneRotation,
         GateShut, NoTrafficWhileHeld, GoesTo, stateVars, synthVars
    <2> QED BY <2>1, <2>2, <2>3, <2>4 DEF MInv
  <1>4. CASE WritesDrained(r)
    <2>1. CASE Writes!Drained(r) /\ GoesTo(r, "runtime")
      <3>1. MasterTypeOK'
        BY <1>4, <2>1 DEF WritesDrained, Writes!Drained, MInv, MasterTypeOK,
           Writes!FenceTypeOK, Requests!FenceTypeOK, RotSteps, GoesTo,
           stateVars, synthVars, writesVars, proxyVars
      <3>2. WritesFence'
        BY <1>4, <2>1 DEF WritesDrained, Writes!Drained, MInv, MasterTypeOK,
           WritesFence, OneRotation, Writes!FenceTypeOK, OwnsWrites,
           GoesTo, RotSteps, writesVars, proxyVars, stateVars, synthVars
      <3>3. ProxyFence'
        BY <1>4, <2>1 DEF WritesDrained, Writes!Drained, MInv, MasterTypeOK,
           ProxyFence, OwnsProxy, GoesTo, proxyVars, stateVars, synthVars
      <3>4. OneRotation' /\ GateShut' /\ NoTrafficWhileHeld'
        BY <1>4, <2>1 DEF WritesDrained, Writes!Drained, MInv, MasterTypeOK,
           OneRotation, GateShut, NoTrafficWhileHeld, GoesTo, stateVars,
           synthVars
      <3> QED BY <3>1, <3>2, <3>3, <3>4 DEF MInv
    <2>2. CASE Writes!Expire(r) /\ GoesTo(r, "leave")
      <3>1. MasterTypeOK'
        BY <1>4, <2>2 DEF WritesDrained, Writes!Expire, MInv, MasterTypeOK,
           Writes!FenceTypeOK, Requests!FenceTypeOK, RotSteps, GoesTo,
           stateVars, synthVars, writesVars, proxyVars
      <3>2. WritesFence'
        BY <1>4, <2>2 DEF WritesDrained, Writes!Expire, MInv, MasterTypeOK,
           WritesFence, OneRotation, Writes!FenceTypeOK, OwnsWrites,
           GoesTo, RotSteps, writesVars, proxyVars, stateVars, synthVars
      <3>3. ProxyFence'
        BY <1>4, <2>2 DEF WritesDrained, Writes!Expire, MInv, MasterTypeOK,
           ProxyFence, OwnsProxy, GoesTo, proxyVars, stateVars, synthVars
      <3>4. OneRotation' /\ GateShut' /\ NoTrafficWhileHeld'
        BY <1>4, <2>2 DEF WritesDrained, Writes!Expire, MInv, MasterTypeOK,
           OneRotation, GateShut, NoTrafficWhileHeld, GoesTo, stateVars,
           synthVars
      <3> QED BY <3>1, <3>2, <3>3, <3>4 DEF MInv
    <2> QED BY <1>4, <2>1, <2>2 DEF WritesDrained
  <1> QED BY <1>1, <1>2, <1>3, <1>4

\* The rotation, from the second cancellation to the rewrap.
LEMMA QuiesceInv ==
    ASSUME MInv, NEW r \in Rotators,
           \/ CancelSynthetic(r) \/ SyntheticDrained(r) \/ Quiesce(r)
           \/ ProxyDrained(r) \/ Flush(r) \/ RewrapSecrets(r)
    PROVE  MInv'
  <1>1. CASE CancelSynthetic(r)
    <2>1. MasterTypeOK'
      BY <1>1 DEF CancelSynthetic, MInv, MasterTypeOK, Writes!FenceTypeOK,
         Requests!FenceTypeOK, RotSteps, GoesTo, stateVars, synthVars,
         writesVars, proxyVars
    <2>2. WritesFence'
      BY <1>1 DEF CancelSynthetic, MInv, MasterTypeOK, WritesFence,
         OneRotation, Writes!FenceTypeOK, OwnsWrites, GoesTo, RotSteps,
         writesVars, proxyVars, stateVars, synthVars
    <2>3. ProxyFence'
      BY <1>1 DEF CancelSynthetic, MInv, MasterTypeOK, ProxyFence, OwnsProxy,
         GoesTo, proxyVars, stateVars, synthVars
    <2>4. OneRotation' /\ GateShut' /\ NoTrafficWhileHeld'
      BY <1>1 DEF CancelSynthetic, MInv, MasterTypeOK, OneRotation, GateShut,
         NoTrafficWhileHeld, GoesTo, stateVars, synthVars
    <2> QED BY <2>1, <2>2, <2>3, <2>4 DEF MInv
  <1>2. CASE SyntheticDrained(r)
    BY <1>2 DEF SyntheticDrained, MInv, MasterTypeOK, WritesFence,
       ProxyFence, OneRotation, GateShut, NoTrafficWhileHeld,
       Writes!FenceTypeOK, Requests!FenceTypeOK, RotSteps, OwnsWrites,
       OwnsProxy, GoesTo, stateVars, synthVars, writesVars, proxyVars
  <1>3. CASE Quiesce(r)
    <2>1. MasterTypeOK'
      BY <1>3 DEF Quiesce, Requests!Freeze, MInv, MasterTypeOK,
         Writes!FenceTypeOK, Requests!FenceTypeOK, RotSteps, GoesTo,
         stateVars, synthVars, writesVars, proxyVars
    <2>2. WritesFence'
      BY <1>3 DEF Quiesce, Requests!Freeze, MInv, MasterTypeOK, WritesFence,
         OwnsWrites, GoesTo, writesVars, stateVars, synthVars
    <2>3. ProxyFence'
      BY <1>3 DEF Quiesce, Requests!Freeze, MInv, MasterTypeOK, ProxyFence,
         OneRotation, Requests!FenceTypeOK, OwnsProxy, GoesTo, RotSteps,
         writesVars, proxyVars, stateVars, synthVars
    <2>4. OneRotation' /\ GateShut' /\ NoTrafficWhileHeld'
      BY <1>3 DEF Quiesce, Requests!Freeze, MInv, MasterTypeOK, OneRotation,
         GateShut, NoTrafficWhileHeld, GoesTo, stateVars, synthVars,
         ProxyFence, OwnsProxy
    <2> QED BY <2>1, <2>2, <2>3, <2>4 DEF MInv
  <1>4. CASE ProxyDrained(r)
    <2>1. CASE Requests!Drained(r) /\ GoesTo(r, "flush")
      <3>1. MasterTypeOK'
        BY <1>4, <2>1 DEF ProxyDrained, Requests!Drained, MInv, MasterTypeOK,
           Writes!FenceTypeOK, Requests!FenceTypeOK, RotSteps, GoesTo,
           stateVars, synthVars, writesVars, proxyVars
      <3>2. WritesFence'
        BY <1>4, <2>1 DEF ProxyDrained, Requests!Drained, MInv, MasterTypeOK,
           WritesFence, OwnsWrites, GoesTo, writesVars, stateVars,
           synthVars
      <3>3. ProxyFence'
        BY <1>4, <2>1 DEF ProxyDrained, Requests!Drained, MInv, MasterTypeOK,
           ProxyFence, OneRotation, Requests!FenceTypeOK, OwnsProxy,
           GoesTo, RotSteps, writesVars, proxyVars, stateVars, synthVars
      <3>4. OneRotation' /\ GateShut' /\ NoTrafficWhileHeld'
        BY <1>4, <2>1 DEF ProxyDrained, Requests!Drained, MInv, MasterTypeOK,
           OneRotation, GateShut, NoTrafficWhileHeld, GoesTo, stateVars,
           synthVars, ProxyFence, OwnsProxy
      <3> QED BY <3>1, <3>2, <3>3, <3>4 DEF MInv
    <2>2. CASE Requests!Expire(r) /\ GoesTo(r, "releaseWrites")
      <3>1. MasterTypeOK'
        BY <1>4, <2>2 DEF ProxyDrained, Requests!Expire, MInv, MasterTypeOK,
           Writes!FenceTypeOK, Requests!FenceTypeOK, RotSteps, GoesTo,
           stateVars, synthVars, writesVars, proxyVars
      <3>2. WritesFence'
        BY <1>4, <2>2 DEF ProxyDrained, Requests!Expire, MInv, MasterTypeOK,
           WritesFence, OwnsWrites, GoesTo, writesVars, stateVars,
           synthVars
      <3>3. ProxyFence'
        BY <1>4, <2>2 DEF ProxyDrained, Requests!Expire, MInv, MasterTypeOK,
           ProxyFence, OneRotation, Requests!FenceTypeOK, OwnsProxy,
           GoesTo, RotSteps, writesVars, proxyVars, stateVars, synthVars
      <3>4. OneRotation' /\ GateShut' /\ NoTrafficWhileHeld'
        BY <1>4, <2>2 DEF ProxyDrained, Requests!Expire, MInv, MasterTypeOK,
           OneRotation, GateShut, NoTrafficWhileHeld, GoesTo, stateVars,
           synthVars, ProxyFence, OwnsProxy
      <3> QED BY <3>1, <3>2, <3>3, <3>4 DEF MInv
    <2> QED BY <1>4, <2>1, <2>2 DEF ProxyDrained
  <1>5. CASE Flush(r)
    <2>1. CASE GoesTo(r, "rewrap") /\ UNCHANGED proxyVars
      <3>1. MasterTypeOK'
        BY <1>5, <2>1 DEF Flush, MInv, MasterTypeOK, Writes!FenceTypeOK,
           Requests!FenceTypeOK, RotSteps, GoesTo, stateVars, synthVars,
           writesVars, proxyVars
      <3>2. WritesFence'
        BY <1>5, <2>1 DEF Flush, MInv, MasterTypeOK, WritesFence, OwnsWrites,
           GoesTo, writesVars, stateVars, synthVars
      <3>3. ProxyFence'
        BY <1>5, <2>1 DEF Flush, MInv, MasterTypeOK, ProxyFence, OneRotation,
           Requests!FenceTypeOK, OwnsProxy, GoesTo, RotSteps, writesVars,
           proxyVars, stateVars, synthVars
      <3>4. OneRotation' /\ GateShut' /\ NoTrafficWhileHeld'
        BY <1>5, <2>1 DEF Flush, MInv, MasterTypeOK, OneRotation, GateShut,
           NoTrafficWhileHeld, GoesTo, stateVars, synthVars, ProxyFence,
           OwnsProxy
      <3> QED BY <3>1, <3>2, <3>3, <3>4 DEF MInv
    <2>2. CASE Requests!Release(r) /\ GoesTo(r, "releaseWrites")
      <3>1. MasterTypeOK'
        BY <1>5, <2>2 DEF Flush, Requests!Release, MInv, MasterTypeOK,
           Writes!FenceTypeOK, Requests!FenceTypeOK, RotSteps, GoesTo,
           stateVars, synthVars, writesVars, proxyVars
      <3>2. WritesFence'
        BY <1>5, <2>2 DEF Flush, Requests!Release, MInv, MasterTypeOK,
           WritesFence, OwnsWrites, GoesTo, writesVars, stateVars,
           synthVars
      <3>3. ProxyFence'
        BY <1>5, <2>2 DEF Flush, Requests!Release, MInv, MasterTypeOK,
           ProxyFence, OneRotation, Requests!FenceTypeOK, OwnsProxy,
           GoesTo, RotSteps, writesVars, proxyVars, stateVars, synthVars
      <3>4. OneRotation' /\ GateShut' /\ NoTrafficWhileHeld'
        BY <1>5, <2>2 DEF Flush, Requests!Release, MInv, MasterTypeOK,
           OneRotation, GateShut, NoTrafficWhileHeld, GoesTo, stateVars,
           synthVars, ProxyFence, OwnsProxy
      <3> QED BY <3>1, <3>2, <3>3, <3>4 DEF MInv
    <2> QED BY <1>5, <2>1, <2>2 DEF Flush
  <1>6. CASE RewrapSecrets(r)
    <2>5. overlay /\ \A p \in Proxies : proxy[p] # "forwarding"
      BY <1>6 DEF RewrapSecrets, MInv, MasterTypeOK, ProxyFence, OwnsProxy, OneRotation
    <2>1. MasterTypeOK'
      BY <1>6, <2>5 DEF RewrapSecrets, MInv, MasterTypeOK, Writes!FenceTypeOK,
         Requests!FenceTypeOK, RotSteps, GoesTo, stateVars, synthVars,
         writesVars, proxyVars
    <2>2. WritesFence'
      BY <1>6, <2>5 DEF RewrapSecrets, MInv, MasterTypeOK, WritesFence, OwnsWrites,
         GoesTo, writesVars, stateVars, synthVars
    <2>3. ProxyFence'
      BY <1>6, <2>5 DEF RewrapSecrets, MInv, MasterTypeOK, ProxyFence, OneRotation,
         Requests!FenceTypeOK, OwnsProxy, GoesTo, RotSteps, writesVars,
         proxyVars, stateVars, synthVars
    <2>4. OneRotation' /\ GateShut' /\ NoTrafficWhileHeld'
      BY <1>6, <2>5 DEF RewrapSecrets, MInv, MasterTypeOK, OneRotation, GateShut,
         NoTrafficWhileHeld, GoesTo, stateVars, synthVars, ProxyFence,
         OwnsProxy
    <2> QED BY <2>1, <2>2, <2>3, <2>4 DEF MInv
  <1> QED BY <1>1, <1>2, <1>3, <1>4, <1>5, <1>6

\* The deferred calls.
LEMMA LeaveInv ==
    ASSUME MInv, NEW r \in Rotators,
           ReleaseProxy(r) \/ ReleaseWrites(r) \/ LeaveMaintenance(r)
    PROVE  MInv'
  <1>1. CASE ReleaseProxy(r)
    <2>1. MasterTypeOK'
      BY <1>1 DEF ReleaseProxy, Requests!Release, MInv, MasterTypeOK,
         Writes!FenceTypeOK, Requests!FenceTypeOK, RotSteps, GoesTo,
         stateVars, synthVars, writesVars, proxyVars
    <2>2. WritesFence'
      BY <1>1 DEF ReleaseProxy, Requests!Release, MInv, MasterTypeOK,
         WritesFence, OwnsWrites, GoesTo, writesVars, stateVars, synthVars
    <2>3. ProxyFence'
      BY <1>1 DEF ReleaseProxy, Requests!Release, MInv, MasterTypeOK,
         ProxyFence, OneRotation, Requests!FenceTypeOK, OwnsProxy, GoesTo,
         RotSteps, writesVars, proxyVars, stateVars, synthVars
    <2>4. OneRotation' /\ GateShut' /\ NoTrafficWhileHeld'
      BY <1>1 DEF ReleaseProxy, Requests!Release, MInv, MasterTypeOK,
         OneRotation, GateShut, NoTrafficWhileHeld, GoesTo, stateVars,
         synthVars, ProxyFence, OwnsProxy
    <2> QED BY <2>1, <2>2, <2>3, <2>4 DEF MInv
  <1>2. CASE ReleaseWrites(r)
    <2>1. MasterTypeOK'
      BY <1>2 DEF ReleaseWrites, Writes!Release, MInv, MasterTypeOK,
         Writes!FenceTypeOK, Requests!FenceTypeOK, RotSteps, GoesTo,
         stateVars, synthVars, writesVars, proxyVars
    <2>2. WritesFence'
      BY <1>2 DEF ReleaseWrites, Writes!Release, MInv, MasterTypeOK,
         WritesFence, OneRotation, Writes!FenceTypeOK, OwnsWrites, GoesTo,
         RotSteps, writesVars, proxyVars, stateVars, synthVars
    <2>3. ProxyFence'
      BY <1>2 DEF ReleaseWrites, Writes!Release, MInv, MasterTypeOK,
         ProxyFence, OwnsProxy, GoesTo, proxyVars, stateVars, synthVars
    <2>4. OneRotation' /\ GateShut' /\ NoTrafficWhileHeld'
      BY <1>2 DEF ReleaseWrites, Writes!Release, MInv, MasterTypeOK,
         OneRotation, GateShut, NoTrafficWhileHeld, GoesTo, stateVars,
         synthVars
    <2> QED BY <2>1, <2>2, <2>3, <2>4 DEF MInv
  <1>3. CASE LeaveMaintenance(r)
    <2>1. MasterTypeOK'
      BY <1>3 DEF LeaveMaintenance, MInv, MasterTypeOK, Writes!FenceTypeOK,
         Requests!FenceTypeOK, RotSteps, GoesTo, stateVars, synthVars,
         writesVars, proxyVars
    <2>2. WritesFence'
      BY <1>3 DEF LeaveMaintenance, MInv, MasterTypeOK, WritesFence, OneRotation,
         Writes!FenceTypeOK, OwnsWrites, GoesTo, RotSteps, writesVars,
         proxyVars, stateVars, synthVars
    <2>3. ProxyFence'
      BY <1>3 DEF LeaveMaintenance, MInv, MasterTypeOK, ProxyFence, OwnsProxy, GoesTo,
         proxyVars, stateVars, synthVars
    <2>4. OneRotation' /\ GateShut' /\ NoTrafficWhileHeld'
      BY <1>3 DEF LeaveMaintenance, MInv, MasterTypeOK, OneRotation, GateShut,
         NoTrafficWhileHeld, GoesTo, stateVars, synthVars
    <2> QED BY <2>1, <2>2, <2>3, <2>4 DEF MInv
  <1> QED BY <1>1, <1>2, <1>3

LEMMA MNext == MInv /\ [MasterNext]_masterVars => MInv'
  <1> SUFFICES ASSUME MInv, [MasterNext]_masterVars PROVE MInv'
    OBVIOUS
  <1>1. CASE UNCHANGED masterVars
    BY <1>1 DEF masterVars, MInv, MasterTypeOK, WritesFence, ProxyFence, OneRotation,
       GateShut, NoTrafficWhileHeld, Writes!FenceTypeOK, Requests!FenceTypeOK,
       stateVars, synthVars, writesVars, proxyVars
  <1>2. CASE MasterNext
    BY <1>2, AdminInv, ProxyInv, LeaseInv, EnterInv, QuiesceInv, LeaveInv
       DEF MasterNext, Rotate
  <1> QED BY <1>1, <1>2

LEMMA MInductive == MasterSpec => []MInv
  BY MInit, MNext, PTL DEF MasterSpec

-----------------------------------------------------------------------------
(* When secrets are rewrapped nothing else of the process is at work,      *)
(* however many requests and rotations race for it.                        *)
THEOREM QuietRewrapAlways == MasterSpec => []QuietRewrap
  <1>1. MInv => QuietRewrap
    BY DEF MInv, QuietRewrap, WritesFence, ProxyFence, OneRotation, GateShut,
       OwnsWrites, OwnsProxy
  <1> QED BY <1>1, MInductive, PTL

(* After a rotation that had to hold maintenance no request goes upstream. *)
THEOREM NoTrafficWhileHeldAlways == MasterSpec => []NoTrafficWhileHeld
  <1>1. MInv => NoTrafficWhileHeld
    BY DEF MInv
  <1> QED BY <1>1, MInductive, PTL

(* Both, as the runs check them.                                           *)
THEOREM RotationIsQuietAlways == MasterSpec => []RotationIsQuiet
  <1>1. QuietRewrap /\ NoTrafficWhileHeld => RotationIsQuiet
    BY DEF RotationIsQuiet
  <1> QED BY <1>1, QuietRewrapAlways, NoTrafficWhileHeldAlways, PTL

(* No fence stays frozen behind a rotation.                                *)
THEOREM NothingLeftFrozenAlways == MasterSpec => []NothingLeftFrozen
  <1>1. MInv => NothingLeftFrozen
    BY DEF MInv, NothingLeftFrozen, WritesFence, ProxyFence, OneRotation,
       MasterTypeOK, Writes!FenceTypeOK, Requests!FenceTypeOK, OwnsWrites, OwnsProxy
  <1> QED BY <1>1, MInductive, PTL

(***************************************************************************)
(* The fence.                                                              *)
(***************************************************************************)

\* A drainer that was let through is alone.
AloneIsEmpty == \A d \in Drainers : drain[d] = "alone" => inside = {}

FenceInv == FenceTypeOK /\ SignalsTruth /\ OneDrainer /\ AloneIsEmpty

LEMMA FenceInitInv == FenceInit => FenceInv
  BY DEF FenceInit, FenceInv, FenceTypeOK, SignalsTruth, OneDrainer, AloneIsEmpty

LEMMA FenceStepInv == FenceInv /\ [FenceNext]_fenceVars => FenceInv'
  <1> SUFFICES ASSUME FenceInv, [FenceNext]_fenceVars PROVE FenceInv'
    OBVIOUS
  <1> USE DEF FenceInv, FenceTypeOK, SignalsTruth, OneDrainer, AloneIsEmpty
  <1>1. ASSUME NEW w \in Workers, Enter(w) PROVE FenceInv'
    BY <1>1 DEF Enter
  <1>2. ASSUME NEW w \in Workers, Leave(w) PROVE FenceInv'
    BY <1>2 DEF Leave
  <1>3. ASSUME NEW d \in Drainers, Freeze(d) PROVE FenceInv'
    BY <1>3 DEF Freeze
  <1>4. ASSUME NEW d \in Drainers, Drained(d) PROVE FenceInv'
    BY <1>4 DEF Drained
  <1>5. ASSUME NEW d \in Drainers, Expire(d) \/ Release(d) PROVE FenceInv'
    BY <1>5 DEF Expire, Release
  <1>6. CASE UNCHANGED fenceVars
    BY <1>6 DEF fenceVars
  <1> QED BY <1>1, <1>2, <1>3, <1>4, <1>5, <1>6 DEF FenceNext

LEMMA FenceInductive == FenceSpec => []FenceInv
  BY FenceInitInv, FenceStepInv, PTL DEF FenceSpec

-----------------------------------------------------------------------------
(* The channel a drainer waits on is open exactly while a worker is in, so *)
(* no drainer is let through early and no channel is closed twice.         *)
THEOREM SignalsTruthAlways == FenceSpec => []SignalsTruth
  <1>1. FenceInv => SignalsTruth
    BY DEF FenceInv
  <1> QED BY <1>1, FenceInductive, PTL

(* One drainer at a time owns the fence.                                   *)
THEOREM OneDrainerAlways == FenceSpec => []OneDrainer
  <1>1. FenceInv => OneDrainer
    BY DEF FenceInv
  <1> QED BY <1>1, FenceInductive, PTL

(* The mutex, counter and channel implement the exclusion they are there   *)
(* for: each step of the fence is a step of Exclusion or none.             *)
THEOREM FenceImplementsExclusion == FenceSpec => IsExclusion
  <1> DEFINE alone == {d \in Drainers : drain[d] = "alone"}
  <1>1. FenceInit => Promise!Init
    BY DEF FenceInit, Promise!Init
  <1>2. FenceInv /\ [FenceNext]_fenceVars => [Promise!Next]_(Promise!vars)
    <2> SUFFICES ASSUME FenceInv, [FenceNext]_fenceVars
                 PROVE  [Promise!Next]_(Promise!vars)
      OBVIOUS
    <2> USE DEF Promise!Next, Promise!vars, FenceInv, FenceTypeOK
    <2>1. ASSUME NEW w \in Workers, Enter(w) PROVE Promise!Enter(w)
      BY <2>1 DEF Enter, Promise!Enter, OneDrainer
    <2>2. ASSUME NEW w \in Workers, Leave(w) PROVE Promise!Leave(w)
      BY <2>2 DEF Leave, Promise!Leave
    <2>3. ASSUME NEW d \in Drainers, Freeze(d)
          PROVE  Promise!Isolate(d) \/ UNCHANGED Promise!vars
      <3>1. alone = {}
        BY <2>3 DEF Freeze, OneDrainer
      <3>2. CASE inside = {} /\ ~WaitsWhenEmpty
        <4>1. alone' = {d}
          BY <2>3, <3>1, <3>2 DEF Freeze
        <4> QED BY <2>3, <3>1, <3>2, <4>1 DEF Freeze, Promise!Isolate
      <3>3. CASE ~(inside = {} /\ ~WaitsWhenEmpty)
        <4>1. alone' = alone
          BY <2>3, <3>1, <3>3 DEF Freeze
        <4> QED BY <2>3, <3>1, <4>1 DEF Freeze
      <3> QED BY <3>2, <3>3
    <2>4. ASSUME NEW d \in Drainers, Drained(d) PROVE Promise!Isolate(d)
      <3>1. alone = {} /\ inside = {}
        BY <2>4 DEF Drained, OneDrainer, SignalsTruth
      <3>2. alone' = {d}
        BY <2>4, <3>1 DEF Drained
      <3> QED BY <2>4, <3>1, <3>2 DEF Drained, Promise!Isolate
    <2>5. ASSUME NEW d \in Drainers, Expire(d) PROVE UNCHANGED Promise!vars
      <3>1. alone' = alone
        BY <2>5 DEF Expire
      <3> QED BY <2>5, <3>1 DEF Expire
    <2>6. ASSUME NEW d \in Drainers, Release(d) PROVE Promise!Rejoin(d)
      <3>1. d \in alone /\ alone' = alone \ {d}
        BY <2>6 DEF Release
      <3> QED BY <2>6, <3>1 DEF Release, Promise!Rejoin
    <2>7. CASE UNCHANGED fenceVars
      BY <2>7 DEF fenceVars
    <2> QED BY <2>1, <2>2, <2>3, <2>4, <2>5, <2>6, <2>7 DEF FenceNext
  <1> QED BY <1>1, <1>2, FenceInductive, PTL DEF FenceSpec, IsExclusion, Promise!Spec

(***************************************************************************)
(* The public edge, by itself.                                             *)
(***************************************************************************)

\* What the places of the manager are called.
Attempting == {"reload", "confirm", "keep", "rollback", "back"}
Places == {"boot", "probe", "issue", "select", "renew", "publish", "retire", "down"}
          \cup Attempting

Gens   == 0 .. MaxGenerations
Certs  == 0 .. MaxCertificates
States == [phase : {"acme_only", "issuing", "validating", "live_https", "expired", "failed"},
           allowed : BOOLEAN, cert : Certs, gen : Gens]
EdgeTypes ==
    /\ st \in States /\ state \in States /\ before \in [st : States, conf : Gens]
    /\ dirs \in [1 .. MaxGenerations -> Certs] /\ conf \in Gens /\ generations \in Gens
    /\ nginx \in [up : BOOLEAN, loaded : Certs, reload : BOOLEAN]
    /\ handle \in BOOLEAN /\ looping \in BOOLEAN /\ place \in Places
    /\ lineage \in Certs /\ expired \in 0 .. lineage
    /\ failed \in [stops : Nat, writes : Nat]

\* A directory is new, and what there is to go back to is older.
Fresher ==
    /\ place = "publish" => generations < MaxGenerations
    /\ {st.gen, state.gen, conf} \subseteq 0 .. generations
    /\ \A g \in 1 .. MaxGenerations : generations < g => dirs[g] = None
    /\ place \in Attempting \cup {"retire"} =>
          before.st.gen < generations /\ before.conf < generations

(* What is allowed is what the configuration names, or the configuration     *)
(* names files that are gone: whether a reload comes late does not matter.   *)
Allows(s)     == s.allowed /\ Valid(s.cert)
Backed(s, c)  == Allows(s) => c # None /\ CertOf(c) \in {None, s.cert}
Resting       == {"select", "renew", "publish"}
HeldServes ==
    /\ place \in Resting => /\ Backed(st, conf)
                            /\ Allows(st) /\ nginx.up => nginx.loaded = st.cert
    /\ place \in Attempting => Backed(before.st, before.conf)

(* What the manager knows at each of its places.                             *)
Knows ==
    /\ place = "boot" => ~Allows(st)
    /\ place = "issue" => ~st.allowed
    /\ place = "probe" => conf = st.gen
    /\ place \in {"reload", "confirm"} => conf = generations
    /\ place \in {"keep", "back"} => conf = before.conf
    /\ place = "retire" => /\ conf = generations /\ st.gen = generations
                           /\ generations # None /\ st.cert = CertOf(generations)
                           /\ nginx.up => nginx.loaded = st.cert

(* While every write of the state was done, the key each names is there.     *)
Names(s) == s.gen # None => CertOf(s.gen) = s.cert
KeysKept ==
    failed.writes = 0 =>
        /\ Names(st) /\ Names(state) /\ Names(before.st)
        /\ place = "retire" => state.gen = st.gen

EdgeInv == EdgeTypes /\ Fresher /\ HeldServes /\ Knows /\ KeysKept
-----------------------------------------------------------------------------
LEMMA EdgeTypesAre ==
    ASSUME EdgeTypes
    PROVE  /\ MaxGenerations \in Nat /\ MaxCertificates \in Nat
           /\ generations \in Nat /\ generations <= MaxGenerations
           /\ conf \in Nat /\ conf <= MaxGenerations
           /\ lineage \in Nat /\ expired \in Nat /\ expired <= lineage
           /\ None = 0 /\ None \in Gens /\ None \in Certs
BY EdgeAssumption DEF EdgeTypes, Gens, Certs, None

LEMMA StatesAre ==
    ASSUME NEW s \in States
    PROVE  s.allowed \in BOOLEAN /\ s.cert \in Certs /\ s.gen \in Gens
BY DEF States

\* CertOf is a certificate, and 0 for the generation 0.
LEMMA CertOfIs ==
    ASSUME EdgeTypes, NEW g \in Gens
    PROVE  CertOf(g) \in Certs /\ (g = None => CertOf(g) = None)
<1> USE EdgeTypesAre
<1>1. CASE g = None
    BY <1>1 DEF CertOf
<1>2. CASE g # None
    <2>1. g \in 1 .. MaxGenerations
        BY <1>2 DEF Gens, None
    <2> QED
        BY <1>2, <2>1 DEF CertOf, EdgeTypes
<1> QED
    BY <1>1, <1>2

\* The state as it is shown and as a failure leaves it, field by field.
LEMMA SaysIs ==
    ASSUME NEW s \in States, NEW allowed \in BOOLEAN,
           NEW phase \in {"acme_only", "issuing", "validating", "live_https", "expired", "failed"}
    PROVE  /\ Says(s, phase, allowed) \in States
           /\ Says(s, phase, allowed).cert = s.cert /\ Says(s, phase, allowed).gen = s.gen
           /\ Says(s, phase, allowed).allowed = allowed
<1>1. Says(s, phase, allowed) \in States
    BY StatesAre DEF Says, States
<1>2. Says(s, phase, allowed).cert = s.cert /\ Says(s, phase, allowed).gen = s.gen
    BY DEF Says
<1>3. Says(s, phase, allowed).allowed = allowed
    BY Zenon DEF Says
<1> QED
    BY <1>1, <1>2, <1>3, Zenon

LEMMA MaskedIs ==
    ASSUME NEW s \in States
    PROVE  /\ Masked(s) \in States
           /\ Masked(s).cert = s.cert /\ Masked(s).gen = s.gen
           /\ Masked(s).allowed <=> Allows(s)
           /\ Allows(Masked(s)) <=> Allows(s)
<1>1. (s.allowed /\ Valid(s.cert)) \in BOOLEAN
    OBVIOUS
<1>2. Masked(s) \in States /\ Masked(s).cert = s.cert /\ Masked(s).gen = s.gen
    BY <1>1 DEF Masked, States
<1>3. Masked(s).allowed = (s.allowed /\ Valid(s.cert))
    BY Zenon DEF Masked, States
<1> QED
    BY <1>2, <1>3 DEF Allows

LEMMA FailedIs ==
    ASSUME NEW s \in States, NEW alive \in BOOLEAN
    PROVE  /\ Failed(s, alive) \in States
           /\ Failed(s, alive).cert = s.cert /\ Failed(s, alive).gen = s.gen
           /\ Failed(s, alive).allowed <=> Allows(s) /\ alive
<1>1. CASE Masked(s).allowed /\ alive
    <2>1. Failed(s, alive) = Says(s, s.phase, TRUE)
        BY <1>1 DEF Failed
    <2>2. s.phase \in {"acme_only", "issuing", "validating", "live_https", "expired", "failed"}
        BY DEF States
    <2>3. /\ Says(s, s.phase, TRUE) \in States /\ Says(s, s.phase, TRUE).allowed = TRUE
          /\ Says(s, s.phase, TRUE).cert = s.cert /\ Says(s, s.phase, TRUE).gen = s.gen
        BY <2>2, SaysIs, Zenon
    <2> QED
        BY <1>1, <2>1, <2>3, MaskedIs, Zenon
<1>2. CASE ~(Masked(s).allowed /\ alive)
    <2>1. PICK phase \in {"expired", "failed"} : Failed(s, alive) = Says(s, phase, FALSE)
        BY <1>2 DEF Failed
    <2>2. /\ Says(s, phase, FALSE) \in States /\ Says(s, phase, FALSE).allowed = FALSE
          /\ Says(s, phase, FALSE).cert = s.cert /\ Says(s, phase, FALSE).gen = s.gen
        <3>1. phase \in {"acme_only", "issuing", "validating", "live_https", "expired", "failed"}
            BY <2>1
        <3> QED
            BY <3>1, SaysIs, Zenon
    <2> QED
        <3>1. Failed(s, alive).allowed = FALSE
            BY <2>1, <2>2, Zenon
        <3>2. ~(Allows(s) /\ alive)
            BY <1>2, MaskedIs, Zenon
        <3> QED
            BY <2>1, <2>2, <3>1, <3>2, Zenon
<1> QED
    BY <1>1, <1>2

(* A write of the state: done, or reported as failed, with either outcome;   *)
(* or none.                                                                  *)
Stores(s) ==
    /\ state' \in States /\ state'.gen \in {state.gen, s.gen}
    /\ failed' \in [stops : Nat, writes : Nat]
    /\ failed'.writes = 0 =>
          /\ failed.writes = 0
          /\ state' = state \/ (state'.gen = s.gen /\ state'.cert = s.cert)

LEMMA WrittenIs ==
    ASSUME EdgeTypes, NEW s \in States, Written(s) \/ WriteFails(s)
    PROVE  /\ Stores(s)
           /\ failed'.writes = 0 => state'.gen = s.gen /\ state'.cert = s.cert
<1>1. state' \in States /\ state'.gen \in {state.gen, s.gen}
    BY MaskedIs DEF Written, WriteFails, EdgeTypes
<1>2. Written(s) => state'.gen = s.gen /\ state'.cert = s.cert
    BY MaskedIs DEF Written
<1>3. CASE Written(s)
    BY <1>1, <1>2, <1>3, MaskedIs DEF Written, EdgeTypes, Stores
<1>4. CASE WriteFails(s)
    <2>1. failed' \in [stops : Nat, writes : Nat] /\ failed'.writes = failed.writes + 1
        BY <1>4 DEF WriteFails, BadWriting, EdgeTypes
    <2> QED
        BY <1>1, <1>2, <2>1 DEF EdgeTypes, Stores
<1> QED
    BY <1>3, <1>4

LEMMA StoresNothing ==
    ASSUME EdgeTypes, NEW s \in States, UNCHANGED <<state, failed>>
    PROVE  Stores(s)
<1>1. state' = state /\ failed' = failed
    OBVIOUS
<1>2. state \in States /\ failed \in [stops : Nat, writes : Nat]
    BY DEF EdgeTypes
<1> QED
    BY <1>1, <1>2, Zenon DEF Stores

LEMMA SaveIs ==
    ASSUME EdgeTypes, NEW s \in States, Save(s)
    PROVE  /\ st' = s /\ st' \in States /\ Stores(s)
           /\ failed'.writes = 0 => state'.gen = s.gen /\ state'.cert = s.cert
BY WrittenIs DEF Save

LEMMA FailIs ==
    ASSUME EdgeTypes, NEW s \in States, NEW alive \in BOOLEAN, Fail(s, alive)
    PROVE  /\ st' \in States /\ st'.gen = s.gen /\ st'.cert = s.cert
           /\ st'.allowed <=> Allows(s) /\ alive
           /\ Stores(s)
           /\ failed'.writes = 0 => state'.gen = s.gen /\ state'.cert = s.cert
           /\ handle' \in BOOLEAN /\ handle' = alive
<1>1. Failed(s, alive) \in States /\ Save(Failed(s, alive)) /\ handle' = alive
    BY FailedIs DEF Fail
<1>2. /\ st' = Failed(s, alive) /\ Stores(Failed(s, alive))
      /\ failed'.writes = 0 => /\ state'.gen = Failed(s, alive).gen
                               /\ state'.cert = Failed(s, alive).cert
    BY <1>1, SaveIs
<1> QED
    BY <1>1, <1>2, FailedIs DEF Stores

LEMMA EdgeStart == EdgeInit => EdgeInv
<1> SUFFICES ASSUME EdgeInit PROVE EdgeInv
    OBVIOUS
<1> USE EdgeAssumption
<1>1. Fresh \in States /\ ~Fresh.allowed /\ Fresh.gen = None /\ Fresh.cert = None
    BY DEF Fresh, States, Certs, Gens, None
<1>2. EdgeTypes
    <2>1. before \in [st : States, conf : Gens]
        BY <1>1 DEF EdgeInit, NoBack, Gens, None
    <2>2. nginx \in [up : BOOLEAN, loaded : Certs, reload : BOOLEAN]
        BY DEF EdgeInit, Off, Certs, None
    <2>3. failed \in [stops : Nat, writes : Nat]
        BY DEF EdgeInit
    <2> QED
        <3>1. dirs \in [1 .. MaxGenerations -> Certs]
            BY DEF EdgeInit, Certs, None
        <3>2. /\ conf \in Gens /\ generations \in Gens /\ lineage \in Certs /\ expired \in 0 .. lineage
              /\ place \in Places
            BY DEF EdgeInit, Certs, Gens, None, Places
        <3>3. st \in States /\ state \in States /\ handle \in BOOLEAN /\ looping \in BOOLEAN
            BY <1>1, Zenon DEF EdgeInit
        <3> QED
            BY <2>1, <2>2, <2>3, <3>1, <3>2, <3>3, Zenon DEF EdgeTypes
<1>3. Fresher /\ HeldServes /\ Knows
    BY <1>1 DEF EdgeInit, Fresher, HeldServes, Knows, Attempting, Resting, Allows, None
<1>4. KeysKept
    BY <1>1 DEF EdgeInit, KeysKept, Names, NoBack
<1> QED
    BY <1>2, <1>3, <1>4 DEF EdgeInv

\* A signal changes only that Nginx will read its configuration.
LEMMA AsksReloadIs ==
    ASSUME EdgeTypes, AsksReload
    PROVE  /\ nginx' \in [up : BOOLEAN, loaded : Certs, reload : BOOLEAN]
           /\ nginx'.up = nginx.up /\ nginx'.loaded = nginx.loaded
<1>1. (nginx.reload \/ nginx.up) \in BOOLEAN
    OBVIOUS
<1> QED
    BY <1>1 DEF AsksReload, EdgeTypes

LEMMA RenewKeeps == ASSUME EdgeInv, Renew PROVE EdgeInv'
<1> USE EdgeTypesAre, EdgeAssumption DEF EdgeInv
<1>1. Stores(st)
    BY WrittenIs, StoresNothing DEF Renew, EdgeTypes
<1>2. /\ place' \in {"renew", "select", "boot"} /\ looping' = looping
      /\ (place' = "boot" => ~Allows(st))
    BY MaskedIs DEF Renew, control, GoTo, EdgeTypes
<1>3. EdgeTypes'
    BY <1>1, <1>2
       DEF Renew, around, control, GoTo, Return, Stores, EdgeTypes, Places, Attempting
<1>4. Fresher'
    BY <1>1, <1>2
       DEF Renew, around, control, GoTo, Return, Stores, Fresher, EdgeTypes,
           Attempting, Gens
<1>5. HeldServes'
    BY <1>1, <1>2
       DEF Renew, around, control, GoTo, Return, Stores, HeldServes, Knows, Fresher,
           Backed, Allows, Valid, CertOf, Attempting, Resting, None
<1>6. Knows'
    BY <1>1, <1>2
       DEF Renew, around, control, GoTo, Return, Stores, Knows, HeldServes, Fresher,
           Allows, Valid, CertOf, Attempting, None
<1>7. KeysKept'
    BY <1>1, <1>2
       DEF Renew, around, control, GoTo, Return, Stores, KeysKept, Knows, Fresher,
           Names, CertOf, Attempting, None
<1> QED
    BY <1>3, <1>4, <1>5, <1>6, <1>7 DEF EdgeInv

LEMMA RenewReturnsKeeps == ASSUME EdgeInv, RenewReturns PROVE EdgeInv'
<1> USE EdgeTypesAre, EdgeAssumption DEF EdgeInv
<1>1. /\ st' \in States /\ st'.gen = st.gen /\ st'.cert = st.cert /\ (st'.allowed => st.allowed)
    /\ Stores(st)
    <2>1. st \in States /\ handle \in BOOLEAN
        BY DEF EdgeTypes
    <2>2. CASE Save(st)
        BY <2>1, <2>2, SaveIs
    <2>3. CASE UNCHANGED <<st, state, failed>>
        BY <2>1, <2>3, StoresNothing
    <2>4. CASE Fail(st, handle)
        BY <2>1, <2>4, FailIs DEF Allows
    <2> QED
        BY <2>2, <2>3, <2>4 DEF RenewReturns
<1>2. /\ place' \in {"select", "publish"} /\ looping' = looping /\ handle' \in BOOLEAN
    /\ (place' = "publish" => generations < MaxGenerations)
    BY FailIs DEF RenewReturns, GoTo, Installable, EdgeTypes
<1>3. lineage' \in Certs /\ lineage <= lineage' /\ expired \in 0 .. lineage'
    BY DEF RenewReturns, Certbot, Certs, EdgeTypes
<1>4. EdgeTypes'
    BY <1>1, <1>2, <1>3
       DEF RenewReturns, around, control, GoTo, Return, Stores, EdgeTypes, Places,
           Attempting
<1>5. Fresher'
    BY <1>1, <1>2, <1>3
       DEF RenewReturns, around, control, GoTo, Return, Stores, Fresher, EdgeTypes,
           Attempting, Gens
<1>6. HeldServes'
    BY <1>1, <1>2, <1>3
       DEF RenewReturns, around, control, GoTo, Return, Stores, HeldServes, Knows,
           Fresher, Backed, Allows, Valid, CertOf, Attempting, Resting, None
<1>7. Knows'
    BY <1>1, <1>2, <1>3
       DEF RenewReturns, around, control, GoTo, Return, Stores, Knows, HeldServes,
           Fresher, Allows, Valid, CertOf, Attempting, None
<1>8. KeysKept'
    BY <1>1, <1>2, <1>3
       DEF RenewReturns, around, control, GoTo, Return, Stores, KeysKept, Knows,
           Fresher, Names, CertOf, Attempting, None
<1> QED
    BY <1>4, <1>5, <1>6, <1>7, <1>8 DEF EdgeInv

LEMMA ReloadKeeps == ASSUME EdgeInv, Reload PROVE EdgeInv'
<1> USE EdgeTypesAre, EdgeAssumption DEF EdgeInv
<1>1. /\ nginx' \in [up : BOOLEAN, loaded : Certs, reload : BOOLEAN]
      /\ nginx'.up = nginx.up /\ nginx'.loaded = nginx.loaded
    BY AsksReloadIs DEF Reload
<1>2. EdgeTypes'
    BY <1>1
       DEF Reload, AsksReload, around, control, GoTo, Return, Stores, EdgeTypes,
           Places, Attempting
<1>3. Fresher'
    BY <1>1
       DEF Reload, AsksReload, around, control, GoTo, Return, Stores, Fresher,
           EdgeTypes, Attempting, Gens
<1>4. HeldServes'
    BY <1>1
       DEF Reload, AsksReload, around, control, GoTo, Return, Stores, HeldServes,
           Knows, Fresher, Backed, Allows, Valid, CertOf, Attempting, Resting, None
<1>5. Knows'
    BY <1>1
       DEF Reload, AsksReload, around, control, GoTo, Return, Stores, Knows,
           HeldServes, Fresher, Allows, Valid, CertOf, Attempting, None
<1>6. KeysKept'
    BY <1>1
       DEF Reload, AsksReload, around, control, GoTo, Return, Stores, KeysKept, Knows,
           Fresher, Names, CertOf, Attempting, None
<1> QED
    BY <1>2, <1>3, <1>4, <1>5, <1>6 DEF EdgeInv

LEMMA ReloadFailsKeeps == ASSUME EdgeInv, ReloadFails PROVE EdgeInv'
<1> USE EdgeTypesAre, EdgeAssumption DEF EdgeInv
<1>1. /\ nginx' \in [up : BOOLEAN, loaded : Certs, reload : BOOLEAN]
      /\ nginx'.up = nginx.up /\ nginx'.loaded = nginx.loaded
    BY AsksReloadIs DEF ReloadFails, EdgeTypes
<1>2. before.conf \in Gens
    BY DEF EdgeTypes
<1>3. place' \in {"keep", "rollback"} /\ conf' \in {conf, before.conf}
    BY DEF ReloadFails, GoTo
<1>4. EdgeTypes'
    BY <1>1, <1>2, <1>3
       DEF ReloadFails, around, control, GoTo, Return, Stores, EdgeTypes, Places,
           Attempting
<1>5. Fresher'
    BY <1>1, <1>2, <1>3
       DEF ReloadFails, around, control, GoTo, Return, Stores, Fresher, EdgeTypes,
           Attempting, Gens
<1>6. HeldServes'
    BY <1>1, <1>2, <1>3
       DEF ReloadFails, around, control, GoTo, Return, Stores, HeldServes, Knows,
           Fresher, Backed, Allows, Valid, CertOf, Attempting, Resting, None
<1>7. Knows'
    BY <1>1, <1>2, <1>3
       DEF ReloadFails, around, control, GoTo, Return, Stores, Knows, HeldServes,
           Fresher, Allows, Valid, CertOf, Attempting, None
<1>8. KeysKept'
    BY <1>1, <1>2, <1>3
       DEF ReloadFails, around, control, GoTo, Return, Stores, KeysKept, Knows,
           Fresher, Names, CertOf, Attempting, None
<1> QED
    BY <1>4, <1>5, <1>6, <1>7, <1>8 DEF EdgeInv

LEMMA NginxReloadsKeeps == ASSUME EdgeInv, NginxReloads PROVE EdgeInv'
<1> USE EdgeTypesAre, EdgeAssumption DEF EdgeInv
<1>1. WillLoad \in Certs
    BY CertOfIs DEF WillLoad, EdgeTypes
<1>2. /\ nginx' \in [up : BOOLEAN, loaded : Certs, reload : BOOLEAN]
      /\ nginx'.up = nginx.up /\ nginx'.loaded = WillLoad
    BY <1>1 DEF NginxReloads, EdgeTypes
<1>3. EdgeTypes'
    BY <1>1, <1>2
       DEF NginxReloads, WillLoad, around, control, GoTo, Return, Stores, EdgeTypes,
           Places, Attempting
<1>4. Fresher'
    BY <1>1, <1>2
       DEF NginxReloads, WillLoad, around, control, GoTo, Return, Stores, Fresher,
           EdgeTypes, Attempting, Gens
<1>5. HeldServes'
    BY <1>1, <1>2
       DEF NginxReloads, WillLoad, around, control, GoTo, Return, Stores, HeldServes,
           Knows, Fresher, Backed, Allows, Valid, CertOf, Attempting, Resting, None
<1>6. Knows'
    BY <1>1, <1>2
       DEF NginxReloads, WillLoad, around, control, GoTo, Return, Stores, Knows,
           HeldServes, Fresher, Allows, Valid, CertOf, Attempting, None
<1>7. KeysKept'
    BY <1>1, <1>2
       DEF NginxReloads, WillLoad, around, control, GoTo, Return, Stores, KeysKept,
           Knows, Fresher, Names, CertOf, Attempting, None
<1> QED
    BY <1>3, <1>4, <1>5, <1>6, <1>7 DEF EdgeInv

LEMMA NginxDiesKeeps == ASSUME EdgeInv, NginxDies PROVE EdgeInv'
<1> USE EdgeTypesAre, EdgeAssumption DEF EdgeInv
<1>1. nginx' \in [up : BOOLEAN, loaded : Certs, reload : BOOLEAN] /\ nginx'.up = FALSE
    BY DEF NginxDies, Killed, Off, Certs, None
<1>2. failed' \in [stops : Nat, writes : Nat] /\ failed'.writes = failed.writes
    BY DEF NginxDies, Stopping, EdgeTypes
<1>3. EdgeTypes'
    BY <1>1, <1>2
       DEF NginxDies, around, control, GoTo, Return, Stores, EdgeTypes, Places,
           Attempting
<1>4. Fresher'
    BY <1>1, <1>2
       DEF NginxDies, around, control, GoTo, Return, Stores, Fresher, EdgeTypes,
           Attempting, Gens
<1>5. HeldServes'
    BY <1>1, <1>2
       DEF NginxDies, around, control, GoTo, Return, Stores, HeldServes, Knows,
           Fresher, Backed, Allows, Valid, CertOf, Attempting, Resting, None
<1>6. Knows'
    BY <1>1, <1>2
       DEF NginxDies, around, control, GoTo, Return, Stores, Knows, HeldServes,
           Fresher, Allows, Valid, CertOf, Attempting, None
<1>7. KeysKept'
    BY <1>1, <1>2
       DEF NginxDies, around, control, GoTo, Return, Stores, KeysKept, Knows, Fresher,
           Names, CertOf, Attempting, None
<1> QED
    BY <1>3, <1>4, <1>5, <1>6, <1>7 DEF EdgeInv

LEMMA CertExpiresKeeps == ASSUME EdgeInv, CertExpires PROVE EdgeInv'
<1> USE EdgeTypesAre, EdgeAssumption DEF EdgeInv
<1>1. expired' \in Nat /\ expired' = expired + 1 /\ expired' <= lineage
    BY DEF CertExpires
<1>2. \A s \in States : Allows(s)' => Allows(s)
    BY <1>1 DEF Allows, Valid, States, Certs
<1>3. \A g : CertOf(g)' = CertOf(g)
    BY DEF CertExpires, CertOf
<1>4. st \in States /\ before.st \in States
    BY DEF EdgeTypes
<1>5. EdgeTypes'
    BY <1>1, <1>2, <1>3, <1>4
       DEF CertExpires, around, control, GoTo, Return, Stores, EdgeTypes, Places,
           Attempting
<1>6. Fresher'
    BY <1>1, <1>2, <1>3, <1>4
       DEF CertExpires, around, control, GoTo, Return, Stores, Fresher, EdgeTypes,
           Attempting, Gens
<1>7. HeldServes'
    BY <1>1, <1>2, <1>3, <1>4 DEF CertExpires, HeldServes, Backed, control
<1>8. Knows'
    BY <1>1, <1>2, <1>3, <1>4 DEF CertExpires, Knows, control
<1>9. KeysKept'
    BY <1>1, <1>2, <1>3, <1>4 DEF CertExpires, KeysKept, Names, control
<1> QED
    BY <1>5, <1>6, <1>7, <1>8, <1>9 DEF EdgeInv

LEMMA EdgeStopsKeeps == ASSUME EdgeInv, EdgeStops PROVE EdgeInv'
<1> USE EdgeTypesAre, EdgeAssumption DEF EdgeInv
<1>1. nginx' \in [up : BOOLEAN, loaded : Certs, reload : BOOLEAN] /\ nginx'.up = FALSE
    BY DEF EdgeStops, Killed, Off, Certs, None
<1>2. failed' \in [stops : Nat, writes : Nat] /\ failed'.writes = failed.writes
    BY DEF EdgeStops, Stopping, EdgeTypes
<1>3. before' \in [st : States, conf : Gens] /\ before'.st.gen = None
    BY DEF EdgeStops, NoBack, Fresh, States, Gens, Certs, None
<1>4. EdgeTypes'
    BY <1>1, <1>2, <1>3
       DEF EdgeStops, around, control, GoTo, Return, Stores, EdgeTypes, Places,
           Attempting
<1>5. Fresher'
    BY <1>1, <1>2, <1>3
       DEF EdgeStops, around, control, GoTo, Return, Stores, Fresher, EdgeTypes,
           Attempting, Gens
<1>6. HeldServes'
    BY <1>1, <1>2, <1>3
       DEF EdgeStops, around, control, GoTo, Return, Stores, HeldServes, Knows,
           Fresher, Backed, Allows, Valid, CertOf, Attempting, Resting, None
<1>7. Knows'
    BY <1>1, <1>2, <1>3
       DEF EdgeStops, around, control, GoTo, Return, Stores, Knows, HeldServes,
           Fresher, Allows, Valid, CertOf, Attempting, None
<1>8. KeysKept'
    BY <1>1, <1>2, <1>3
       DEF EdgeStops, around, control, GoTo, Return, Stores, KeysKept, Knows, Fresher,
           Names, CertOf, Attempting, None
<1> QED
    BY <1>4, <1>5, <1>6, <1>7, <1>8 DEF EdgeInv

LEMMA EdgeStartsKeeps == ASSUME EdgeInv, EdgeStarts PROVE EdgeInv'
<1> USE EdgeTypesAre, EdgeAssumption DEF EdgeInv
<1>1. nginx' \in [up : BOOLEAN, loaded : Certs, reload : BOOLEAN] /\ nginx'.up = FALSE
    BY DEF EdgeStarts, Off, Certs, None
<1>2. st' \in States /\ st'.gen = state.gen /\ st'.cert = state.cert /\ ~st'.allowed
    BY DEF EdgeStarts, EdgeTypes, States
<1>3. EdgeTypes'
    BY <1>1, <1>2
       DEF EdgeStarts, around, control, GoTo, Return, Stores, EdgeTypes, Places,
           Attempting
<1>4. Fresher'
    BY <1>1, <1>2
       DEF EdgeStarts, around, control, GoTo, Return, Stores, Fresher, EdgeTypes,
           Attempting, Gens
<1>5. HeldServes'
    BY <1>1, <1>2
       DEF EdgeStarts, around, control, GoTo, Return, Stores, HeldServes, Knows,
           Fresher, Backed, Allows, Valid, CertOf, Attempting, Resting, None
<1>6. Knows'
    BY <1>1, <1>2
       DEF EdgeStarts, around, control, GoTo, Return, Stores, Knows, HeldServes,
           Fresher, Allows, Valid, CertOf, Attempting, None
<1>7. KeysKept'
    BY <1>1, <1>2
       DEF EdgeStarts, around, control, GoTo, Return, Stores, KeysKept, Knows, Fresher,
           Names, CertOf, Attempting, None
<1> QED
    BY <1>3, <1>4, <1>5, <1>6, <1>7 DEF EdgeInv
\* Out of a procedure, back in the loop of Run or out of it.
LEMMA ReturnIs ==
    ASSUME EdgeTypes, NEW alive \in BOOLEAN, Return(alive)
    PROVE  place' \in {"select", "down"} /\ looping' \in BOOLEAN
<1>1. place' \in {"select", "down"}
    BY DEF Return
<1>2. (alive \/ looping) \in BOOLEAN
    OBVIOUS
<1> QED
    BY <1>1, <1>2 DEF Return

\* What a start, a signal or the end of the process leave of Nginx.
LEMMA StartsIs ==
    ASSUME EdgeTypes, NEW g \in Gens, Starts(g)
    PROVE  nginx' \in [up : BOOLEAN, loaded : Certs, reload : BOOLEAN]
BY CertOfIs DEF Starts

LEMMA KilledIs ==
    ASSUME EdgeTypes, Killed
    PROVE  nginx' \in [up : BOOLEAN, loaded : Certs, reload : BOOLEAN] /\ nginx'.up = FALSE
BY EdgeTypesAre DEF Killed, Off

LEMMA CloseIs ==
    ASSUME EdgeTypes,
           Closes \/ CloseFails \/ \E alive \in BOOLEAN : CloseOrKill(alive)
    PROVE  nginx' \in [up : BOOLEAN, loaded : Certs, reload : BOOLEAN] /\ conf' \in {conf, None}
<1>1. CASE Closes
    BY <1>1, EdgeTypesAre, AsksReloadIs, StartsIs DEF Closes
<1>2. CASE CloseFails
    BY <1>2, AsksReloadIs DEF CloseFails, EdgeTypes
<1>3. CASE \E alive \in BOOLEAN : CloseOrKill(alive)
    BY <1>1, <1>3, KilledIs DEF CloseOrKill
<1> QED
    BY <1>1, <1>2, <1>3

\* A publication gives up: its directory goes, what was before comes back.
LEMMA GivesUpIs ==
    ASSUME EdgeInv, place \in Attempting, NEW alive \in BOOLEAN, GivesUp(alive)
    PROVE  /\ st' \in States /\ st'.gen = before.st.gen /\ st'.cert = before.st.cert
           /\ st'.allowed <=> Allows(before.st) /\ alive
           /\ Stores(before.st)
           /\ failed'.writes = 0 => /\ state'.gen = before.st.gen
                                    /\ state'.cert = before.st.cert
           /\ handle' \in BOOLEAN /\ handle' = alive
           /\ place' \in {"select", "down"} /\ looping' \in BOOLEAN
           /\ before' \in [st : States, conf : Gens] /\ before'.st.gen = None
           /\ dirs' \in [1 .. MaxGenerations -> Certs]
           /\ \A g \in Gens : CertOf(g)' = IF g = generations THEN None ELSE CertOf(g)
<1> USE EdgeTypesAre DEF EdgeInv
<1>1. before.st \in States /\ before \in [st : States, conf : Gens]
    BY DEF EdgeTypes
<1>2. before' \in [st : States, conf : Gens] /\ before'.st.gen = None
    BY DEF GivesUp, NoBack, Fresh, States, Gens, Certs, None
<1>3. generations \in 1 .. MaxGenerations
    BY <1>1 DEF Fresher, States, Gens, None
<1>4. dirs' \in [1 .. MaxGenerations -> Certs]
    BY DEF GivesUp, EdgeTypes
<1>5. \A g \in Gens : CertOf(g)' = IF g = generations THEN None ELSE CertOf(g)
    BY <1>3 DEF GivesUp, CertOf, EdgeTypes, Gens, None
<1> QED
    BY <1>1, <1>2, <1>4, <1>5, FailIs, ReturnIs DEF GivesUp

LEMMA RestoreKeeps == ASSUME EdgeInv, Restore PROVE EdgeInv'
<1> USE EdgeTypesAre, EdgeAssumption DEF EdgeInv
<1>1. st \in States /\ handle \in BOOLEAN /\ st.gen \in Gens
    BY StatesAre DEF EdgeTypes
<1>2. ~Allows(st)
    BY DEF Restore, Knows
<1>3. /\ st' \in States /\ st'.gen = st.gen /\ st'.cert = st.cert
      /\ ~(st'.allowed /\ Valid(st.cert))
      /\ Stores(st) /\ handle' \in BOOLEAN
    <2>1. CASE Fail(st, handle)
        BY <1>1, <1>2, <2>1, FailIs
    <2>2. CASE UNCHANGED <<st, state, failed>> /\ handle' = TRUE
        BY <1>1, <1>2, <2>2, StoresNothing DEF Allows
    <2> QED
        BY <2>1, <2>2 DEF Restore
<1>4. /\ place' \in {"probe", "select", "down"} /\ looping' \in BOOLEAN /\ conf' \in {conf, st.gen}
      /\ (place' = "probe" => conf' = st.gen)
    BY <1>1, ReturnIs DEF Restore, GoTo, EdgeTypes
<1>5. nginx' \in [up : BOOLEAN, loaded : Certs, reload : BOOLEAN]
    BY <1>1, StartsIs DEF Restore, EdgeTypes
<1>6. EdgeTypes'
    BY <1>1, <1>2, <1>3, <1>4, <1>5
       DEF Restore, around, control, GoTo, Return, Stores, EdgeTypes, Places, Attempting
<1>7. Fresher'
    BY <1>1, <1>2, <1>3, <1>4, <1>5
       DEF Restore, around, control, GoTo, Return, Stores, Fresher, EdgeTypes,
           Attempting, Gens
<1>8. HeldServes'
    BY <1>1, <1>2, <1>3, <1>4, <1>5
       DEF Restore, around, control, GoTo, Return, Stores, HeldServes, Knows, Fresher,
           Backed, Allows, Valid, CertOf, Attempting, Resting, None
<1>9. Knows'
    BY <1>1, <1>2, <1>3, <1>4, <1>5
       DEF Restore, around, control, GoTo, Return, Stores, Knows, HeldServes, Fresher,
           Allows, Valid, CertOf, Attempting, None
<1>10. KeysKept'
    BY <1>1, <1>2, <1>3, <1>4, <1>5
       DEF Restore, around, control, GoTo, Return, Stores, KeysKept, Knows, Fresher,
           Names, CertOf, Attempting, None
<1> QED
    BY <1>6, <1>7, <1>8, <1>9, <1>10 DEF EdgeInv

LEMMA ChallengeKeeps == ASSUME EdgeInv, Challenge PROVE EdgeInv'
<1> USE EdgeTypesAre, EdgeAssumption DEF EdgeInv
<1>1. st \in States /\ handle \in BOOLEAN /\ st.gen \in Gens
    BY StatesAre DEF EdgeTypes
<1>2. ~Allows(st)
    BY DEF Challenge, Knows
<1>3. \A phase \in {"acme_only", "issuing"} : /\ Says(st, phase, FALSE) \in States
      /\ Says(st, phase, FALSE).gen = st.gen /\ Says(st, phase, FALSE).cert = st.cert
      /\ Says(st, phase, FALSE).allowed = FALSE
    <2> TAKE phase \in {"acme_only", "issuing"}
    <2>1. phase \in {"acme_only", "issuing", "validating", "live_https", "expired", "failed"}
        OBVIOUS
    <2> QED
        BY <1>1, <2>1, SaysIs, Zenon
<1>4. /\ st' \in States /\ st'.gen = st.gen /\ st'.cert = st.cert /\ ~st'.allowed
      /\ Stores(st) /\ handle' \in BOOLEAN
    <2>1. CASE Fail(st, handle)
        BY <1>1, <1>2, <2>1, FailIs
    <2>2. CASE Fail(Says(st, "acme_only", FALSE), TRUE)
        <3>1. ~Allows(Says(st, "acme_only", FALSE))
            BY <1>3 DEF Allows
        <3> QED
            BY <1>3, <2>2, <3>1, FailIs DEF Stores
    <2>3. CASE st' = Says(st, "issuing", FALSE) /\ Written(st') /\ handle' = TRUE
        <3>1. Written(Says(st, "issuing", FALSE))
            BY <2>3
        <3>2. Stores(Says(st, "issuing", FALSE))
            BY <1>3, <3>1, WrittenIs
        <3> QED
            BY <1>3, <2>3, <3>2 DEF Stores
    <2> QED
        BY <2>1, <2>2, <2>3 DEF Challenge
<1>5. place' \in {"issue", "select", "down"} /\ looping' \in BOOLEAN
    BY <1>1, ReturnIs DEF Challenge, GoTo, EdgeTypes
<1>6. nginx' \in [up : BOOLEAN, loaded : Certs, reload : BOOLEAN] /\ conf' \in {conf, None}
    BY CloseIs DEF Challenge
<1>7. before' = before /\ generations' = generations /\ dirs' = dirs
    BY DEF Challenge, around
<1>8. EdgeTypes'
    BY <1>1, <1>2, <1>3, <1>4, <1>5, <1>6, <1>7
       DEF Challenge, around, control, GoTo, Return, Stores, EdgeTypes, Places,
           Attempting
<1>9. Fresher'
    <2>1. {st.gen, state.gen, conf} \subseteq 0 .. generations
        BY DEF Fresher
    <2>2. state'.gen \in {state.gen, st.gen}
        BY <1>4 DEF Stores
    <2>3. {st'.gen, state'.gen, conf'} \subseteq 0 .. generations
        BY <1>4, <1>6, <2>1, <2>2
    <2> QED
        BY <1>5, <1>7, <2>3 DEF Fresher, Attempting
<1>10. HeldServes'
    BY <1>1, <1>2, <1>3, <1>4, <1>5, <1>6, <1>7
       DEF Challenge, around, control, GoTo, Return, Stores, HeldServes, Knows,
           Fresher, Backed, Allows, Valid, CertOf, Attempting, Resting, None
<1>11. Knows'
    BY <1>1, <1>2, <1>3, <1>4, <1>5, <1>6, <1>7
       DEF Challenge, around, control, GoTo, Return, Stores, Knows, HeldServes,
           Fresher, Allows, Valid, CertOf, Attempting, None
<1>12. KeysKept'
    BY <1>1, <1>2, <1>3, <1>4, <1>5, <1>6, <1>7
       DEF Challenge, around, control, GoTo, Return, Stores, KeysKept, Knows, Fresher,
           Names, CertOf, Attempting, None
<1> QED
    BY <1>8, <1>9, <1>10, <1>11, <1>12 DEF EdgeInv

LEMMA IssueKeeps == ASSUME EdgeInv, Issue PROVE EdgeInv'
<1> USE EdgeTypesAre, EdgeAssumption DEF EdgeInv
<1>1. st \in States /\ handle \in BOOLEAN /\ st.gen \in Gens
    BY StatesAre DEF EdgeTypes
<1>2. ~Allows(st) /\ ~st.allowed
    BY DEF Issue, Knows, Allows
<1>3. /\ st' \in States /\ st'.gen = st.gen /\ st'.cert = st.cert /\ ~st'.allowed
      /\ Stores(st) /\ handle' \in BOOLEAN
    <2>1. CASE Fail(st, handle)
        BY <1>1, <1>2, <2>1, FailIs
    <2>2. CASE st' = [st EXCEPT !.phase = "validating"] /\ Written(st') /\ handle' = handle
        <3>1. PICK s : s = [st EXCEPT !.phase = "validating"]
            OBVIOUS
        <3>2. s \in States /\ s.gen = st.gen /\ s.cert = st.cert /\ ~s.allowed
            BY <1>1, <1>2, <3>1 DEF States
        <3>3. Written(s)
            BY <2>2, <3>1
        <3>4. Stores(s)
            BY <3>2, <3>3, WrittenIs
        <3> QED
            BY <1>1, <2>2, <3>1, <3>2, <3>4 DEF Stores
    <2> QED
        BY <2>1, <2>2 DEF Issue
<1>4. /\ place' \in {"publish", "select", "down"} /\ looping' \in BOOLEAN
      /\ (place' = "publish" => generations < MaxGenerations)
    BY <1>1, ReturnIs DEF Issue, GoTo, Installable, EdgeTypes
<1>5. lineage' \in Certs /\ lineage <= lineage' /\ expired \in 0 .. lineage'
    BY DEF Issue, Certbot, Certs, EdgeTypes
<1>6. EdgeTypes'
    BY <1>1, <1>2, <1>3, <1>4, <1>5
       DEF Issue, around, control, GoTo, Return, Stores, EdgeTypes, Places, Attempting
<1>7. Fresher'
    BY <1>1, <1>2, <1>3, <1>4, <1>5
       DEF Issue, around, control, GoTo, Return, Stores, Fresher, EdgeTypes,
           Attempting, Gens
<1>8. HeldServes'
    BY <1>1, <1>2, <1>3, <1>4, <1>5
       DEF Issue, around, control, GoTo, Return, Stores, HeldServes, Knows, Fresher,
           Backed, Allows, Valid, CertOf, Attempting, Resting, None
<1>9. Knows'
    BY <1>1, <1>2, <1>3, <1>4, <1>5
       DEF Issue, around, control, GoTo, Return, Stores, Knows, HeldServes, Fresher,
           Allows, Valid, CertOf, Attempting, None
<1>10. KeysKept'
    BY <1>1, <1>2, <1>3, <1>4, <1>5
       DEF Issue, around, control, GoTo, Return, Stores, KeysKept, Knows, Fresher,
           Names, CertOf, Attempting, None
<1> QED
    BY <1>6, <1>7, <1>8, <1>9, <1>10 DEF EdgeInv

LEMMA RestoredKeeps == ASSUME EdgeInv, Restored PROVE EdgeInv'
<1> USE EdgeTypesAre, EdgeAssumption DEF EdgeInv
<1>1. st \in States /\ handle \in BOOLEAN /\ st.gen \in Gens
    BY StatesAre DEF EdgeTypes
<1>2. CertOf(st.gen) \in Certs /\ CertOf(st.gen) \in Nat /\ CertOf(st.gen) # None /\ st.gen # None
    BY <1>1, CertOfIs DEF Restored, Presents, Valid, Certs, None
<1>3. PICK s : s = [phase |-> "live_https", allowed |-> TRUE, cert |-> CertOf(st.gen),
                    gen |-> st.gen]
    OBVIOUS
<1>4. s \in States /\ s.cert = CertOf(st.gen) /\ s.gen = st.gen
    BY <1>1, <1>2, <1>3 DEF States
<1>5. st' = s /\ Stores(s)
    BY <1>3, <1>4, SaveIs DEF Restored
<1>6. place' \in {"select", "down"} /\ looping' \in BOOLEAN
    BY ReturnIs DEF Restored
<1>7. conf = st.gen /\ nginx.loaded = CertOf(st.gen)
    BY DEF Restored, Presents, Knows
<1>8. EdgeTypes'
    BY <1>1, <1>2, <1>3, <1>4, <1>5, <1>6, <1>7
       DEF Restored, around, control, GoTo, Return, Stores, EdgeTypes, Places,
           Attempting
<1>9. Fresher'
    BY <1>1, <1>2, <1>3, <1>4, <1>5, <1>6, <1>7
       DEF Restored, around, control, GoTo, Return, Stores, Fresher, EdgeTypes,
           Attempting, Gens
<1>10. HeldServes'
    BY <1>1, <1>2, <1>3, <1>4, <1>5, <1>6, <1>7
       DEF Restored, around, control, GoTo, Return, Stores, HeldServes, Knows, Fresher,
           Backed, Allows, Valid, CertOf, Attempting, Resting, None
<1>11. Knows'
    BY <1>1, <1>2, <1>3, <1>4, <1>5, <1>6, <1>7
       DEF Restored, around, control, GoTo, Return, Stores, Knows, HeldServes, Fresher,
           Allows, Valid, CertOf, Attempting, None
<1>12. KeysKept'
    BY <1>1, <1>2, <1>3, <1>4, <1>5, <1>6, <1>7
       DEF Restored, around, control, GoTo, Return, Stores, KeysKept, Knows, Fresher,
           Names, CertOf, Attempting, None
<1> QED
    BY <1>8, <1>9, <1>10, <1>11, <1>12 DEF EdgeInv

LEMMA NotRestoredKeeps == ASSUME EdgeInv, NotRestored PROVE EdgeInv'
<1> USE EdgeTypesAre, EdgeAssumption DEF EdgeInv
<1>1. st \in States /\ handle \in BOOLEAN /\ st.gen \in Gens
    BY StatesAre DEF EdgeTypes
<1>2. nginx' \in [up : BOOLEAN, loaded : Certs, reload : BOOLEAN] /\ conf' \in {conf, None}
    BY CloseIs DEF NotRestored
<1>3. PICK alive \in BOOLEAN :
         /\ Return(alive)
         /\ Fail(IF alive THEN Says(st, "acme_only", FALSE) ELSE st, alive)
    BY DEF NotRestored
<1>4. place' \in {"select", "down"} /\ looping' \in BOOLEAN
    BY <1>3, ReturnIs
<1>5. /\ st' \in States /\ st'.gen = st.gen /\ st'.cert = st.cert /\ ~st'.allowed
      /\ Stores(st) /\ handle' \in BOOLEAN
    <2>1. CASE alive
        <3>1. /\ Says(st, "acme_only", FALSE) \in States
              /\ Says(st, "acme_only", FALSE).gen = st.gen
              /\ Says(st, "acme_only", FALSE).cert = st.cert
              /\ Says(st, "acme_only", FALSE).allowed = FALSE
            BY <1>1, SaysIs, Zenon
        <3>2. Fail(Says(st, "acme_only", FALSE), TRUE)
            BY <1>3, <2>1
        <3>3. ~Allows(Says(st, "acme_only", FALSE))
            BY <3>1 DEF Allows
        <3> QED
            BY <3>1, <3>2, <3>3, FailIs DEF Stores
    <2>2. CASE ~alive
        BY <1>1, <1>3, <2>2, FailIs
    <2> QED
        BY <2>1, <2>2
<1>6. EdgeTypes'
    BY <1>1, <1>2, <1>3, <1>4, <1>5
       DEF NotRestored, around, control, GoTo, Return, Stores, EdgeTypes, Places,
           Attempting
<1>7. Fresher'
    BY <1>1, <1>2, <1>3, <1>4, <1>5
       DEF NotRestored, around, control, GoTo, Return, Stores, Fresher, EdgeTypes,
           Attempting, Gens
<1>8. HeldServes'
    BY <1>1, <1>2, <1>3, <1>4, <1>5
       DEF NotRestored, around, control, GoTo, Return, Stores, HeldServes, Knows,
           Fresher, Backed, Allows, Valid, CertOf, Attempting, Resting, None
<1>9. Knows'
    BY <1>1, <1>2, <1>3, <1>4, <1>5
       DEF NotRestored, around, control, GoTo, Return, Stores, Knows, HeldServes,
           Fresher, Allows, Valid, CertOf, Attempting, None
<1>10. KeysKept'
    BY <1>1, <1>2, <1>3, <1>4, <1>5
       DEF NotRestored, around, control, GoTo, Return, Stores, KeysKept, Knows,
           Fresher, Names, CertOf, Attempting, None
<1> QED
    BY <1>6, <1>7, <1>8, <1>9, <1>10 DEF EdgeInv

LEMMA CheckExpiredKeeps == ASSUME EdgeInv, CheckExpired PROVE EdgeInv'
<1> USE EdgeTypesAre, EdgeAssumption DEF EdgeInv
<1>1. st \in States /\ handle \in BOOLEAN /\ st.gen \in Gens
    BY StatesAre DEF EdgeTypes
<1>2. /\ nginx' \in [up : BOOLEAN, loaded : Certs, reload : BOOLEAN]
      /\ conf' \in {conf, None} /\ handle' \in BOOLEAN
    <2>1. handle' \in BOOLEAN /\ CloseOrKill(handle')
        BY DEF CheckExpired, CloseOrKill
    <2> QED
        BY <2>1, CloseIs
<1>3. /\ st' \in States /\ st'.gen = st.gen /\ st'.cert = st.cert /\ ~st'.allowed
      /\ Stores(st)
    <2>1. /\ Says(st, "expired", FALSE) \in States
          /\ Says(st, "expired", FALSE).gen = st.gen /\ Says(st, "expired", FALSE).cert = st.cert
          /\ Says(st, "expired", FALSE).allowed = FALSE
        BY <1>1, SaysIs, Zenon
    <2>2. Save(Says(st, "expired", FALSE))
        BY DEF CheckExpired
    <2> QED
        BY <2>1, <2>2, SaveIs DEF Stores
<1>4. EdgeTypes'
    BY <1>1, <1>2, <1>3
       DEF CheckExpired, around, control, GoTo, Return, Stores, EdgeTypes, Places,
           Attempting
<1>5. Fresher'
    BY <1>1, <1>2, <1>3
       DEF CheckExpired, around, control, GoTo, Return, Stores, Fresher, EdgeTypes,
           Attempting, Gens
<1>6. HeldServes'
    BY <1>1, <1>2, <1>3
       DEF CheckExpired, around, control, GoTo, Return, Stores, HeldServes, Knows,
           Fresher, Backed, Allows, Valid, CertOf, Attempting, Resting, None
<1>7. Knows'
    BY <1>1, <1>2, <1>3
       DEF CheckExpired, around, control, GoTo, Return, Stores, Knows, HeldServes,
           Fresher, Allows, Valid, CertOf, Attempting, None
<1>8. KeysKept'
    BY <1>1, <1>2, <1>3
       DEF CheckExpired, around, control, GoTo, Return, Stores, KeysKept, Knows,
           Fresher, Names, CertOf, Attempting, None
<1> QED
    BY <1>4, <1>5, <1>6, <1>7, <1>8 DEF EdgeInv

LEMMA ProcessDoneKeeps == ASSUME EdgeInv, ProcessDone PROVE EdgeInv'
<1> USE EdgeTypesAre, EdgeAssumption DEF EdgeInv
<1>1. st \in States /\ handle \in BOOLEAN /\ st.gen \in Gens
    BY StatesAre DEF EdgeTypes
<1>2. /\ st' \in States /\ st'.gen = st.gen /\ st'.cert = st.cert
      /\ Stores(st) /\ handle' \in BOOLEAN
    BY <1>1, FailIs DEF ProcessDone
<1>3. EdgeTypes'
    BY <1>1, <1>2
       DEF ProcessDone, around, control, GoTo, Return, Stores, EdgeTypes, Places,
           Attempting
<1>4. Fresher'
    BY <1>1, <1>2
       DEF ProcessDone, around, control, GoTo, Return, Stores, Fresher, EdgeTypes,
           Attempting, Gens
<1>5. HeldServes'
    BY <1>1, <1>2
       DEF ProcessDone, around, control, GoTo, Return, Stores, HeldServes, Knows,
           Fresher, Backed, Allows, Valid, CertOf, Attempting, Resting, None
<1>6. Knows'
    BY <1>1, <1>2
       DEF ProcessDone, around, control, GoTo, Return, Stores, Knows, HeldServes,
           Fresher, Allows, Valid, CertOf, Attempting, None
<1>7. KeysKept'
    BY <1>1, <1>2
       DEF ProcessDone, around, control, GoTo, Return, Stores, KeysKept, Knows,
           Fresher, Names, CertOf, Attempting, None
<1> QED
    BY <1>3, <1>4, <1>5, <1>6, <1>7 DEF EdgeInv
LEMMA GivesUpKeeps ==
    ASSUME EdgeInv, place \in Attempting, NEW alive \in BOOLEAN, GivesUp(alive),
           nginx' \in [up : BOOLEAN, loaded : Certs, reload : BOOLEAN],
           conf' \in {conf, before.conf}, UNCHANGED around,
           alive => /\ conf' = before.conf
                    /\ Allows(before.st) /\ nginx'.up => nginx'.loaded = before.st.cert
    PROVE  EdgeInv'
<1> USE EdgeTypesAre, EdgeAssumption DEF EdgeInv
<1>1. /\ before.conf \in Gens /\ before.st \in States /\ before.st.gen \in Gens
      /\ before.conf < generations /\ before.st.gen < generations
      /\ Backed(before.st, before.conf) /\ before.conf \in Nat /\ before.st.gen \in Nat
    BY StatesAre DEF EdgeTypes, Fresher, HeldServes, Gens
<1>2. /\ st' \in States /\ st'.gen = before.st.gen /\ st'.cert = before.st.cert
      /\ st'.allowed <=> Allows(before.st) /\ alive
    BY GivesUpIs
<1>3. /\ Stores(before.st) /\ handle' \in BOOLEAN
      /\ place' \in {"select", "down"} /\ looping' \in BOOLEAN
      /\ before' \in [st : States, conf : Gens] /\ before'.st.gen = None
      /\ dirs' \in [1 .. MaxGenerations -> Certs]
    BY GivesUpIs
<1>4. \A g \in Gens : g # generations => CertOf(g)' = CertOf(g)
    BY GivesUpIs
<1> PICK c, h : c = before.conf /\ h = before.st.gen
    OBVIOUS
<1>c. /\ c \in Gens /\ h \in Gens /\ c # generations /\ h # generations
      /\ CertOf(c)' = CertOf(c) /\ CertOf(h)' = CertOf(h)
    BY <1>1, <1>4
<1>u. lineage' = lineage /\ expired' = expired /\ generations' = generations
    BY DEF around
<1>5. EdgeTypes'
    BY <1>1, <1>2, <1>3, <1>u DEF EdgeTypes, Stores, Places, Attempting
<1>6. Fresher'
    <2>1. {st.gen, state.gen, conf} \subseteq 0 .. generations
        BY DEF Fresher
    <2>2. {st'.gen, state'.gen, conf'} \subseteq 0 .. generations
        <3>1. state'.gen \in {state.gen, before.st.gen}
            BY <1>3 DEF Stores
        <3> QED
            BY <1>1, <1>2, <2>1, <3>1
    <2>3. \A g \in 1 .. MaxGenerations : generations < g => dirs'[g] = None
        BY DEF GivesUp, Fresher, EdgeTypes
    <2> QED
        BY <1>3, <1>u, <2>2, <2>3 DEF Fresher, Attempting
<1>7. HeldServes'
    <2>1. Allows(st)' => alive /\ Allows(before.st)
        BY <1>2 DEF Allows
    <2>2. Allows(st)' => conf' = c /\ c # None /\ CertOf(c)' \in {None, st'.cert}
        BY <1>1, <1>2, <1>c, <2>1 DEF Backed
    <2>3. Allows(st)' => Backed(st, conf)'
        BY <2>2 DEF Backed, CertOf
    <2> QED
        BY <1>2, <1>3, <2>1, <2>3 DEF HeldServes, Backed, Attempting, Resting
<1>8. Knows'
    BY <1>3 DEF Knows
<1>9. KeysKept'
    <2>1. failed.writes = 0 => (h # None => CertOf(h)' = before.st.cert)
        BY <1>c DEF KeysKept, Names
    <2>2. failed'.writes = 0 => state'.gen = before.st.gen /\ state'.cert = before.st.cert
        BY GivesUpIs
    <2> QED
        BY <1>2, <1>3, <2>1, <2>2 DEF KeysKept, Names, Stores, CertOf
<1> QED
    BY <1>5, <1>6, <1>7, <1>8, <1>9 DEF EdgeInv

LEMMA KeptKeeps == ASSUME EdgeInv, Kept PROVE EdgeInv'
<1> USE EdgeTypesAre, EdgeAssumption DEF EdgeInv
<1>1. place \in Attempting /\ handle \in BOOLEAN /\ UNCHANGED around
    BY DEF Kept, Attempting, EdgeTypes
<1>2. /\ before.conf \in Gens /\ before.st \in States
      /\ before.conf < generations /\ Backed(before.st, before.conf) /\ before.conf \in Nat
    BY <1>1, StatesAre DEF EdgeTypes, Fresher, HeldServes, Gens
<1>3. CASE /\ Presents(before.st.cert) /\ GivesUp(handle)
           /\ UNCHANGED <<conf, nginx, around>> /\ place = "keep"
    <2>1. conf = before.conf /\ nginx.loaded = before.st.cert
        BY <1>3 DEF Knows, Presents
    <2> QED
        BY <1>3, <1>1, <2>1, GivesUpKeeps DEF EdgeTypes
<1>4. CASE /\ GoTo("rollback")
           /\ UNCHANGED <<st, state, dirs, handle, before, failed, conf, nginx, around>>
    <2>1. /\ UNCHANGED <<st, state, dirs, handle, before, failed, looping, lineage,
                         expired, generations>>
          /\ place' = "rollback" /\ conf' \in {conf, before.conf}
        BY <1>4 DEF around, GoTo
    <2>2. nginx' \in [up : BOOLEAN, loaded : Certs, reload : BOOLEAN]
        BY <1>4, AsksReloadIs DEF EdgeTypes
    <2>3. EdgeTypes'
        BY <1>2, <2>1, <2>2 DEF EdgeTypes, Places, Attempting
    <2>4. Fresher' /\ HeldServes'
        BY <1>1, <1>2, <2>1, <2>2
           DEF Fresher, HeldServes, Backed, Allows, Valid, CertOf, EdgeTypes, Gens,
               Attempting, Resting
    <2>5. Knows' /\ KeysKept'
        BY <1>4, <1>1, <1>2, <2>1, <2>2 DEF Knows, KeysKept, Names, CertOf, Attempting
    <2> QED
        BY <2>3, <2>4, <2>5 DEF EdgeInv
<1> QED
    BY <1>3, <1>4 DEF Kept

LEMMA RollBackKeeps == ASSUME EdgeInv, RollBack PROVE EdgeInv'
<1> USE EdgeTypesAre, EdgeAssumption DEF EdgeInv
<1>1. place \in Attempting /\ handle \in BOOLEAN /\ UNCHANGED around
    BY DEF RollBack, Attempting, EdgeTypes
<1>2. /\ before.conf \in Gens /\ before.st \in States
      /\ before.conf < generations /\ Backed(before.st, before.conf) /\ before.conf \in Nat
    BY <1>1, StatesAre DEF EdgeTypes, Fresher, HeldServes, Gens
<1>3. CASE conf' \in {conf, before.conf} /\ Killed /\ GivesUp(FALSE) /\ UNCHANGED around
    BY <1>3, <1>1, KilledIs, GivesUpKeeps
<1>4. CASE /\ conf' = before.conf /\ AsksReload /\ GoTo("back")
           /\ UNCHANGED <<st, state, dirs, handle, before, failed, around>>
    <2>1. /\ UNCHANGED <<st, state, dirs, handle, before, failed, looping, lineage,
                         expired, generations>>
          /\ place' = "back" /\ conf' \in {conf, before.conf}
        BY <1>4 DEF around, GoTo
    <2>2. nginx' \in [up : BOOLEAN, loaded : Certs, reload : BOOLEAN]
        BY <1>4, AsksReloadIs DEF EdgeTypes
    <2>3. EdgeTypes'
        BY <1>2, <2>1, <2>2 DEF EdgeTypes, Places, Attempting
    <2>4. Fresher' /\ HeldServes'
        BY <1>1, <1>2, <2>1, <2>2
           DEF Fresher, HeldServes, Backed, Allows, Valid, CertOf, EdgeTypes, Gens,
               Attempting, Resting
    <2>5. Knows' /\ KeysKept'
        BY <1>4, <1>1, <1>2, <2>1, <2>2 DEF Knows, KeysKept, Names, CertOf, Attempting
    <2> QED
        BY <2>3, <2>4, <2>5 DEF EdgeInv
<1> QED
    BY <1>3, <1>4 DEF RollBack

LEMMA RolledBackKeeps == ASSUME EdgeInv, RolledBack PROVE EdgeInv'
<1> USE EdgeTypesAre, EdgeAssumption DEF EdgeInv
<1>1. place \in Attempting /\ handle \in BOOLEAN /\ UNCHANGED around
    BY DEF RolledBack, Attempting, EdgeTypes
<1>2. /\ before.conf \in Gens /\ before.st \in States
      /\ before.conf < generations /\ Backed(before.st, before.conf) /\ before.conf \in Nat
    BY <1>1, StatesAre DEF EdgeTypes, Fresher, HeldServes, Gens
<1>3. CASE /\ before.st.allowed => Presents(before.st.cert)
         /\ GivesUp(handle) /\ UNCHANGED <<conf, nginx, around>> /\ place = "back"
    <2>1. conf = before.conf
        BY <1>3 DEF Knows
    <2>2. Allows(before.st) => nginx.loaded = before.st.cert
        BY <1>3 DEF Allows, Presents
    <2> QED
        BY <1>3, <1>1, <2>1, <2>2, GivesUpKeeps DEF EdgeTypes
<1>4. CASE Killed /\ GivesUp(FALSE) /\ UNCHANGED <<conf, around>>
    BY <1>4, <1>1, KilledIs, GivesUpKeeps
<1> QED
    BY <1>3, <1>4 DEF RolledBack

LEMMA InstallKeeps == ASSUME EdgeInv, Install PROVE EdgeInv'
<1> USE EdgeTypesAre, EdgeAssumption DEF EdgeInv
<1>1. /\ st \in States /\ handle \in BOOLEAN /\ st.gen \in 0 .. generations
      /\ conf \in 0 .. generations /\ generations < MaxGenerations
    BY DEF Install, EdgeTypes, Fresher
<1>2. PICK new : new = generations + 1
    OBVIOUS
<1>3. /\ new \in 1 .. MaxGenerations /\ new \in Gens /\ generations' = new
      /\ UNCHANGED <<nginx, lineage, expired>>
    BY <1>1, <1>2 DEF Install, Gens
<1>4. CASE /\ dirs' = [dirs EXCEPT ![new] = lineage]
           /\ before' = [st |-> Masked(st), conf |-> conf]
           /\ conf' = new /\ GoTo("reload")
           /\ UNCHANGED <<st, state, handle, failed>>
    <2>1. /\ Masked(st) \in States /\ Masked(st).gen = st.gen /\ Masked(st).cert = st.cert
          /\ Allows(Masked(st)) <=> Allows(st)
        BY <1>1, MaskedIs
    <2>2. before' \in [st : States, conf : Gens] /\ before'.st = Masked(st) /\ before'.conf = conf
        BY <1>4, <2>1 DEF EdgeTypes
    <2>3. \A g \in 0 .. generations : CertOf(g)' = CertOf(g)
        BY <1>2, <1>3, <1>4 DEF CertOf, EdgeTypes, None
    <2>4. EdgeTypes'
        BY <1>3, <1>4, <2>2 DEF EdgeTypes, GoTo, Places, Attempting
    <2>5. Fresher'
        BY <1>1, <1>2, <1>3, <1>4, <2>1, <2>2 DEF Fresher, GoTo, Attempting
    <2>6. HeldServes'
        <3>1. PICK s, c : s = Masked(st) /\ c = conf
            OBVIOUS
        <3>2. Backed(s, c) /\ c \in 0 .. generations /\ CertOf(c)' = CertOf(c)
            BY <1>1, <2>1, <2>3, <3>1 DEF Install, HeldServes, Resting, Backed
        <3>3. Backed(s, c)'
            BY <1>3, <3>2 DEF Backed, Allows, Valid
        <3>4. Backed(before.st, before.conf)'
            BY <2>2, <3>1, <3>3 DEF Backed, Allows, CertOf
        <3> QED
            BY <1>4, <3>4 DEF HeldServes, Resting, GoTo
    <2>7. Knows'
        BY <1>3, <1>4 DEF Knows, GoTo
    <2>8. KeysKept'
        <3>1. PICK g, h : g = st.gen /\ h = state.gen
            OBVIOUS
        <3>2. CertOf(g)' = CertOf(g) /\ CertOf(h)' = CertOf(h)
            BY <1>1, <2>3, <3>1 DEF Fresher
        <3>3. failed.writes = 0 => /\ g # None => CertOf(g)' = st.cert
                                   /\ h # None => CertOf(h)' = state.cert
            BY <3>1, <3>2 DEF KeysKept, Names
        <3> QED
            BY <1>4, <2>1, <2>2, <3>1, <3>3 DEF KeysKept, Names, CertOf, GoTo
    <2> QED
        BY <2>4, <2>5, <2>6, <2>7, <2>8
<1>5. CASE /\ conf' \in {conf, new}
           /\ Fail(st, handle) /\ Return(handle) /\ UNCHANGED <<dirs, before>>
    <2>1. /\ st' \in States /\ st'.gen = st.gen /\ st'.cert = st.cert
          /\ st'.allowed <=> Allows(st) /\ handle
        BY <1>1, <1>5, FailIs
    <2>2. Stores(st) /\ handle' \in BOOLEAN /\ place' \in {"select", "down"} /\ looping' \in BOOLEAN
        BY <1>1, <1>5, FailIs, ReturnIs
    <2>3. EdgeTypes'
        BY <1>3, <1>5, <2>1, <2>2 DEF EdgeTypes, Stores, Places
    <2>4. Fresher'
        BY <1>1, <1>2, <1>3, <1>5, <2>1, <2>2 DEF Fresher, Stores, Attempting
    <2>5. HeldServes'
        <3>1. Backed(st, conf) /\ (Allows(st) /\ nginx.up => nginx.loaded = st.cert)
            BY DEF Install, HeldServes, Resting
        <3>2. Allows(st)' => Allows(st)
            BY <2>1 DEF Allows
        <3>3. CertOf(conf)' = CertOf(conf) \/ conf' = new
            BY <1>5 DEF CertOf
        <3>4. conf' = new => conf' # None /\ CertOf(conf)' \in {None, st.cert}
            <4>1. dirs[new] = None
                BY <1>2, <1>3 DEF Fresher
            <4> QED
                BY <1>3, <1>5, <4>1 DEF CertOf
        <3> QED
            BY <1>3, <1>5, <2>1, <2>2, <3>1, <3>2, <3>3, <3>4
               DEF HeldServes, Backed, Resting, Attempting
    <2>6. Knows'
        BY <2>2 DEF Knows
    <2>7. KeysKept'
        BY <1>5, <2>1, <2>2 DEF KeysKept, Names, Stores, CertOf
    <2> QED
        BY <2>3, <2>4, <2>5, <2>6, <2>7
<1> QED
    BY <1>2, <1>4, <1>5 DEF Install

LEMMA ConfirmKeeps == ASSUME EdgeInv, Confirm PROVE EdgeInv'
<1> USE EdgeTypesAre, EdgeAssumption DEF EdgeInv
<1>1. /\ place = "confirm" /\ conf = generations
      /\ UNCHANGED <<dirs, conf, nginx, handle, before, lineage, expired, generations>>
      /\ before.st.gen < generations /\ before.conf < generations
      /\ Backed(before.st, before.conf)
      /\ before.st.gen \in Nat
    BY StatesAre
       DEF Confirm, Knows, Fresher, HeldServes, Attempting, around, EdgeTypes, Gens
<1>2. CASE GoTo("rollback") /\ UNCHANGED <<st, state, failed>>
    <2>1. EdgeTypes' /\ Fresher' /\ Knows'
        BY <1>1, <1>2 DEF EdgeTypes, Places, Attempting, Fresher, Knows, GoTo
    <2>2. HeldServes' /\ KeysKept'
        BY <1>1, <1>2
           DEF HeldServes, Backed, Allows, Valid, CertOf, KeysKept, Names, GoTo,
                          Attempting, Resting
    <2> QED
        BY <2>1, <2>2
<1>3. CASE Presents(CertOf(generations))
    <2>1. /\ CertOf(generations) \in Certs /\ generations # None
          /\ nginx.loaded = CertOf(generations)
        BY <1>1, <1>3, CertOfIs DEF EdgeTypes, Presents, None
    <2>2. PICK s : s = [phase |-> "live_https", allowed |-> TRUE, cert |-> CertOf(generations),
                        gen |-> generations]
        OBVIOUS
    <2>3. s \in States /\ s.cert = CertOf(generations) /\ s.gen = generations
        BY <2>1, <2>2 DEF States, EdgeTypes
    <2>4. CASE Written(s) /\ st' = s /\ GoTo("retire")
        <3>1. Stores(s) /\ state'.gen = s.gen /\ state'.cert = s.cert /\ failed' = failed
            BY <2>3, <2>4, WrittenIs, MaskedIs DEF Written
        <3>2. EdgeTypes' /\ Fresher'
            BY <1>1, <2>3, <2>4, <3>1
               DEF EdgeTypes, Places, Attempting, Fresher, Stores, GoTo
        <3>3. HeldServes' /\ Knows' /\ KeysKept'
            BY <1>1, <2>1, <2>3, <2>4, <3>1
               DEF HeldServes, Knows, KeysKept, Names, CertOf, GoTo, Attempting, Resting
        <3> QED
            BY <3>2, <3>3
    <2>5. CASE WriteFails(s) /\ UNCHANGED st /\ GoTo("rollback")
        <3>1. Stores(s) /\ failed'.writes # 0
            <4>1. failed'.writes = failed.writes + 1 /\ failed.writes \in Nat
                BY <2>5 DEF WriteFails, BadWriting, EdgeTypes
            <4> QED
                BY <2>3, <2>5, <4>1, WrittenIs
        <3>2. EdgeTypes' /\ Fresher' /\ Knows' /\ KeysKept'
            BY <1>1, <2>3, <2>5, <3>1
               DEF EdgeTypes, Places, Attempting, Fresher, Stores, Knows, KeysKept, GoTo
        <3>3. HeldServes'
            BY <1>1, <2>5 DEF HeldServes, Backed, Allows, Valid, CertOf, GoTo,
                              Attempting, Resting
        <3> QED
            BY <3>2, <3>3
    <2> QED
        BY <1>2, <1>3, <2>2, <2>4, <2>5 DEF Confirm
<1> QED
    BY <1>2, <1>3 DEF Confirm

LEMMA RetireKeeps == ASSUME EdgeInv, Retire PROVE EdgeInv'
<1> USE EdgeTypesAre, EdgeAssumption DEF EdgeInv
<1>1. /\ conf = generations /\ st.gen = generations /\ generations # None
      /\ st.cert = CertOf(generations) /\ (nginx.up => nginx.loaded = st.cert)
      /\ before.st.gen # generations /\ before.st.gen \in Gens
      /\ UNCHANGED <<st, state, conf, nginx, handle, lineage, expired, generations, failed>>
    BY StatesAre DEF Retire, Knows, Fresher, around, EdgeTypes, Gens
<1>2. before' \in [st : States, conf : Gens] /\ before'.st.gen = None
    BY DEF Retire, NoBack, Fresh, States, Gens, Certs, None
<1>3. place' \in {"select", "down"} /\ looping' \in BOOLEAN
    BY ReturnIs DEF Retire
<1>4. dirs' \in [1 .. MaxGenerations -> Certs] /\ dirs'[generations] = dirs[generations]
    BY <1>1 DEF Retire, EdgeTypes, Gens, None
<1>5. CertOf(generations)' = st.cert
    BY <1>1, <1>4 DEF CertOf
<1>6. EdgeTypes' /\ Fresher'
    <2>1. EdgeTypes'
        BY <1>1, <1>2, <1>3, <1>4 DEF EdgeTypes, Places, Attempting
    <2>2. \A g \in 1 .. MaxGenerations : generations < g => dirs'[g] = None
        BY <1>1 DEF Retire, Fresher, EdgeTypes
    <2> QED
        BY <1>1, <1>3, <2>1, <2>2 DEF Fresher, Attempting
<1>7. HeldServes' /\ Knows'
    BY <1>1, <1>3, <1>5 DEF HeldServes, Knows, Backed, Attempting, Resting, CertOf
<1>8. KeysKept'
    BY <1>1, <1>2, <1>3, <1>5 DEF KeysKept, Names, CertOf, Retire
<1> QED
    BY <1>6, <1>7, <1>8

-----------------------------------------------------------------------------
LEMMA NextEdge == EdgeInv /\ [EdgeNext]_edgeVars => EdgeInv'
<1> SUFFICES ASSUME EdgeInv, [EdgeNext]_edgeVars PROVE EdgeInv'
    OBVIOUS
<1>1. CASE Manage
    BY <1>1, RestoreKeeps, RestoredKeeps, NotRestoredKeeps, ChallengeKeeps, IssueKeeps,
       RenewReturnsKeeps, InstallKeeps, ReloadKeeps, ReloadFailsKeeps, KeptKeeps,
       RollBackKeeps, RolledBackKeeps, ConfirmKeeps, RetireKeeps, ProcessDoneKeeps DEF Manage
<1>2. CASE UNCHANGED edgeVars
    <2>1. UNCHANGED <<st, state, dirs, conf, nginx, handle, place, looping, before,
                      lineage, expired, generations, failed>>
        BY <1>2 DEF edgeVars, control, around
    <2>2. EdgeTypes' /\ Fresher' /\ Knows'
        BY <2>1 DEF EdgeInv, EdgeTypes, Fresher, Knows, Allows, Valid, CertOf
    <2>3. HeldServes' /\ KeysKept'
        BY <2>1 DEF EdgeInv, HeldServes, Backed, Allows, Valid, KeysKept, Names, CertOf
    <2> QED
        BY <2>2, <2>3 DEF EdgeInv
<1> QED
    BY <1>1, <1>2, RenewKeeps, CheckExpiredKeeps, NginxReloadsKeeps, NginxDiesKeeps,
       CertExpiresKeeps, EdgeStopsKeeps, EdgeStartsKeeps DEF EdgeNext

LEMMA EdgeInductive == EdgeSpec => []EdgeInv
BY EdgeStart, NextEdge, PTL DEF EdgeSpec

(* Whatever fails of a publication, a renewal or a start, and whenever       *)
(* certificates expire: while the state says that business is allowed, Nginx *)
(* presents the certificate it names, or is gone, and no late reload changes *)
(* that; and the key that the stored state names is there unless a write of  *)
(* the state failed.                                                         *)
THEOREM EdgeIsHonestAlways == EdgeSpec => []EdgeIsHonest
<1>1. EdgeInv => EdgeIsHonest
    <2> SUFFICES ASSUME EdgeInv PROVE EdgeIsHonest
        OBVIOUS
    <2>1. st \in States
        BY DEF EdgeInv, EdgeTypes
    <2>2. ASSUME place \in {"select", "renew"}, Masked(st).allowed, nginx.up
          PROVE  Presents(st.cert) /\ (nginx.reload => WillLoad = st.cert)
        <3>1. Allows(st)
            BY <2>1, <2>2, MaskedIs
        <3>2. conf # None /\ CertOf(conf) \in {None, st.cert} /\ nginx.loaded = st.cert
            BY <2>2, <3>1 DEF EdgeInv, HeldServes, Backed, Resting
        <3> QED
            BY <2>2, <3>1, <3>2 DEF Presents, Allows, WillLoad
    <2>3. NamedKeyIsThere
        BY DEF EdgeInv, KeysKept, Names, NamedKeyIsThere
    <2> QED
        BY <2>2, <2>3 DEF EdgeIsHonest, AllowedIsServed
<1> QED
    BY <1>1, EdgeInductive, PTL

-----------------------------------------------------------------------------
(***************************************************************************)
(* The files of MCStorage: the restore of a backup (Restore) and the       *)
(* credentials document (CredentialsFile).                                 *)
(*                                                                         *)
(* A restore is told by its intent alone, since whoever goes on after a    *)
(* crash knows nothing else.  So each phase has to say where the files     *)
(* are: out of a pending intent they are one group; while it is prepared,  *)
(* what is isolated already is no longer at its path, so that moving a     *)
(* file aside never replaces another; once it is isolated, a database that *)
(* is still staged finds its place empty.                                  *)
(***************************************************************************)
RestoreTypes ==
    /\ live \in [R!Files -> 0 .. R!None] /\ staged \subseteq {"db", "secrets"}
    /\ isolated \subseteq (1 .. MaxRestores) \X R!Files \X (0 .. R!Fresh)
    /\ owned \subseteq R!Files \X (0 .. R!Fresh)
    /\ intent \in R!Pending \cup {"none", "complete"} /\ archived \in BOOLEAN
    /\ proc \in {"none", "restore", "boot", "server"}
    /\ restores \in Nat /\ keys \in 0 .. restores /\ asked \in 0 .. MaxRestores
    /\ restores <= asked

Where ==
    /\ rpc \in {"stage", "stageSecrets", "write"} =>
         intent \notin R!Pending /\ restores < asked
    /\ rpc = "isolate" => intent = "prepared"
    /\ rpc \in {"install", "installSecrets"} => intent = "isolated"
    /\ rpc = "finalize" => intent = "installed"
    /\ rpc = "forget" => intent = "complete"
    /\ rpc \in {"bootstrap", "open"} => intent \notin R!Pending
    /\ proc = "server" => intent \notin R!Pending /\ rpc = "idle"

Groups ==
    /\ intent \notin R!Pending =>
         /\ live["db"] = restores /\ live["wal"] \in {restores, R!None}
         /\ live["secrets"] = keys
    /\ intent \in R!Pending =>
         /\ restores > 0
         /\ IF archived THEN keys = restores ELSE live["secrets"] = keys
    /\ intent = "prepared" =>
         \A x \in isolated : x[1] = restores /\ x[2] # "secrets" => live[x[2]] = R!None
    /\ intent = "isolated" /\ "db" \in staged => live["db"] = R!None
    /\ \A x \in isolated : x[1] <= restores

RestoreInv == RestoreTypes /\ Where /\ Groups /\ R!NothingLost


\* The states Restore starts in are of this kind.
LEMMA RestoreStart == R!Init => RestoreInv
<1> SUFFICES ASSUME R!Init PROVE RestoreInv
  OBVIOUS
<1> USE StorageAssumption DEF R!Init, R!Files, R!None, R!Fresh, R!Pending
<1>1. PICK w \in {0, R!None} : live = [db |-> 0, wal |-> w, secrets |-> 0]
  OBVIOUS
<1>2. RestoreTypes
  <2>1. live \in [R!Files -> 0 .. R!None]
    BY <1>1
  <2>2. owned \subseteq R!Files \X (0 .. R!Fresh)
    OBVIOUS
  <2>3. /\ isolated \subseteq (1 .. MaxRestores) \X R!Files \X (0 .. R!Fresh)
        /\ restores \in Nat /\ keys \in 0 .. restores /\ asked \in 0 .. MaxRestores
    OBVIOUS
  <2>4. archived \in BOOLEAN
    BY Zenon
  <2>5. /\ staged \subseteq {"db", "secrets"} /\ intent \in R!Pending \cup {"none", "complete"}
        /\ proc \in {"none", "restore", "boot", "server"} /\ restores <= asked
    OBVIOUS
  <2> QED BY ONLY <2>1, <2>2, <2>3, <2>4, <2>5 DEF RestoreTypes
<1>3. Where /\ Groups
  BY <1>1 DEF Where, Groups
<1>4. R!NothingLost
  BY DEF R!NothingLost
<1> QED BY <1>2, <1>3, <1>4 DEF RestoreInv

\* Every step of a command, a boot, the server or an operator keeps it.
LEMMA RestoreStep == RestoreInv /\ [R!Next]_rvars => RestoreInv'
<1> SUFFICES ASSUME RestoreInv, [R!Next]_rvars PROVE RestoreInv'
  OBVIOUS
<1> USE StorageAssumption DEF RestoreInv, RestoreTypes, Where, Groups, R!Files, R!None,
   R!Fresh, R!Pending, R!Files_, R!Place, R!Count
<1>1. CASE R!StageDatabase
  BY <1>1 DEF R!StageDatabase, R!NothingLost
<1>2. CASE R!StageSecrets
  BY <1>2 DEF R!StageSecrets, R!NothingLost
<1>3. CASE R!WriteIntent
  <2>1. RestoreTypes'
    BY <1>3 DEF R!WriteIntent
  <2>2. Where'
    BY <1>3 DEF R!WriteIntent
  <2>3. Groups'
    BY <1>3 DEF R!WriteIntent
  <2>4. R!NothingLost'
    BY <1>3 DEF R!WriteIntent, R!NothingLost
  <2> QED BY <2>1, <2>2, <2>3, <2>4
<1>4. CASE R!Isolate
  <2>1. RestoreTypes'
    BY <1>4 DEF R!Isolate, R!Group, R!Left, R!First, R!Aside, R!CanIsolate
  <2>2. Where'
    BY <1>4 DEF R!Isolate, R!Group, R!Left, R!First, R!Aside, R!CanIsolate
  <2>3. Groups'
    BY <1>4 DEF R!Isolate, R!Group, R!Left, R!First, R!Aside, R!CanIsolate
  <2>4. R!NothingLost'
    BY <1>4 DEF R!Isolate, R!NothingLost, R!Group, R!Left, R!First, R!Aside, R!CanIsolate
  <2> QED BY <2>1, <2>2, <2>3, <2>4
<1>5. CASE R!Isolated
  BY <1>5 DEF R!Isolated, R!NothingLost, R!Group, R!Left
<1>6. CASE R!InstallDatabase
  <2>1. RestoreTypes'
    BY <1>6 DEF R!InstallDatabase, R!CanInstall
  <2>2. Where'
    BY <1>6 DEF R!InstallDatabase, R!CanInstall
  <2>3. Groups'
    BY <1>6 DEF R!InstallDatabase, R!CanInstall
  <2>4. R!NothingLost'
    BY <1>6 DEF R!InstallDatabase, R!NothingLost, R!CanInstall
  <2> QED BY <2>1, <2>2, <2>3, <2>4
<1>7. CASE R!InstallSecrets
  <2>1. RestoreTypes'
    <3>1. CASE archived
      <4>1. restores \in 0 .. R!Fresh
        OBVIOUS
      <4>2. live' \in [R!Files -> 0 .. R!None]
        BY <1>7, <3>1 DEF R!InstallSecrets
      <4>3. owned' \subseteq R!Files \X (0 .. R!Fresh)
        BY <1>7, <3>1, <4>1 DEF R!InstallSecrets
      <4> QED BY <1>7, <3>1, <4>2, <4>3 DEF R!InstallSecrets
    <3>2. CASE ~archived
      BY <1>7, <3>2 DEF R!InstallSecrets
    <3> QED BY <3>1, <3>2
  <2>2. Where'
    BY <1>7 DEF R!InstallSecrets, R!CanInstall
  <2>3. Groups'
    BY <1>7 DEF R!InstallSecrets, R!CanInstall
  <2>4. R!NothingLost'
    BY <1>7 DEF R!InstallSecrets, R!NothingLost, R!CanInstall
  <2> QED BY <2>1, <2>2, <2>3, <2>4
<1>8. CASE R!Finalize
  BY <1>8 DEF R!Finalize, R!NothingLost, R!CanFinalize
<1>9. CASE R!Boot
  BY <1>9 DEF R!Boot, R!NothingLost, R!Resumed
<1>10. CASE R!MaybeBootstrap
  BY <1>10 DEF R!MaybeBootstrap, R!NothingLost
<1>11. CASE R!Open
  BY <1>11 DEF R!Open, R!NothingLost, R!Resumed, R!CanDecrypt
<1>12. CASE R!Refused
  BY <1>12 DEF R!Refused, R!NothingLost
<1>13. CASE R!Write
  <2>1. RestoreTypes'
    BY <1>13 DEF R!Write
  <2>2. Where'
    BY <1>13 DEF R!Write
  <2>3. Groups'
    BY <1>13 DEF R!Write
  <2>4. R!NothingLost'
    BY <1>13 DEF R!Write, R!NothingLost
  <2> QED BY <2>1, <2>2, <2>3, <2>4
<1>14. CASE R!Close
  <2>1. RestoreTypes'
    BY <1>14 DEF R!Close
  <2>2. Where'
    BY <1>14 DEF R!Close
  <2>3. Groups'
    BY <1>14 DEF R!Close
  <2>4. R!NothingLost'
    BY <1>14 DEF R!Close, R!NothingLost
  <2> QED BY <2>1, <2>2, <2>3, <2>4
<1>15. CASE R!BootstrapByHand
  BY <1>15 DEF R!BootstrapByHand, R!NothingLost
<1>16. CASE R!Stops
  BY <1>16 DEF R!Stops, R!NothingLost
<1>17. ASSUME NEW w \in BOOLEAN, R!RestoreDatabase(w) PROVE RestoreInv'
  BY <1>17 DEF R!RestoreDatabase, R!NothingLost
<1>18. ASSUME NEW w \in BOOLEAN, R!Forget(w) PROVE RestoreInv'
  BY <1>18 DEF R!Forget, R!NothingLost
<1>19. CASE UNCHANGED rvars
  BY <1>19 DEF rvars, R!NothingLost
<1> QED
  BY <1>1, <1>2, <1>3, <1>4, <1>5, <1>6, <1>7, <1>8, <1>9, <1>10, <1>11, <1>12, <1>13,
     <1>14, <1>15, <1>16, <1>17, <1>18, <1>19 DEF R!Next, R!Step

(***************************************************************************)
(* The credentials document.  Resets of the password take no lock, and the *)
(* model of the whole (MCStorage) lets none run beside another handler;    *)
(* then nobody else touches the temporary path between a handler's steps.  *)
(***************************************************************************)
\* One handler at most is at work, under the lock unless it resets a password;
\* what it will write keeps the secrets of the file, or has newer ones.
Busy(c)    == cpc[c] # "idle"
Writing(c) == cpc[c] \in {"remove", "open", "write", "rename"}

OneHandler ==
    /\ \A c, d \in Callers : Busy(c) /\ Busy(d) => c = d
    /\ \A c \in Callers : Busy(c) /\ op[c] # "reset" => mu = c

Made(d) == d.relay <= secrets /\ d.admin <= secrets

Succeeds(d, old) ==
    /\ d.relay >= old.relay /\ d.admin >= old.admin
    /\ d.grace /\ ~old.grace => d.relay > old.relay

Draft(c) ==
    /\ Busy(c) => Made(doc[c]) /\ (op[c] = "revoke" => ~doc[c].grace)
    /\ Writing(c) => Succeeds(doc[c], file)
    /\ cpc[c] \in {"write", "rename"} => fd[c] = "tmp"
    /\ cpc[c] = "write" => tmp = C!Empty
    /\ cpc[c] = "rename" => tmp = doc[c]
    /\ cpc[c] = "adopt" => file = doc[c]

CredInv ==
    /\ C!TypeOK /\ file \in C!Docs /\ Made(file) /\ Made(known)
    /\ Succeeds(file, known)
    /\ OneHandler /\ \A c \in Callers : Draft(c)

\* What each operation makes of a document.
LEMMA AppliedIs ==
    ASSUME NEW d \in C!Docs, NEW n \in 0 .. MaxMade
    PROVE  /\ C!Applied("rotate", d, n) =
                [kind |-> "doc", relay |-> n, grace |-> TRUE, admin |-> d.admin]
           /\ C!Applied("revoke", d, n) =
                [kind |-> "doc", relay |-> d.relay, grace |-> FALSE, admin |-> d.admin]
           /\ C!Applied("reset", d, n) =
                [kind |-> "doc", relay |-> d.relay, grace |-> d.grace, admin |-> n]
  BY DEF C!Applied, C!Docs

\* It holds at first.
LEMMA CredStart == C!Init => CredInv
  BY StorageAssumption DEF C!Init, CredInv, C!TypeOK, C!Docs, C!First, C!None, C!Operations,
     Made, Succeeds, OneHandler, Busy, Draft, Writing

\* Every step of a handler and every restart keeps it.
LEMMA CredStep == CredInv /\ [C!Next]_cvars => CredInv'
<1> SUFFICES ASSUME CredInv, [C!Next]_cvars PROVE CredInv'
  OBVIOUS
<1> USE StorageAssumption DEF CredInv
<1> DEFINE Rest == Made(file) /\ Made(known) /\ Succeeds(file, known)
<1>0. /\ {C!None, C!Empty, C!Mixed} \cap C!Docs = {} /\ C!None # C!Empty
      /\ \A d \in C!Docs : /\ d.relay \in 0 .. MaxMade /\ d.admin \in 0 .. MaxMade
                           /\ d.grace \in BOOLEAN
  BY DEF C!None, C!Empty, C!Mixed, C!Docs
<1>1. ASSUME NEW c \in Callers, C!RemoveTmp(c) PROVE CredInv'
  <2> USE <1>1 DEF C!RemoveTmp, C!Goto, C!Unlock
  <2>1. C!TypeOK' /\ (file \in C!Docs)'
    BY <1>0 DEF C!TypeOK, Draft, C!Unlink
  <2>2. OneHandler'
    BY DEF C!TypeOK, OneHandler, Busy, C!Unlink
  <2>3. Rest'
    BY <1>0 DEF C!TypeOK, Made, Succeeds, Draft, Busy, Writing
  <2>4. \A d \in Callers : Draft(d)'
    BY <1>0 DEF C!TypeOK, OneHandler, Draft, Busy, Writing, Made, Succeeds, C!Unlink
  <2> QED BY <2>1, <2>2, <2>3, <2>4
<1>2. ASSUME NEW c \in Callers, C!OpenTmp(c) PROVE CredInv'
  <2> USE <1>2 DEF C!OpenTmp, C!Goto, C!Unlock
  <2>1. C!TypeOK' /\ (file \in C!Docs)'
    BY <1>0 DEF C!TypeOK, Draft
  <2>2. OneHandler'
    BY DEF C!TypeOK, OneHandler, Busy
  <2>3. Rest'
    BY <1>0 DEF C!TypeOK, Made, Succeeds, Draft, Busy, Writing
  <2>4. \A d \in Callers : Draft(d)'
    BY <1>0 DEF C!TypeOK, OneHandler, Draft, Busy, Writing, Made, Succeeds
  <2> QED BY <2>1, <2>2, <2>3, <2>4
<1>3. ASSUME NEW c \in Callers, C!WriteTmp(c) PROVE CredInv'
  <2>1. /\ cpc[c] = "write" /\ fd[c] = "tmp" /\ tmp' = doc[c]
        /\ cpc' = [cpc EXCEPT ![c] = "rename"]
        /\ UNCHANGED <<file, known, mu, op, doc, fd, secrets>>
    BY <1>3, <1>0 DEF C!WriteTmp, C!Over, C!Goto, Draft
  <2> HIDE <1>3
  <2>2. C!TypeOK' /\ (file \in C!Docs)'
    BY <2>1 DEF C!TypeOK
  <2>3. OneHandler' /\ Rest'
    BY <2>1 DEF C!TypeOK, OneHandler, Busy, Made, Succeeds
  <2>4. ASSUME NEW d \in Callers PROVE Draft(d)'
    BY <2>1, <1>0 DEF C!TypeOK, OneHandler, Draft, Busy, Writing, Made, Succeeds
  <2> QED BY <2>2, <2>3, <2>4
<1>4. ASSUME NEW c \in Callers, C!Rename(c) PROVE CredInv'
  <2> USE <1>4 DEF C!Rename, C!Goto, C!Unlock
  <2>1. C!TypeOK' /\ (file \in C!Docs)'
    BY <1>0 DEF C!TypeOK, Draft, Busy
  <2>2. OneHandler'
    BY DEF C!TypeOK, OneHandler, Busy
  <2>3. Rest'
    BY <1>0 DEF C!TypeOK, Made, Succeeds, Draft, Busy, Writing
  <2>4. \A d \in Callers : Draft(d)'
    BY <1>0 DEF C!TypeOK, OneHandler, Draft, Busy, Writing, Made, Succeeds
  <2> QED BY <2>1, <2>2, <2>3, <2>4
<1>5. ASSUME NEW c \in Callers, C!Adopt(c) PROVE CredInv'
  <2> USE <1>5 DEF C!Adopt, C!Goto, C!Unlock
  <2>1. known \in C!Docs /\ doc[c] \in C!Docs /\ file = doc[c]
    BY DEF C!TypeOK, Draft
  <2>2. /\ known' \in C!Docs /\ known'.relay \in {known.relay, file.relay}
        /\ known'.admin \in {known.admin, file.admin}
        /\ \/ known'.grace \/ ~file.grace
           \/ known'.grace = known.grace /\ known'.relay = known.relay
    <3>1. CASE op[c] = "rotate"
      <4>1. known' = [kind |-> "doc", relay |-> doc[c].relay, grace |-> TRUE, admin |-> known.admin]
        BY <2>1, <3>1 DEF C!Docs
      <4> QED BY ONLY <4>1, <2>1, <1>0 DEF C!Docs
    <3>2. CASE op[c] = "revoke"
      <4>1. known' = [kind |-> "doc", relay |-> known.relay, grace |-> FALSE, admin |-> known.admin]
        BY <2>1, <3>2 DEF C!Docs
      <4>2. ~file.grace
        BY <2>1, <3>2 DEF Draft, Busy
      <4> QED BY ONLY <4>1, <4>2, <2>1, <1>0 DEF C!Docs
    <3>3. CASE op[c] = "reset"
      <4>1. known' = [kind |-> "doc", relay |-> known.relay,
                      grace |-> known.grace, admin |-> doc[c].admin]
        BY <2>1, <3>3 DEF C!Docs
      <4> QED BY ONLY <4>1, <2>1, <1>0 DEF C!Docs
    <3> QED BY <3>1, <3>2, <3>3 DEF C!TypeOK, C!Operations
  <2>3. C!TypeOK' /\ (file \in C!Docs)'
    BY <2>2 DEF C!TypeOK
  <2>4. OneHandler'
    BY DEF C!TypeOK, OneHandler, Busy
  <2>5. Rest'
    <3>1. UNCHANGED <<file, secrets>> /\ secrets \in Nat /\ known \in C!Docs /\ file \in C!Docs
      BY <2>1 DEF C!TypeOK
    <3>2. Made(file)' /\ Made(known)'
      BY ONLY <3>1, <2>2, <1>0, Rest DEF Made
    <3>3. Succeeds(file, known)'
      BY ONLY <3>1, <2>2, <1>0, Rest DEF Succeeds
    <3> QED BY <3>2, <3>3
  <2>6. \A d \in Callers : Draft(d)'
    BY DEF C!TypeOK, OneHandler, Draft, Busy, Writing, Made, Succeeds
  <2> QED BY <2>3, <2>4, <2>5, <2>6
<1>6. ASSUME NEW c \in Callers, C!Fail(c) PROVE CredInv'
  <2> USE <1>6 DEF C!Fail, C!Goto, C!Unlock
  <2>1. C!TypeOK' /\ (file \in C!Docs)'
    BY <1>0 DEF C!TypeOK, Draft, C!Unlink
  <2>2. OneHandler'
    BY DEF C!TypeOK, OneHandler, Busy, C!Unlink
  <2>3. Rest'
    BY <1>0 DEF C!TypeOK, Made, Succeeds, Draft, Busy, Writing
  <2>4. \A d \in Callers : Draft(d)'
    BY <1>0 DEF C!TypeOK, OneHandler, Draft, Busy, Writing, Made, Succeeds, C!Unlink
  <2> QED BY <2>1, <2>2, <2>3, <2>4
<1>7. ASSUME NEW c \in Callers, NEW o \in C!Operations, C!Load(c, o) PROVE CredInv'
  <2> USE <1>7 DEF C!Load, C!Goto
  <2>1. \A d \in Callers : ~Busy(d)
    BY DEF OneHandler, C!MayStart, Busy, C!Operations
  <2>2. /\ file \in C!Docs /\ secrets' \in 0 .. MaxMade /\ secrets' >= secrets
        /\ o # "revoke" => secrets' > secrets
    BY <1>0 DEF C!TypeOK
  <2> DEFINE new == C!Applied(o, file, secrets')
  <2>3. /\ new \in C!Docs /\ new.relay <= secrets' /\ new.admin <= secrets'
        /\ Succeeds(new, file) /\ (o = "revoke" => ~new.grace)
    <3>1. /\ file.relay \in 0 .. secrets /\ file.admin \in 0 .. secrets /\ file.grace \in BOOLEAN
          /\ secrets \in Nat
      BY <1>0 DEF Made, C!TypeOK
    <3>2. CASE o = "rotate"
      <4>1. new = [kind |-> "doc", relay |-> secrets', grace |-> TRUE, admin |-> file.admin]
        BY <2>2, <3>2, AppliedIs
      <4> HIDE DEF new
      <4> QED BY ONLY <4>1, <2>2, <3>1, <3>2, <1>0 DEF Made, Succeeds, C!Docs
    <3>3. CASE o = "revoke"
      <4>1. new = [kind |-> "doc", relay |-> file.relay, grace |-> FALSE, admin |-> file.admin]
        BY <2>2, <3>3, AppliedIs
      <4> HIDE DEF new
      <4> QED BY ONLY <4>1, <2>2, <3>1, <3>3, <1>0 DEF Made, Succeeds, C!Docs
    <3>4. CASE o = "reset"
      <4>1. new = [kind |-> "doc", relay |-> file.relay, grace |-> file.grace, admin |-> secrets']
        BY <2>2, <3>4, AppliedIs
      <4> HIDE DEF new
      <4> QED BY ONLY <4>1, <2>2, <3>1, <3>4, <1>0 DEF Made, Succeeds, C!Docs
    <3> QED BY <3>2, <3>3, <3>4 DEF C!Operations
  <2>4. cpc'[c] = "adopt" => new = file
    <3> SUFFICES ASSUME o = "revoke", ~file.grace PROVE new = file
      BY DEF C!TypeOK
    <3>1. new = [kind |-> "doc", relay |-> file.relay, grace |-> FALSE, admin |-> file.admin]
      BY <2>2, AppliedIs
    <3> QED BY <3>1, <2>2 DEF C!Docs
  <2>5. C!TypeOK' /\ (file \in C!Docs)'
    BY <2>2, <2>3 DEF C!TypeOK
  <2>6. OneHandler'
    BY <2>1 DEF C!TypeOK, OneHandler, Busy
  <2>7. Rest'
    BY <2>2, <1>0 DEF C!TypeOK, Made, Succeeds
  <2>8. ASSUME NEW d \in Callers PROVE Draft(d)'
    <3>1. CASE d = c
      <4>1. doc'[c] = new /\ op'[c] = o /\ cpc'[c] \in {"remove", "adopt"}
        BY DEF C!TypeOK
      <4> HIDE DEF new
      <4> QED BY <3>1, <4>1, <2>3, <2>4 DEF Draft, Writing, Made
    <3>2. CASE d # c
      BY <3>2, <2>1 DEF C!TypeOK, Draft, Busy, Writing
    <3> QED BY <3>1, <3>2
  <2> QED BY <2>5, <2>6, <2>7, <2>8
<1>8. CASE C!Restart
  <2> USE <1>8 DEF C!Restart, C!Goto, C!Unlock
  <2>1. C!TypeOK' /\ (file \in C!Docs)'
    BY <1>0 DEF C!TypeOK, Draft
  <2>2. OneHandler'
    BY DEF C!TypeOK, OneHandler, Busy
  <2>3. Rest'
    BY <1>0 DEF C!TypeOK, Made, Succeeds, Draft, Busy, Writing
  <2>4. \A d \in Callers : Draft(d)'
    BY <1>0 DEF C!TypeOK, OneHandler, Draft, Busy, Writing, Made, Succeeds
  <2> QED BY <2>1, <2>2, <2>3, <2>4
<1>9. CASE UNCHANGED cvars
  BY <1>9 DEF cvars, C!TypeOK, OneHandler, Made, Succeeds, Draft, Busy, Writing
<1> QED BY <1>1, <1>2, <1>3, <1>4, <1>5, <1>6, <1>7, <1>8, <1>9 DEF C!Next, C!Step

(* However often a restore is cut off, by whom it is finished and whatever an *)
(* operator does in between, every file that held data of the deployment is  *)
(* there, and the server serves one whole group; and however the handlers of *)
(* the credentials are cut off, a start finds a whole document with every    *)
(* secret that was acknowledged and no grace that was revoked.               *)
THEOREM FilesHoldAlways == PartsSpec => []FilesHold
<1>1. PartsInit => RestoreInv /\ CredInv
  BY RestoreStart, CredStart DEF PartsInit
<1>2. ASSUME RestoreInv, CredInv, [PartsNext]_allVars
      PROVE  RestoreInv' /\ CredInv'
  <2>1. [R!Next]_rvars /\ [C!Next]_cvars
    BY <1>2 DEF PartsNext, allVars, Rot, Edt, Res, Mig, Edg
  <2> QED
    BY <1>2, <2>1, RestoreStep, CredStep
<1>3. RestoreInv /\ CredInv => FilesHold
  <2> SUFFICES ASSUME RestoreInv, CredInv PROVE FilesHold
    OBVIOUS
  <2>1. C!FileFits
    BY DEF CredInv, Succeeds, C!FileFits
  <2>2. R!NothingLost /\ R!ServesOneGroup
    BY DEF RestoreInv, Where, Groups, R!ServesOneGroup
  <2> QED
    BY <2>1, <2>2 DEF FilesHold
<1> QED
  BY <1>1, <1>2, <1>3, PTL DEF PartsSpec

-----------------------------------------------------------------------------
(* The migration.  A row of facts for the file, a row for what a transaction *)
(* would commit, and one for the process.                                    *)
Texts  == {"nothing", "short", "long", "looks sealed"}
Bodies == [form : M!Forms, text : Texts, key : 0 .. 2, opens : BOOLEAN]
Tables == [version : 0 .. M!Empty, key : BOOLEAN, orphans : BOOLEAN,
           address : {"origin", "full", "broken", "invalid"}, exact : BOOLEAN,
           fullUrl : BOOLEAN, enabled : BOOLEAN,
           headers : {"none", "safe", "own key", "secret", "template"},
           recipe : {"none", "legacy", "quarantined"},
           recipeHeaders : {"none", "safe", "template", "placeholder", "redacted"},
           wired : BOOLEAN, table : {"sample", "group"}, inBody : Bodies,
           respBody : Bodies, detail : Bodies, dataKey : 0 .. 2,
           settings : {"none", "legacy", "current"}]

IsSealed(b) == b.form \in {"v2", "v2m"}

\* d says what o said.
Tells(d, o) ==
    /\ d.inBody.text = o.inBody.text /\ d.respBody.text = o.respBody.text
    /\ d.detail.text = o.detail.text
    /\ d.key = o.key
    /\ d.address = o.address \/ d.fullUrl

\* No seal but those of the data keys in the file.
KeysFit(d) ==
    /\ IsSealed(d.inBody) => d.inBody.key = d.dataKey
    /\ IsSealed(d.respBody) => d.respBody.key = d.dataKey
    /\ IsSealed(d.detail) => d.detail.key = d.dataKey

\* What the steps up to its version have done to a file that said o.
Passed(d, o) ==
    /\ d.version < 8 \/ d.version = M!Empty =>
          ~IsSealed(d.inBody) /\ ~IsSealed(d.respBody) /\ ~IsSealed(d.detail)
    /\ d.version < 2 => d.address = o.address
    /\ d.version < 3 \/ d.version = M!Empty => d.exact \/ d.address = "origin"
    /\ d.version = 2 /\ d.exact => d.fullUrl
    /\ d.version = M!Empty => ~d.exact /\ d.address = o.address
    /\ d.version \in 3 .. M!Current => (d.address = "origin" \/ ~d.enabled)
    /\ d.version >= 3 => d.headers = "none"
    /\ d.version \in 7 .. M!Current => d.table = "group"

(* e differs from d in its version only.                                     *)
Keeps(e, d) ==
    /\ e.key = d.key /\ e.orphans = d.orphans /\ e.address = d.address
    /\ e.exact = d.exact /\ e.fullUrl = d.fullUrl /\ e.enabled = d.enabled
    /\ e.headers = d.headers /\ e.recipe = d.recipe /\ e.recipeHeaders = d.recipeHeaders
    /\ e.wired = d.wired /\ e.table = d.table /\ e.inBody = d.inBody
    /\ e.respBody = d.respBody /\ e.detail = d.detail /\ e.dataKey = d.dataKey
    /\ e.settings = d.settings

Fits(d, o) == d \in Tables /\ Tells(d, o) /\ KeysFit(d) /\ Passed(d, o)

FileInv ==
    /\ origin \in Tables /\ Fits(tables, origin)
    /\ tables.version \in 8 .. M!Current => ~tables.orphans

Rewriting == mpc \in {"rewrite", "stamp", "commit"}

WorkInv ==
    mpc \in {"stamp", "commit"} =>
        /\ Fits(work, origin)
        /\ work.version = IF tables.version = M!Empty THEN 1 ELSE tables.version + 1
        /\ fresh => ~work.exact
        /\ mpc = "commit" => ~work.orphans

BackingUp == mpc \in {"copy", "secrets", "manifest", "publish"}
Opened    == tables.version = M!Current /\ loaded = tables.dataKey
Validated == Opened /\ M!validateEncryptedState(tables, tables.dataKey)

ProcInv ==
    /\ fresh \in BOOLEAN /\ loaded \in 0 .. 2 /\ sealed \in 0 .. 2
    /\ fresh => ~tables.exact
    /\ mpc = "begin" \/ Rewriting =>
          tables.version # M!Current /\ (tables.version = M!Empty => fresh)
    /\ BackingUp => tables.version # M!Empty
    /\ mpc = "install" => tables.version = 8
    /\ mpc = "keys" => tables.version = M!Current
    /\ mpc = "validate" => Opened
    /\ mpc \in {"bindings", "settings", "audit", "serving"} => Validated
    /\ mpc \in {"audit", "serving"} => tables.settings = "current"
    /\ BackingUp /\ tables.version = M!Current => Validated /\ tables.settings = "current"
    /\ Rewriting /\ ~fresh =>
          <<tables.version, tables.version + 1, tables>> \in backups

MigrationInv == FileInv /\ WorkInv /\ ProcInv

-----------------------------------------------------------------------------
(* The rewriting of a step keeps what fits.                                  *)
LEMMA VersionSet ==
    ASSUME NEW d \in Tables, NEW n \in 0 .. M!Empty, NEW e, e = [d EXCEPT !.version = n]
    PROVE  e \in Tables /\ e.version = n /\ Keeps(e, d)
  BY DEF Tables, Keeps

(* The steps that set the version only.                                      *)
LEMMA VersionFits ==
    ASSUME NEW d, NEW o, Fits(d, o), NEW n \in 0 .. M!Current,
           \/ d.version = M!Empty /\ n = 1
           \/ d.version \in (0 .. 5) \cup (8 .. 16) /\ n = d.version + 1
                /\ (d.version = 1 => ~d.exact) /\ d.version # 2,
           NEW e, e = [d EXCEPT !.version = n]
    PROVE  Fits(e, o) /\ e.version = n /\ e.exact = d.exact
<1>0. d \in Tables /\ n \in 0 .. M!Empty
  BY DEF Fits, M!Empty, M!Current
<1>1. e \in Tables /\ e.version = n /\ Keeps(e, d)
  BY <1>0, VersionSet
<1>2. Tells(e, o) /\ KeysFit(e)
  BY <1>1 DEF Fits, Tells, KeysFit, Keeps
<1>3. Passed(e, o)
  BY <1>0, <1>1 DEF Fits, Tells, Passed, Keeps, M!Empty, M!Current
<1> QED BY <1>1, <1>2, <1>3 DEF Fits, Keeps

LEMMA BackfillFits ==
    ASSUME NEW d, NEW o, Fits(d, o), d.version = 1, M!CanBackfill(d),
           NEW e, e = M!migrateSchemaOneToTwo(d)
    PROVE  Fits(e, o) /\ e.version = 2 /\ (~d.exact => ~e.exact)
<1> DEFINE t == M!legacyHeaderTemplates(d.headers)
           r == IF t.risky THEN "quarantined" ELSE "legacy"
           h == t.header
<1>0. d \in Tables
  BY DEF Fits
<1>1. h \in {"none", "safe", "template", "placeholder", "redacted"}
  BY <1>0 DEF M!legacyHeaderTemplates, Tables
<1>2. e = [[[d EXCEPT !.fullUrl = d.exact, !.wired = TRUE]
               EXCEPT !.recipe = r, !.recipeHeaders = h] EXCEPT !.version = 2]
  BY DEF M!migrateSchemaOneToTwo, M!backfillSchemaTwo, M!insertLegacyRecipe,
      M!backfillLegacyEndpoints
<1>3. r \in {"none", "legacy", "quarantined"}
  OBVIOUS
<1> HIDE DEF r, h
<1>4. /\ e \in Tables /\ e.version = 2 /\ e.fullUrl = d.exact
      /\ e.key = d.key /\ e.address = d.address /\ e.exact = d.exact
      /\ e.inBody = d.inBody /\ e.respBody = d.respBody /\ e.detail = d.detail
      /\ e.dataKey = d.dataKey
  <2>1. PICK n \in 0 .. M!Empty : n = 2
    BY DEF M!Empty, M!Current
  <2>2. PICK x \in BOOLEAN : x = d.exact
    BY <1>0 DEF Tables
  <2>3. e = [d EXCEPT !.fullUrl = d.exact, !.wired = TRUE, !.recipe = r,
                      !.recipeHeaders = h, !.version = 2]
    BY <1>0, <1>2 DEF Tables
  <2>4. e = [d EXCEPT !.fullUrl = x, !.wired = TRUE, !.recipe = r,
                      !.recipeHeaders = h, !.version = n]
    BY <2>1, <2>2, <2>3
  <2>5. /\ e \in Tables /\ e.version = n /\ e.fullUrl = x
        /\ e.key = d.key /\ e.address = d.address /\ e.exact = d.exact
        /\ e.inBody = d.inBody /\ e.respBody = d.respBody /\ e.detail = d.detail
        /\ e.dataKey = d.dataKey
    BY ONLY <1>0, <1>1, <1>3, <2>4, n \in 0 .. M!Empty, x \in BOOLEAN DEF Tables
  <2> QED BY <2>1, <2>2, <2>5
<1>5. Tells(e, o) /\ KeysFit(e) /\ Passed(e, o)
  BY <1>0, <1>4 DEF Fits, Tells, KeysFit, Passed, M!Empty, M!Current
<1> QED BY <1>4, <1>5 DEF Fits

LEMMA CutoverFits ==
    ASSUME NEW d, NEW o, Fits(d, o), d.version = 2, NEW e, e = M!migrateSchemaTwoToThree(d)
    PROVE  Fits(e, o) /\ e.version = 3 /\ ~e.exact
<1> DEFINE a == M!safeOrigin(d.address)
           y == d.enabled /\ a # "invalid"
<1>n. PICK n \in 0 .. M!Empty : n = 3
  BY DEF M!Empty, M!Current
<1>0. d \in Tables
  BY DEF Fits
<1>1. d.enabled \in BOOLEAN /\ d.exact \in BOOLEAN
  BY <1>0 DEF Tables
<1>2. a \in {"origin", "invalid"}
  BY DEF M!safeOrigin
<1>3. y \in BOOLEAN /\ (a = "invalid" => ~y)
  BY <1>1
<1>4. /\ e \in Tables /\ e.version = 3 /\ ~e.exact
      /\ d.exact => e.address \in {"origin", "invalid"} /\ (e.address = "invalid" => ~e.enabled)
      /\ ~d.exact => e.address = d.address
      /\ e.headers = "none" /\ e.fullUrl = d.fullUrl
      /\ e.key = d.key /\ e.inBody = d.inBody /\ e.respBody = d.respBody
      /\ e.detail = d.detail /\ e.dataKey = d.dataKey
  <2>1. CASE ~d.exact
    <3>1. [d EXCEPT !.headers = "none"].exact = d.exact
      BY <1>0 DEF Tables
    <3>2. e = [[d EXCEPT !.headers = "none"] EXCEPT !.version = n]
      BY <1>n, <2>1, <3>1 DEF M!migrateSchemaTwoToThree, M!cutoverFullURLOrigins
    <3>3. e = [d EXCEPT !.headers = "none", !.version = n]
      BY <1>0, <3>2 DEF Tables
    <3>4. /\ e \in Tables /\ e.version = n /\ e.address = d.address /\ e.exact = d.exact
          /\ e.headers = "none" /\ e.fullUrl = d.fullUrl
          /\ e.key = d.key /\ e.inBody = d.inBody /\ e.respBody = d.respBody
          /\ e.detail = d.detail /\ e.dataKey = d.dataKey
      BY ONLY <1>0, <3>3, n \in 0 .. M!Empty DEF Tables
    <3> QED
      BY <1>n, <2>1, <3>4
  <2>2. CASE d.exact
    <3> DEFINE f == [d EXCEPT !.headers = "none"]
    <3>1. f.exact = d.exact /\ f.address = d.address /\ f.enabled = d.enabled
      BY <1>0 DEF Tables
    <3>2. e = [[f EXCEPT !.address = M!safeOrigin(f.address), !.exact = FALSE,
                         !.enabled = f.enabled /\ M!safeOrigin(f.address) # "invalid"]
                  EXCEPT !.version = n]
      BY <1>n, <2>2, <3>1 DEF M!migrateSchemaTwoToThree, M!cutoverFullURLOrigins
    <3>3. e = [[f EXCEPT !.address = a, !.exact = FALSE, !.enabled = y] EXCEPT !.version = n]
      <4> HIDE DEF f
      <4> QED BY <3>1, <3>2
    <3> HIDE DEF a, y
    <3>4. e = [d EXCEPT !.headers = "none", !.address = a, !.exact = FALSE,
                        !.enabled = y, !.version = n]
      BY <1>0, <1>2, <1>3, <3>3 DEF Tables
    <3>5. PICK x \in BOOLEAN : x = FALSE
      OBVIOUS
    <3>6. a \in {"origin", "full", "broken", "invalid"}
      BY <1>2
    <3>7. e = [d EXCEPT !.headers = "none", !.address = a, !.exact = x,
                        !.enabled = y, !.version = n]
      BY <3>4, <3>5
    <3>8. /\ e \in Tables /\ e.version = n /\ e.address = a /\ e.exact = x /\ e.enabled = y
          /\ e.headers = "none" /\ e.fullUrl = d.fullUrl
          /\ e.key = d.key /\ e.inBody = d.inBody /\ e.respBody = d.respBody
          /\ e.detail = d.detail /\ e.dataKey = d.dataKey
      BY ONLY <1>0, <1>3, <3>6, <3>7, n \in 0 .. M!Empty, x \in BOOLEAN DEF Tables
    <3> QED
      BY <1>2, <1>3, <1>n, <2>2, <3>5, <3>8
  <2> QED
    BY <1>1, <2>1, <2>2
<1>5. Tells(e, o) /\ KeysFit(e) /\ Passed(e, o)
  BY <1>1, <1>4 DEF Fits, Tells, KeysFit, Passed, M!Empty, M!Current
<1> QED BY <1>4, <1>5 DEF Fits

LEMMA GroupFits ==
    ASSUME NEW d, NEW o, Fits(d, o), d.version = 6, NEW e, e = M!migrateSchemaSixToSeven(d)
    PROVE  Fits(e, o) /\ e.version = 7 /\ e.exact = d.exact
<1>0. d \in Tables
  BY DEF Fits
<1>1. e = [d EXCEPT !.table = "group", !.version = 7]
  <2>1. e = [[d EXCEPT !.table = "group"] EXCEPT !.version = 7]
    BY DEF M!migrateSchemaSixToSeven, M!runSchemaSevenScript
  <2> QED BY <1>0, <2>1 DEF Tables
<1>2. /\ e \in Tables /\ e.version = 7 /\ e.table = "group"
      /\ e.address = d.address /\ e.exact = d.exact /\ e.enabled = d.enabled
      /\ e.headers = d.headers /\ e.fullUrl = d.fullUrl
      /\ e.key = d.key /\ e.inBody = d.inBody /\ e.respBody = d.respBody
      /\ e.detail = d.detail /\ e.dataKey = d.dataKey
  <2>1. PICK n \in 0 .. M!Empty : n = 7
    BY DEF M!Empty, M!Current
  <2>2. PICK t \in {"sample", "group"} : t = "group"
    OBVIOUS
  <2>3. e = [d EXCEPT !.table = t, !.version = n]
    BY <1>1, <2>1, <2>2
  <2>4. /\ e \in Tables /\ e.version = n /\ e.table = t
        /\ e.address = d.address /\ e.exact = d.exact /\ e.enabled = d.enabled
        /\ e.headers = d.headers /\ e.fullUrl = d.fullUrl
        /\ e.key = d.key /\ e.inBody = d.inBody /\ e.respBody = d.respBody
        /\ e.detail = d.detail /\ e.dataKey = d.dataKey
    BY ONLY <1>0, <2>3, n \in 0 .. M!Empty, t \in {"sample", "group"} DEF Tables
  <2> QED BY <2>1, <2>2, <2>4
<1>3. Tells(e, o) /\ KeysFit(e) /\ Passed(e, o)
  BY <1>2 DEF Fits, Tells, KeysFit, Passed, M!Empty, M!Current
<1> QED BY <1>2, <1>3 DEF Fits

LEMMA SealFits ==
    ASSUME NEW d, NEW o, Fits(d, o), d.version = 7, NEW k \in 1 .. 2,
           NEW e, e = M!migrateSchemaSevenToEight(d, k)
    PROVE  Fits(e, o) /\ e.version = 8 /\ e.exact = d.exact
<1> DEFINE S(b) == M!encryptDataBlob(b.text, k)
<1>0. /\ d \in Tables /\ ~IsSealed(d.inBody) /\ ~IsSealed(d.respBody)
      /\ d.inBody \in Bodies /\ d.respBody \in Bodies /\ d.detail \in Bodies
  <2>1. d \in Tables /\ Passed(d, o)
    BY DEF Fits
  <2>2. d.inBody \in Bodies /\ d.respBody \in Bodies /\ d.detail \in Bodies
    BY <2>1 DEF Tables
  <2>3. ~IsSealed(d.inBody) /\ ~IsSealed(d.respBody)
    BY <2>1 DEF Passed
  <2> QED BY <2>1, <2>2, <2>3
<1>1. ASSUME NEW b \in Bodies
      PROVE  S(b) \in Bodies /\ S(b).text = b.text /\ (IsSealed(S(b)) => S(b).key = k)
  <2>0. b.text \in Texts
    BY DEF Bodies
  <2>1. CASE b.text = "nothing"
    <3>1. S(b) = [form |-> "plain", text |-> "nothing", key |-> 0, opens |-> TRUE]
      BY <2>1 DEF M!encryptDataBlob, M!NoBody, M!Body
    <3>2. /\ "plain" \in M!Forms /\ "plain" \notin {"v2", "v2m"}
          /\ "nothing" \in Texts /\ 0 \in 0 .. 2
      BY DEF M!Forms, Texts
    <3> HIDE DEF S
    <3> QED BY <2>1, <3>1, <3>2 DEF Bodies, IsSealed
  <2>2. CASE b.text # "nothing"
    <3> DEFINE f == IF b.text = "long" THEN "v2m" ELSE "v2"
    <3>1. S(b) = [form |-> f, text |-> b.text, key |-> k, opens |-> TRUE]
      BY <2>2 DEF M!encryptDataBlob
    <3>2. f \in M!Forms
      BY DEF M!Forms
    <3>3. k \in 0 .. 2
      OBVIOUS
    <3> HIDE DEF S, f
    <3> QED BY <2>0, <3>1, <3>2, <3>3 DEF Bodies, IsSealed
  <2> QED BY <2>1, <2>2
<1>2. e = [[[d EXCEPT !.inBody = S(d.inBody), !.respBody = S(d.respBody)]
               EXCEPT !.detail = S(d.detail)] EXCEPT !.dataKey = k, !.version = 8]
  <2>1. /\ d.inBody.form \notin {"v2", "v2m"} /\ d.respBody.form \notin {"v2", "v2m"}
    BY <1>0 DEF IsSealed
  <2>2. M!migrateSampleDataBodies(d, k)
          = [d EXCEPT !.inBody = S(d.inBody), !.respBody = S(d.respBody)]
    <3> HIDE DEF S
    <3> QED BY <2>1, <1>0 DEF M!migrateSampleDataBodies, S, Tables
  <2>3. [d EXCEPT !.inBody = S(d.inBody), !.respBody = S(d.respBody)].detail = d.detail
    BY <1>0 DEF Tables
  <2> QED
    BY <2>2, <2>3, <1>0 DEF M!migrateSchemaSevenToEight, M!migrateSecurityDataBodies, Tables
<1>3. /\ S(d.inBody) \in Bodies /\ S(d.inBody).text = d.inBody.text
      /\ IsSealed(S(d.inBody)) => S(d.inBody).key = k
      /\ S(d.respBody) \in Bodies /\ S(d.respBody).text = d.respBody.text
      /\ IsSealed(S(d.respBody)) => S(d.respBody).key = k
      /\ S(d.detail) \in Bodies /\ S(d.detail).text = d.detail.text
      /\ IsSealed(S(d.detail)) => S(d.detail).key = k
  BY <1>0, <1>1
<1> HIDE DEF S
<1>4. /\ e \in Tables /\ e.version = 8 /\ e.table = d.table
      /\ e.address = d.address /\ e.exact = d.exact /\ e.enabled = d.enabled
      /\ e.headers = d.headers /\ e.fullUrl = d.fullUrl
      /\ e.key = d.key /\ e.inBody = S(d.inBody) /\ e.respBody = S(d.respBody)
      /\ e.detail = S(d.detail) /\ e.dataKey = k
  <2>1. e = [d EXCEPT !.inBody = S(d.inBody), !.respBody = S(d.respBody),
                      !.detail = S(d.detail), !.dataKey = k, !.version = 8]
    BY <1>0, <1>2 DEF Tables
  <2>2. PICK n \in 0 .. M!Empty : n = 8
    BY DEF M!Empty, M!Current
  <2>3. k \in 0 .. 2
    OBVIOUS
  <2>4. e = [d EXCEPT !.inBody = S(d.inBody), !.respBody = S(d.respBody),
                      !.detail = S(d.detail), !.dataKey = k, !.version = n]
    BY <2>1, <2>2
  <2>5. d \in Tables
    BY <1>0
  <2>6. /\ e \in Tables /\ e.version = n /\ e.table = d.table
        /\ e.address = d.address /\ e.exact = d.exact /\ e.enabled = d.enabled
        /\ e.headers = d.headers /\ e.fullUrl = d.fullUrl
        /\ e.key = d.key /\ e.inBody = S(d.inBody) /\ e.respBody = S(d.respBody)
        /\ e.detail = S(d.detail) /\ e.dataKey = k
    BY ONLY <2>5, <1>3, <2>3, <2>4, n \in 0 .. M!Empty DEF Tables
  <2> QED BY <2>2, <2>6
<1>5. Tells(e, o) /\ KeysFit(e) /\ Passed(e, o)
  BY <1>3, <1>4 DEF Fits, Tells, KeysFit, Passed, M!Empty, M!Current
<1> QED BY <1>4, <1>5 DEF Fits

LEMMA StepFits ==
    ASSUME FileInv, tables.version # M!Current, fresh \in BOOLEAN, fresh => ~tables.exact,
           M!Rewrites, NEW e, e = M!Step(tables)
    PROVE  /\ Fits(e, origin)
           /\ e.version = IF tables.version = M!Empty THEN 1 ELSE tables.version + 1
           /\ fresh => ~e.exact
<1>0. /\ tables \in Tables /\ Fits(tables, origin) /\ tables.version \in 0 .. 18
      /\ tables.version # 17
  <2>1. tables \in Tables /\ Fits(tables, origin)
    BY DEF FileInv, Fits
  <2>2. tables.version \in 0 .. M!Empty
    BY <2>1 DEF Tables
  <2> QED BY <2>1, <2>2 DEF M!Current, M!Empty
<1>a. M!Empty = 18 /\ M!Current = 17
  BY DEF M!Empty, M!Current
<1>1. CASE tables.version = 18
  <2>1. e = [tables EXCEPT !.version = 1]
    BY <1>1, <1>a DEF M!Step
  <2> QED
    BY <1>0, <1>1, <1>a, <2>1, VersionFits
<1>2. CASE tables.version = 0
  <2>1. e = [tables EXCEPT !.version = 1]
    BY <1>2, <1>a DEF M!Step, M!normalizeLegacyToSchemaOne
  <2> QED
    BY <1>0, <1>2, <1>a, <2>1, VersionFits
<1>3. CASE tables.version = 1 /\ fresh
  <2>1. e = [tables EXCEPT !.version = 2]
    BY <1>3, <1>a DEF M!Step
  <2> QED
    BY <1>0, <1>3, <1>a, <2>1, VersionFits
<1>4. CASE tables.version = 1 /\ ~fresh
  <2>1. e = M!migrateSchemaOneToTwo(tables)
    BY <1>4, <1>a DEF M!Step
  <2>2. M!CanBackfill(tables)
    BY <1>4 DEF M!Rewrites
  <2> QED
    BY <1>0, <1>4, <1>a, <2>1, <2>2, BackfillFits
<1>5. CASE tables.version = 2
  <2>1. e = M!migrateSchemaTwoToThree(tables)
    BY <1>5, <1>a DEF M!Step
  <2> QED
    BY <1>0, <1>5, <1>a, <2>1, CutoverFits
<1>6. CASE tables.version = 6
  <2>1. e = M!migrateSchemaSixToSeven(tables)
    BY <1>6, <1>a DEF M!Step
  <2> QED
    BY <1>0, <1>6, <1>a, <2>1, GroupFits
<1>7. CASE tables.version = 7
  <2>1. e = M!migrateSchemaSevenToEight(tables, M!NextKey) /\ M!NextKey \in 1 .. 2
    BY <1>7, <1>a DEF M!Step, M!NextKey
  <2> QED
    BY <1>0, <1>7, <1>a, <2>1, SealFits
<1>8. CASE tables.version \in (3 .. 5) \cup (8 .. 16)
  <2>1. e = [tables EXCEPT !.version = tables.version + 1]
    BY <1>8, <1>a DEF M!Step, M!migrateSchemaThreeToFour, M!migrateSchemaFourToFive,
        M!migrateSchemaFiveToSix, M!migrateSchemaEightToNine, M!migrateSchemaNineToTen,
        M!migrateSchemaTenToEleven, M!migrateSchemaElevenToTwelve,
        M!migrateSchemaTwelveToThirteen, M!migrateSchemaThirteenToFourteen,
        M!migrateSchemaFourteenToFifteen, M!migrateSchemaFifteenToSixteen,
        M!migrateSchemaSixteenToSeventeen
  <2>2. tables.version + 1 \in 0 .. M!Current
    BY <1>8, <1>a
  <2> QED
    BY <1>0, <1>8, <1>a, <2>1, <2>2, VersionFits
<1> QED
  BY <1>0, <1>1, <1>2, <1>3, <1>4, <1>5, <1>6, <1>7, <1>8

-----------------------------------------------------------------------------
(* A file of an earlier version, as the releases left it.                    *)
Old(d) ==
    /\ d \in Tables
    /\ ~IsSealed(d.inBody) /\ ~IsSealed(d.respBody) /\ ~IsSealed(d.detail)
    /\ d.exact \/ d.address = "origin"

Starting(e) ==
    Fits(e, e) /\ (e.version \in 8 .. M!Current => ~e.orphans)

LEMMA BodyIs ==
    ASSUME NEW f \in M!Forms, NEW t \in Texts
    PROVE  /\ M!Body(f, t) \in Bodies /\ M!Body(f, t).text = t /\ M!Body(f, t).form = f
           /\ M!NoBody \in Bodies /\ ~IsSealed(M!NoBody)
           /\ f \notin {"v2", "v2m"} => ~IsSealed(M!Body(f, t))
<1>1. M!Body(f, t) = [form |-> f, text |-> t, key |-> 0, opens |-> TRUE] /\ 0 \in 0 .. 2
  BY DEF M!Body
<1>2. /\ M!NoBody = [form |-> "plain", text |-> "nothing", key |-> 0, opens |-> TRUE]
      /\ "plain" \in M!Forms /\ "nothing" \in Texts
  BY DEF M!Body, M!NoBody, M!Forms, Texts
<1> QED BY <1>1, <1>2 DEF Bodies, IsSealed

LEMMA SealedBody ==
    ASSUME NEW b, b = [M!Body("v2", "short") EXCEPT !.key = 1]
    PROVE  b \in Bodies /\ b.key = 1 /\ b.text = "short" /\ b.form = "v2"
<1>1. "v2" \in M!Forms /\ "short" \in Texts /\ 1 \in 0 .. 2 /\ 0 \in 0 .. 2
  BY DEF M!Forms, Texts
<1>2. PICK k \in 0 .. 2 : k = 1
  OBVIOUS
<1>3. b = [form |-> "v2", text |-> "short", key |-> k, opens |-> TRUE]
  BY <1>2 DEF M!Body
<1>4. b \in Bodies /\ b.key = k /\ b.text = "short" /\ b.form = "v2"
  BY ONLY <1>1, <1>3, k \in 0 .. 2 DEF Bodies
<1> QED BY <1>2, <1>4

LEMMA AtIs ==
    ASSUME NEW d, Old(d), NEW v \in 0 .. M!Current, NEW e, e = M!At(v, d)
    PROVE  /\ e \in Tables /\ e.version = v
           /\ e.key = d.key /\ e.address = d.address /\ e.exact = d.exact
           /\ e.enabled = d.enabled /\ e.fullUrl = d.fullUrl /\ e.orphans = d.orphans
           /\ e.headers = IF v >= 3 THEN "none" ELSE d.headers
           /\ e.table = IF v >= 7 THEN "group" ELSE "sample"
           /\ e.inBody = IF v >= 8 THEN [M!Body("v2", "short") EXCEPT !.key = 1] ELSE d.inBody
           /\ e.respBody = IF v >= 8 THEN M!NoBody ELSE d.respBody
           /\ e.detail = IF v >= 8 THEN M!NoBody ELSE d.detail
           /\ e.dataKey = IF v >= 8 THEN 1 ELSE 0
<1>0. d \in Tables /\ v \in 0 .. M!Empty
  BY DEF Old, M!Empty, M!Current
<1> DEFINE r  == IF v >= 2 THEN "legacy" ELSE "none"
           rh == IF v >= 2 THEN "safe" ELSE "none"
           h  == IF v >= 3 THEN "none" ELSE d.headers
           t  == IF v >= 7 THEN "group" ELSE "sample"
           i  == IF v >= 8 THEN [M!Body("v2", "short") EXCEPT !.key = 1] ELSE d.inBody
           o  == IF v >= 8 THEN M!NoBody ELSE d.respBody
           f  == IF v >= 8 THEN M!NoBody ELSE d.detail
           k  == IF v >= 8 THEN 1 ELSE 0
<1>1. e = [d EXCEPT !.version = v, !.recipe = r, !.recipeHeaders = rh, !.headers = h,
                    !.table = t, !.inBody = i, !.respBody = o, !.detail = f, !.dataKey = k]
  BY <1>0 DEF M!At, Tables
<1>2. /\ r \in {"none", "legacy", "quarantined"}
      /\ rh \in {"none", "safe", "template", "placeholder", "redacted"}
      /\ h \in {"none", "safe", "own key", "secret", "template"}
      /\ t \in {"sample", "group"}
  <2>1. d.headers \in {"none", "safe", "own key", "secret", "template"}
    BY <1>0 DEF Tables
  <2>2. h \in {"none", "safe", "own key", "secret", "template"}
    BY <2>1
  <2>3. r \in {"none", "legacy", "quarantined"} /\ t \in {"sample", "group"}
    OBVIOUS
  <2>4. rh \in {"none", "safe", "template", "placeholder", "redacted"}
    OBVIOUS
  <2> HIDE DEF r, rh, h, t
  <2> QED BY <2>2, <2>3, <2>4
<1>5. k \in 0 .. 2
  OBVIOUS
<1>3. i \in Bodies /\ o \in Bodies /\ f \in Bodies
  <2>1. [M!Body("v2", "short") EXCEPT !.key = 1] \in Bodies
    BY SealedBody
  <2>2. M!NoBody \in Bodies
    <3>1. "plain" \in M!Forms /\ "nothing" \in Texts
      BY DEF M!Forms, Texts
    <3> QED BY <3>1, BodyIs
  <2>3. d.inBody \in Bodies /\ d.respBody \in Bodies /\ d.detail \in Bodies
    BY <1>0 DEF Tables
  <2> QED BY <2>1, <2>2, <2>3
<1> HIDE DEF r, rh, h, t, i, o, f, k
<1>4. /\ e \in Tables /\ e.version = v
      /\ e.key = d.key /\ e.address = d.address /\ e.exact = d.exact
      /\ e.enabled = d.enabled /\ e.fullUrl = d.fullUrl /\ e.orphans = d.orphans
      /\ e.headers = h /\ e.table = t /\ e.inBody = i /\ e.respBody = o /\ e.detail = f
      /\ e.dataKey = k
  <2> DEFINE g == [d EXCEPT !.version = v, !.recipe = r, !.recipeHeaders = rh,
                            !.headers = h, !.table = t]
  <2>0. g = [d EXCEPT !.version = v, !.recipe = r, !.recipeHeaders = rh, !.headers = h,
                      !.table = t]
    OBVIOUS
  <2>1. e = [g EXCEPT !.inBody = i, !.respBody = o, !.detail = f, !.dataKey = k]
    BY ONLY <1>0, <1>1 DEF Tables
  <2>2. /\ g \in Tables /\ g.version = v
        /\ g.key = d.key /\ g.address = d.address /\ g.exact = d.exact
        /\ g.enabled = d.enabled /\ g.fullUrl = d.fullUrl /\ g.orphans = d.orphans
        /\ g.headers = h /\ g.table = t
    <3> HIDE DEF g
    <3>1. g \in Tables
      <4>1. PICK m : m = [d EXCEPT !.version = v]
        OBVIOUS
      <4>2. m \in Tables
        BY <1>0, <4>1, VersionSet
      <4>3. g = [m EXCEPT !.recipe = r, !.recipeHeaders = rh, !.headers = h, !.table = t]
        BY ONLY <1>0, <2>0, <4>1 DEF Tables
      <4> QED BY ONLY <1>2, <4>2, <4>3 DEF Tables
    <3>2. g.version = v
      BY ONLY <1>0, <2>0 DEF Tables
    <3>3. /\ g.key = d.key /\ g.address = d.address /\ g.exact = d.exact
          /\ g.enabled = d.enabled /\ g.fullUrl = d.fullUrl /\ g.orphans = d.orphans
          /\ g.headers = h /\ g.table = t
      BY ONLY <1>0, <2>0 DEF Tables
    <3> QED BY <3>1, <3>2, <3>3
  <2> HIDE DEF g
  <2>3. /\ e \in Tables /\ e.version = g.version
        /\ e.key = g.key /\ e.address = g.address /\ e.exact = g.exact
        /\ e.enabled = g.enabled /\ e.fullUrl = g.fullUrl /\ e.orphans = g.orphans
        /\ e.headers = g.headers /\ e.table = g.table
        /\ e.inBody = i /\ e.respBody = o /\ e.detail = f /\ e.dataKey = k
    BY ONLY <2>1, <2>2, <1>3, <1>5 DEF Tables
  <2> QED BY <2>2, <2>3
<1> QED BY <1>4 DEF h, t, i, o, f, k

LEMMA AtFits ==
    ASSUME NEW d, Old(d), NEW v \in 0 .. M!Current, d.orphans => v < 8,
           v >= 2 => d.address = "origin" /\ ~d.exact, NEW e, e = M!At(v, d)
    PROVE  Starting(e)
<1>0. /\ e \in Tables /\ e.version = v
      /\ e.key = d.key /\ e.address = d.address /\ e.exact = d.exact
      /\ e.enabled = d.enabled /\ e.fullUrl = d.fullUrl /\ e.orphans = d.orphans
      /\ e.headers = IF v >= 3 THEN "none" ELSE d.headers
      /\ e.table = IF v >= 7 THEN "group" ELSE "sample"
      /\ e.inBody = IF v >= 8 THEN [M!Body("v2", "short") EXCEPT !.key = 1] ELSE d.inBody
      /\ e.respBody = IF v >= 8 THEN M!NoBody ELSE d.respBody
      /\ e.detail = IF v >= 8 THEN M!NoBody ELSE d.detail
      /\ e.dataKey = IF v >= 8 THEN 1 ELSE 0
  BY AtIs
<1>1. ~IsSealed(M!NoBody)
  <2>1. "plain" \in M!Forms /\ "nothing" \in Texts
    BY DEF M!Forms, Texts
  <2> QED BY <2>1, BodyIs
<1>2. [M!Body("v2", "short") EXCEPT !.key = 1].key = 1
  BY SealedBody
<1>3. KeysFit(e)
  BY <1>0, <1>1, <1>2 DEF Old, KeysFit
<1>4. v \in 0 .. 17
  BY DEF M!Current
<1>5. Passed(e, e) /\ Tells(e, e)
  BY <1>0, <1>4 DEF Old, Passed, Tells, M!Empty, M!Current
<1>6. e.version \in 8 .. M!Current => ~e.orphans
  BY <1>0, <1>4 DEF M!Current
<1> QED BY <1>0, <1>3, <1>5, <1>6 DEF Starting, Fits

LEMMA RowIs ==
    ASSUME NEW p, p = [M!Row EXCEPT !.version = 0]
    PROVE  /\ Old(p) /\ ~p.orphans /\ p.address = "origin" /\ ~p.exact
<1>1. /\ "plain" \in M!Forms /\ "nothing" \in Texts /\ "short" \in Texts
      /\ M!NoBody = M!Body("plain", "nothing")
  BY DEF M!Forms, Texts, M!NoBody
<1>2. /\ M!Body("plain", "short") \in Bodies /\ ~IsSealed(M!Body("plain", "short"))
      /\ M!NoBody \in Bodies /\ ~IsSealed(M!NoBody)
  BY <1>1, BodyIs
<1>3. PICK n \in 0 .. M!Empty, k \in 0 .. 2 : n = 0 /\ k = 0
  BY DEF M!Empty, M!Current
<1> DEFINE b == M!Body("plain", "short")
           c == M!NoBody
<1> HIDE DEF b, c
<1>4. p = [version |-> n, key |-> TRUE, orphans |-> FALSE, address |-> "origin",
           exact |-> FALSE, fullUrl |-> FALSE, enabled |-> TRUE, headers |-> "safe",
           recipe |-> "none", recipeHeaders |-> "none", wired |-> TRUE,
           table |-> "sample", inBody |-> b, respBody |-> c,
           detail |-> c, dataKey |-> k, settings |-> "legacy"]
  BY <1>3 DEF M!Row, b, c
<1>5. b \in Bodies /\ c \in Bodies /\ ~IsSealed(b) /\ ~IsSealed(c)
  BY <1>2 DEF b, c
<1>6. p \in Tables
  BY ONLY <1>4, <1>5, n \in 0 .. M!Empty, k \in 0 .. 2 DEF Tables
<1>7. /\ p.inBody = b /\ p.respBody = c /\ p.detail = c
      /\ ~p.orphans /\ p.address = "origin" /\ ~p.exact
  BY ONLY <1>4
<1> QED BY <1>5, <1>6, <1>7 DEF Old

(* The plain file with one field of another kind.                            *)
LEMMA OddIs ==
    ASSUME NEW p, Old(p), ~p.orphans, p.address = "origin", ~p.exact, NEW q,
           q \in {[p EXCEPT !.respBody = b] : b \in M!Legacy}
                    \cup {[p EXCEPT !.inBody = b] : b \in M!Legacy}
                    \cup {[p EXCEPT !.key = FALSE]}
    PROVE  Old(q) /\ ~q.orphans /\ q.address = "origin" /\ ~q.exact
<1>1. p \in Tables
  BY DEF Old
<1>2. ASSUME NEW b \in M!Legacy PROVE b \in Bodies /\ ~IsSealed(b)
  <2>1. /\ {"plain", "v1", "v1m", "wrapped"} \subseteq M!Forms
        /\ {"nothing", "long", "short", "looks sealed"} \subseteq Texts
    BY DEF M!Forms, Texts
  <2>2. ASSUME NEW f \in {"plain", "v1", "v1m", "wrapped"},
               NEW t \in {"nothing", "long", "short", "looks sealed"}
        PROVE  M!Body(f, t) \in Bodies /\ ~IsSealed(M!Body(f, t))
    <3>1. f \in M!Forms /\ t \in Texts /\ f \notin {"v2", "v2m"}
      BY <2>1
    <3> QED BY <3>1, BodyIs
  <2>3. CASE b = [M!Body("v1m", "long") EXCEPT !.opens = FALSE]
    <3>1. M!Body("v1m", "long") \in Bodies /\ ~IsSealed(M!Body("v1m", "long"))
      BY <2>2
    <3> QED BY <2>3, <3>1 DEF Bodies, IsSealed
  <2>4. b \in {M!Body("plain", "nothing"), M!Body("plain", "long"), M!Body("v1", "short"),
               M!Body("v1", "nothing"), M!Body("v1m", "long"), M!Body("wrapped", "long"),
               M!Body("plain", "looks sealed")}
        \/ b = [M!Body("v1m", "long") EXCEPT !.opens = FALSE]
    BY DEF M!Legacy, M!NoBody
  <2> QED BY <2>2, <2>3, <2>4
<1>3. ASSUME NEW b \in Bodies, ~IsSealed(b), q = [p EXCEPT !.respBody = b]
      PROVE  Old(q) /\ ~q.orphans /\ q.address = "origin" /\ ~q.exact
  <2>1. /\ q \in Tables /\ q.inBody = p.inBody /\ q.respBody = b /\ q.detail = p.detail
        /\ q.orphans = p.orphans /\ q.address = p.address /\ q.exact = p.exact
    BY ONLY <1>1, <1>3 DEF Tables
  <2> QED BY <1>3, <2>1 DEF Old
<1>4. ASSUME NEW b \in Bodies, ~IsSealed(b), q = [p EXCEPT !.inBody = b]
      PROVE  Old(q) /\ ~q.orphans /\ q.address = "origin" /\ ~q.exact
  <2>1. /\ q \in Tables /\ q.inBody = b /\ q.respBody = p.respBody /\ q.detail = p.detail
        /\ q.orphans = p.orphans /\ q.address = p.address /\ q.exact = p.exact
    BY ONLY <1>1, <1>4 DEF Tables
  <2> QED BY <1>4, <2>1 DEF Old
<1>5. ASSUME q = [p EXCEPT !.key = FALSE]
      PROVE  Old(q) /\ ~q.orphans /\ q.address = "origin" /\ ~q.exact
  <2>1. /\ q \in Tables /\ q.inBody = p.inBody /\ q.respBody = p.respBody /\ q.detail = p.detail
        /\ q.orphans = p.orphans /\ q.address = p.address /\ q.exact = p.exact
    BY ONLY <1>1, <1>5 DEF Tables
  <2> QED BY <1>5, <2>1 DEF Old
<1> QED BY <1>2, <1>3, <1>4, <1>5

(* The plain file with an address or headers of another kind, or with orphans. *)
LEMMA OtherIs ==
    ASSUME NEW p, Old(p), ~p.orphans, p.address = "origin", ~p.exact, NEW q,
           q \in {[p EXCEPT !.address = a, !.exact = TRUE] : a \in {"full", "broken"}}
                    \cup {[p EXCEPT !.headers = h] :
                             h \in {"none", "own key", "secret", "template"}}
    PROVE  Old(q) /\ ~q.orphans
<1>1. p \in Tables
  BY DEF Old
<1>2. ASSUME NEW a \in {"full", "broken"}, q = [p EXCEPT !.address = a, !.exact = TRUE]
      PROVE  Old(q) /\ ~q.orphans
  <2>1. a \in {"origin", "full", "broken", "invalid"}
    OBVIOUS
  <2>2. /\ q \in Tables /\ q.inBody = p.inBody /\ q.respBody = p.respBody
        /\ q.detail = p.detail /\ q.orphans = p.orphans /\ q.exact = TRUE
    BY ONLY <1>1, <1>2, <2>1 DEF Tables
  <2> QED BY <2>2 DEF Old
<1>3. ASSUME NEW h \in {"none", "own key", "secret", "template"},
             q = [p EXCEPT !.headers = h]
      PROVE  Old(q) /\ ~q.orphans
  <2>1. h \in {"none", "safe", "own key", "secret", "template"}
    OBVIOUS
  <2>2. /\ q \in Tables /\ q.inBody = p.inBody /\ q.respBody = p.respBody
        /\ q.detail = p.detail /\ q.orphans = p.orphans /\ q.address = p.address
    BY ONLY <1>1, <1>3, <2>1 DEF Tables
  <2> QED BY <2>2 DEF Old
<1> QED BY <1>2, <1>3

LEMMA OrphanIs ==
    ASSUME NEW p, Old(p), ~p.orphans, p.address = "origin", ~p.exact, NEW q,
           q = [p EXCEPT !.orphans = TRUE]
    PROVE  Old(q) /\ q.address = "origin" /\ ~q.exact
<1>1. p \in Tables
  BY DEF Old
<1>2. /\ q \in Tables /\ q.inBody = p.inBody /\ q.respBody = p.respBody
      /\ q.detail = p.detail /\ q.exact = p.exact /\ q.address = p.address
  BY ONLY <1>1, q = [p EXCEPT !.orphans = TRUE] DEF Tables
<1> QED BY <1>2 DEF Old

LEMMA StartsFit ==
    ASSUME NEW s \in M!Starts
    PROVE  Starting(s)
<1> DEFINE p     == [M!Row EXCEPT !.version = 0]
           odd   == {[p EXCEPT !.respBody = b] : b \in M!Legacy}
                       \cup {[p EXCEPT !.inBody = b] : b \in M!Legacy}
                       \cup {[p EXCEPT !.key = FALSE]}
           urls  == {[p EXCEPT !.address = a, !.exact = TRUE] : a \in {"full", "broken"}}
           heads == {[p EXCEPT !.headers = h] : h \in {"none", "own key", "secret", "template"}}
           S1 == UNION {{M!At(v, d) : d \in odd} : v \in 0 .. M!Current}
           S2 == UNION {{M!At(v, d) : d \in urls \cup heads} : v \in 0 .. 1}
           S3 == {M!At(v, [p EXCEPT !.orphans = TRUE]) : v \in 0 .. 7}
           S4 == {[M!At(2, p) EXCEPT !.wired = FALSE]}
           S5 == UNION {{[M!At(v, p) EXCEPT !.detail = M!Body("plain", t)] :
                            t \in {"short", "looks sealed"}} : v \in 5 .. 7}
           S6 == {[M!At(v, p) EXCEPT !.inBody.opens = FALSE] : v \in 8 .. M!Current}
           S7 == {[M!Row EXCEPT !.version = M!Empty, !.inBody = M!NoBody, !.headers = "none",
                                !.settings = "none"]}
<1>s. M!Starts = S1 \cup S2 \cup S3 \cup S4 \cup S5 \cup S6 \cup S7
  BY DEF M!Starts
<1> HIDE DEF S1, S2, S3, S4, S5, S6, S7
<1>1. s \in S1 \/ s \in S2 \/ s \in S3 \/ s \in S4 \/ s \in S5 \/ s \in S6 \/ s \in S7
  BY <1>s
<1>r. p = [M!Row EXCEPT !.version = 0]
  OBVIOUS
<1> HIDE DEF p, odd, urls, heads
<1>2. Old(p) /\ ~p.orphans /\ p.address = "origin" /\ ~p.exact
  BY <1>r, RowIs
<1>a. \A v \in 5 .. 7 : v \in 0 .. M!Current
  BY DEF M!Current
<1>3. ASSUME NEW v \in 0 .. M!Current, NEW d \in odd PROVE Starting(M!At(v, d))
  <2>1. Old(d) /\ ~d.orphans /\ d.address = "origin" /\ ~d.exact
    BY <1>2, OddIs DEF odd
  <2> QED BY <2>1, AtFits
<1>4. ASSUME NEW v \in 0 .. 1, NEW d \in urls \cup heads PROVE Starting(M!At(v, d))
  <2>1. Old(d) /\ ~d.orphans
    BY <1>2, OtherIs DEF urls, heads
  <2>2. v \in 0 .. M!Current /\ ~(v >= 2)
    BY DEF M!Current
  <2> QED BY <2>1, <2>2, AtFits
<1>5. ASSUME NEW v \in 0 .. 7 PROVE Starting(M!At(v, [p EXCEPT !.orphans = TRUE]))
  <2> DEFINE d == [p EXCEPT !.orphans = TRUE]
  <2>1. Old(d) /\ d.address = "origin" /\ ~d.exact
    BY <1>2, OrphanIs
  <2>2. v \in 0 .. M!Current /\ v < 8
    BY DEF M!Current
  <2> HIDE DEF d
  <2>3. Starting(M!At(v, d))
    BY <2>1, <2>2, AtFits
  <2> QED BY <2>3 DEF d
<1>6. ASSUME NEW v \in 0 .. M!Current PROVE Starting(M!At(v, p))
  BY <1>2, AtFits
<1>7. ASSUME NEW e, e = [M!At(2, p) EXCEPT !.wired = FALSE] PROVE Starting(e)
  <2>1. 2 \in 0 .. M!Current
    BY DEF M!Current
  <2>2. PICK g : g = M!At(2, p)
    OBVIOUS
  <2>3. Starting(g) /\ g \in Tables
    BY <1>6, <2>1, <2>2 DEF Starting, Fits
  <2>4. e = [g EXCEPT !.wired = FALSE]
    BY <1>7, <2>2
  <2>5. /\ e \in Tables /\ e.version = g.version
        /\ e.key = g.key /\ e.orphans = g.orphans /\ e.address = g.address
        /\ e.exact = g.exact /\ e.fullUrl = g.fullUrl /\ e.enabled = g.enabled
        /\ e.headers = g.headers /\ e.table = g.table /\ e.inBody = g.inBody
        /\ e.respBody = g.respBody /\ e.detail = g.detail /\ e.dataKey = g.dataKey
    BY ONLY <2>3, <2>4 DEF Tables
  <2> QED BY <2>3, <2>5 DEF Starting, Fits, Tells, KeysFit, Passed
<1>8. ASSUME NEW v \in 5 .. 7, NEW t \in {"short", "looks sealed"}, NEW e,
             e = [M!At(v, p) EXCEPT !.detail = M!Body("plain", t)]
      PROVE  Starting(e)
  <2>1. v \in 0 .. M!Current
    BY <1>a
  <2>2. PICK g : g = M!At(v, p)
    OBVIOUS
  <2>3. Starting(g) /\ g \in Tables
    BY <1>6, <2>1, <2>2 DEF Starting, Fits
  <2>4. PICK b : b = M!Body("plain", t)
    OBVIOUS
  <2>5. b \in Bodies /\ ~IsSealed(b)
    <3>1. "plain" \in M!Forms /\ t \in Texts /\ "plain" \notin {"v2", "v2m"}
      BY DEF M!Forms, Texts
    <3> QED BY <2>4, <3>1, BodyIs
  <2>6. e = [g EXCEPT !.detail = b]
    BY <1>8, <2>2, <2>4
  <2>7. /\ e \in Tables /\ e.version = g.version
        /\ e.key = g.key /\ e.orphans = g.orphans /\ e.address = g.address
        /\ e.exact = g.exact /\ e.fullUrl = g.fullUrl /\ e.enabled = g.enabled
        /\ e.headers = g.headers /\ e.table = g.table /\ e.inBody = g.inBody
        /\ e.respBody = g.respBody /\ e.detail = b /\ e.dataKey = g.dataKey
    BY ONLY <2>3, <2>5, <2>6 DEF Tables
  <2> QED BY <2>3, <2>5, <2>7 DEF Starting, Fits, Tells, KeysFit, Passed
<1>9. ASSUME NEW v \in 8 .. M!Current, NEW e, e = [M!At(v, p) EXCEPT !.inBody.opens = FALSE]
      PROVE  Starting(e)
  <2>1. v \in 0 .. M!Current /\ v >= 8 /\ v # M!Empty
    BY DEF M!Current, M!Empty
  <2>2. PICK g : g = M!At(v, p)
    OBVIOUS
  <2>3. Starting(g) /\ g \in Tables /\ g.version = v
    BY <1>2, <1>6, <2>1, <2>2, AtIs DEF Starting, Fits
  <2>4. PICK b : b = [g.inBody EXCEPT !.opens = FALSE]
    OBVIOUS
  <2>5. b \in Bodies /\ b.form = g.inBody.form /\ b.key = g.inBody.key
    <3>1. g.inBody \in Bodies
      BY <2>3 DEF Tables
    <3> QED BY ONLY <3>1, <2>4 DEF Bodies
  <2>6. e = [g EXCEPT !.inBody = b]
    BY <1>9, <2>2, <2>3, <2>4 DEF Tables
  <2>7. /\ e \in Tables /\ e.version = g.version
        /\ e.key = g.key /\ e.orphans = g.orphans /\ e.address = g.address
        /\ e.exact = g.exact /\ e.fullUrl = g.fullUrl /\ e.enabled = g.enabled
        /\ e.headers = g.headers /\ e.table = g.table /\ e.inBody = b
        /\ e.respBody = g.respBody /\ e.detail = g.detail /\ e.dataKey = g.dataKey
    BY ONLY <2>3, <2>5, <2>6 DEF Tables
  <2> QED
    BY <2>1, <2>3, <2>5, <2>7 DEF Starting, Fits, Tells, KeysFit, Passed, IsSealed
<1>10. ASSUME NEW e, e = [M!Row EXCEPT !.version = M!Empty, !.inBody = M!NoBody,
                                     !.headers = "none", !.settings = "none"]
       PROVE  Starting(e)
  <2>1. p \in Tables /\ ~IsSealed(p.respBody) /\ ~IsSealed(p.detail)
    BY <1>2 DEF Old
  <2>2. PICK b : b = M!NoBody
    OBVIOUS
  <2>3. b \in Bodies /\ ~IsSealed(b)
    <3>1. "plain" \in M!Forms /\ "nothing" \in Texts
      BY DEF M!Forms, Texts
    <3> QED BY <2>2, <3>1, BodyIs
  <2>4. PICK n \in 0 .. M!Empty : n = M!Empty
    BY DEF M!Empty, M!Current
  <2>5. e = [p EXCEPT !.version = n, !.inBody = b, !.headers = "none", !.settings = "none"]
    BY <1>r, <1>10, <2>2, <2>4 DEF M!Row
  <2>6. /\ e \in Tables /\ e.version = n
        /\ e.address = p.address /\ e.exact = p.exact /\ e.headers = "none"
        /\ e.inBody = b /\ e.respBody = p.respBody /\ e.detail = p.detail
    BY ONLY <2>1, <2>3, <2>5, n \in 0 .. M!Empty DEF Tables
  <2>7. KeysFit(e)
    BY <2>1, <2>3, <2>6 DEF KeysFit
  <2>8. M!Empty = 18 /\ M!Current = 17
    BY DEF M!Empty, M!Current
  <2> QED
    BY <1>2, <2>1, <2>3, <2>4, <2>6, <2>7, <2>8 DEF Starting, Fits, Tells, Passed
<1>11. CASE s \in S1
  <2>1. PICK v \in 0 .. M!Current, d \in odd : s = M!At(v, d)
    BY <1>11 DEF S1
  <2> QED BY <1>3, <2>1
<1>12. CASE s \in S2
  <2>1. PICK v \in 0 .. 1, d \in urls \cup heads : s = M!At(v, d)
    BY <1>12 DEF S2
  <2> QED BY <1>4, <2>1
<1>13. CASE s \in S3
  BY <1>5, <1>13 DEF S3
<1>14. CASE s \in S4
  BY <1>7, <1>14 DEF S4
<1>15. CASE s \in S5
  <2>1. PICK v \in 5 .. 7, t \in {"short", "looks sealed"} :
            s = [M!At(v, p) EXCEPT !.detail = M!Body("plain", t)]
    BY <1>15 DEF S5
  <2> QED BY <1>8, <2>1
<1>16. CASE s \in S6
  BY <1>9, <1>16 DEF S6
<1>17. CASE s \in S7
  BY <1>10, <1>17 DEF S7
<1> QED
  BY <1>1, <1>11, <1>12, <1>13, <1>14, <1>15, <1>16, <1>17

LEMMA MigrationStart == M!Init => MigrationInv
<1> SUFFICES ASSUME M!Init PROVE MigrationInv
  OBVIOUS
<1>1. Starting(tables) /\ origin = tables
  BY StartsFit DEF M!Init
<1>2. tables \in Tables /\ tables.dataKey \in 0 .. 2
  BY <1>1 DEF Starting, Fits, Tables
<1>3. FileInv
  BY <1>1, <1>2 DEF FileInv, Starting
<1>4. WorkInv
  BY DEF M!Init, WorkInv
<1>5. ProcInv
  <2>1. fresh = FALSE /\ mpc = "closed" /\ loaded = 0 /\ sealed = tables.dataKey
    BY DEF M!Init
  <2>2. loaded \in 0 .. 2 /\ sealed \in 0 .. 2
    BY <1>2, <2>1
  <2> QED BY <2>1, <2>2 DEF ProcInv, Rewriting, BackingUp
<1> QED BY <1>3, <1>4, <1>5 DEF MigrationInv

(* The file and the process after a call that failed.                        *)
LEMMA ClosedStep ==
    ASSUME MigrationInv, mpc' = "closed", loaded' = 0, fresh' = FALSE,
           UNCHANGED <<tables, origin, sealed>>
    PROVE  MigrationInv'
<1>1. FileInv'
  BY DEF MigrationInv, FileInv
<1>2. WorkInv'
  BY DEF WorkInv
<1>3. loaded' \in 0 .. 2 /\ sealed' \in 0 .. 2
  BY DEF MigrationInv, ProcInv
<1>4. ProcInv'
  BY <1>3 DEF ProcInv, Rewriting, BackingUp
<1> QED BY <1>1, <1>2, <1>4 DEF MigrationInv

(* What the running server writes is sealed with the keys in the file.       *)
LEMMA SampleFits ==
    ASSUME FileInv, ProcInv, M!WriteSample
    PROVE  FileInv' /\ tables'.settings = tables.settings /\ tables'.version = tables.version
           /\ tables'.dataKey = tables.dataKey /\ tables'.exact = tables.exact
           /\ M!validateEncryptedState(tables', tables'.dataKey)
<1> DEFINE b == M!encryptDataBlob("short", loaded)
           c == M!Body("plain", "short")
<1>1. /\ tables \in Tables /\ origin \in Tables /\ Fits(tables, origin) /\ Validated
      /\ mpc = "serving" /\ tables' = [tables EXCEPT !.respBody = b]
      /\ origin' = [origin EXCEPT !.respBody = c] /\ loaded \in 0 .. 2
      /\ tables.version = M!Current /\ loaded = tables.dataKey
  BY DEF FileInv, Fits, ProcInv, M!WriteSample, Validated, Opened
<1>2. "short" \in Texts /\ "v2" \in M!Forms /\ "plain" \in M!Forms
  BY DEF Texts, M!Forms
<1>3. b = [form |-> "v2", text |-> "short", key |-> loaded, opens |-> TRUE]
  BY DEF M!encryptDataBlob
<1>4. /\ b \in Bodies /\ b.text = "short" /\ b.key = loaded /\ b.form = "v2" /\ b.opens
  <2> HIDE DEF b
  <2> QED BY ONLY <1>1, <1>2, <1>3 DEF Bodies
<1>5. c \in Bodies /\ c.text = "short"
  BY <1>2, BodyIs
<1> HIDE DEF b, c
<1>6. PICK e : e = tables'
  OBVIOUS
<1>7. PICK o : o = origin'
  OBVIOUS
<1>8. /\ e \in Tables /\ e.version = tables.version
      /\ e.key = tables.key /\ e.orphans = tables.orphans /\ e.address = tables.address
      /\ e.exact = tables.exact /\ e.fullUrl = tables.fullUrl /\ e.enabled = tables.enabled
      /\ e.headers = tables.headers /\ e.table = tables.table /\ e.inBody = tables.inBody
      /\ e.respBody = b /\ e.detail = tables.detail /\ e.dataKey = tables.dataKey
      /\ e.settings = tables.settings
  <2>1. tables \in Tables /\ b \in Bodies /\ e = [tables EXCEPT !.respBody = b]
    BY <1>1, <1>4, <1>6
  <2> QED BY ONLY <2>1 DEF Tables
<1>9. /\ o \in Tables /\ o.key = origin.key /\ o.address = origin.address
      /\ o.inBody = origin.inBody /\ o.respBody = c /\ o.detail = origin.detail
  <2>1. origin \in Tables /\ c \in Bodies /\ o = [origin EXCEPT !.respBody = c]
    BY <1>1, <1>5, <1>7
  <2> QED BY ONLY <2>1 DEF Tables
<1>10. Tells(e, o) /\ KeysFit(e)
  BY <1>1, <1>4, <1>5, <1>8, <1>9 DEF Fits, Tells, KeysFit
<1>11. Passed(e, o)
  <2>1. e.version = 17 /\ M!Current = 17 /\ M!Empty = 18 /\ tables.version = 17
    BY <1>1, <1>8 DEF M!Current, M!Empty
  <2> QED BY <1>1, <1>8, <2>1 DEF Fits, Passed
<1>12. M!validateEncryptedState(e, e.dataKey)
  <2>1. M!validateEncryptedState(tables, tables.dataKey)
    BY <1>1 DEF Validated
  <2> QED
    BY <1>1, <1>4, <1>8, <2>1
    DEF M!validateEncryptedState, M!validateDirectSecrets, M!validateSensitiveBody
<1>13. Fits(e, o) /\ (e.version \in 8 .. M!Current => ~e.orphans)
  BY <1>8, <1>10, <1>11 DEF Fits, FileInv
<1> QED
  BY <1>6, <1>7, <1>8, <1>9, <1>12, <1>13 DEF FileInv

LEMMA MigrationStep == MigrationInv /\ [M!Next]_migrationVars => MigrationInv'
<1> SUFFICES ASSUME MigrationInv, [M!Next]_migrationVars PROVE MigrationInv'
  OBVIOUS
<1> USE DEF MigrationInv
<1>0. M!Empty = 18 /\ M!Current = 17
  BY DEF M!Empty, M!Current
<1>v. tables.version \in 0 .. 18 /\ tables.dataKey \in 0 .. 2
  <2>1. tables \in Tables
    BY DEF FileInv, Fits
  <2>2. tables.version \in 0 .. M!Empty /\ tables.dataKey \in 0 .. 2
    BY <2>1 DEF Tables
  <2> QED BY <1>0, <2>2
<1>1. CASE M!openLocked
  <2>1. FileInv' /\ WorkInv'
    BY <1>1 DEF M!openLocked, M!Bounds, FileInv, WorkInv
  <2>2. ProcInv'
    BY <1>1 DEF M!openLocked, ProcInv, Rewriting, BackingUp
  <2> QED BY <2>1, <2>2
<1>2. CASE M!inspectSchemaState
  <2> USE <1>2 DEF M!inspectSchemaState, M!Bounds
  <2>1. FileInv' /\ WorkInv'
    BY DEF FileInv, WorkInv
  <2>2. tables.version = M!Empty => ~tables.exact
    BY DEF FileInv, Fits, Passed
  <2>3. ProcInv'
    BY <2>2, <1>0 DEF ProcInv, Rewriting, BackingUp
  <2> QED BY <2>1, <2>3
<1>3. CASE M!Begin
  <2>1. FileInv' /\ WorkInv'
    BY <1>3 DEF M!Begin, M!Bounds, FileInv, WorkInv
  <2>2. ProcInv'
    BY <1>3 DEF M!Begin, M!Bounds, ProcInv, Rewriting, BackingUp
  <2> QED BY <2>1, <2>2
<1>4. CASE M!RefuseBegin \/ M!RefuseRewrite \/ M!RefuseStamp \/ M!RefuseState
  BY <1>4, ClosedStep
  DEF M!RefuseBegin, M!RefuseRewrite, M!RefuseStamp, M!RefuseState, M!Refuse, M!Bounds
<1>5. CASE M!Rewrite
  <2> USE <1>5 DEF M!Rewrite, M!Bounds
  <2>1. FileInv'
    BY DEF FileInv
  <2>2. /\ FileInv /\ tables.version # M!Current /\ fresh \in BOOLEAN
        /\ fresh => ~tables.exact
        /\ M!Rewrites
    BY DEF ProcInv, Rewriting
  <2>3. PICK e : e = M!Step(tables)
    OBVIOUS
  <2>4. /\ Fits(e, origin)
        /\ e.version = IF tables.version = M!Empty THEN 1 ELSE tables.version + 1
        /\ fresh => ~e.exact
    BY <2>2, <2>3, StepFits
  <2>5. WorkInv'
    BY <2>3, <2>4 DEF WorkInv
  <2>6. ProcInv'
    <3>1. sealed' \in 0 .. 2
      BY DEF ProcInv, M!NextKey
    <3> QED BY <3>1 DEF ProcInv, Rewriting, BackingUp
  <2> QED BY <2>1, <2>5, <2>6
<1>6. CASE M!Stamp
  <2> USE <1>6 DEF M!Stamp, M!Bounds
  <2>1. FileInv' /\ WorkInv'
    BY DEF FileInv, WorkInv, M!validateForeignKeys
  <2>2. ProcInv'
    BY DEF ProcInv, Rewriting, BackingUp
  <2> QED BY <2>1, <2>2
<1>7. CASE M!Commit
  <2> USE <1>7 DEF M!Commit, M!Bounds
  <2>1. /\ Fits(work, origin) /\ ~work.orphans /\ (fresh => ~work.exact)
        /\ work.version = IF tables.version = M!Empty THEN 1 ELSE tables.version + 1
        /\ tables' = work /\ origin' = origin
    BY DEF WorkInv
  <2>2. FileInv'
    BY <2>1 DEF FileInv
  <2>3. WorkInv'
    BY DEF WorkInv
  <2>4. ProcInv'
    BY <2>1 DEF ProcInv, Rewriting, BackingUp
  <2> QED BY <2>2, <2>3, <2>4
<1>8. CASE M!InstallKeys
  <2> USE <1>8 DEF M!InstallKeys, M!Bounds
  <2>1. FileInv' /\ WorkInv'
    BY DEF FileInv, WorkInv
  <2>2. ProcInv'
    BY <1>v DEF ProcInv, Rewriting, BackingUp
  <2> QED BY <2>1, <2>2
<1>9. CASE M!backupSQLiteConnection \/ M!backupSecrets \/ M!WriteManifest
  <2>1. /\ BackingUp /\ BackingUp'
        /\ UNCHANGED <<tables, work, backups, loaded, sealed, fresh, origin>>
    BY <1>9 DEF M!backupSQLiteConnection, M!backupSecrets, M!WriteManifest, M!Into,
       M!Bounds, BackingUp
  <2>2. FileInv' /\ WorkInv'
    BY <2>1 DEF FileInv, WorkInv, BackingUp
  <2>3. ProcInv'
    BY <2>1 DEF ProcInv, Rewriting, BackingUp, Validated, Opened
  <2> QED BY <2>2, <2>3
<1>10. CASE M!createMigrationBackup
  <2> USE <1>10 DEF M!createMigrationBackup, M!Bounds
  <2>1. FileInv' /\ WorkInv'
    BY DEF FileInv, WorkInv
  <2>2. CASE tables.version = M!Current
    BY <2>1, <2>2 DEF ProcInv, Rewriting, BackingUp, Validated, Opened
  <2>3. CASE tables.version # M!Current
    <3>1. <<tables.version, tables.version + 1, tables>> \in backups'
      BY <2>3
    <3> QED BY <2>3, <3>1, <2>1 DEF ProcInv, Rewriting, BackingUp
  <2> QED BY <2>1, <2>2, <2>3
<1>11. CASE M!LoadKeys
  <2> USE <1>11 DEF M!LoadKeys, M!Bounds
  <2>1. FileInv' /\ WorkInv'
    BY DEF FileInv, WorkInv
  <2>2. ProcInv'
    BY <1>v DEF ProcInv, Rewriting, BackingUp, Opened
  <2> QED BY <2>1, <2>2
<1>12. CASE M!ValidateEncryptedState
  <2> USE <1>12 DEF M!ValidateEncryptedState, M!Bounds
  <2>1. FileInv' /\ WorkInv'
    BY DEF FileInv, WorkInv
  <2>2. ProcInv'
    BY DEF ProcInv, Rewriting, BackingUp, Opened, Validated
  <2> QED BY <2>1, <2>2
<1>13. CASE M!repairLegacyAuthSecretBindings
  <2> USE <1>13 DEF M!repairLegacyAuthSecretBindings, M!Bounds
  <2>1. FileInv' /\ WorkInv'
    BY DEF FileInv, WorkInv
  <2>2. ProcInv'
    BY DEF ProcInv, Rewriting, BackingUp, Opened, Validated
  <2> QED BY <2>1, <2>2
<1>14. CASE M!initializeCurrentSettings
  <2> USE <1>14 DEF M!initializeCurrentSettings, M!Bounds
  <2>0. tables \in Tables /\ origin \in Tables
    BY DEF FileInv, Fits
  <2>1. PICK e : e = tables'
    OBVIOUS
  <2>2. /\ e \in Tables /\ e.version = tables.version /\ e.settings = "current"
        /\ e.key = tables.key /\ e.orphans = tables.orphans /\ e.address = tables.address
        /\ e.exact = tables.exact /\ e.fullUrl = tables.fullUrl /\ e.enabled = tables.enabled
        /\ e.headers = tables.headers /\ e.table = tables.table /\ e.inBody = tables.inBody
        /\ e.respBody = tables.respBody /\ e.detail = tables.detail
        /\ e.dataKey = tables.dataKey
    <3>1. PICK x \in {"none", "legacy", "current"} : x = "current"
      OBVIOUS
    <3>2. tables \in Tables /\ e = [tables EXCEPT !.settings = x]
      BY <2>0, <2>1, <3>1
    <3>3. /\ e \in Tables /\ e.version = tables.version /\ e.settings = x
          /\ e.key = tables.key /\ e.orphans = tables.orphans /\ e.address = tables.address
          /\ e.exact = tables.exact /\ e.fullUrl = tables.fullUrl
          /\ e.enabled = tables.enabled /\ e.headers = tables.headers
          /\ e.table = tables.table /\ e.inBody = tables.inBody
          /\ e.respBody = tables.respBody /\ e.detail = tables.detail
          /\ e.dataKey = tables.dataKey
      BY ONLY <3>2, x \in {"none", "legacy", "current"} DEF Tables
    <3> QED BY <3>1, <3>3
  <2>3. Fits(e, origin) /\ (e.version \in 8 .. M!Current => ~e.orphans)
    BY <2>2 DEF FileInv, Fits, Tells, KeysFit, Passed
  <2>4. FileInv' /\ WorkInv'
    BY <2>0, <2>1, <2>3 DEF FileInv, WorkInv
  <2>5. M!validateEncryptedState(tables, tables.dataKey) =>
          M!validateEncryptedState(e, e.dataKey)
    BY <2>2 DEF M!validateEncryptedState, M!validateDirectSecrets
  <2>6. ProcInv'
    BY <2>1, <2>2, <2>5 DEF ProcInv, Rewriting, BackingUp, Opened, Validated
  <2> QED BY <2>4, <2>6
<1>15. CASE M!interruptPendingAuditEvents
  <2> USE <1>15 DEF M!interruptPendingAuditEvents, M!Bounds
  <2>1. FileInv' /\ WorkInv'
    BY DEF FileInv, WorkInv
  <2>2. ProcInv'
    BY DEF ProcInv, Rewriting, BackingUp, Opened, Validated
  <2> QED BY <2>1, <2>2
<1>16. CASE M!CreateRotationBackup
  <2> USE <1>16 DEF M!CreateRotationBackup
  <2>1. FileInv' /\ WorkInv'
    BY DEF FileInv, WorkInv
  <2>2. ProcInv'
    BY <1>0 DEF ProcInv, Rewriting, BackingUp, Opened, Validated
  <2> QED BY <2>1, <2>2
<1>17. CASE M!WriteSample
  <2>1. /\ FileInv' /\ tables'.settings = tables.settings /\ tables'.version = tables.version
        /\ tables'.dataKey = tables.dataKey /\ tables'.exact = tables.exact
        /\ M!validateEncryptedState(tables', tables'.dataKey)
    BY <1>17, SampleFits
  <2> USE <1>17 DEF M!WriteSample
  <2>2. WorkInv'
    BY DEF WorkInv
  <2>3. ProcInv'
    BY <2>1 DEF ProcInv, Rewriting, BackingUp, Opened, Validated
  <2> QED BY <2>1, <2>2, <2>3
<1>18. CASE M!Fault
  BY <1>18, ClosedStep DEF M!Fault
<1>19. CASE UNCHANGED migrationVars
  BY <1>19 DEF migrationVars, FileInv, WorkInv, ProcInv, Rewriting, BackingUp, Opened, Validated
<1> QED
  BY <1>1, <1>2, <1>3, <1>4, <1>5, <1>6, <1>7, <1>8, <1>9, <1>10, <1>11, <1>12, <1>13,
     <1>14, <1>15, <1>16, <1>17, <1>18, <1>19
  DEF M!Next, M!Process, M!Migrate, M!Backup, M!Finish

(* A step that changes the version commits what was backed up.               *)
LEMMA StepBackedUp ==
    ASSUME MigrationInv, [M!Next]_migrationVars, tables'.version # tables.version, ~fresh
    PROVE  \E b \in backups :
              b[1] = tables.version /\ b[2] = tables'.version /\ b[3] = tables
<1>1. CASE M!Commit
  <2>1. /\ tables' = work /\ <<tables.version, tables.version + 1, tables>> \in backups
        /\ work.version = IF tables.version = M!Empty THEN 1 ELSE tables.version + 1
        /\ tables.version # M!Empty
    BY <1>1 DEF M!Commit, MigrationInv, WorkInv, ProcInv, Rewriting
  <2>2. PICK b \in backups : b = <<tables.version, tables.version + 1, tables>>
    BY <2>1
  <2> QED BY <2>1, <2>2
<1>2. CASE M!initializeCurrentSettings
  <2>1. tables \in Tables
    BY DEF MigrationInv, FileInv, Fits
  <2>2. tables'.version = tables.version
    BY <1>2, <2>1 DEF M!initializeCurrentSettings, Tables
  <2> QED BY <2>2
<1>3. CASE M!WriteSample
  BY <1>3, SampleFits DEF MigrationInv
<1>4. CASE UNCHANGED tables
  BY <1>4
<1> QED
  BY <1>1, <1>2, <1>3, <1>4
  DEF M!Next, M!Process, M!Migrate, M!Backup, M!Finish, M!openLocked, M!inspectSchemaState,
      M!Begin, M!RefuseBegin, M!Refuse, M!Rewrite, M!RefuseRewrite, M!Stamp, M!RefuseStamp,
      M!InstallKeys, M!backupSQLiteConnection, M!backupSecrets, M!WriteManifest, M!Into,
      M!createMigrationBackup, M!LoadKeys, M!ValidateEncryptedState, M!RefuseState,
      M!repairLegacyAuthSecretBindings, M!interruptPendingAuditEvents, M!CreateRotationBackup,
      M!Fault, M!Bounds, migrationVars

LEMMA MigrationKeeps == PartsSpec => []MigrationInv
<1>1. PartsInit => MigrationInv
  BY MigrationStart DEF PartsInit
<1>2. MigrationInv /\ [PartsNext]_allVars => MigrationInv'
  <2> SUFFICES ASSUME MigrationInv, [PartsNext]_allVars PROVE MigrationInv'
    OBVIOUS
  <2>1. [M!Next]_migrationVars
    BY DEF PartsNext, allVars, Rot, Edt, Res, Mig, Edg
  <2> QED BY <2>1, MigrationStep
<1> QED BY <1>1, <1>2, PTL DEF PartsSpec

(* However often the opening of a database is cut short, and from whatever   *)
(* version it starts, the file says what it said and keeps the key of every  *)
(* sealed body; a server that serves has the current schema, sealed with the *)
(* keys it holds (openLocked and the steps of migrate.go).                   *)
THEOREM OpensHonestlyAlways == PartsSpec => []OpensHonestly
<1>1. MigrationInv => OpensHonestly
  <2> SUFFICES ASSUME MigrationInv PROVE OpensHonestly
    OBVIOUS
  <2>0. Fits(tables, origin) /\ tables \in Tables
    BY DEF MigrationInv, FileInv, Fits
  <2>1. M!NothingLost
    BY <2>0 DEF Fits, Tells, KeysFit, IsSealed, M!NothingLost
  <2>2. M!ServesCurrent
    <3> SUFFICES ASSUME mpc = "serving" PROVE M!ServesCurrent
      BY DEF M!ServesCurrent
    <3>1. /\ tables.version = M!Current /\ loaded = tables.dataKey
          /\ M!validateEncryptedState(tables, tables.dataKey) /\ tables.settings = "current"
      BY DEF MigrationInv, ProcInv, Validated, Opened
    <3>2. M!Current \in 3 .. M!Current /\ M!Current \in 7 .. M!Current
            /\ M!Current \in 8 .. M!Current /\ M!Current >= 3
      BY DEF M!Current
    <3>3. ~tables.orphans
      BY <3>1, <3>2 DEF MigrationInv, FileInv
    <3>4. /\ tables.table = "group" /\ tables.headers = "none"
          /\ tables.address = "origin" \/ ~tables.enabled
      BY <2>0, <3>1, <3>2 DEF Fits, Passed
    <3>5. tables.recipeHeaders \notin {"secret", "own key"}
      <4>1. tables.recipeHeaders \in {"none", "safe", "template", "placeholder", "redacted"}
        BY <2>0 DEF Tables
      <4> QED BY <4>1
    <3> QED BY <3>1, <3>3, <3>4, <3>5 DEF M!ServesCurrent
  <2> QED BY <2>1, <2>2 DEF OpensHonestly, M!OpensHonestly
<1> QED BY <1>1, MigrationKeeps, PTL

(* Data is rewritten only when a whole backup of exactly what is there has   *)
(* been published for this step (createMigrationBackup before the rewrite).  *)
THEOREM BackedUpAlways == PartsSpec => BackedUp
<1>1. MigrationInv /\ [PartsNext]_allVars =>
        [tables'.version # tables.version /\ ~fresh =>
            \E b \in backups :
               b[1] = tables.version /\ b[2] = tables'.version /\ b[3] = tables]_migrationVars
  <2> SUFFICES ASSUME MigrationInv, [PartsNext]_allVars, tables'.version # tables.version, ~fresh
               PROVE  \E b \in backups :
                         b[1] = tables.version /\ b[2] = tables'.version /\ b[3] = tables
    OBVIOUS
  <2>1. [M!Next]_migrationVars
    BY DEF PartsNext, allVars, Rot, Edt, Res, Mig, Edg
  <2> QED BY <2>1, StepBackedUp
<1>2. BackedUp <=> [][tables'.version # tables.version /\ ~fresh =>
            \E b \in backups :
               b[1] = tables.version /\ b[2] = tables'.version /\ b[3] = tables]_migrationVars
  BY DEF BackedUp, M!BackedUp, M!vars, migrationVars
<1> QED BY <1>1, <1>2, MigrationKeeps, PTL DEF PartsSpec
=============================================================================
