------------------------------- MODULE KeyRotation -------------------------------
(***************************************************************************)
(* The durable half of a Master Key rotation: the keyring's phases         *)
(* (internal/keyring), the database rewrapped in one transaction           *)
(* (internal/store/rewrap.go), the sealed Relay Key in                     *)
(* bootstrap-credentials.json, the key the process decrypts with, and      *)
(* what a start after a crash makes of it all                              *)
(* (cmd/relay-gate/rotation_recover.go).                                   *)
(*                                                                         *)
(* keyring and bootstrap-credentials.json share one directory, so they are *)
(* one disk state.  A write is a synced temporary file, a rename and a     *)
(* directory fsync; a rename whose fsync failed is visible but may be      *)
(* undone by a power loss, and "older" holds the states that can bring     *)
(* back (renames of one directory survive in order).  A committed SQLite   *)
(* transaction is durable.                                                 *)
(*                                                                         *)
(* The process is quiet while a rotation runs (MasterRotation shows that), *)
(* so nothing else writes these files meanwhile.                           *)
(***************************************************************************)
EXTENDS Integers

CONSTANTS
    Masters,       \* master keys
    NoKey,         \* not a master key
    Persisted,     \* TRUE: bootstrap-credentials.json holds the Relay Key
    MaxRotations,  \* rotations begun (bounds the rotation ids)
    MaxFaults      \* failed calls, crashes and power losses

ASSUME RotationAssumption ==
    /\ NoKey \notin Masters
    /\ Persisted \in BOOLEAN
    /\ MaxRotations \in Nat
    /\ MaxFaults \in Nat

VARIABLES
    disk,      \* the keyring document and the key that seals the Relay Key
    older,     \* disk states a power loss may bring back
    dbKey,     \* the key the database is wrapped under
    dbRid,     \* master_rotation_id in the setting table, 0 when absent
    key,       \* the active key of the live Cipher
    retired,   \* the keys it still decrypts with
    relay,     \* the key that seals the Relay Key kept in memory
    next,      \* the new master of the rotation under way
    pc,        \* where the process is
    made,      \* rotation ids made so far
    faults

files == <<disk, older>>
db == <<dbKey, dbRid>>
mem == <<key, retired, relay, next>>
vars == <<files, db, mem, pc, made, faults>>

Quiet(d) == d.phase \in {"idle", "cleaned"}

\* What verify checks: the database and the persisted Relay Key open under k.
Opens(d, k) == dbKey = k /\ d.relay \in {k, NoKey}

Init ==
    /\ \E k \in Masters :
         /\ disk = [active |-> k, pending |-> NoKey, phase |-> "idle", rid |-> 0,
                    relay |-> IF Persisted THEN k ELSE NoKey]
         /\ dbKey = k /\ key = k /\ relay = k /\ next = k
    /\ older = {} /\ dbRid = 0 /\ retired = {}
    /\ pc = "serving" /\ made = 0 /\ faults = 0

-----------------------------------------------------------------------------
(* Writing the files.                                                      *)

Fault == faults < MaxFaults /\ faults' = faults + 1

Write(d) == disk' = d /\ older' = {} /\ UNCHANGED faults

\* A keyring write that reports an error: nothing was renamed, or the rename
\* is there and not synced.  preservePrevious has synced the directory by then.
RingWriteFails(d) ==
    /\ Fault
    /\ \/ UNCHANGED files
       \/ disk' = d /\ older' = {disk}

\* The same for bootstrap-credentials.json, which has no earlier fsync.
RelayWriteFails(d) ==
    /\ Fault
    /\ \/ UNCHANGED files
       \/ disk' = d /\ older' = older \cup {disk}

Ring(d, active, pending, phase, rid) ==
    [active |-> active, pending |-> pending, phase |-> phase, rid |-> rid,
     relay |-> d.relay]

Prepared(d, k) == Ring(d, d.active, k, "prepared", made + 1)

Aborted(d) == Ring(d, d.active, NoKey, "idle", 0)

Marked(d) == Ring(d, d.active, d.pending, "db_committed", d.rid)

Activated(d) == Ring(d, d.pending, NoKey, "key_activated", d.rid)

Cleaned(d) == Ring(d, d.active, d.pending, "cleaned", 0)

Resealed(d, k) == [d EXCEPT !.relay = k]

-----------------------------------------------------------------------------
(* postBeginMasterRotation from BeginRotation on.  "held" is a process that *)
(* keeps maintenance until it is restarted.                                *)

\* The keys the old master must open were checked before; the new master may
\* be any string, the old one included.
Begin(k) ==
    /\ pc = "serving" /\ made < MaxRotations
    /\ Quiet(disk) /\ Opens(disk, disk.active)
    /\ made' = made + 1
    /\ next' = k
    /\ \/ Write(Prepared(disk, k)) /\ pc' = "begun"
       \/ /\ RingWriteFails(Prepared(disk, k))
          /\ pc' \in {"held"} \cup (IF Quiet(disk') THEN {"serving"} ELSE {})
    /\ UNCHANGED <<db, key, retired, relay>>

\* RewrapDirectSecrets: one transaction rewraps every secret and records the
\* rotation id.  A Commit that reports an error may have committed.
Rewrap ==
    /\ pc = "begun"
    /\ \/ /\ dbKey' = next /\ dbRid' = disk.rid
          /\ pc' = "committed" /\ UNCHANGED faults
       \/ /\ Fault
          /\ \/ dbKey' = next /\ dbRid' = disk.rid
             \/ UNCHANGED db
          /\ pc' = "inspect"
    /\ UNCHANGED <<files, mem, made>>

\* Mutant: a rewrap that reports an error is always rolled back.
InspectAborts ==
    /\ pc = "inspect"
    /\ \/ Write(Aborted(disk)) /\ pc' = "serving"
       \/ RingWriteFails(Aborted(disk)) /\ pc' = "held"
    /\ UNCHANGED <<db, mem, made>>

\* The failed rewrap is rolled back only when the database proves that it does
\* not hold this rotation; otherwise, or when that cannot be read, hold.
Inspect ==
    /\ pc = "inspect"
    /\ \/ /\ dbRid = disk.rid
          /\ pc' = "held" /\ UNCHANGED <<files, faults>>
       \/ /\ dbRid # disk.rid
          /\ \/ Write(Aborted(disk)) /\ pc' = "serving"
             \/ RingWriteFails(Aborted(disk)) /\ pc' = "held"
    /\ UNCHANGED <<db, mem, made>>

\* ResealActiveRelayUnder opens its own sealed copy and rewrites the file,
\* whether or not there is one: a missing file is an error.
CanReseal == disk.relay # NoKey /\ relay \in {key} \cup retired

Reseal ==
    /\ pc = "committed"
    /\ \/ /\ CanReseal
          /\ Write(Resealed(disk, next))
          /\ relay' = next /\ pc' = "resealed"
       \/ /\ CanReseal
          /\ RelayWriteFails(Resealed(disk, next))
          /\ pc' = "held" /\ UNCHANGED relay
       \/ /\ ~CanReseal
          /\ pc' = "held" /\ UNCHANGED <<files, faults, relay>>
    /\ UNCHANGED <<db, key, retired, next, made>>

MarkDBCommitted ==
    /\ pc = "resealed"
    /\ Opens(disk, next)
    /\ \/ Write(Marked(disk)) /\ pc' = "marked"
       \/ RingWriteFails(Marked(disk)) /\ pc' = "held"
    /\ UNCHANGED <<db, mem, made>>

ActivatePending ==
    /\ pc = "marked"
    /\ \/ Write(Activated(disk)) /\ pc' = "activated"
       \/ RingWriteFails(Activated(disk)) /\ pc' = "held"
    /\ UNCHANGED <<db, mem, made>>

\* ActivateMaster: the live Cipher changes key and keeps the old one to read.
ActivateMaster ==
    /\ pc = "activated"
    /\ key' = next
    /\ retired' = IF next = key THEN retired ELSE retired \cup {key}
    /\ pc' = "adopted"
    /\ UNCHANGED <<files, db, relay, next, made, faults>>

\* MarkCleaned, then ForgetRetiredMasterKeys and the exit from maintenance.
MarkCleaned ==
    /\ pc = "adopted"
    /\ Opens(disk, next)
    /\ \/ Write(Cleaned(disk)) /\ pc' = "serving" /\ retired' = {}
       \/ RingWriteFails(Cleaned(disk)) /\ pc' = "held" /\ UNCHANGED retired
    /\ UNCHANGED <<db, key, relay, next, made>>

-----------------------------------------------------------------------------
(* Crashes and starts.                                                     *)

\* The process dies; the operator's restart of a held process is one as well.
Crash ==
    /\ pc # "down"
    /\ IF pc = "held" THEN UNCHANGED faults ELSE Fault
    /\ pc' = "down"
    /\ UNCHANGED <<files, db, mem, made>>

\* The machine loses power: what was renamed and not synced may come back.
PowerLoss ==
    /\ Fault
    /\ disk' \in {disk} \cup older
    /\ older' = {}
    /\ pc' = "down"
    /\ UNCHANGED <<db, mem, made>>

Start ==
    /\ pc = "down"
    /\ pc' = "boot"
    /\ UNCHANGED <<files, db, mem, made, faults>>

RollForward == disk.rid # 0 /\ disk.rid = dbRid

\* RecoverUnfinishedValidated goes by the phase and the id in the database, and
\* verifies before it writes.  Recoverable says that it will not refuse.
Recoverable ==
    \/ Quiet(disk) /\ Opens(disk, disk.active)
    \/ disk.phase = "prepared" /\ ~RollForward /\ Opens(disk, disk.active)
    \/ /\ disk.phase \in {"prepared", "db_committed"} /\ RollForward
       /\ dbKey = disk.pending
       /\ disk.relay \in {disk.pending, disk.active, NoKey}
    \/ disk.phase = "key_activated" /\ RollForward /\ Opens(disk, disk.active)

\* One durable step of the recovery; an error ends the start.
Advance(d) ==
    \/ Write(d) /\ pc' = "boot"
    \/ RingWriteFails(d) /\ pc' = "down"

\* Mutant: only a rotation found marked db_committed is resealed.
RecoverResealMarked ==
    /\ pc = "boot" /\ Recoverable
    /\ disk.phase = "db_committed" /\ RollForward
    /\ disk.relay \notin {disk.pending, NoKey}
    /\ \/ Write(Resealed(disk, disk.pending)) /\ pc' = "boot"
       \/ RelayWriteFails(Resealed(disk, disk.pending)) /\ pc' = "down"
    /\ UNCHANGED <<db, mem, made>>

\* resealPersistedRelayUnderPending, part of verify when rolling forward.
RecoverReseal ==
    /\ pc = "boot" /\ Recoverable
    /\ disk.phase \in {"prepared", "db_committed"} /\ RollForward
    /\ disk.relay \notin {disk.pending, NoKey}
    /\ \/ Write(Resealed(disk, disk.pending)) /\ pc' = "boot"
       \/ RelayWriteFails(Resealed(disk, disk.pending)) /\ pc' = "down"
    /\ UNCHANGED <<db, mem, made>>

Recover ==
    /\ pc = "boot" /\ Recoverable
    /\ \/ /\ disk.phase = "prepared" /\ ~RollForward
          /\ Advance(Aborted(disk))
       \/ /\ disk.phase = "prepared" /\ RollForward
          /\ disk.relay \in {disk.pending, NoKey}
          /\ Advance(Marked(disk))
       \/ /\ disk.phase = "db_committed"
          /\ disk.relay \in {disk.pending, NoKey}
          /\ Advance(Activated(disk))
       \/ /\ disk.phase = "key_activated"
          /\ Advance(Cleaned(disk))
    /\ UNCHANGED <<db, mem, made>>

\* The start goes on with what the keyring calls active.
Open ==
    /\ pc = "boot" /\ Recoverable /\ Quiet(disk)
    /\ key' = disk.active /\ relay' = disk.active /\ retired' = {}
    /\ pc' = "serving"
    /\ UNCHANGED <<files, db, next, made, faults>>

\* A start that cannot verify what it finds, or fails to read it, ends.
Refuse ==
    /\ pc = "boot"
    /\ IF Recoverable THEN Fault ELSE UNCHANGED faults
    /\ pc' = "down"
    /\ UNCHANGED <<files, db, mem, made>>

Rotation ==
    \/ Rewrap \/ Inspect \/ Reseal \/ MarkDBCommitted \/ ActivatePending
    \/ ActivateMaster \/ MarkCleaned

\* A check of the handler fails between two of its steps.
CheckFails ==
    /\ pc \in {"inspect", "committed", "resealed", "activated", "adopted"}
    /\ Fault
    /\ pc' = "held"
    /\ UNCHANGED <<files, db, mem, made>>

Boot == Start \/ RecoverReseal \/ Recover \/ Open \/ Refuse

Next ==
    \/ \E k \in Masters : Begin(k)
    \/ Rotation \/ CheckFails
    \/ Crash \/ PowerLoss
    \/ Boot

Spec == Init /\ [][Next]_vars

(* The handler runs to its end, and a service manager starts a process      *)
(* that is down.  Nothing is assumed of faults; there are MaxFaults of them.*)
FairSpec == Spec /\ WF_vars(Rotation) /\ WF_vars(Boot)

-----------------------------------------------------------------------------
(* Properties.                                                             *)

Phases == {"idle", "prepared", "db_committed", "key_activated", "cleaned"}

Disks == [active: Masters, pending: Masters \cup {NoKey}, phase: Phases,
          rid: 0..MaxRotations, relay: Masters \cup {NoKey}]

TypeOK ==
    /\ disk \in Disks
    /\ older \subseteq Disks
    /\ dbKey \in Masters /\ dbRid \in 0..MaxRotations
    /\ key \in Masters /\ retired \subseteq Masters
    /\ relay \in Masters /\ next \in Masters
    /\ pc \in {"serving", "begun", "inspect", "committed", "resealed", "marked",
              "activated", "adopted", "held", "down", "boot"}
    /\ made \in 0..MaxRotations
    /\ faults \in 0..MaxFaults

(* Whatever a crash or a power loss leaves on the disk, the keyring still  *)
(* holds the key the database is wrapped under and the key that seals the  *)
(* Relay Key, so no secret is lost.                                        *)
NoSecretLost ==
    \A d \in {disk} \cup older :
        /\ dbKey \in {d.active, d.pending}
        /\ d.relay \in {d.active, d.pending, NoKey}

(* The recovery of a start never meets a combination of keyring phase,     *)
(* rotation id, database key and Relay Key that it has to refuse.          *)
BootRecovers == pc = "boot" => Recoverable

(* A process that serves decrypts with the key the database and the        *)
(* persisted Relay Key are under, and that a restart would take.           *)
ServingKeyFits ==
    pc = "serving" =>
        /\ key = dbKey /\ relay = key /\ retired = {}
        /\ disk.active = key /\ disk.relay \in {key, NoKey} /\ Quiet(disk)

(* Once the database holds a rotation its pending key is never given up:   *)
(* a pending key only leaves the keyring by becoming the active one.       *)
PendingPromoted ==
    [][disk.pending # NoKey /\ disk.rid = dbRid
         => disk.pending \in {disk'.pending, disk'.active}]_vars

(* A rotation keeps the service in maintenance only when some call failed. *)
HeldNeedsFault == pc = "held" => faults > 0

(* A process that is down comes back with every secret readable, whatever  *)
(* step of a rotation it died in.                                          *)
ServiceReturns == pc = "down" ~> pc = "serving"
=============================================================================
