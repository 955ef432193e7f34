------------------------------ MODULE Restore ------------------------------
(***************************************************************************)
(* Replacing the live database by a verified backup (internal/store/       *)
(* restore.go), and the boot of the server that finishes a replacement a   *)
(* crash interrupted (cmd/relay-gate/main.go).                             *)
(*                                                                         *)
(* The data directory holds three things that belong together: the         *)
(* database, its write-ahead log and the secrets it is encrypted with.     *)
(* A restore moves the live group aside file by file, moves the staged     *)
(* copy in, and keeps an intent file that says how far it came.  A file    *)
(* is known by its generation: 0 is the deployment the model starts from,  *)
(* n the backup the n-th restore installs, Fresh what a first start makes. *)
(***************************************************************************)
EXTENDS Naturals, Sequences

CONSTANTS MaxRestores,   \* bound: restores asked for
          MaxFaults      \* bound: crashes and I/O errors

VARIABLES live,      \* [Files -> generation of the file at its own path, or None]
          isolated,  \* <<restore, file, generation>> in isolation directories
          staged,    \* the staged files: the database, the archived secrets
          intent,    \* phase of restore-intent.json, "none" when there is no file
          archived,  \* the backup in hand holds secrets too
          proc,      \* who holds the instance lock
          pc,        \* where it is
          restores,  \* restores whose intent was written
          keys,      \* the last of them that brought its own secrets
          owned,     \* <<file, generation>> that hold data of the deployment
          byHand,    \* an operator made new secrets with the command
          asked, faults

vars == <<live, isolated, staged, intent, archived, proc, pc, restores, keys,
          owned, byHand, asked, faults>>

Files   == {"db", "wal", "secrets"}
None    == MaxRestores + 2
Fresh   == MaxRestores + 1
Pending == {"prepared", "isolated", "installed"}

TypeOK ==
    /\ live \in [Files -> 0 .. None]
    /\ isolated \subseteq ((1 .. MaxRestores) \X Files \X (0 .. Fresh))
    /\ staged \subseteq {"db", "secrets"}
    /\ intent \in Pending \cup {"none", "complete"}
    /\ archived \in BOOLEAN
    /\ proc \in {"none", "restore", "boot", "server"}
    /\ pc \in {"idle", "stage", "stageSecrets", "write", "isolate", "install",
               "installSecrets", "finalize", "forget", "bootstrap", "open"}
    /\ restores \in 0 .. MaxRestores
    /\ keys \in 0 .. MaxRestores
    /\ owned \subseteq (Files \X (0 .. Fresh))

Init ==
    /\ live \in {[db |-> 0, wal |-> w, secrets |-> 0] : w \in {0, None}}
    /\ owned = {<<f, 0>> : f \in {g \in Files : live[g] = 0}}
    /\ isolated = {} /\ staged = {}
    /\ intent = "none" /\ archived = FALSE
    /\ proc = "none" /\ pc = "idle"
    /\ restores = 0 /\ keys = 0
    /\ byHand = FALSE /\ asked = 0 /\ faults = 0

Files_ == <<live, isolated, staged, owned>>
Place  == <<proc, archived, byHand, asked, faults>>
Count  == <<restores, keys>>

\* The phase the intent file records decides where a resumed restore goes on.
Resumed == CASE intent = "prepared"  -> "isolate"
             [] intent = "isolated"  -> "install"
             [] intent = "installed" -> "finalize"
             [] intent = "complete"  -> "forget"
             [] OTHER                -> "bootstrap"

(***************************************************************************)
(* `relay-gate db restore`: the backup is validated, the instance lock is  *)
(* taken, and an intent that is still pending refuses the command.         *)
(***************************************************************************)
RestoreDatabase(withSecrets) ==
    /\ proc = "none" /\ asked < MaxRestores
    /\ intent \notin Pending
    /\ proc' = "restore" /\ pc' = "stage"
    /\ archived' = withSecrets
    /\ asked' = asked + 1
    /\ UNCHANGED <<live, isolated, staged, intent, restores, keys, owned, byHand, faults>>

StageDatabase ==
    /\ pc = "stage"
    /\ staged' = {"db"}
    /\ pc' = "stageSecrets"
    /\ UNCHANGED <<live, isolated, intent, owned, Place, Count>>

StageSecrets ==
    /\ pc = "stageSecrets"
    /\ staged' = staged \cup (IF archived THEN {"secrets"} ELSE {})
    /\ pc' = "write"
    /\ UNCHANGED <<live, isolated, intent, owned, Place, Count>>

WriteIntent ==
    /\ pc = "write"
    /\ intent' = "prepared"
    /\ restores' = restores + 1
    /\ keys' = IF archived THEN restores + 1 ELSE keys
    /\ pc' = "isolate"
    /\ UNCHANGED <<Files_, Place>>

(***************************************************************************)
(* resumeRestoreIntent, by the command itself or by the next boot.         *)
(***************************************************************************)
Group == IF archived THEN <<"db", "wal", "secrets">> ELSE <<"db", "wal">>

\* The places in Group that still have to be moved aside, and the first of them.
Left     == {i \in DOMAIN Group : live[Group[i]] # None}
First(i) == \A j \in Left : i <= j

\* os.Rename replaces a file at the target but refuses to replace a directory
\* that is not empty, as secrets/ is.
Aside(f)      == {x \in isolated : x[1] = restores /\ x[2] = f}
CanIsolate(f) == f = "secrets" => Aside("secrets") = {}

Isolate ==
    /\ pc = "isolate"
    /\ \E i \in Left :
          LET f == Group[i] IN
          /\ First(i) /\ CanIsolate(f)
          /\ isolated' = (isolated \ Aside(f)) \cup {<<restores, f, live[f]>>}
          /\ live' = [live EXCEPT ![f] = None]
    /\ UNCHANGED <<staged, intent, pc, owned, Place, Count>>

\* Mutant: the phase is recorded before the files are moved.
IsolatedEarly ==
    /\ pc = "isolate"
    /\ intent' = "isolated"
    /\ pc' = "install"
    /\ UNCHANGED <<Files_, Place, Count>>

Isolated ==
    /\ pc = "isolate" /\ Left = {}
    /\ intent' = "isolated"
    /\ pc' = "install"
    /\ UNCHANGED <<Files_, Place, Count>>

\* A database already moved in by an earlier try is known by its hash.
CanInstall(f) == IF f \in staged
                 THEN f = "secrets" => live[f] = None
                 ELSE live[f] = restores

InstallDatabase ==
    /\ pc = "install" /\ CanInstall("db")
    /\ live' = [live EXCEPT !["db"] = restores]
    /\ owned' = owned \cup {<<"db", restores>>}
    /\ staged' = staged \ {"db"}
    /\ pc' = "installSecrets"
    /\ UNCHANGED <<isolated, intent, Place, Count>>

InstallSecrets ==
    /\ pc = "installSecrets"
    /\ IF archived
       THEN /\ CanInstall("secrets")
            /\ live' = [live EXCEPT !["secrets"] = restores]
            /\ owned' = owned \cup {<<"secrets", restores>>}
            /\ staged' = staged \ {"secrets"}
       ELSE UNCHANGED <<live, owned, staged>>
    /\ intent' = "installed"
    /\ pc' = "finalize"
    /\ UNCHANGED <<isolated, Place, Count>>

CanFinalize ==
    /\ live["wal"] = None
    /\ live["db"] = restores
    /\ archived => live["secrets"] = restores

Finalize ==
    /\ pc = "finalize" /\ CanFinalize
    /\ intent' = "complete"
    /\ pc' = "forget"
    /\ UNCHANGED <<Files_, Place, Count>>

\* The file is removed; that this fails is ignored.
Forget(removed) ==
    /\ pc = "forget"
    /\ intent' = IF removed THEN "none" ELSE intent
    /\ IF proc = "restore"
       THEN proc' = "none" /\ pc' = "idle"
       ELSE pc' = "bootstrap" /\ UNCHANGED proc
    /\ UNCHANGED <<Files_, archived, byHand, asked, faults, Count>>

(***************************************************************************)
(* The server: lock, finish a pending restore, make the secrets of a first *)
(* start when there are none, open the database, serve.                    *)
(***************************************************************************)
Boot ==
    /\ proc = "none"
    /\ proc' = "boot" /\ pc' = Resumed
    /\ UNCHANGED <<Files_, intent, archived, byHand, asked, faults, Count>>

MaybeBootstrap ==
    /\ pc = "bootstrap"
    /\ live' = [live EXCEPT !["secrets"] = IF @ = None THEN Fresh ELSE @]
    /\ pc' = "open"
    /\ UNCHANGED <<isolated, staged, intent, owned, Place, Count>>

\* Opening resumes what is pending too; a database that the secrets do not
\* decrypt is refused.
CanDecrypt == live["secrets"] = Fresh => live["db"] \in {None, Fresh}

Open ==
    /\ pc = "open"
    /\ IF intent \in Pending
       THEN pc' = Resumed /\ UNCHANGED <<live, proc>>
       ELSE /\ live' = [live EXCEPT !["db"] = IF @ = None THEN Fresh ELSE @]
            /\ CanDecrypt
            /\ proc' = "server" /\ pc' = "idle"
    /\ UNCHANGED <<isolated, staged, intent, owned, archived, byHand, asked, faults, Count>>

\* A check that refuses ends the command or the boot with an error; nothing
\* is undone.
Refused ==
    /\ \/ pc = "isolate" /\ \E i \in Left : First(i) /\ ~CanIsolate(Group[i])
       \/ pc = "install" /\ ~CanInstall("db")
       \/ pc = "installSecrets" /\ archived /\ ~CanInstall("secrets")
       \/ pc = "finalize" /\ ~CanFinalize
       \/ pc = "open" /\ intent \notin Pending /\ ~CanDecrypt
    /\ proc' = "none" /\ pc' = "idle"
    /\ UNCHANGED <<Files_, intent, archived, byHand, asked, faults, Count>>

\* A committed transaction is in the write-ahead log until a checkpoint.
Write ==
    /\ proc = "server"
    /\ live' = [live EXCEPT !["wal"] = live["db"]]
    /\ owned' = owned \cup {<<"wal", live["db"]>>}
    /\ UNCHANGED <<isolated, staged, intent, pc, Place, Count>>

\* Closing the store checkpoints the log into the database and removes it.
Close ==
    /\ proc = "server"
    /\ live' = [live EXCEPT !["wal"] = None]
    /\ owned' = owned \ {<<"wal", live["db"]>>}
    /\ proc' = "none"
    /\ UNCHANGED <<isolated, staged, intent, pc, archived, byHand, asked, faults, Count>>

\* `relay-gate credentials bootstrap` takes the same lock and asks no intent.
BootstrapByHand ==
    /\ proc = "none"
    /\ live["secrets"] = None
    /\ live' = [live EXCEPT !["secrets"] = Fresh]
    /\ byHand' = TRUE
    /\ UNCHANGED <<isolated, staged, intent, pc, owned, proc, archived, asked,
                   faults, Count>>

\* The process dies, or a step of it fails and it gives up: in both cases the
\* lock is released and the files stay as they are.
Stops ==
    /\ proc # "none" /\ faults < MaxFaults
    /\ proc' = "none" /\ pc' = "idle"
    /\ faults' = faults + 1
    /\ UNCHANGED <<Files_, intent, archived, byHand, asked, Count>>

Step ==
    \/ StageDatabase \/ StageSecrets \/ WriteIntent
    \/ Isolate \/ Isolated \/ InstallDatabase \/ InstallSecrets
    \/ Finalize \/ (\E removed \in BOOLEAN : Forget(removed))
    \/ Boot \/ MaybeBootstrap \/ Open \/ Refused

Next ==
    \/ \E withSecrets \in BOOLEAN : RestoreDatabase(withSecrets)
    \/ Step \/ Write \/ Close \/ BootstrapByHand \/ Stops

Spec == Init /\ [][Next]_vars

\* A process that holds the lock goes on, and the server is started again.
FairSpec == Spec /\ WF_vars(Step)

-----------------------------------------------------------------------------
\* No restore, however often it is interrupted, destroys data of the
\* deployment: every database, log and secrets directory that was ever in use
\* is at its own path or in an isolation directory.
NothingLost ==
    \A o \in owned : \/ live[o[1]] = o[2]
                     \/ \E n \in 1 .. MaxRestores : <<n, o[1], o[2]>> \in isolated

\* Once a restore has declared itself, the server serves what it restored and
\* nothing else: the database of the last intent, no log of another database,
\* and the secrets that belong to it; never the half of a group, and never
\* secrets a boot made up because the old ones were out of the way.
ServesOneGroup ==
    proc = "server" =>
        /\ live["db"] = restores
        /\ live["wal"] \in {restores, None}
        /\ live["secrets"] = keys

\* A restore that declared itself is finished, by the command or by a later
\* boot, unless an operator made new secrets where the old ones had been moved
\* away: those are in the way of the archived ones for ever.
Declared == intent \in Pending
Settled  == ~Declared \/ byHand
RestoreCompletes == Declared ~> Settled
=============================================================================
