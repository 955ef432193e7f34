----------------------------- MODULE Migration -----------------------------
(***************************************************************************)
(* Opening the database of an earlier version (internal/store/store.go,    *)
(* migrate*.go, data_migration.go, backup.go).  Every start of the server  *)
(* takes the file one schema version at a time to the version of the       *)
(* program.  A step locks the file, validates what it is about to rewrite, *)
(* publishes a backup of it, rewrites it in a transaction whose last write *)
(* is the version, and commits.  A new file is built by the same scripts   *)
(* without backups.  The instance lock admits one process, the one here.   *)
(***************************************************************************)
EXTENDS Naturals, FiniteSets

CONSTANTS MaxFaults,    \* bound: crashes, failed calls and planned restarts
          MaxRotations  \* bound: backups an operator asks of the running server

VARIABLES db,        \* the committed database
          work,      \* what the open transaction would commit, or NoWork
          backups,   \* <<from, to, contents>> of the published backups
          partial,   \* the files in the backup's temporary directory
          loaded,    \* data keys in the process: a generation, 0 for none
          made,      \* the generation of data keys made last
          fresh,     \* the process is building a new database
          pc, origin, faults, rotations

vars == <<db, work, backups, partial, loaded, made, fresh, pc, origin, faults, rotations>>

Current == 17          \* developmentSchemaVersion
Empty   == Current + 1 \* a file without any schema
NoWork  == [version |-> Empty + 1]

\* Two generations of data keys tell a key from the one a rollback took away.
NextKey == IF made = 1 THEN 2 ELSE 1

(***************************************************************************)
(* A stored body: how it is written, what it says, the data key it is      *)
(* sealed with, and whether its seal opens.  "wrapped" is a multipart body *)
(* that a defect of an old version encrypted once more; a plain body may   *)
(* say something that looks like a sealed one.                             *)
(***************************************************************************)
Forms  == {"plain", "v1", "v1m", "wrapped", "v2", "v2m"}
Texts  == {"nothing", "short", "long", "looks sealed"}
Body(form, text) == [form |-> form, text |-> text, key |-> 0, opens |-> TRUE]
NoBody == Body("plain", "nothing")

Legacy == {NoBody, Body("plain", "long"), Body("v1", "short"), Body("v1", "nothing"),
           Body("v1m", "long"), Body("wrapped", "long"), Body("plain", "looks sealed"),
           [Body("v1m", "long") EXCEPT !.opens = FALSE]}

\* An upstream with its key and address, its probe headers and the recipe made
\* of them, whether enabled routes have their endpoints, one sample and one
\* security finding, the wrapped data keys, and the settings document.
Row == [version |-> 0, key |-> TRUE, orphans |-> FALSE, address |-> "origin",
        exact |-> FALSE, fullUrl |-> FALSE, enabled |-> TRUE, headers |-> "safe",
        recipe |-> "none", recipeHeaders |-> "none", wired |-> TRUE,
        table |-> "sample", inBody |-> Body("plain", "short"), respBody |-> NoBody,
        detail |-> NoBody, dataKey |-> 0, settings |-> "legacy"]

\* What a step leaves behind at a version it has passed.
At(v, d) ==
    [d EXCEPT !.version = v,
              !.recipe = IF v >= 2 THEN "legacy" ELSE "none",
              !.recipeHeaders = IF v >= 2 THEN "safe" ELSE "none",
              !.headers = IF v >= 3 THEN "none" ELSE @,
              !.table = IF v >= 7 THEN "group" ELSE "sample",
              !.inBody = IF v >= 8 THEN [Body("v2", "short") EXCEPT !.key = 1] ELSE @,
              !.respBody = IF v >= 8 THEN NoBody ELSE @,
              !.detail = IF v >= 8 THEN NoBody ELSE @,
              !.dataKey = IF v >= 8 THEN 1 ELSE 0]

\* Databases of every version; each differs from the plain one in one respect.
Starts ==
    LET plain == [Row EXCEPT !.version = 0]
        odd   == {[plain EXCEPT !.respBody = b] : b \in Legacy}
                     \cup {[plain EXCEPT !.inBody = b] : b \in Legacy}
                     \cup {[plain EXCEPT !.key = FALSE]}
        urls  == {[plain EXCEPT !.address = a, !.exact = TRUE] : a \in {"full", "broken"}}
        heads == {[plain EXCEPT !.headers = h] : h \in {"none", "own key", "secret", "template"}}
    IN  (UNION {{At(v, d) : d \in odd} : v \in 0 .. Current})
            \cup (UNION {{At(v, d) : d \in urls \cup heads} : v \in 0 .. 1})
            \cup {At(v, [plain EXCEPT !.orphans = TRUE]) : v \in 0 .. 7}
            \cup {[At(2, plain) EXCEPT !.wired = FALSE]}
            \cup (UNION {{[At(v, plain) EXCEPT !.detail = Body("plain", t)] :
                              t \in {"short", "looks sealed"}} : v \in 5 .. 7})
            \cup {[At(v, plain) EXCEPT !.inBody.opens = FALSE] : v \in 8 .. Current}
            \cup {[Row EXCEPT !.version = Empty, !.inBody = NoBody, !.headers = "none",
                              !.settings = "none"]}

TypeOK ==
    /\ db.version \in 0 .. Empty /\ db.dataKey \in 0 .. 2
    /\ work = NoWork \/ work.version \in 0 .. Current
    /\ partial \subseteq {"database", "secrets", "manifest"}
    /\ loaded \in 0 .. 2
    /\ pc \in {"closed", "inspect", "begin", "copy", "secrets", "manifest", "publish",
               "rewrite", "stamp", "commit", "install", "keys", "validate", "bindings",
               "settings", "audit", "serving"}

Init ==
    /\ db \in Starts /\ origin = db
    /\ work = NoWork /\ backups = {} /\ partial = {}
    /\ loaded = 0 /\ made = db.dataKey
    /\ fresh = FALSE /\ pc = "closed"
    /\ faults = 0 /\ rotations = 0

Bounds == <<origin, faults, rotations>>

(***************************************************************************)
(* What the steps validate.                                                *)
(***************************************************************************)
validateLegacyUpstreamKeys(d) == d.key

validateForeignKeys(d) == ~d.orphans

\* A legacy body may not begin like a sealed one unless it opens as one.
LegacyOpens(b) ==
    /\ b.opens
    /\ b.form = "plain" => b.text # "looks sealed"
    /\ b.form \notin {"v2", "v2m"}

validateLegacySampleBodies(d) == LegacyOpens(d.inBody) /\ LegacyOpens(d.respBody)

validateDirectSecrets(d) == d.key

\* Sealed with the data key in hand, or nothing.
validateSensitiveBody(b, key) ==
    b = NoBody \/ (b.form \in {"v2", "v2m"} /\ b.key = key /\ b.opens)

validateEncryptedState(d, key) ==
    /\ validateDirectSecrets(d)
    /\ \A b \in {d.inBody, d.respBody, d.detail} : validateSensitiveBody(b, key)

\* Both wrapped keys must be there; they are never made again.
readDataKeys(d) == d.dataKey # 0

validateSchemaTwoForCutover(d) == validateLegacyUpstreamKeys(d) /\ d.wired

validateSchemaThreeReady(d) == d.headers = "none" /\ ~d.exact

\* What the step from d's version requires before it writes anything.
Ready(d) ==
    CASE d.version \in {0, 1} -> validateLegacyUpstreamKeys(d)
      [] d.version = 2        -> validateSchemaTwoForCutover(d)
      [] d.version \in 3 .. 6 -> TRUE
      [] d.version = 7        -> validateDirectSecrets(d) /\ validateLegacySampleBodies(d)
      [] OTHER                -> readDataKeys(d) /\ validateEncryptedState(d, d.dataKey)

(***************************************************************************)
(* What the steps write.                                                   *)
(***************************************************************************)
\* A full address is kept encrypted beside the upstream until it is reviewed.
backfillLegacyEndpoints(d) == [d EXCEPT !.fullUrl = d.exact, !.wired = TRUE]

\* A header holding the upstream's own key becomes a placeholder; one that looks
\* like another secret is redacted and its recipe set apart.
legacyHeaderTemplates(h) ==
    CASE h = "own key" -> [header |-> "placeholder", risky |-> FALSE]
      [] h = "secret"  -> [header |-> "redacted", risky |-> TRUE]
      [] OTHER         -> [header |-> h, risky |-> FALSE]

insertLegacyRecipe(d) ==
    LET t == legacyHeaderTemplates(d.headers)
    IN  [d EXCEPT !.recipe = IF t.risky THEN "quarantined" ELSE "legacy",
                  !.recipeHeaders = t.header]

\* A header that is no valid template makes the backfill fail.
CanBackfill(d) == d.headers # "template"

backfillSchemaTwo(d) == insertLegacyRecipe(backfillLegacyEndpoints(d))

safeOrigin(a) == IF a = "full" THEN "origin" ELSE "invalid"

cutoverFullURLOrigins(d) ==
    IF d.exact
    THEN [d EXCEPT !.address = safeOrigin(@), !.exact = FALSE,
                   !.enabled = @ /\ safeOrigin(d.address) # "invalid"]
    ELSE d

runSchemaSevenScript(d) == [d EXCEPT !.table = "group"]

encryptDataBlob(text, key) ==
    IF text = "nothing" THEN NoBody
    ELSE [form |-> IF text = "long" THEN "v2m" ELSE "v2", text |-> text, key |-> key,
          opens |-> TRUE]

CanMigrate(b, key) == IF b.form \in {"v2", "v2m"} THEN validateSensitiveBody(b, key)
                                                  ELSE LegacyOpens(b)

\* Mutant: a body that was encrypted twice is opened once only.
OpenedOnce(d, key) ==
    LET Seal(b) == CASE b.form \in {"v2", "v2m"} -> b
                     [] b.form = "wrapped" -> encryptDataBlob("looks sealed", key)
                     [] OTHER -> encryptDataBlob(b.text, key)
    IN  [d EXCEPT !.inBody = Seal(@), !.respBody = Seal(@)]

migrateSampleDataBodies(d, key) ==
    LET Seal(b) == IF b.form \in {"v2", "v2m"} THEN b ELSE encryptDataBlob(b.text, key)
    IN  [d EXCEPT !.inBody = Seal(@), !.respBody = Seal(@)]

\* A finding of schema 7 is never sealed, whatever it looks like.
migrateSecurityDataBodies(d, key) == [d EXCEPT !.detail = encryptDataBlob(@.text, key)]

normalizeLegacyToSchemaOne(d) == [d EXCEPT !.version = 1]
migrateSchemaOneToTwo(d)      == [backfillSchemaTwo(d) EXCEPT !.version = 2]
migrateSchemaTwoToThree(d)    == [cutoverFullURLOrigins([d EXCEPT !.headers = "none"])
                                     EXCEPT !.version = 3]
migrateSchemaThreeToFour(d)   == [d EXCEPT !.version = 4]
migrateSchemaFourToFive(d)    == [d EXCEPT !.version = 5]
migrateSchemaFiveToSix(d)     == [d EXCEPT !.version = 6]
migrateSchemaSixToSeven(d)    == [runSchemaSevenScript(d) EXCEPT !.version = 7]

migrateSchemaSevenToEight(d, key) ==
    [migrateSecurityDataBodies(migrateSampleDataBodies(d, key), key)
        EXCEPT !.dataKey = key, !.version = 8]

migrateSchemaEightToNine(d)        == [d EXCEPT !.version = 9]
migrateSchemaNineToTen(d)          == [d EXCEPT !.version = 10]
migrateSchemaTenToEleven(d)        == [d EXCEPT !.version = 11]
migrateSchemaElevenToTwelve(d)     == [d EXCEPT !.version = 12]
migrateSchemaTwelveToThirteen(d)   == [d EXCEPT !.version = 13]
migrateSchemaThirteenToFourteen(d) == [d EXCEPT !.version = 14]
migrateSchemaFourteenToFifteen(d)  == [d EXCEPT !.version = 15]
migrateSchemaFifteenToSixteen(d)   == [d EXCEPT !.version = 16]
migrateSchemaSixteenToSeventeen(d) == [d EXCEPT !.version = 17]

Step(d) ==
    CASE d.version = Empty -> [d EXCEPT !.version = 1]
      [] d.version = 0  -> normalizeLegacyToSchemaOne(d)
      [] d.version = 1  -> IF fresh THEN [d EXCEPT !.version = 2] ELSE migrateSchemaOneToTwo(d)
      [] d.version = 2  -> migrateSchemaTwoToThree(d)
      [] d.version = 3  -> migrateSchemaThreeToFour(d)
      [] d.version = 4  -> migrateSchemaFourToFive(d)
      [] d.version = 5  -> migrateSchemaFiveToSix(d)
      [] d.version = 6  -> migrateSchemaSixToSeven(d)
      [] d.version = 7  -> migrateSchemaSevenToEight(d, NextKey)
      [] d.version = 8  -> migrateSchemaEightToNine(d)
      [] d.version = 9  -> migrateSchemaNineToTen(d)
      [] d.version = 10 -> migrateSchemaTenToEleven(d)
      [] d.version = 11 -> migrateSchemaElevenToTwelve(d)
      [] d.version = 12 -> migrateSchemaTwelveToThirteen(d)
      [] d.version = 13 -> migrateSchemaThirteenToFourteen(d)
      [] d.version = 14 -> migrateSchemaFourteenToFifteen(d)
      [] d.version = 15 -> migrateSchemaFifteenToSixteen(d)
      [] OTHER          -> migrateSchemaSixteenToSeventeen(d)

\* What a step checks on what it wrote, still inside its transaction.
Written(d) ==
    /\ d.version = 3 => validateSchemaThreeReady(d)
    /\ d.version = 8 => validateEncryptedState(d, d.dataKey)

(***************************************************************************)
(* openLocked: one action per transaction or file that can be the last.    *)
(***************************************************************************)
openLocked ==
    /\ pc = "closed"
    /\ pc' = "inspect"
    /\ UNCHANGED <<db, work, backups, partial, loaded, made, fresh, Bounds>>

\* The version in the file decides the next step; a new file is marked.
inspectSchemaState ==
    /\ pc = "inspect"
    /\ fresh' = (fresh \/ db.version = Empty)
    /\ pc' = IF db.version = Current THEN "keys" ELSE "begin"
    /\ UNCHANGED <<db, work, backups, partial, loaded, made, Bounds>>

\* A call that fails rolls back, ends the open and takes the process down; what
\* a backup had written so far is removed.
Refuse ==
    /\ pc' = "closed"
    /\ work' = NoWork /\ partial' = {} /\ loaded' = 0 /\ fresh' = FALSE
    /\ UNCHANGED <<db, backups, made, Bounds>>

\* The write lock is held from here to the commit.
Begin ==
    /\ pc = "begin" /\ (fresh \/ Ready(db))
    /\ pc' = IF fresh THEN "rewrite" ELSE "copy"
    /\ UNCHANGED <<db, work, backups, partial, loaded, made, fresh, Bounds>>

RefuseBegin == pc = "begin" /\ ~fresh /\ ~Ready(db) /\ Refuse

\* Mutant: a backup that fails does not stop the step.
BackupForgiven ==
    /\ pc = "publish"
    /\ backups' \in {backups, backups \cup {<<db.version, db.version + 1, db>>}}
    /\ partial' = {}
    /\ pc' = IF db.version = Current THEN "serving" ELSE "rewrite"
    /\ UNCHANGED <<db, work, loaded, made, fresh, Bounds>>

Into(file, next) ==
    /\ partial' = partial \cup {file}
    /\ pc' = next
    /\ UNCHANGED <<db, work, backups, loaded, made, fresh, Bounds>>

backupSQLiteConnection == pc = "copy" /\ Into("database", "secrets")
backupSecrets          == pc = "secrets" /\ Into("secrets", "manifest")
WriteManifest          == pc = "manifest" /\ Into("manifest", "publish")

\* The whole directory gets its name in one rename; db cannot have changed since.
createMigrationBackup ==
    /\ pc = "publish"
    /\ backups' = backups \cup {<<db.version,
                                  IF db.version = Current THEN Current ELSE db.version + 1,
                                  db>>}
    /\ partial' = {}
    /\ pc' = IF db.version = Current THEN "serving" ELSE "rewrite"
    /\ UNCHANGED <<db, work, loaded, made, fresh, Bounds>>

Rewrites ==
    /\ db.version = 1 /\ ~fresh => CanBackfill(db)
    /\ db.version = 7 => \A b \in {db.inBody, db.respBody} : CanMigrate(b, NextKey)

Rewrite ==
    /\ pc = "rewrite" /\ Rewrites
    /\ work' = Step(db)
    /\ made' = IF db.version = 7 THEN NextKey ELSE made
    /\ pc' = "stamp"
    /\ UNCHANGED <<db, backups, partial, loaded, fresh, Bounds>>

RefuseRewrite == pc = "rewrite" /\ ~Rewrites /\ Refuse

Stamp ==
    /\ pc = "stamp" /\ Written(work) /\ validateForeignKeys(work)
    /\ pc' = "commit"
    /\ UNCHANGED <<db, work, backups, partial, loaded, made, fresh, Bounds>>

RefuseStamp == pc = "stamp" /\ ~(Written(work) /\ validateForeignKeys(work)) /\ Refuse

Commit ==
    /\ pc = "commit"
    /\ db' = work /\ work' = NoWork
    /\ pc' = IF work.version = 8 THEN "install" ELSE "inspect"
    /\ UNCHANGED <<backups, partial, loaded, made, fresh, Bounds>>

\* The keys of the new schema reach the process only after the commit.
InstallKeys ==
    /\ pc = "install"
    /\ loaded' = db.dataKey
    /\ pc' = "inspect"
    /\ UNCHANGED <<db, work, backups, partial, made, fresh, Bounds>>

LoadKeys ==
    /\ pc = "keys" /\ readDataKeys(db)
    /\ loaded' = db.dataKey
    /\ pc' = "validate"
    /\ UNCHANGED <<db, work, backups, partial, made, fresh, Bounds>>

ValidateEncryptedState ==
    /\ pc = "validate" /\ validateEncryptedState(db, db.dataKey)
    /\ pc' = "bindings"
    /\ UNCHANGED <<db, work, backups, partial, loaded, made, fresh, Bounds>>

RefuseState == pc = "validate" /\ ~validateEncryptedState(db, db.dataKey) /\ Refuse

\* Recipes models what this writes.
repairLegacyAuthSecretBindings ==
    /\ pc = "bindings"
    /\ pc' = "settings"
    /\ UNCHANGED <<db, work, backups, partial, loaded, made, fresh, Bounds>>

initializeCurrentSettings ==
    /\ pc = "settings"
    /\ db' = [db EXCEPT !.settings = "current"]
    /\ pc' = "audit"
    /\ UNCHANGED <<work, backups, partial, loaded, made, fresh, Bounds>>

interruptPendingAuditEvents ==
    /\ pc = "audit"
    /\ pc' = "serving"
    /\ UNCHANGED <<db, work, backups, partial, loaded, made, fresh, Bounds>>

\* `credentials rotate` asks the running server for a backup of the same schema.
CreateRotationBackup ==
    /\ pc = "serving" /\ rotations < MaxRotations
    /\ rotations' = rotations + 1
    /\ pc' = "copy"
    /\ UNCHANGED <<db, work, backups, partial, loaded, made, fresh, origin, faults>>

\* The running server writes and prunes samples; a body written now is sealed.
WriteSample ==
    /\ pc = "serving"
    /\ db' = [db EXCEPT !.respBody = encryptDataBlob("short", loaded)]
    /\ origin' = [origin EXCEPT !.respBody = Body("plain", "short")]
    /\ UNCHANGED <<work, backups, partial, loaded, made, fresh, pc, faults, rotations>>

(***************************************************************************)
(* Faults: a call that returns an error, or the end of the process, which  *)
(* leaves the temporary directory of a backup behind.                      *)
(***************************************************************************)
Fault ==
    /\ pc # "closed" /\ faults < MaxFaults
    /\ faults' = faults + 1
    /\ pc' = "closed"
    /\ work' = NoWork /\ loaded' = 0 /\ fresh' = FALSE
    /\ partial' \in {partial, {}}
    /\ UNCHANGED <<db, backups, made, origin, rotations>>

Migrate == inspectSchemaState \/ Begin \/ RefuseBegin \/ Rewrite \/ RefuseRewrite
              \/ Stamp \/ RefuseStamp \/ Commit \/ InstallKeys
Backup  == backupSQLiteConnection \/ backupSecrets \/ WriteManifest \/ createMigrationBackup
Finish  == LoadKeys \/ ValidateEncryptedState \/ RefuseState
              \/ repairLegacyAuthSecretBindings \/ initializeCurrentSettings
              \/ interruptPendingAuditEvents

Process == openLocked \/ Migrate \/ Backup \/ Finish
Next == Process \/ CreateRotationBackup \/ WriteSample \/ Fault

Spec == Init /\ [][Next]_vars

\* The container's supervisor starts a process that ended, and the process runs.
FairSpec == Spec /\ WF_vars(Process)

(***************************************************************************)
(* Properties.                                                             *)
(***************************************************************************)
\* Whatever the version the file stands at, and wherever a start was cut off, it
\* says what it said at first: bodies, findings, addresses and the upstream's key,
\* and no sealed body has lost the key that opens it.
NothingLost ==
    /\ db.inBody.text = origin.inBody.text /\ db.respBody.text = origin.respBody.text
    /\ db.detail.text = origin.detail.text
    /\ db.key = origin.key
    /\ db.address = origin.address \/ db.fullUrl
    /\ \A b \in {db.inBody, db.respBody, db.detail} :
           b.form \in {"v2", "v2m"} => b.key = db.dataKey

\* A server that serves has the schema it was written for, every body sealed under
\* the data keys it holds, no secret left in a probe header and no address that
\* cannot be dialled on an upstream that is enabled.
ServesCurrent ==
    pc = "serving" =>
        /\ db.version = Current /\ db.settings = "current" /\ db.table = "group"
        /\ loaded = db.dataKey /\ validateEncryptedState(db, loaded)
        /\ ~db.orphans
        /\ db.headers = "none" /\ db.recipeHeaders \notin {"secret", "own key"}
        /\ db.address = "origin" \/ ~db.enabled

OpensHonestly == NothingLost /\ ServesCurrent

\* A database that holds data is rewritten only when a whole backup of exactly
\* what is there has been published.
BackedUp ==
    [][db'.version # db.version /\ ~fresh =>
           \E b \in backups : b[1] = db.version /\ b[2] = db'.version /\ b[3] = db]_vars

\* Nothing stands in the way of a file that is intact.
Intact(d) ==
    /\ d.key /\ (d.version < Current => ~d.orphans)
    /\ d.version = 2 => d.wired
    /\ d.version <= 1 => d.headers # "template"
    /\ IF d.version < 8 THEN validateLegacySampleBodies(d) \/ d.version = Empty
                        ELSE validateEncryptedState(d, d.dataKey)

\* However often the start is cut short, an intact file is served in the end; one
\* that is not never is.
MustOpen == pc = "closed" /\ Intact(db)
IntactOpens == MustOpen ~> (pc = "serving")
=============================================================================
