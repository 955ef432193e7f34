------------------------------ MODULE MCStorage ------------------------------
(* What the disk has to keep and what has to reach it, side by side and      *)
(* small: the rotation of the master key, the credentials document, the      *)
(* restore of a backup, the migration of an old database, the certificates   *)
(* of the public edge.  A behaviour is of one of the five.                   *)
EXTENDS KeyRotation, PublicEdge, TLC

CONSTANTS Callers, NoCaller, MaxMade,    \* of CredentialsFile
          MaxRestores, MaxStops,         \* of Restore
          MaxCuts                        \* faults of Migration

VARIABLES part,
          file, tmp, known, mu, cpc, op, doc, fd, secrets,
          live, isolated, staged, intent, archived, proc, rpc, restores, keys,
          owned, byHand, asked, stops,
          \* of Migration
          tables, work, backups, partial, loaded, sealed, fresh, mpc, origin,
          cuts, rotations

cvars == <<file, tmp, known, mu, cpc, op, doc, fd, secrets>>
rvars == <<live, isolated, staged, intent, archived, proc, rpc, restores, keys,
           owned, byHand, asked, stops>>
migrationVars == <<tables, work, backups, partial, loaded, sealed, fresh, mpc,
                  origin, cuts, rotations>>

ASSUME StorageAssumption ==
    MaxRestores \in Nat /\ MaxMade \in Nat /\ NoCaller \notin Callers

C == INSTANCE CredentialsFile WITH
        Overlap <- FALSE, mem <- known, pc <- cpc, made <- secrets
R == INSTANCE Restore WITH
        MaxFaults <- MaxStops, pc <- rpc, faults <- stops
M == INSTANCE Migration WITH
        MaxFaults <- MaxCuts, MaxRotations <- 1, db <- tables, made <- sealed,
        pc <- mpc, faults <- cuts

Rotates  == part = "rotation"
Edits    == part = "credentials"
Restores == part = "restore"
Migrates == part = "migration"
Edge     == part = "edge"

\* What does not move starts from one state.
PartsInit ==
    /\ Init /\ C!Init /\ R!Init /\ M!Init /\ EdgeInit
    /\ part \in {"rotation", "credentials", "restore", "migration", "edge"}
    /\ ~Rotates => key = CHOOSE k \in Masters : TRUE
    /\ ~Restores => live["wal"] = 0
    /\ ~Migrates => tables.version = M!Empty

Rot(A) == Rotates  /\ A /\ UNCHANGED <<part, cvars, rvars, migrationVars, edgeVars>>
Edt(A) == Edits    /\ A /\ UNCHANGED <<part, vars, rvars, migrationVars, edgeVars>>
Res(A) == Restores /\ A /\ UNCHANGED <<part, vars, cvars, migrationVars, edgeVars>>
Mig(A) == Migrates /\ A /\ UNCHANGED <<part, vars, cvars, rvars, edgeVars>>
Edg(A) == Edge     /\ A /\ UNCHANGED <<part, vars, cvars, rvars, migrationVars>>

PartsNext ==
    Rot(Next) \/ Edt(C!Next) \/ Res(R!Next) \/ Mig(M!Next) \/ Edg(EdgeNext)

allVars == <<part, vars, cvars, rvars, migrationVars, edgeVars>>

(* The fairness of each: as the parts exclude each other, fairness of a      *)
(* choice among them is fairness of each.                                    *)
PartsFair ==
    /\ WF_allVars(Rot(Rotation) \/ Res(R!Step) \/ Mig(M!Process) \/ Edg(Manage))
    /\ WF_allVars(Rot(Boot) \/ Edg(NginxReloads))
    /\ WF_allVars(Edg(EdgeStarts))
    /\ SF_allVars(Edg(CheckExpired))

PartsSpec == PartsInit /\ [][PartsNext]_allVars /\ PartsFair

-----------------------------------------------------------------------------
(* The credentials document never loses an acknowledged secret nor brings    *)
(* back a revoked one (CredentialsFile); no restore destroys data of the     *)
(* deployment, and the server serves one whole group of files (Restore).     *)
FilesHold == C!FileFits /\ R!NothingLost /\ R!ServesOneGroup

(* However often its opening was cut off, a database says what it said, no  *)
(* sealed body loses its key, and a server that serves has the schema it was *)
(* written for (Migration).                                                  *)
OpensHonestly == M!OpensHonestly

(* Data is rewritten only when a whole backup of it is published (Migration).*)
BackedUp == M!BackedUp

(* Service returns after a rotation (KeyRotation: ServiceReturns), a restore *)
(* that declared itself is finished (Restore: RestoreCompletes), an intact   *)
(* database is served in the end (Migration: IntactOpens), and a listener    *)
(* whose certificate has expired is closed (PublicEdge: ExpiredCloses).      *)
RecoveryEnds ==
    \/ Rotates /\ pc = "down"
    \/ Restores /\ R!Declared
    \/ Migrates /\ M!MustOpen
    \/ Edge /\ LeftOpen
  ~> /\ Rotates => pc = "serving"
     /\ Restores => R!Settled
     /\ Migrates => mpc = "serving"
     /\ Edge => ~ServesExpired
=============================================================================
