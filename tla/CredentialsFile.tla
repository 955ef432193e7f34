----------------------------- MODULE CredentialsFile -----------------------------
(***************************************************************************)
(* bootstrap-credentials.json, which three handlers change while the       *)
(* service runs (internal/credential/service.go and persisted.go,          *)
(* internal/api/credentials.go): RotateRelayKey and RevokeGrace under      *)
(* Service.mu, and the reset of the admin password under no lock.  Each    *)
(* loads the whole document, changes its fields, and replaces the file     *)
(* through one temporary path (bootstrap.go writeJSON0600).                *)
(*                                                                         *)
(* A file opened by a handler stays open whatever becomes of its name, so  *)
(* a handler may find that it is writing to the temporary file, to the     *)
(* credentials file itself, or to neither.                                 *)
(***************************************************************************)
EXTENDS Integers, FiniteSets

CONSTANTS
    Callers,     \* requests that change credentials
    NoCaller,
    Overlap,     \* TRUE: a reset may run while another call does, as it may
    MaxMade      \* secrets made (bounds the run)

VARIABLES
    file,     \* what the credentials file holds
    tmp,      \* what the temporary path holds
    mem,      \* what the process authenticates with
    mu,       \* who holds Service.mu
    pc, op,   \* where each caller is, in which operation
    doc,      \* the document it will write
    fd,       \* where the file it has open is now
    made      \* secrets made so far

vars == <<file, tmp, mem, mu, pc, op, doc, fd, made>>

Docs == [kind: {"doc"}, relay: 0..MaxMade, grace: BOOLEAN, admin: 0..MaxMade]

\* What a file may hold besides a document.
None == [kind |-> "none"]     \* no such file
Empty == [kind |-> "empty"]   \* created or truncated, nothing written
Mixed == [kind |-> "mixed"]   \* two documents written over each other

First == [kind |-> "doc", relay |-> 0, grace |-> FALSE, admin |-> 0]

Init ==
    /\ file = First /\ mem = First /\ tmp = None
    /\ mu = NoCaller
    /\ pc = [c \in Callers |-> "idle"]
    /\ op = [c \in Callers |-> "reset"]
    /\ doc = [c \in Callers |-> First]
    /\ fd = [c \in Callers |-> "gone"]
    /\ made = 0

Goto(c, s) == pc' = [pc EXCEPT ![c] = s]

Unlock(c) == mu' = IF mu = c THEN NoCaller ELSE mu

\* The effect of an operation on a document; n is the secret it made.
Applied(o, d, n) ==
    CASE o = "rotate" -> [d EXCEPT !.relay = n, !.grace = TRUE]
      [] o = "revoke" -> [d EXCEPT !.grace = FALSE]
      [] o = "reset"  -> [d EXCEPT !.admin = n]

MayStart(o) ==
    \/ Overlap
    \/ /\ o = "reset" => \A c \in Callers : pc[c] = "idle"
       /\ \A c \in Callers : pc[c] # "idle" => op[c] # "reset"

\* Mutant: RotateRelayKey and RevokeGrace do not take the lock.
LoadUnlocked(c, o) ==
    /\ pc[c] = "idle" /\ MayStart(o)
    /\ file \in Docs
    /\ made' = IF o = "revoke" THEN made ELSE made + 1
    /\ made' <= MaxMade
    /\ op' = [op EXCEPT ![c] = o]
    /\ doc' = [doc EXCEPT ![c] = Applied(o, file, made')]
    /\ Goto(c, IF o = "revoke" /\ ~file.grace THEN "adopt" ELSE "remove")
    /\ UNCHANGED <<file, tmp, mem, mu, fd>>

\* The operation takes its lock, makes its secret and loads the document.  A
\* revoke that finds no grace in the file has nothing to write.
Load(c, o) ==
    /\ pc[c] = "idle" /\ MayStart(o)
    /\ file \in Docs
    /\ o # "reset" => mu = NoCaller
    /\ mu' = IF o = "reset" THEN mu ELSE c
    /\ made' = IF o = "revoke" THEN made ELSE made + 1
    /\ made' <= MaxMade
    /\ op' = [op EXCEPT ![c] = o]
    /\ doc' = [doc EXCEPT ![c] = Applied(o, file, made')]
    /\ Goto(c, IF o = "revoke" /\ ~file.grace THEN "adopt" ELSE "remove")
    /\ UNCHANGED <<file, tmp, mem, fd>>

\* writeJSON0600: remove the temporary file, create it, write it, rename it.
Unlink == [w \in Callers |-> IF fd[w] = "tmp" THEN "gone" ELSE fd[w]]

RemoveTmp(c) ==
    /\ pc[c] = "remove"
    /\ tmp' = None /\ fd' = Unlink
    /\ Goto(c, "open")
    /\ UNCHANGED <<file, mem, mu, op, doc, made>>

OpenTmp(c) ==
    /\ pc[c] = "open"
    /\ tmp' = Empty
    /\ fd' = [fd EXCEPT ![c] = "tmp"]
    /\ Goto(c, "write")
    /\ UNCHANGED <<file, mem, mu, op, doc, made>>

\* A write into what another handler has written may leave the rest of it.
Over(content, d) == IF content = Empty THEN {d} ELSE {d, Mixed}

WriteTmp(c) ==
    /\ pc[c] = "write"
    /\ CASE fd[c] = "tmp"  -> tmp' \in Over(tmp, doc[c]) /\ UNCHANGED file
         [] fd[c] = "file" -> file' \in Over(file, doc[c]) /\ UNCHANGED tmp
         [] fd[c] = "gone" -> UNCHANGED <<tmp, file>>
    /\ Goto(c, "rename")
    /\ UNCHANGED <<mem, mu, op, doc, fd, made>>

\* The rename, then the fsync of the directory: when that fails the operation
\* reports an error although the document is in place.
Rename(c) ==
    /\ pc[c] = "rename"
    /\ tmp # None
    /\ file' = tmp /\ tmp' = None
    /\ fd' = [w \in Callers |->
                 IF w = c \/ fd[w] # "tmp" THEN "gone" ELSE "file"]
    /\ \/ Goto(c, "adopt") /\ UNCHANGED mu
       \/ Goto(c, "idle") /\ Unlock(c)
    /\ UNCHANGED <<mem, op, doc, made>>

\* Only a write that succeeded reaches the memory of the process.
Adopt(c) ==
    /\ pc[c] = "adopt"
    /\ mem' = CASE op[c] = "rotate" -> [mem EXCEPT !.relay = doc[c].relay,
                                                   !.grace = TRUE]
                [] op[c] = "revoke" -> [mem EXCEPT !.grace = FALSE]
                [] op[c] = "reset"  -> [mem EXCEPT !.admin = doc[c].admin]
    /\ Unlock(c)
    /\ Goto(c, "idle")
    /\ UNCHANGED <<file, tmp, op, doc, fd, made>>

\* A call of the operating system fails (a rename whose source is gone does):
\* the temporary file is removed, if it has been touched at all, and the
\* operation reports the error.
Fail(c) ==
    /\ pc[c] \in {"remove", "open", "write", "rename"}
    /\ IF pc[c] = "remove"
         THEN UNCHANGED <<tmp, fd>>
         ELSE tmp' = None /\ fd' = [Unlink EXCEPT ![c] = "gone"]
    /\ Unlock(c)
    /\ Goto(c, "idle")
    /\ UNCHANGED <<file, mem, op, doc, made>>

\* The process dies and starts again from the file.
Restart ==
    /\ file \in Docs
    /\ mem' = file
    /\ mu' = NoCaller
    /\ pc' = [c \in Callers |-> "idle"]
    /\ fd' = [c \in Callers |-> "gone"]
    /\ UNCHANGED <<file, tmp, op, doc, made>>

Operations == {"rotate", "revoke", "reset"}

Step(c) ==
    \/ RemoveTmp(c) \/ OpenTmp(c) \/ WriteTmp(c) \/ Rename(c) \/ Adopt(c)
    \/ Fail(c)

Next ==
    \/ \E c \in Callers : Step(c) \/ \E o \in Operations : Load(c, o)
    \/ Restart

Spec == Init /\ [][Next]_vars

-----------------------------------------------------------------------------
(* Properties.                                                             *)

TypeOK ==
    /\ file \in Docs \cup {Empty, Mixed}
    /\ tmp \in Docs \cup {None, Empty, Mixed}
    /\ mem \in Docs
    /\ mu \in Callers \cup {NoCaller}
    /\ pc \in [Callers -> {"idle", "remove", "open", "write", "rename", "adopt"}]
    /\ op \in [Callers -> Operations]
    /\ doc \in [Callers -> Docs]
    /\ fd \in [Callers -> {"tmp", "file", "gone"}]
    /\ made \in 0..MaxMade

(* A restart at any moment finds a document, never a truncated or a mixed   *)
(* one, and in it every secret the process has acknowledged, or a newer one of an operation that has not returned or has reported an *)
(* error, and no old relay key that was revoked: a grace that memory no    *)
(* longer grants is in the file only with the rotation that made it anew.  *)
FileFits ==
    /\ file \in Docs
    /\ file.relay >= mem.relay /\ file.admin >= mem.admin
    /\ file.grace /\ ~mem.grace => file.relay > mem.relay

(* A reset of the admin password preserves the relay key: at rest the file *)
(* never holds a relay key older than the last one acknowledged, which the *)
(* process accepts (secrets are numbered in the order they are made).      *)
RelayPreserved ==
    (\A c \in Callers : pc[c] = "idle") /\ file \in Docs => file.relay >= mem.relay
=============================================================================
