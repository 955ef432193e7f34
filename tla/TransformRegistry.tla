------------------------- MODULE TransformRegistry -------------------------
(***************************************************************************)
(* The versions of transforms: how a draft becomes the version a route     *)
(* uses (internal/transform: registry.go, configuration.go, persist.go,    *)
(* budget.go, request_view.go; internal/store/transform.go).               *)
(*                                                                         *)
(* One writer at a time copies the configuration in memory, changes the    *)
(* copy, saves it as a whole and only then installs it.  Requests read the *)
(* published routes from the configuration snapshot and, in a second step, *)
(* the versions from the memory of the registry.  The evidence of a request*)
(* is accepted when the route still is the one of its snapshot.            *)
(*                                                                         *)
(* An endpoint stands for its upstream.  Identifiers of routes and of      *)
(* endpoints are given again after a deletion, as SQLite does.             *)
(***************************************************************************)
EXTENDS Naturals, FiniteSets, FiniteSetsExt, Functions

CONSTANTS Routes, Endpoints,  \* the identifiers
          Rules,              \* the rules an administrator may write
          Limits,             \* the execution budgets, smaller first
          MaxSets, MaxVersions,
          Bounds              \* bounds: [writes, changes, faults], one of them

VARIABLES mem,      \* the registry: sets, bindings and the budget
          disk,     \* the same in SQLite
          nextSet, nextVer,
          writer,   \* the proposal of the writer that holds writerMu
          rows,     \* the rows of table route, with their health row
          ends,     \* the endpoints that exist
          snap,     \* the published configuration: what it says of the routes
          admin,    \* what the administrator last read
          req,      \* a request
          left      \* writes, changes of the routes and faults not used up

vars == <<mem, disk, nextSet, nextVer, writer, rows, ends, snap, admin, req, left>>

Live  == {"active"}
NoRules == "none"
Empty == [sets |-> [s \in {} |-> 0], bindings |-> [k \in {} |-> 0],
          limit |-> Min(Limits), revision |-> 1]
Idle  == [phase |-> "idle", cand |-> Empty, target |-> {}]
NoRow == [exists |-> FALSE, born |-> 0, up |-> "none", capability |-> 0,
          verdict |-> 0, early |-> FALSE, used |-> FALSE]
NoReq == [phase |-> "idle", route |-> "none", id |-> <<0, 0>>, up |-> "none",
          version |-> [id |-> 0, rules |-> NoRules], early |-> FALSE]

Identity(row) == <<row.born, row.capability>>
SetOf(c, b)   == c.sets[b.set]
bindKey(r, e) == <<r, e>>

\* The version a request of the route gets: captureVersionLocked, 0 without one.
Captured(c, r, e) ==
    LET found == {v \in UNION {SetOf(c, c.bindings[k]).history :
                               k \in {bindKey(r, e)} \cap DOMAIN c.bindings} :
                    /\ SetOf(c, c.bindings[bindKey(r, e)]).state \in Live
                    /\ v.id = c.bindings[bindKey(r, e)].published}
    IN  IF found = {} THEN [id |-> 0, rules |-> NoRules] ELSE CHOOSE v \in found : TRUE

Spend(what) == left[what] > 0 /\ left' = [left EXCEPT ![what] = @ - 1]
CanWrite    == writer.phase = "idle"

Someone == <<CHOOSE r \in Routes : TRUE, CHOOSE e \in Endpoints : TRUE>>

\* A set that was created, drafted and published for a route.
Used(rules) ==
    [Empty EXCEPT
        !.sets = [s \in {1} |-> [revision |-> 3, state |-> "active",
                                 history |-> {[id |-> 3, rules |-> rules]},
                                 draft |-> [id |-> 2, rules |-> rules]]],
        !.bindings = [k \in {Someone} |->
                         [set |-> 1, published |-> 3, shadow |-> 0, revision |-> 1]]]

Init ==
    /\ \/ mem = Empty /\ nextSet = 1 /\ nextVer = 1
       \/ (\E rules \in Rules : mem = Used(rules)) /\ nextSet = 2 /\ nextVer = 4
    /\ disk = mem /\ admin = mem
    /\ writer = Idle
    /\ rows = [r \in Routes |-> [NoRow EXCEPT !.exists = TRUE, !.born = 1, !.capability = 1,
                                              !.up = Someone[2]]]
    /\ ends = Endpoints
    /\ snap = rows
    /\ req = NoReq
    /\ left \in Bounds

(***************************************************************************)
(* The writer.                                                             *)
(***************************************************************************)
\* changeTargetConfiguration up to the save.
Propose(cand, target) ==
    /\ writer' = [phase |-> "proposed", cand |-> cand, target |-> target]
    /\ Spend("writes")
    /\ UNCHANGED <<mem, disk, rows, ends, snap, admin, req>>

Added(f, k, v) == [x \in DOMAIN f \cup {k} |-> IF x = k THEN v ELSE f[x]]

\* The administrator reads the sets from memory and the bindings from the store.
Read ==
    /\ admin' = [mem EXCEPT !.bindings = disk.bindings]
    /\ UNCHANGED <<mem, disk, nextSet, nextVer, writer, rows, ends, snap, req, left>>

SetSeen(s) ==
    /\ s \in DOMAIN mem.sets /\ s \in DOMAIN admin.sets
    /\ mem.sets[s].revision = admin.sets[s].revision

RevisionOf(c, k) == IF k \in DOMAIN c.bindings THEN c.bindings[k].revision ELSE 0
BindingSeen(k)   == RevisionOf(mem, k) = RevisionOf(admin, k)

CreateSet ==
    /\ CanWrite /\ nextSet <= MaxSets /\ nextVer <= MaxVersions
    /\ nextSet' = nextSet + 1 /\ nextVer' = nextVer + 1
    /\ Propose([mem EXCEPT !.sets = Added(@, nextSet,
                   [revision |-> 1, state |-> "active", history |-> {},
                    draft |-> [id |-> nextVer, rules |-> NoRules]])], {})

updateDraft(s, rules) ==
    /\ CanWrite /\ nextVer <= MaxVersions
    /\ SetSeen(s)
    /\ mem.sets[s].state # "archived"
    /\ nextVer' = nextVer + 1
    /\ Propose([mem EXCEPT !.sets[s].draft = [id |-> nextVer, rules |-> rules],
                           !.sets[s].revision = @ + 1], {})
    /\ UNCHANGED nextSet

\* PublishAtRevision; pointer is "published" or "shadow".
publish(s, r, e, pointer) ==
    LET k     == bindKey(r, e)
        bound == IF k \in DOMAIN mem.bindings THEN mem.bindings[k]
                 ELSE [set |-> s, published |-> 0, shadow |-> 0, revision |-> 0]
    IN  /\ CanWrite /\ nextVer <= MaxVersions
        /\ SetSeen(s)
        /\ BindingSeen(k)
        /\ mem.sets[s].state \in Live
        /\ mem.sets[s].draft.rules # NoRules
        /\ bound.set = s
        /\ nextVer' = nextVer + 1
        /\ Propose([mem EXCEPT
                !.sets[s].history = @ \cup {[id |-> nextVer, rules |-> mem.sets[s].draft.rules]},
                !.sets[s].revision = @ + 1,
                !.bindings = Added(@, k, [bound EXCEPT ![pointer] = nextVer, !.revision = @ + 1])],
                {k})
        /\ UNCHANGED nextSet

\* RollbackAtRevision and ClearPublishedAtRevision (v = 0).
setPublished(k, v) ==
    /\ CanWrite
    /\ k \in DOMAIN mem.bindings
    /\ BindingSeen(k)
    /\ SetOf(mem, mem.bindings[k]).state \in Live
    /\ v \in {0} \cup {h.id : h \in SetOf(mem, mem.bindings[k]).history}
    /\ Propose([mem EXCEPT !.bindings[k] = [@ EXCEPT !.published = v, !.revision = @ + 1]], {k})
    /\ UNCHANGED <<nextSet, nextVer>>

SetLifecycle(s, state) ==
    /\ CanWrite
    /\ SetSeen(s)
    /\ mem.sets[s].state \notin {"archived", state}
    /\ Propose([mem EXCEPT !.sets[s] = [@ EXCEPT !.state = state, !.revision = @ + 1],
                           !.bindings = [k \in DOMAIN @ |->
                               IF @[k].set = s THEN [@[k] EXCEPT !.revision = @ + 1] ELSE @[k]]], {})
    /\ UNCHANGED <<nextSet, nextVer>>

\* Raising the budget needs a confirmation.
SetBudgets(limit, confirmed) ==
    /\ CanWrite
    /\ mem.revision = admin.revision
    /\ limit > mem.limit => confirmed
    /\ Propose([mem EXCEPT !.limit = limit, !.revision = @ + 1], {})
    /\ UNCHANGED <<nextSet, nextVer>>

(***************************************************************************)
(* Saving and installing.                                                  *)
(***************************************************************************)
\* Mutant: only the published pointers are compared.
PointerChanges(old, new) ==
    LET Pointer(c, k) == IF k \in DOMAIN c.bindings THEN c.bindings[k].published ELSE 0
    IN  {r \in Routes : \E e \in Endpoints : Pointer(old, bindKey(r, e)) # Pointer(new, bindKey(r, e))}

\* liveTransformChanges: the routes whose live version changes.
liveTransformChanges(old, new) ==
    {r \in Routes : \E e \in Endpoints : Captured(old, r, e).id # Captured(new, r, e).id}

TargetExists(k) == rows[k[1]].exists /\ k[2] \in ends /\ rows[k[1]].up = k[2]

resetRouteHealth(row) == [row EXCEPT !.capability = @ + 1, !.verdict = 0, !.early = FALSE]

\* One transaction; a fault leaves the store as it was and drops the proposal.
saveTransformSnapshot ==
    /\ writer.phase = "proposed"
    /\ \A k \in writer.target : TargetExists(k)
    /\ disk' = writer.cand
    /\ rows' = [r \in Routes |-> IF r \in liveTransformChanges(disk, writer.cand) /\ rows[r].exists
                                 THEN resetRouteHealth(rows[r]) ELSE rows[r]]
    /\ writer' = [writer EXCEPT !.phase = "saved"]
    /\ UNCHANGED <<mem, nextSet, nextVer, ends, snap, admin, req, left>>

RefuseSave ==
    /\ writer.phase = "proposed"
    /\ \/ (\E k \in writer.target : ~TargetExists(k)) /\ UNCHANGED left
       \/ Spend("faults")
    /\ writer' = Idle
    /\ UNCHANGED <<mem, disk, nextSet, nextVer, rows, ends, snap, admin, req>>

Install ==
    /\ writer.phase = "saved"
    /\ mem' = writer.cand
    /\ writer' = Idle
    /\ UNCHANGED <<disk, nextSet, nextVer, rows, ends, snap, admin, req, left>>

(***************************************************************************)
(* The routes and the endpoints.                                           *)
(***************************************************************************)
Change == Spend("changes")
Without(c, Gone(_)) ==
    [c EXCEPT !.bindings = Restrict(@, {k \in DOMAIN @ : ~Gone(k)})]

CreateRoute(r, e) ==
    /\ Change
    /\ ~rows[r].exists /\ e \in ends
    /\ rows' = [rows EXCEPT ![r] = [NoRow EXCEPT !.exists = TRUE, !.born = rows[r].born + 1,
                                                 !.up = e, !.capability = 1]]
    /\ UNCHANGED <<mem, disk, nextSet, nextVer, writer, ends, snap, admin, req>>

\* The route moves to another upstream; its bindings stay.
UpdateRoute(r, e) ==
    /\ Change
    /\ rows[r].exists /\ e \in ends \ {rows[r].up}
    /\ rows' = [rows EXCEPT ![r] = [resetRouteHealth(@) EXCEPT !.up = e]]
    /\ UNCHANGED <<mem, disk, nextSet, nextVer, writer, ends, snap, admin, req>>

\* DetachRouteBindingsAround DeleteRoute: both locks are held, the transaction
\* deletes the bindings with the route.  A route with history is not deleted.
DeleteRoute(r) ==
    /\ Change
    /\ writer.phase = "idle"
    /\ rows[r].exists /\ ~rows[r].used
    /\ LET Gone(k) == k[1] = r
       IN  mem' = Without(mem, Gone) /\ disk' = Without(disk, Gone)
    /\ rows' = [rows EXCEPT ![r] = [NoRow EXCEPT !.born = rows[r].born]]
    /\ UNCHANGED <<nextSet, nextVer, writer, ends, snap, admin, req>>

\* DetachEndpointBindingsAround DeleteEndpoint: its upstream has no route.
DeleteEndpoint(e) ==
    /\ Change
    /\ writer.phase = "idle"
    /\ e \in ends
    /\ \A r \in Routes : ~(rows[r].exists /\ rows[r].up = e)
    /\ LET Gone(k) == k[2] = e
       IN  mem' = Without(mem, Gone) /\ disk' = Without(disk, Gone)
    /\ ends' = ends \ {e}
    /\ UNCHANGED <<nextSet, nextVer, writer, rows, snap, admin, req>>

CreateEndpoint(e) ==
    /\ Change
    /\ e \notin ends
    /\ ends' = ends \cup {e}
    /\ UNCHANGED <<mem, disk, nextSet, nextVer, writer, rows, snap, admin, req>>

\* Retention takes the rows that kept the route from being deleted.
PruneHistory(r) ==
    /\ rows[r].used
    /\ rows' = [rows EXCEPT ![r].used = FALSE]
    /\ UNCHANGED <<mem, disk, nextSet, nextVer, writer, ends, snap, admin, req, left>>

(***************************************************************************)
(* Requests.                                                               *)
(***************************************************************************)
\* The configuration is published anew: after any write, or when it has aged.
Publish ==
    /\ snap' = rows
    /\ UNCHANGED <<mem, disk, nextSet, nextVer, writer, rows, ends, admin, req, left>>

ReadSnapshot(r) ==
    /\ req.phase = "idle"
    /\ snap[r].exists
    /\ req' = [NoReq EXCEPT !.phase = "routed", !.route = r, !.id = Identity(snap[r]),
                            !.up = snap[r].up]
    /\ UNCHANGED <<mem, disk, nextSet, nextVer, writer, rows, ends, snap, admin, left>>

\* early: the versions are read between the commit of a writer and its install.
CaptureRoutes ==
    /\ req.phase = "routed"
    /\ req' = [req EXCEPT !.phase = "captured", !.version = Captured(mem, req.route, req.up),
                          !.early = writer.phase = "saved"]
    /\ UNCHANGED <<mem, disk, nextSet, nextVer, writer, rows, ends, snap, admin, left>>

\* The commit of its evidence compares the route with that of the request.
CommitEvidence ==
    /\ req.phase = "captured"
    /\ LET row == rows[req.route]
       IN  rows' = [rows EXCEPT ![req.route] =
               IF row.exists /\ Identity(row) = req.id
               THEN [row EXCEPT !.verdict = req.version.id + 1, !.early = req.early, !.used = TRUE]
               ELSE row]
    /\ req' = NoReq
    /\ UNCHANGED <<mem, disk, nextSet, nextVer, writer, ends, snap, admin, left>>

\* LoadFromPersist at the next start.
AllVersions(c) == UNION {c.sets[s].history \cup {c.sets[s].draft} : s \in DOMAIN c.sets}

Crash ==
    /\ Spend("faults")
    /\ mem' = disk
    /\ nextSet' = Max(DOMAIN disk.sets \cup {0}) + 1
    /\ nextVer' = Max({v.id : v \in AllVersions(disk)} \cup {0}) + 1
    /\ writer' = Idle
    /\ snap' = rows
    /\ req' = NoReq
    /\ UNCHANGED <<disk, rows, ends, admin>>

Next ==
    \/ Read \/ CreateSet
    \/ \E s \in 1 .. MaxSets :
          \/ \E rules \in Rules : updateDraft(s, rules)
          \/ \E r \in Routes, e \in Endpoints, p \in {"published", "shadow"} : publish(s, r, e, p)
          \/ \E state \in {"active", "disabled", "archived"} : SetLifecycle(s, state)
    \/ \E k \in Routes \X Endpoints, v \in 0 .. MaxVersions : setPublished(k, v)
    \/ \E limit \in Limits, confirmed \in BOOLEAN : SetBudgets(limit, confirmed)
    \/ saveTransformSnapshot \/ RefuseSave \/ Install
    \/ \E r \in Routes :
          \/ \E e \in Endpoints : CreateRoute(r, e) \/ UpdateRoute(r, e)
          \/ DeleteRoute(r) \/ PruneHistory(r) \/ ReadSnapshot(r)
    \/ \E e \in Endpoints : DeleteEndpoint(e) \/ CreateEndpoint(e)
    \/ Publish \/ CaptureRoutes \/ CommitEvidence \/ Crash

Spec == Init /\ [][Next]_vars

(***************************************************************************)
(* Properties.                                                             *)
(***************************************************************************)
TypeOK ==
    /\ writer.phase \in {"idle", "proposed", "saved"}
    /\ req.phase \in {"idle", "routed", "captured"}
    /\ ends \subseteq Endpoints
    /\ DOMAIN disk.bindings \subseteq Routes \X Endpoints
    /\ DOMAIN mem.bindings \subseteq Routes \X Endpoints

\* Requests never meet a version that is not on disk, and a save that was refused
\* leaves no trace: memory is the store, but for the moment before an install.
MemoryIsStored == disk = IF writer.phase = "saved" THEN writer.cand ELSE mem

\* No binding outlives its route or its endpoint, to be inherited by the next row
\* with the same identifier, and its versions are in the history of its set.
NoOrphans ==
    \A k \in DOMAIN disk.bindings :
        /\ rows[k[1]].exists /\ k[2] \in ends
        /\ {disk.bindings[k].published, disk.bindings[k].shadow}
              \subseteq {0} \cup {v.id : v \in SetOf(disk, disk.bindings[k]).history}

\* A version that was ever published never changes its rules, over restarts and
\* refused saves too: what a request runs is what its identifier says.
OneMeaning ==
    \A v \in AllVersions(disk), w \in AllVersions(disk) \cup AllVersions(mem) \cup {req.version} :
        v.id = w.id => v = w

\* A set with the revision the administrator has read is the set he has read:
\* the draft that goes live is the draft that was reviewed.
ReviewedIsPublished ==
    \A s \in DOMAIN admin.sets \cap DOMAIN mem.sets :
        admin.sets[s].revision = mem.sets[s].revision => admin.sets[s] = mem.sets[s]

\* The verdict on a route was proved with the version it uses now.
ProvedOn(r) ==
    rows[r].exists /\ rows[r].verdict # 0
       => rows[r].verdict = Captured(disk, r, rows[r].up).id + 1

VerdictsAreCurrent == \A r \in Routes : ~rows[r].early => ProvedOn(r)

TransformsHold ==
    MemoryIsStored /\ NoOrphans /\ OneMeaning /\ ReviewedIsPublished /\ VerdictsAreCurrent

\* docs/01, 9.2: publishing a transform clears the evidence of the old one.  A
\* request that reads the new snapshot and then the old versions brings it back.
EvidenceFollowsTransform == \A r \in Routes : ProvedOn(r)
=============================================================================
