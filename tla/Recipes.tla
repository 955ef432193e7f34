------------------------------- MODULE Recipes -------------------------------
(* What a probe of one endpoint sends: probe secrets, the endpoint that      *)
(* authenticates with them, recipes in versions for the upstream and for one *)
(* of its routes, learned client profiles, the explicit tests that are the   *)
(* ticket for a publication, and the stored health of the route with the     *)
(* configuration it was observed under.  Every write is one transaction of   *)
(* the store; a test takes a snapshot, checks it, sends and is recorded, and *)
(* the administrator writes in between.                                      *)
(*                                                                           *)
(* One number stands for the revisions of upstream, route, model and         *)
(* settings (target.conf); what a write refused leaves alone is no step.     *)
EXTENDS Naturals, Sequences, FiniteSets

CONSTANTS Absent,       \* no row, no identity
          Names,        \* names of probe secrets
          Profiles,     \* ids of learned client profiles
          Legacy,       \* may the database come from before the bindings?
          MaxIds,       \* bound: probe secrets ever created
          MaxRecipes,   \* bound: recipe rows
          MaxVersions,  \* bound: versions of recipes
          MaxEdits      \* bound: administrative writes

VARIABLES secret,     \* name -> [id, rev] of the row, or Absent
          ids,        \* ids of secrets given out (AUTOINCREMENT)
          target,     \* [conf, enabled] of upstream, route and model
          endpoint,   \* [rev, needs, refs, repaired]
          recipe,     \* the rows of probe_recipe
          version,    \* the rows of probe_recipe_version
          profile,    \* the rows of client_probe_profile
          stored,     \* identity_json of the route's health row, or Absent
          tracker,    \* the identity the process holds for the route, or Absent
          test,       \* the explicit test under way or recorded last
          up,         \* is the process up?
          marker,     \* authBindingUpgradeMarker in the settings
          edits

recipeVars == <<secret, ids, target, endpoint, recipe, version, profile, stored,
          tracker, test, up, marker, edits>>

NoTest == [state |-> "none"]
NoRefs == [n \in {} |-> 0]

\* No row has the identity of a row.
ASSUME RecipesAssumption == Absent \notin [id : Nat, rev : Nat]

-----------------------------------------------------------------------------
(* Which binding a probe uses.                                               *)
Serving(r) == recipe[r].status \in {"published", "legacy_compat"} /\ recipe[r].published # 0

Published(scope) == {r \in DOMAIN recipe : recipe[r].scope = scope /\ Serving(r)}
Tested == {p \in Profiles : profile[p].status = "tested"}

FromBinding(layer, r) ==
    [layer |-> layer, holder |-> r, of |-> recipe[r].published,
     binding |-> recipe[r].binding]

FromProfile(p) ==
    [layer |-> "profile", holder |-> p, of |-> 0, binding |-> profile[p].rev]

FromBuiltin == [layer |-> "embedded", holder |-> 0, of |-> 0, binding |-> 0]

\* What the first of the four layers has that has anything.
FirstLayer ==
    IF Published("route") # {} THEN {FromBinding("route", r) : r \in Published("route")}
    ELSE IF Published("upstream") # {}
    THEN {FromBinding("upstream", r) : r \in Published("upstream")}
    ELSE IF Tested # {} THEN {FromProfile(p) : p \in Tested}
    ELSE {FromBuiltin}

Resolve == CHOOSE b \in FirstLayer : TRUE

\* The secret a version was bound to, by name; 0 for one that migrated.
VersionRefs(v) == IF v = 0 THEN NoRefs ELSE version[v].bound

Required(v) == DOMAIN VersionRefs(v) \cup DOMAIN endpoint.refs

SecretRevisions(names) == [n \in names |-> secret[n]]

\* Every name is there, under the id it was bound to.
Bound(refs) == \A n \in DOMAIN refs : secret[n] # Absent /\ secret[n].id = refs[n]

\* Everything rendering reads is bound.
CanBind(v) ==
    /\ Bound(VersionRefs(v)) /\ Bound(endpoint.refs)
    /\ endpoint.needs \subseteq DOMAIN endpoint.refs

(* The identity of what is observed: selection, revisions, secrets.          *)
Identity(b) ==
    [by |-> b, conf |-> target.conf, endpoint |-> endpoint.rev,
     secrets |-> SecretRevisions(Required(b.of))]

CurrentRevision(i) ==
    /\ i.conf = target.conf
    /\ i.endpoint = endpoint.rev
    /\ i.secrets = SecretRevisions(DOMAIN i.secrets)

BindingCurrent(i) == i.by = Resolve

IdentityCurrent(i) == target.enabled /\ CurrentRevision(i) /\ BindingCurrent(i)

\* The health row, checked against what the transaction has written.
ClearStale ==
    \E h \in {stored} :
        stored' = IF h # Absent /\ IdentityCurrent(h)' THEN h ELSE Absent

-----------------------------------------------------------------------------
Recipe(scope, status, pub, refs) ==
    [scope |-> scope, status |-> status, rev |-> 1, binding |-> 1,
     draft |-> pub, published |-> pub, refs |-> refs]

Row(status) == [status |-> status, rev |-> 1]

(* A fresh installation with a secret; one with a published recipe of the    *)
(* route over a draft of the upstream, and a candidate; and one from before  *)
(* secrets were bound: a migrated recipe, an endpoint that names a secret it *)
(* was never bound to, and the health it had then.                           *)
RecipesInit ==
    /\ \E n \in Names :
          /\ secret = [m \in Names |-> IF m = n THEN [id |-> 1, rev |-> 1] ELSE Absent]
          /\ \/ /\ recipe = <<>> /\ version = <<>> /\ marker = TRUE
                /\ endpoint = [rev |-> 1, needs |-> {}, refs |-> NoRefs, repaired |-> 0]
                /\ profile = [p \in Profiles |-> Row("none")]
             \/ /\ recipe = <<Recipe("route", "published", 1, {1}), Recipe("upstream", "draft", 0, {})>>
                /\ version = <<[recipe |-> 1, bound |-> [m \in {n} |-> 1]]>>
                /\ marker = TRUE
                /\ endpoint = [rev |-> 1, needs |-> {}, refs |-> NoRefs, repaired |-> 0]
                /\ profile = [p \in Profiles |-> Row("candidate")]
             \/ /\ Legacy /\ marker = FALSE
                /\ recipe = <<Recipe("upstream", "legacy_compat", 1, {}),
                              Recipe("route", "legacy_quarantined", 0, {})>>
                /\ version = <<[recipe |-> 1, bound |-> [m \in {n} |-> 0]],
                               [recipe |-> 2, bound |-> NoRefs]>>
                /\ endpoint = [rev |-> 1, needs |-> {n}, refs |-> NoRefs, repaired |-> 0]
                /\ profile = [p \in Profiles |-> Row("none")]
    /\ ids = 1
    /\ target = [conf |-> 1, enabled |-> TRUE]
    /\ stored \in {Absent, Identity(Resolve)}
    /\ tracker = Absent /\ test = NoTest /\ up = FALSE /\ edits = 0

-----------------------------------------------------------------------------
(* Start.  The secrets an old endpoint names are bound once, to what has     *)
(* these names now; a name that is missing stays unbound, and its evidence   *)
(* starts anew.  A restart never binds again.                                *)
RepairAuthBindings ==
    IF marker THEN UNCHANGED <<endpoint, marker>>
    ELSE /\ marker' = TRUE
         /\ endpoint' =
                IF endpoint.needs = {} THEN endpoint
                ELSE [endpoint EXCEPT
                        !.refs = [n \in {m \in endpoint.needs : secret[m] # Absent} |->
                                     secret[n].id],
                        !.rev = @ + 1, !.repaired = endpoint.rev + 1]

\* The process holds what of the row is still current.
Boot ==
    /\ ~up /\ up' = TRUE
    /\ RepairAuthBindings
    /\ UNCHANGED <<secret, ids, target, recipe, version, profile, stored, test, edits>>
    /\ \E h \in {stored} : tracker' = IF h # Absent /\ IdentityCurrent(h)' THEN h ELSE Absent

\* A test under way is lost, a recorded one is not.
Crash ==
    /\ up /\ up' = FALSE
    /\ tracker' = Absent
    /\ test' = IF test.state = "done" THEN test ELSE NoTest
    /\ UNCHANGED <<secret, ids, target, endpoint, recipe, version, profile, stored, marker, edits>>

\* What every administrative write leaves alone.
RecipeWrite == /\ up /\ edits < MaxEdits /\ edits' = edits + 1
         /\ UNCHANGED <<tracker, up, marker>>

-----------------------------------------------------------------------------
(* Probe secrets.                                                            *)
CreateProbeSecret(n) ==
    /\ RecipeWrite /\ secret[n] = Absent /\ ids < MaxIds
    /\ secret' = [secret EXCEPT ![n] = [id |-> ids + 1, rev |-> 1]]
    /\ ids' = ids + 1
    /\ UNCHANGED <<target, endpoint, recipe, version, profile, stored, test>>

\* Mutant: the health of routes that used the old value stays.
UpdateProbeSecretOnly(n) ==
    /\ RecipeWrite /\ secret[n] # Absent
    /\ secret' = [secret EXCEPT ![n].rev = @ + 1]
    /\ UNCHANGED <<ids, target, endpoint, recipe, version, profile, stored, test>>

UpdateProbeSecret(n) ==
    /\ RecipeWrite /\ secret[n] # Absent
    /\ secret' = [secret EXCEPT ![n].rev = @ + 1]
    /\ UNCHANGED <<ids, target, endpoint, recipe, version, profile, test>>
    /\ ClearStale

\* Foreign keys of the active references.
Referenced(id) ==
    \/ \E r \in DOMAIN recipe : id \in recipe[r].refs
    \/ \E n \in DOMAIN endpoint.refs : endpoint.refs[n] = id

DeleteProbeSecret(n) ==
    /\ RecipeWrite /\ secret[n] # Absent /\ ~Referenced(secret[n].id)
    /\ secret' = [secret EXCEPT ![n] = Absent]
    /\ UNCHANGED <<ids, target, endpoint, recipe, version, profile, stored, test>>

(* The endpoint, and the rows around it.                                     *)
UpdateEndpoint(names) ==
    /\ RecipeWrite /\ \A n \in names : secret[n] # Absent
    /\ endpoint' = [endpoint EXCEPT !.rev = @ + 1, !.needs = names,
                                    !.refs = [n \in names |-> secret[n].id]]
    /\ UNCHANGED <<secret, ids, target, recipe, version, profile, test>>
    /\ ClearStale

EditTarget ==
    /\ RecipeWrite
    /\ \/ target' = [target EXCEPT !.conf = @ + 1]
       \/ target' = [target EXCEPT !.enabled = ~@]
    /\ UNCHANGED <<secret, ids, endpoint, recipe, version, profile, test>>
    /\ ClearStale

(* Recipes.  At most one that is not archived for a scope.                   *)
CreateRecipe(scope) ==
    /\ RecipeWrite /\ Len(recipe) < MaxRecipes
    /\ \A r \in DOMAIN recipe : recipe[r].scope = scope => recipe[r].status = "archived"
    /\ recipe' = Append(recipe, Recipe(scope, "draft", 0, {}))
    /\ UNCHANGED <<secret, ids, target, endpoint, version, profile, stored, test>>

AddRecipeVersion(r, names) ==
    /\ RecipeWrite /\ Len(version) < MaxVersions
    /\ recipe[r].status # "archived"
    /\ \A n \in names : secret[n] # Absent
    /\ version' = Append(version, [recipe |-> r, bound |-> [n \in names |-> secret[n].id]])
    /\ recipe' = [recipe EXCEPT ![r] =
                   [recipe[r] EXCEPT !.draft = Len(version) + 1, !.rev = recipe[r].rev + 1]]
    /\ UNCHANGED <<secret, ids, target, endpoint, profile, stored, test>>

\* The row of a recipe whose binding changes.
Rebound(r, status, pub, refs) ==
    [recipe[r] EXCEPT !.status = status, !.published = pub, !.rev = recipe[r].rev + 1,
                      !.binding = recipe[r].binding + 1, !.refs = refs]

RetireRecipe(r, status) ==
    /\ RecipeWrite /\ recipe[r].status # "archived"
    /\ recipe' = [recipe EXCEPT ![r] = Rebound(r, status, recipe[r].published, {})]
    /\ UNCHANGED <<secret, ids, target, endpoint, version, profile, test>>
    /\ ClearStale

-----------------------------------------------------------------------------
(* Explicit tests.                                                           *)

\* What a test of version v of its recipe, or of a profile, is a test of.
OfVersion(v) ==
    LET r == version[v].recipe
    IN  [kind |-> "recipe", holder |-> r, of |-> v, rev |-> recipe[r].rev,
         binding |-> recipe[r].binding]

OfProfile(p) ==
    [kind |-> "profile", holder |-> p, of |-> 0, rev |-> profile[p].rev,
     binding |-> profile[p].rev]

Token(v) ==
    [conf |-> target.conf, endpoint |-> endpoint.rev,
     secrets |-> SecretRevisions(Required(v))]

\* The snapshot a test works from; it may be older than the database.
LoadTest(of) ==
    /\ up /\ test.state \in {"none", "done"}
    /\ test' = [state |-> "loaded", about |-> of, token |-> Token(of.of)]
    /\ UNCHANGED <<secret, ids, target, endpoint, recipe, version, profile,
                   stored, tracker, up, marker, edits>>

\* The row as the database has it, and the upstream's revisions.
Unchanged(of) ==
    IF of.kind = "recipe"
    THEN recipe[of.holder].rev = of.rev /\ recipe[of.holder].status # "archived"
    ELSE profile[of.holder].rev = of.rev /\ profile[of.holder].status = "candidate"

CheckTest ==
    /\ test.state = "loaded"
    /\ \/ /\ Unchanged(test.about) /\ target.enabled
          /\ test' = [state |-> "checked", about |-> test.about, token |-> test.token]
       \/ /\ \/ ~Unchanged(test.about) \/ ~target.enabled
             \/ test.token.conf # target.conf
          /\ test' = NoTest
    /\ UNCHANGED <<secret, ids, target, endpoint, recipe, version, profile,
                   stored, tracker, up, marker, edits>>

\* Rendering reads the secrets and the endpoint as they are now.
SendTest ==
    /\ test.state = "checked"
    /\ test' = IF CanBind(test.about.of)
               THEN [state |-> "sent", about |-> test.about, token |-> test.token,
                     used |-> Token(test.about.of)]
               ELSE [state |-> "done", about |-> test.about, token |-> test.token,
                     used |-> Token(test.about.of), result |-> "unsent"]
    /\ UNCHANGED <<secret, ids, target, endpoint, recipe, version, profile,
                   stored, tracker, up, marker, edits>>

RecordTest(result) ==
    /\ test.state = "sent"
    /\ test' = [state |-> "done", about |-> test.about, token |-> test.token,
                used |-> test.used, result |-> result]
    /\ UNCHANGED <<secret, ids, target, endpoint, recipe, version, profile,
                   stored, tracker, up, marker, edits>>

-----------------------------------------------------------------------------
(* What a test is the ticket for.                                            *)

\* Sent to its end; force is for one that failed, and for nothing else.
TestAccepted(force) ==
    /\ test.state = "done"
    /\ test.result = IF force THEN "failed" ELSE "ok"

\* The secrets of the version and of the endpoint, each under one bound id.
TestSecretsCurrent ==
    /\ Bound(VersionRefs(test.about.of)) /\ Bound(endpoint.refs)
    /\ \A n \in DOMAIN VersionRefs(test.about.of) \cap DOMAIN endpoint.refs :
          VersionRefs(test.about.of)[n] = endpoint.refs[n]

\* Mutant: what was tested is not compared with what is there now.
TestTargetBound == target.enabled /\ TestSecretsCurrent

TestTargetCurrent ==
    /\ target.enabled /\ TestSecretsCurrent
    /\ test.token = Token(test.about.of)

ActiveRefs(v) == {VersionRefs(v)[n] : n \in DOMAIN VersionRefs(v)}

PublishRecipeVersion(force) ==
    /\ RecipeWrite /\ TestAccepted(force) /\ test.about.kind = "recipe"
    /\ \E r \in {test.about.holder}, v \in {test.about.of} :
          /\ recipe[r].status \notin {"archived", "legacy_quarantined"}
          /\ test.about = OfVersion(v)
          /\ TestTargetCurrent
          /\ 0 \notin ActiveRefs(v)
          /\ recipe' = [recipe EXCEPT ![r] = Rebound(r, "published", v, ActiveRefs(v))]
    /\ UNCHANGED <<secret, ids, target, endpoint, version, profile, test>>
    /\ ClearStale

(* Learned profiles: they name no secrets.                                   *)
CreateCandidate(p) ==
    /\ RecipeWrite /\ profile[p].status = "none"
    /\ profile' = [profile EXCEPT ![p] = Row("candidate")]
    /\ UNCHANGED <<secret, ids, target, endpoint, recipe, version, stored, test>>

UpdateCandidate(p) ==
    /\ RecipeWrite /\ profile[p].status = "candidate"
    /\ profile' = [profile EXCEPT ![p].rev = @ + 1]
    /\ UNCHANGED <<secret, ids, target, endpoint, recipe, version, stored, test>>

\* A new shape takes the place of a candidate nobody tested.
EvictCandidate(p) ==
    /\ RecipeWrite /\ profile[p].status = "candidate"
    /\ ~(test.state = "done" /\ test.about.kind = "profile" /\ test.about.holder = p)
    /\ profile' = [profile EXCEPT ![p].status = "gone"]
    /\ UNCHANGED <<secret, ids, target, endpoint, recipe, version, stored, test>>

\* By TestClientProfile itself, once its test has succeeded.
MarkProfileTested ==
    /\ RecipeWrite /\ TestAccepted(FALSE) /\ test.about.kind = "profile"
    /\ \E p \in {test.about.holder} :
          /\ profile[p].status = "candidate" /\ test.about = OfProfile(p)
          /\ TestTargetCurrent
          /\ profile' = [q \in Profiles |->
                CASE q = p -> [status |-> "tested", rev |-> profile[q].rev + 1]
                  [] profile[q].status = "tested" /\ q # p ->
                       [status |-> "disabled", rev |-> profile[q].rev + 1]
                  [] OTHER -> profile[q]]
    /\ UNCHANGED <<secret, ids, target, endpoint, recipe, version, test>>
    /\ ClearStale

DisableProfile(p) ==
    /\ RecipeWrite /\ profile[p].status \notin {"none", "gone"}
    /\ profile' = [profile EXCEPT ![p] = [status |-> "disabled", rev |-> profile[p].rev + 1]]
    /\ UNCHANGED <<secret, ids, target, endpoint, recipe, version, test>>
    /\ ClearStale

-----------------------------------------------------------------------------
(* A probe of the route: it resolves, binds and sends, and the tracker takes *)
(* what it observed under that identity; the tracker saves it later, and     *)
(* again.                                                                    *)
ProbeRoute ==
    /\ up /\ target.enabled /\ CanBind(Resolve.of)
    /\ tracker' = Identity(Resolve)
    /\ UNCHANGED <<secret, ids, target, endpoint, recipe, version, profile,
                   stored, test, up, marker, edits>>

SaveRouteHealth ==
    /\ up /\ tracker # Absent /\ IdentityCurrent(tracker)
    /\ stored' = tracker
    /\ UNCHANGED <<secret, ids, target, endpoint, recipe, version, profile,
                   tracker, test, up, marker, edits>>

RecipesNext ==
    \/ Boot \/ Crash \/ CheckTest \/ SendTest \/ ProbeRoute \/ SaveRouteHealth
    \/ EditTarget \/ MarkProfileTested
    \/ \E n \in Names : CreateProbeSecret(n) \/ UpdateProbeSecret(n) \/ DeleteProbeSecret(n)
    \/ \E names \in SUBSET Names : UpdateEndpoint(names)
    \/ \E s \in {"route", "upstream"} : CreateRecipe(s)
    \/ \E r \in DOMAIN recipe :
          \/ \E names \in SUBSET Names : AddRecipeVersion(r, names)
          \/ \E s \in {"archived", "disabled"} : RetireRecipe(r, s)
    \/ \E v \in DOMAIN version : LoadTest(OfVersion(v))
    \/ \E p \in Profiles :
          \/ profile[p].status = "candidate" /\ LoadTest(OfProfile(p))
          \/ CreateCandidate(p) \/ UpdateCandidate(p) \/ EvictCandidate(p) \/ DisableProfile(p)
    \/ \E res \in {"ok", "failed", "cancelled"} : RecordTest(res)
    \/ \E force \in BOOLEAN : PublishRecipeVersion(force)

RecipesSpec == RecipesInit /\ [][RecipesNext]_recipeVars

-----------------------------------------------------------------------------
(* A published version can be sent, as long as it is published: every secret *)
(* it was bound to is there and is the one it was bound to, whatever was     *)
(* created, deleted or created anew under the same name; and so is every     *)
(* secret the endpoint is bound to (publish.go: replaceRecipeSecretRefs and  *)
(* the foreign keys).                                                        *)
BoundSecretsStay ==
    /\ \A r \in DOMAIN recipe :
          recipe[r].status = "published" => Bound(VersionRefs(recipe[r].published))
    /\ Bound(endpoint.refs)

(* A health row never outlives the configuration it was observed under: the  *)
(* binding that would be resolved now, the revisions and the secrets are     *)
(* those of the row.  Only a row older than the one-time repair may wait for *)
(* the next write to clear it (health_invalidate.go).                        *)
HealthFollowsConfig ==
    up /\ stored # Absent /\ stored.endpoint >= endpoint.repaired => IdentityCurrent(stored)

RecipesHold == BoundSecretsStay /\ HealthFollowsConfig

(* What becomes published or tested was sent in an explicit test, to its     *)
(* end, with the endpoint, the target and the secrets it will be sent with   *)
(* from now on: a success, or for a recipe a failure that was forced.        *)
TestedWith(of) ==
    /\ test.state = "done" /\ test.about = of
    /\ test.used = Token(of.of)

PublishedWasTested ==
    [][/\ \A r \in DOMAIN recipe :
             recipe'[r].published # recipe[r].published
                \/ (recipe'[r].status = "published" /\ recipe[r].status # "published") =>
                /\ TestedWith(OfVersion(recipe'[r].published))
                /\ test.result \in {"ok", "failed"}
       /\ \A p \in Profiles :
             profile'[p].status = "tested" /\ profile[p].status # "tested" =>
                TestedWith(OfProfile(p)) /\ test.result = "ok"]_recipeVars
=============================================================================
