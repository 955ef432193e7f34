SPECIFICATION PartsSpec
CONSTANTS
    r1 = r1
    r2 = r2
    u1 = u1
    u2 = u2
    n1 = n1
    n2 = n2
    f1 = f1
    Absent = Absent
    Names = {n1, n2}
    Profiles = {f1}
    Legacy = TRUE
    MaxIds = 2
    MaxRecipes = 3
    MaxVersions = 2
    MaxEdits = 3
    Routes = {r1, r2}
    Ups = {u1, u2}
    Shapes <- MCMarks
    Slots = 2
    MayIgnore = FALSE
INVARIANTS MarksAddUp RecipesHold
PROPERTIES OwnMarkOnly PublishedWasTested
