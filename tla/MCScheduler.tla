----------------------------- MODULE MCScheduler -----------------------------
(* Small instances of Scheduler for TLC, and beside them, small, what the    *)
(* probes send: recipes and secrets with their explicit tests.  A behaviour  *)
(* is of one of the two.                                                     *)
EXTENDS Scheduler, Recipes, TLC
CONSTANTS r1, r2, u1, u2,       \* of Scheduler
          n1, n2, f1            \* secrets and a profile of Recipes

VARIABLES part

Shared  == [r \in {r1, r2} |-> u1]
Apart   == r1 :> u1 @@ r2 :> u2
Shape(above, limit, kinds, timed, changes, pauses) ==
    [up |-> above, limit |-> limit, kinds |-> kinds, timed |-> timed,
     edits |-> changes, pauses |-> pauses, slots |-> 2]
Single(shape1) == [shape1 EXCEPT !.slots = 1]

(* Marks, with a route deleted and created again under its probe; and with   *)
(* time, one kind of probe at a time.                                        *)
MCMarks == {Shape(Shared, 2, {"l2"}, FALSE, 1, 0), Shape(Apart, 1, {"l2"}, FALSE, 1, 0),
            Shape(Shared, 1, {"l1"}, FALSE, 1, 0), Single(Shape(Shared, 1, {"l2"}, FALSE, 2, 0)),
            Single(Shape(Apart, 1, {"l1"}, FALSE, 0, 1)), Single(Shape(Apart, 1, {"l1"}, TRUE, 0, 0)),
            Single(Shape(Shared, 1, {"l2"}, TRUE, 0, 0))}

-----------------------------------------------------------------------------
Schedules == part = "scheduler"
Stores    == part = "recipes"

\* What does not move starts from one state.
NothingScheduled == shape = CHOOSE s \in Shapes : TRUE
NothingStored ==
    /\ recipe = <<>> /\ stored = Absent
    /\ secret = [n \in {n1, n2} |-> IF n = n1 THEN [id |-> 1, rev |-> 1] ELSE Absent]

PartsInit ==
    /\ part \in {"scheduler", "recipes"}
    /\ Init        /\ (~Schedules => NothingScheduled)
    /\ RecipesInit /\ (~Stores => NothingStored)

PartsNext ==
    /\ UNCHANGED part
    /\ \/ Schedules /\ Next /\ UNCHANGED recipeVars
       \/ Stores /\ RecipesNext /\ UNCHANGED vars

PartsSpec == PartsInit /\ [][PartsNext]_<<part, vars, recipeVars>>
=============================================================================
