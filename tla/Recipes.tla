------------------------------ MODULE Recipes -------------------------------
(***************************************************************************)
(* The recipe parser (ep_simple_recipe.c) on a table nobody writes.  A row *)
(* is a record: usable, that its id, name and tabular JSON are present and *)
(* short enough; url, that it names a portrait image; steps, its detail    *)
(* JSON.  A step is a sequence of items, of which only the objects with a  *)
(* name are parameters [key, ctl, min, max]; other items are skipped and a *)
(* key that is too long fails the step.  The texts of a parameter are the  *)
(* numbers they spell, of any size, or NoNumber.                           *)
(***************************************************************************)
EXTENDS Integers, Sequences, FiniteSets

CONSTANTS MaxParams,     \* EP_SIMPLE_RECIPE_MAX_PARAMS_PER_STEP
          MaxSteps,      \* EP_SIMPLE_RECIPE_MAX_STEPS
          NoNumber       \* a text that spells no number

ASSUME RecipeAssumption == {MaxParams, MaxSteps} \subseteq Nat \ {0} /\ NoNumber \notin Int

NoRecipe == -1
Skipped == [key |-> "", ctl |-> NoNumber, min |-> NoNumber, max |-> NoNumber]
IsParam(item) == item.key # ""

\* The rows of a table (ep_simple_recipe_item_t, ep_simple_recipe_detail_t).
Text == Int \cup {NoNumber}
Item == [key : STRING, ctl : Text, min : Text, max : Text]
RecipeRow == [usable : BOOLEAN, url : BOOLEAN, steps : Seq(Seq(Item))]

\* ep_simple_recipe_load_list: all rows, or none and an error.
LoadList(table, capacity) ==
    IF Len(table) <= capacity /\ \A i \in DOMAIN table : table[i].usable THEN table ELSE <<>>

\* What the loop of ep_simple_recipe_parse_step_params keeps.
StepParams(items) ==
    LET kept[n \in 0..Len(items)] == IF n = 0 THEN <<>>
                                     ELSE IF IsParam(items[n]) THEN Append(kept[n - 1], items[n])
                                     ELSE kept[n - 1]
    IN  kept[Len(items)]

Before(items, i) == Cardinality({j \in 1..(i - 1) : IsParam(items[j])})

\* ep_simple_recipe_parse_step_params fails at an item it has no room to look
\* at, or whose key it cannot store.
StepParses(items) == \A i \in DOMAIN items : Before(items, i) < MaxParams /\ items[i].key # "too long"

\* ep_simple_recipe_parse_steps: the steps before the first that fails, even
\* when the function returns an error, which its caller ignores.
ParsedSteps(steps) ==
    LET good == {n \in 0..Len(steps) : n <= MaxSteps /\ \A i \in 1..n : StepParses(steps[i])}
        n == CHOOSE m \in good : \A k \in good : k <= m
    IN  [i \in 1..n |-> StepParams(steps[i])]
=============================================================================
