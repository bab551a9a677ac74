---------------------------- MODULE RunningPage -----------------------------
(***************************************************************************)
(* The running page (running_page.c): the recipe that was chosen, with its *)
(* strength and the sliders of the parameters that can be set.             *)
(***************************************************************************)
EXTENDS Slider, Recipes, Lvgl

CONSTANTS IntMax,          \* INT32_MAX
          LongMax,         \* LONG_MAX, of the platform
          RowFaults        \* bound: which rows LVGL may fail to make, and what is left of them

ASSUME NumberAssumption == IntMax \in Nat /\ LongMax \in Nat /\ IntMax <= LongMax

VARIABLES running,         \* running_page_state_t
          pending          \* running_page_pending_recipe: [recipe, picture]

RunningTrack == 270
MaxRows == 5               \* RUNNING_PAGE_PARAM_MAX_ROWS
Medium == 2                \* RUNNING_PAGE_STRENGTH_DEFAULT, of 1..3
Powder == "powder"
Specs == <<"temperature", "soak", "discharge", "water", "foam", "milk">>

ASSUME FaultAssumption == RowFaults \subseteq UNION {[F -> {"left", "none"}] : F \in SUBSET DOMAIN Specs}

NoStray == [title |-> "none", min |-> 0, max |-> 0, value |-> 0, group |-> FALSE]
NoRunning == [alive |-> FALSE, recipe |-> NoRecipe, picture |-> NoRecipe,
              strength |-> Medium, control |-> FALSE, rows |-> <<>>, stray |-> NoStray]

RunningInit == running = NoRunning /\ pending = [recipe |-> NoRecipe, picture |-> NoRecipe]

-----------------------------------------------------------------------------
\* running_page_find_param: the first of that name.
Found(step, key) == {i \in DOMAIN step : step[i].key = key
                                         /\ \A j \in 1..(i - 1) : step[j].key # key}

\* running_page_parse_i32: strtol saturates, the cast to int32_t wraps around.
Wrapped(n) == ((n + IntMax + 1) % (2 * (IntMax + 1))) - (IntMax + 1)
Parsed(text) == Wrapped(Clamped(text, -LongMax - 1, LongMax))

\* running_page_param_values_from_recipe succeeds.
Adjustable(p) == NoNumber \notin {p.ctl, p.min, p.max} /\ Parsed(p.min) # Parsed(p.max)

AdjustableKeys(step) == {step[i].key : i \in {j \in UNION {Found(step, step[k].key) : k \in DOMAIN step} :
                                                   Adjustable(step[j])}}

Param(step, key) == step[CHOOSE i \in Found(step, key) : TRUE]

\* The row of a parameter: a range written backwards is turned around.
Row(p) == LET a == Parsed(p.min)
              b == Parsed(p.max)
              lo == IF a < b THEN a ELSE b
              hi == IF a < b THEN b ELSE a
          IN  [key |-> p.key, min |-> lo, max |-> hi, value |-> Clamped(Parsed(p.ctl), lo, hi)]

\* Mutant: there is room for one row more.
RowAddedBeyond(s, row, outcome) ==
    IF Len(s.rows) > MaxRows THEN s
    ELSE CASE outcome = "made" -> [rows |-> Append(s.rows, row), stray |-> NoStray]
           [] outcome = "left" -> [s EXCEPT !.stray = [title |-> row.key, min |-> row.min, max |-> row.max,
                                                       value |-> row.value, group |-> TRUE]]
           [] OTHER -> s

\* running_page_create_param_row on the next free entry of param_rows.  A row
\* that fails may leave its group on the screen, with callbacks on that entry;
\* the next attempt uses the same entry and the same place, and a row that is
\* made there covers what was left.  What nothing covers is the stray: the
\* title on top, the numbers of the last attempt, and whether that has a group.
RowAdded(s, row, outcome) ==
    IF Len(s.rows) = MaxRows THEN s
    ELSE CASE outcome = "made" -> [rows |-> Append(s.rows, row), stray |-> NoStray]
           [] outcome = "left" -> [s EXCEPT !.stray = [title |-> row.key, min |-> row.min, max |-> row.max,
                                                       value |-> row.value, group |-> TRUE]]
           [] outcome = "none" -> [s EXCEPT !.stray = IF @ = NoStray THEN @
                                                      ELSE [title |-> @.title, min |-> row.min, max |-> row.max,
                                                            value |-> row.value, group |-> FALSE]]

\* running_page_create_dynamic_params: in the order of Specs, until there is no
\* room for another row.
RowsFor(step) ==
    LET keys == AdjustableKeys(step)
        wanted == {i \in DOMAIN Specs : Specs[i] \in keys}
        row == [i \in wanted |-> Row(Param(step, Specs[i]))]
        made(fault) == LET after[n \in 0..Len(Specs)] ==
                             IF n = 0 THEN [rows |-> <<>>, stray |-> NoStray]
                             ELSE IF n \notin wanted THEN after[n - 1]
                             ELSE RowAdded(after[n - 1], row[n],
                                           IF n \in DOMAIN fault THEN fault[n] ELSE "made")
                       IN  after[Len(Specs)]
    IN  {made(f) : f \in {<<>>} \cup IfFails(RowFaults)}

\* The page for the recipe home_page.c left in pending.  A recipe that cannot
\* be read, this time or ever, or has no step, shows neither strength nor
\* sliders.
RunningCreate(table) ==
    LET r == pending'.recipe
    IN  \E steps \in {<<>>} \cup IF r = NoRecipe THEN {} ELSE {ParsedSteps(table[r + 1].steps)} :
           LET step == IF steps = <<>> THEN <<>> ELSE steps[1]
               control == Powder \in AdjustableKeys(step)
           IN  \E s \in RowsFor(step) :
                  running' = [alive |-> TRUE, recipe |-> r, picture |-> pending'.picture, control |-> control,
                              strength |-> IF control THEN Clamped(Parsed(Param(step, Powder).ctl), 1, 3) ELSE Medium,
                              rows |-> s.rows, stray |-> s.stray]

RunningDestroy == running' = NoRunning

\* running_page_strength_minus_clicked and _plus_clicked
StrengthClicked == \E d \in {-1, 1} :
    /\ running.control
    /\ running.strength + d \in 1..3
    /\ running' = [running EXCEPT !.strength = @ + d]

\* running_page_param_value_for_point, with running_page_set_param_value after
\* it: where the multiplication overflows, any value the clamp lets through.
ValuesForPoint(x, min, max) ==
    IF x \in 1..(RunningTrack - 1)
       /\ (max - min > IntMax \/ x * (max - min) + RunningTrack \div 2 > IntMax) THEN min..max
    ELSE {Clamped(ValueForPoint(x, RunningTrack, min, max), min, max)}

\* running_page_param_event on a row, and on the stray: without a group the
\* value is 0, brought into the range.
ParamTouched ==
    \/ \E i \in DOMAIN running.rows, x \in Touches :
          LET row == running.rows[i]
          IN  \E v \in ValuesForPoint(x, row.min, row.max) : running' = [running EXCEPT !.rows[i].value = v]
    \/ \E x \in Touches :
          LET row == running.stray
          IN  /\ row # NoStray
              /\ \E v \in IF row.group THEN ValuesForPoint(x, row.min, row.max) ELSE {Clamped(0, row.min, row.max)} :
                    running' = [running EXCEPT !.stray.value = v]

RunningClick == StrengthClicked \/ ParamTouched

-----------------------------------------------------------------------------
\* Whatever the recipe holds and LVGL can make of it, the page shows the
\* parameters it knows, each at most once and in its order, no more than fit,
\* with a value in the range of the recipe; and a strength it can show.  What a
\* failed row has left keeps to its range, too, and stands behind the last row.
RowsFit ==
    LET place(key) == CHOOSE i \in DOMAIN Specs : Specs[i] = key
        inRange(row) == row.min < row.max /\ row.value \in row.min..row.max
    IN  /\ running.strength \in 1..3
        /\ Len(running.rows) <= MaxRows
        /\ \A i \in DOMAIN running.rows :
              /\ inRange(running.rows[i])
              /\ \A j \in 1..(i - 1) : place(running.rows[j].key) < place(running.rows[i].key)
        /\ running.stray # NoStray =>
              /\ inRange(running.stray)
              /\ Len(running.rows) < MaxRows
              /\ \A j \in DOMAIN running.rows : place(running.rows[j].key) < place(running.stray.title)
=============================================================================
