------------------------------ MODULE MCAppUi ------------------------------
(* An instance of AppUi for TLC: the application's pages and page changes,  *)
(* recipe tables of four kinds, and recipes with the parameters, ranges and *)
(* gaps the parser and the running page tell apart.                         *)
EXTENDS AppUi, TLC

AppPages == {"boot", "home", "running", "settings", "cleaning", "details", "language", "sleep", "brightness"}

\* The page changes are made by actions of AppUi.
NoLinks == {}
BackPages == AppPages \ {"boot", "home"}

\* INT32_MAX and LONG_MAX, scaled down.
MCIntMax == 299
MCLongMax == 5999

P(key, ctl, min, max) == [key |-> key, ctl |-> ctl, min |-> min, max |-> max]
R(url, steps) == [usable |-> TRUE, url |-> url, steps |-> steps]

\* All parameters, each of which can be set: one more than the page has rows
\* for.  Ranges written backwards, beyond int32_t and beyond long, a range whose
\* multiplication overflows, values out of their range, a name that comes twice.
Full == R(TRUE, << <<Skipped, P("powder", 9, 1, 3), P("milk", 7, 6, 7), P("temperature", 99, 94, 95),
                     P("soak", -1, 1, 0), P("discharge", 1, 0, 1), P("water", 2, -1, 1),
                     P("foam", 0, 3 * MCLongMax, 2 * (MCIntMax + 1)), P("milk", 5, 5, 5)>> >>)
\* A key that is too long in the second step, and texts that are no numbers, or
\* no range once they are cut to an int32_t.
Broken == R(FALSE, << <<P("powder", 2, 1, 3), P("foam", NoNumber, 1, 2), P("milk", 1, 5, 5),
                        P("water", 1, 0, 2 * (MCIntMax + 1)), P("soak", 0, 0, 1)>>,
                      <<P("powder", 2, 1, 3), P("too long", 1, 1, 2)>> >>)
Plain == R(FALSE, << <<P("powder", NoNumber, 1, 3), P("foam", 1, 0, 1)>>, <<>> >>)
Portrait == R(TRUE, << <<P("too long", 1, 1, 2)>> >>)
Bad == [Plain EXCEPT !.usable = FALSE]

MCTables == {<<Plain>>, <<Full, Broken, Portrait>>, <<Plain, Bad>>, [i \in 1..5 |-> Plain]}

MCOptions == [p \in Choosers |-> IF p = "language" THEN 2 ELSE 3]
MCDefault == [p \in Choosers |-> IF p = "sleep" THEN 1 ELSE 0]

Positions == {0, 160}

\* The picture of the center.
MCLostImages == {{0}}

\* One row, whose entry the next one takes; and the last two, of which the first
\* leaves its group behind.
MCRowFaults == {2 :> "left", 5 :> "left" @@ 6 :> "none"}
=============================================================================
