------------------------------ MODULE BootPage ------------------------------
(***************************************************************************)
(* The boot page (boot_page.c): the logo, then the stages one after the    *)
(* other, driven by one LVGL timer, a second one turning the icon of the   *)
(* running stage; after the last stage both are deleted and the page goes  *)
(* on to the home page.  The timers LVGL holds are counted apart from the  *)
(* page's pointers.                                                        *)
(***************************************************************************)
EXTENDS Naturals, Lvgl

CONSTANT BootStages      \* BOOT_PAGE_STAGE_COUNT

ASSUME BootAssumption == BootStages \in Nat \ {0}

VARIABLE boot

NoBoot == [alive |-> FALSE, phase |-> "logo", stage |-> 0,
           timer |-> FALSE, spinner |-> FALSE, lvgl |-> [stage |-> 0, spin |-> 0]]

BootInit == boot = NoBoot

\* boot_page_delete_timer, boot_page_delete_spinner_timer
DeleteTimers(b) ==
    [b EXCEPT !.timer = FALSE, !.spinner = FALSE,
              !.lvgl = [stage |-> @.stage - (IF b.timer THEN 1 ELSE 0),
                        spin |-> @.spin - (IF b.spinner THEN 1 ELSE 0)]]

BootCreate == boot' = [NoBoot EXCEPT !.alive = TRUE, !.timer = TRUE, !.lvgl.stage = 1]

\* boot_page_destroy in the state b
Destroyed(b) == [NoBoot EXCEPT !.lvgl = DeleteTimers(b).lvgl]

\* boot_page_timer_cb at the end of the logo, with a stage view that is built
\* completely; the icon turns if LVGL makes the second timer.
LogoOver ==
    /\ boot.lvgl.stage > 0 /\ boot.phase = "logo"
    /\ \E spins \in {TRUE} \cup IfFails({FALSE}) :
          boot' = [boot EXCEPT !.phase = "stages", !.spinner = spins,
                               !.lvgl.spin = IF spins THEN @ + 1 ELSE @]

\* boot_page_timer_cb between two stages.
StageOver ==
    /\ boot.lvgl.stage > 0 /\ boot.phase = "stages" /\ boot.stage + 1 < BootStages
    /\ boot' = [boot EXCEPT !.stage = @ + 1]

\* boot_page_timer_cb after the last stage: what the page change follows.
LastStage == boot.lvgl.stage > 0 /\ boot.phase = "stages" /\ boot.stage + 1 = BootStages

Finished(b) == DeleteTimers([b EXCEPT !.stage = @ + 1])

-----------------------------------------------------------------------------
\* The boot page leaves no timer running on the memory it frees.
BootTimersOwned == /\ boot.lvgl.stage = IF boot.timer THEN 1 ELSE 0
                   /\ boot.lvgl.spin = IF boot.spinner THEN 1 ELSE 0
                   /\ ~boot.alive => ~boot.timer /\ ~boot.spinner
=============================================================================
