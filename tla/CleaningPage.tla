---------------------------- MODULE CleaningPage ----------------------------
(***************************************************************************)
(* The cleaning page (settings_cleaning_page.c): three tabs, the overlays  *)
(* that prepare a cleaning, and the rinse overlay with the LVGL timer that *)
(* drives it.  The page keeps a pointer to that timer and changes its      *)
(* callback when the rinse is over; LVGL deletes a timer that ran its last *)
(* time.  The timers LVGL holds are counted apart from the pointer, so     *)
(* that a timer the page lost would be seen.                               *)
(*                                                                         *)
(* A function of LVGL that returns NULL leaves a part of an overlay or of  *)
(* the content out (AllocMayFail): the clicks ignore those results.        *)
(***************************************************************************)
EXTENDS Slider, Sequences, Lvgl

CONSTANT RinseTicks      \* SETTINGS_CLEANING_RINSE_DURATION_MS / .._TICK_MS

ASSUME RinseAssumption == RinseTicks \in Nat \ {0}

VARIABLE clean

Tabs == {"daily", "maintenance", "level"}
CleaningTrack == 304
LevelForPoint(x) == ValueForPoint(x, CleaningTrack, 1, 5)
TimeForPoint(x) == ValueForPoint(x, CleaningTrack, 1, 60)

\* What a click on a card does: the quick rinse, the overlay with the time,
\* the overlay with the tablet and what follows the rinse it leads to.
Daily == <<"quick", "quick", "time">>
Maintenance == <<"return", "water", "water">>

\* No page: what is freed has no value.
Closed == [alive |-> FALSE, tab |-> "daily", content |-> "daily", built |-> 0,
           level |-> 2, label |-> 2, time |-> 32, prepare |-> "none", controls |-> 0,
           next |-> "return", overlay |-> "none", status |-> "idle", after |-> "return",
           elapsed |-> 0, timer |-> "none", lvgl |-> [rinse |-> 0, return |-> 0]]

CleaningInit == clean = Closed

Parts(all) == IF AllocMayFail THEN 0..all ELSE {all}

-----------------------------------------------------------------------------
\* The functions of the page, as functions of its state.

\* settings_cleaning_stop_rinse_timer
StopTimer(c) == IF c.timer = "none" THEN c
                ELSE [c EXCEPT !.lvgl[c.timer] = @ - 1, !.timer = "none"]

\* settings_cleaning_delete_rinse_overlay, _delete_prepare_overlay
DeleteRinse(c) == [StopTimer(c) EXCEPT !.overlay = "none", !.status = "idle", !.after = "return"]

DeletePrepare(c) == [c EXCEPT !.prepare = "none", !.controls = 0]

\* Mutant: the level that was set before is not shown again.
ContentForDefault(c, tab) ==
    {[c EXCEPT !.content = tab, !.built = n,
               !.label = IF tab = "level" THEN 2 ELSE @] : n \in Parts(3)}

\* The content of the selected tab, built as far as it goes.  The third part
\* of the level is settings_cleaning_set_descaling_level.
ContentFor(c, tab) ==
    {[c EXCEPT !.content = tab, !.built = n,
               !.label = IF tab # "level" THEN @ ELSE IF n = 3 THEN c.level ELSE 2] : n \in Parts(3)}

\* settings_cleaning_schedule_rinse_return: the rinse timer becomes the timer
\* that closes the overlay (one callback less, another more); without a rinse
\* timer it has to be created.
ScheduleReturn(c) ==
    {[StopTimer(c) EXCEPT !.lvgl.return = @ + 1, !.timer = "return"]}
      \cup IF c.timer = "none" THEN IfFails({c}) ELSE {}

\* Mutant: nothing is scheduled for a rinse that was interrupted.
RinseEndsUnscheduled(c, status) ==
    IF status = "interrupted" THEN {[c EXCEPT !.status = status]}
    ELSE ScheduleReturn([c EXCEPT !.status = status])

\* settings_cleaning_set_rinse_status with a final status.
RinseOver(c, status) == ScheduleReturn([c EXCEPT !.status = status])

\* settings_cleaning_create_rinse_status: no overlay, no button, no label, no
\* timer, or the rinse runs.
CreateRinse(c) ==
    LET d == DeleteRinse(c)
        shown == [d EXCEPT !.overlay = "button", !.elapsed = 0]
    IN  {[shown EXCEPT !.status = "running", !.lvgl.rinse = @ + 1, !.timer = "rinse"]}
          \cup IfFails({d, [d EXCEPT !.overlay = "bare"], [d EXCEPT !.overlay = "button"]}
                         \cup RinseOver(shown, "interrupted"))

\* settings_cleaning_start_rinse: what follows is set once the rinse exists.
StartRinse(c, after) == {[r EXCEPT !.after = after] : r \in CreateRinse([c EXCEPT !.elapsed = 0])}

\* The overlays that prepare a rinse: with the time, the tablet or the water.
\* Their controls come in this order: the slider, the cancel and go buttons.
CreatePrepare(c, kind, next) ==
    LET d == DeleteRinse(DeletePrepare(c))
        e == IF kind = "time" THEN [d EXCEPT !.time = 32] ELSE [d EXCEPT !.next = next]
    IN  {[e EXCEPT !.prepare = kind, !.controls = n] : n \in Parts(3)} \cup IfFails({e})

-----------------------------------------------------------------------------
\* The page is created: settings_cleaning_page_create succeeds only with all
\* its content.
CleaningCreate == clean' = [Closed EXCEPT !.alive = TRUE, !.built = 3]

CleaningDestroy == clean' = [Closed EXCEPT !.lvgl = DeleteRinse(clean).lvgl]

\* Nothing covers the menu, the content and the back button.
Uncovered == clean.prepare = "none" /\ clean.overlay = "none"

CardClicked == \E i \in 1..clean.built :
    /\ Uncovered
    /\ \/ clean.content = "daily" /\ Daily[i] = "quick" /\ clean' \in StartRinse(clean, "return")
       \/ clean.content = "daily" /\ Daily[i] = "time"
                                  /\ clean' \in CreatePrepare(clean, "time", clean.next)
       \/ clean.content = "maintenance" /\ clean' \in CreatePrepare(clean, "tablet", Maintenance[i])

LevelTouched == \E x \in Touches :
    /\ Uncovered
    /\ clean.content = "level" /\ clean.built >= 2
    /\ clean' = [clean EXCEPT !.level = LevelForPoint(x), !.label = LevelForPoint(x)]

MenuClicked == \E tab \in Tabs :
    /\ Uncovered
    /\ clean' \in ContentFor([DeleteRinse(DeletePrepare(clean)) EXCEPT !.tab = tab], tab)

TimeTouched == \E x \in Touches :
    /\ clean.prepare = "time" /\ clean.controls >= 1
    /\ clean' = [clean EXCEPT !.time = TimeForPoint(x)]

CancelClicked ==
    /\ clean.prepare # "none" /\ clean.controls >= 2
    /\ LET c == DeletePrepare(clean)
       IN  \/ clean.prepare = "time" /\ clean' \in ContentFor(c, "daily")
           \/ clean.prepare # "time" /\ c.tab = "maintenance" /\ clean' \in ContentFor(c, "maintenance")
           \/ clean.prepare # "time" /\ c.tab # "maintenance" /\ clean' = c

\* Start, next or clean: the rinse of the tablet is followed by what the card
\* asked for, the other two by nothing.
GoClicked ==
    /\ clean.prepare # "none" /\ clean.controls = 3
    /\ clean' \in StartRinse(DeletePrepare(clean),
                             IF clean.prepare = "tablet" THEN clean.next ELSE "return")

\* settings_cleaning_rinse_status_clicked
RinseClicked ==
    /\ clean.overlay = "button"
    /\ clean' \in IF clean.status = "running" THEN RinseOver(clean, "interrupted")
                  ELSE {DeleteRinse([clean EXCEPT !.elapsed = 0])}

CleaningBack == Uncovered /\ clean' = DeleteRinse(DeletePrepare(clean))

CleaningClick == \/ CardClicked \/ LevelTouched \/ MenuClicked \/ TimeTouched
                 \/ CancelClicked \/ GoClicked \/ RinseClicked

-----------------------------------------------------------------------------
\* settings_cleaning_rinse_timer_cb
RinseTick ==
    /\ clean.lvgl.rinse > 0
    /\ LET c == [clean EXCEPT !.elapsed = @ + 1]
       IN  clean' \in IF clean.status # "running" THEN {clean}
                      ELSE IF c.elapsed >= RinseTicks THEN RinseOver(c, "complete")
                      ELSE {c}

\* Mutant: the water follows a rinse that was interrupted, too.
ReturnTimerAlways ==
    /\ clean.lvgl.return > 0
    /\ LET c == DeleteRinse([clean EXCEPT !.timer = "none", !.lvgl.return = @ - 1])
       IN  clean' \in IF clean.after = "water" THEN CreatePrepare(c, "water", "return") ELSE {c}

\* settings_cleaning_rinse_return_timer_cb; LVGL deletes the timer, which has
\* run its only time.
ReturnTimer ==
    /\ clean.lvgl.return > 0
    /\ LET c == DeleteRinse([clean EXCEPT !.timer = "none", !.lvgl.return = @ - 1])
       IN  clean' \in IF clean.status = "complete" /\ clean.after = "water"
                      THEN CreatePrepare(c, "water", "return") ELSE {c}

-----------------------------------------------------------------------------
\* Each timer LVGL runs on the state of the page is the one the page points
\* to, with the callback the status calls for; a page that is gone left none.
RinseTimerOwned ==
    /\ \A k \in {"rinse", "return"} : clean.lvgl[k] = IF clean.timer = k THEN 1 ELSE 0
    /\ clean.status = "running" <=> clean.timer = "rinse"
    /\ clean.status = "complete" => clean.timer = "return"
    /\ ~clean.alive => clean.timer = "none"

\* The page shows one overlay at a time, and a rinse has one to be seen on.
OneOverlay == /\ clean.prepare = "none" \/ clean.overlay = "none"
              /\ clean.status # "idle" => clean.overlay = "button"

\* The content is that of the selected tab, with the level that is set.
ContentFollowsTab == clean.alive => /\ clean.content = clean.tab
                                    /\ clean.tab = "level" /\ clean.built = 3 => clean.label = clean.level

\* The water is asked for only when a rinse with the tablet that calls for it
\* has run its full time: not after an interruption, nor twice.
WaterAfterFullRinse ==
    [][clean'.prepare = "water" /\ clean.prepare # "water"
          => /\ clean.status = "complete" /\ clean.after = "water"
             /\ clean.elapsed = RinseTicks]_clean
=============================================================================
