------------------------------ MODULE HomePage ------------------------------
(***************************************************************************)
(* The home page (home_page.c): the carousel of recipes, dragged with the  *)
(* finger and snapped to a recipe by an LVGL timer, and the list of users. *)
(* One finger presses one object; LVGL reports PRESSED, PRESSING, RELEASED *)
(* and, after RELEASED, CLICKED to the object that was pressed, or         *)
(* PRESS_LOST.  The timer runs between these events in any order.          *)
(*                                                                         *)
(* Offsets are in pixels (Swipe = 80), or on a coarser scale that divides  *)
(* them: Swipe stands for HOME_PAGE_SWIPE_THRESHOLD, Snap for              *)
(* .._DISTANCE_SNAP_THRESHOLD; a velocity is the number of steps it is     *)
(* worth, with the sign of the drag.                                       *)
(* The easing is left open: the progress of a snap goes from where it is   *)
(* towards its target, by as much as the time that passed makes it.        *)
(***************************************************************************)
EXTENDS Carousel, Recipes, Lvgl

CONSTANTS MaxRecipes,    \* HOME_PAGE_MAX_RECIPES
          Tables,        \* the recipe tables there may be
          Users,         \* HOME_PAGE_USER_COUNT
          Swipe, Snap,   \* the thresholds
          LostImages     \* bound: the sets of slots whose picture LVGL may fail to make

ASSUME HomeAssumption == /\ MaxRecipes \in Nat \ {0}
                         /\ Users \in Nat \ {0}
                         /\ Snap \in Nat \ {0} /\ Swipe \in Nat /\ Snap < Swipe
                         /\ SwipePixels % Swipe = 0
                         /\ Tables \subseteq Seq(RecipeRow)
                         /\ LostImages \subseteq SUBSET Slots

VARIABLES home,      \* home_page_state_t
          saved,     \* home_page_saved_selected_index, NoRecipe while there is none
          table      \* the recipe table, which nobody writes

Velocities == -3..3

Min2(a, b) == IF a < b THEN a ELSE b

Empty == [i \in Slots |-> NoRecipe]
NoHome == [alive |-> FALSE, count |-> 0, selected |-> 0,
           slots |-> Empty, images |-> {}, pictures |-> Empty,
           pressed |-> "none", dragging |-> FALSE, offset |-> 0, dir |-> 0, total |-> 0,
           done |-> 0, reached |-> 0, snap |-> FALSE, lvgl |-> 0, user |-> 0, menu |-> FALSE]

HomeInit == home = NoHome /\ saved = NoRecipe /\ table \in Tables

-----------------------------------------------------------------------------
\* home_page_load_recipes: the recipes in the array of the page.  A table that
\* does not fit gives none, as does a path or a database that fails this time;
\* the page takes all of them for an empty list.
Loaded == {0, Len(LoadList(table, MaxRecipes))}

\* home_page_restore_selection: the middle one, or the one selected before.
FirstSelected(n) == IF saved # NoRecipe /\ saved < n THEN saved ELSE n \div 2

\* home_page_lvgl_recipe_src finds a picture for recipe r.
HasPicture(r) == table[r + 1].url

\* home_page_set_slot_recipe gives slot i the picture of its recipe; a recipe
\* without one leaves the picture that was there.  That is what the steps K of
\* a snap leave in the slot.
Pictured(h, i, K) ==
    LET recipe(k) == (h.selected + h.dir * k + i) % h.count
        seen == {k \in K : i \in h.images /\ HasPicture(recipe(k))}
    IN  IF seen = {} THEN h.pictures[i] ELSE recipe(CHOOSE k \in seen : \A j \in seen : j <= k)

\* home_page_apply_carousel_layout(state, true): the recipes of the five slots.
Around == [n \in 1..MaxRecipes |-> [r \in 0..(n - 1) |-> [i \in Slots |-> (r + i) % n]]]
Layout(h) == IF h.count = 0 THEN h
             ELSE [h EXCEPT !.slots = Around[h.count][h.selected],
                            !.pictures = [i \in Slots |-> Pictured(h, i, {0})]]

\* home_page_stop_snap_timer, home_page_reset_snap_state
StopSnap(h) == [h EXCEPT !.snap = FALSE, !.lvgl = IF h.snap THEN @ - 1 ELSE @]
Reset(h) == [h EXCEPT !.dragging = FALSE, !.offset = 0, !.dir = 0, !.total = 0, !.done = 0, !.reached = 0]

\* home_page_cancel_snap_animation
Cancel(h) == Reset(StopSnap(h))

\* Mutant: the carousel is laid out only when the snap has ended.
CommitUnseen(h, n) == IF n = 0 THEN h
                      ELSE [h EXCEPT !.selected = (h.selected + h.dir * n) % h.count, !.done = @ + n]

\* home_page_commit_snap_step, n times: the selection wraps around, and every
\* step lays the carousel out.
Commit(h, n) == IF n = 0 THEN h
                ELSE LET r == (h.selected + h.dir * n) % h.count
                     IN  [h EXCEPT !.selected = r, !.done = @ + n, !.slots = Around[h.count][r],
                                   !.pictures = [i \in Slots |-> Pictured(h, i, 1..n)]]

\* home_page_finish_snap_animation, without and with its layout at the end.
Ended(h) == Reset(Commit(StopSnap(h), h.total - h.done))
Finish(h) == Layout(Ended(h))

\* Mutant: the offset is that of the steps before this call.
ApplyProgressLate(h, p) ==
    IF h.total = 0 /\ h.dir = 0 THEN [h EXCEPT !.offset = p, !.reached = p]
    ELSE LET steps == Min2(Abs(p) \div Swipe, h.total)
             more == IF steps > h.done THEN steps - h.done ELSE 0
         IN  [Commit(h, more) EXCEPT !.offset = -h.dir * (Abs(p) - h.done * Swipe), !.reached = p]

\* home_page_apply_snap_progress: a progress of k swipes commits k steps, the
\* rest of it is the offset.
ApplyProgress(h, p) ==
    IF h.total = 0 /\ h.dir = 0 THEN [h EXCEPT !.offset = p, !.reached = p]
    ELSE LET steps == Min2(Abs(p) \div Swipe, h.total)
             more == IF steps > h.done THEN steps - h.done ELSE 0
         IN  [Commit(h, more) EXCEPT !.offset = -h.dir * (Abs(p) - (h.done + more) * Swipe),
                                     !.reached = p]

\* home_page_snap_step_for_release, home_page_snap_steps_for_release
Direction(h, v) == IF h.count <= 1 THEN 0
                   ELSE IF v < 0 \/ h.offset <= -Snap THEN 1
                   ELSE IF v > 0 \/ h.offset >= Snap THEN -1 ELSE 0

Steps(h, v) == LET s == IF v = 0 THEN 1 ELSE Abs(v)
               IN  IF s >= h.count THEN h.count - 1 ELSE s

\* Where the snap of h ends.
Target(h) == -h.dir * h.total * Swipe

\* home_page_start_snap_animation: at its target there is nothing to animate;
\* without a timer the end is applied at once.
StartSnap(h, v) ==
    LET d == Direction(h, v)
        s == [StopSnap(h) EXCEPT !.dir = d, !.total = IF d = 0 THEN 0 ELSE Steps(h, v),
                                 !.done = 0, !.reached = h.offset, !.dragging = FALSE]
    IN  IF s.reached = Target(s) THEN {Finish(s)}
        ELSE {[s EXCEPT !.snap = TRUE, !.lvgl = @ + 1]}
               \cup IfFails({Finish(ApplyProgress(s, Target(s)))})

-----------------------------------------------------------------------------
HomeCreate ==
    /\ \E n \in Loaded, lost \in {{}} \cup IfFails(LostImages) :
          home' = Layout([NoHome EXCEPT !.alive = TRUE, !.count = n, !.images = Slots \ lost,
                                        !.selected = IF n = 0 THEN 0 ELSE FirstSelected(n)])
    /\ UNCHANGED <<saved, table>>

\* Mutant: the position is not saved when the page is destroyed.
HomeSavedNever == saved

\* home_page_save_selection in home_page_destroy
HomeSaved == IF home.count = 0 THEN saved ELSE home.selected

HomeDestroy == /\ home' = [NoHome EXCEPT !.lvgl = Cancel(home).lvgl]
               /\ saved' = HomeSaved
               /\ UNCHANGED table

Untouched == home.pressed = "none" /\ ~home.menu

\* The events of the carousel.  A snap that is under way is given up, with the
\* steps it has not committed.
Press == \E part \in {"center", "other"} :
    /\ Untouched
    /\ home' = [Cancel(home) EXCEPT !.pressed = part, !.dragging = TRUE]

Drag == \E x \in -Swipe..Swipe :
    /\ home.dragging
    /\ home' = [home EXCEPT !.offset = x]

\* What releasing the finger may start.
AfterRelease == UNION {StartSnap([home EXCEPT !.pressed = "none"], v) : v \in Velocities}

\* PRESS_LOST, or RELEASED without a CLICKED that home_page_recipe_clicked
\* follows.
Release == home.dragging /\ home' \in AfterRelease

\* home_page_recipe_clicked does nothing while a snap runs.
Opens(h) == h.count > 0 /\ ~h.snap

\* RELEASED and CLICKED on the center: home_page_open_running_page up to the
\* page change, with the recipe and its picture it leaves for the other page.
Open == /\ home.pressed = "center"
        /\ home' \in AfterRelease /\ Opens(home')
        /\ saved' = home'.selected
        /\ UNCHANGED table

Chosen == [recipe |-> home'.selected,
           picture |-> IF 0 \in home'.images /\ HasPicture(home'.slots[0]) THEN home'.slots[0]
                                                                          ELSE NoRecipe]

\* home_page_snap_timer_cb, before and at the end of its time.
Between(a, b) == {p \in -(3 * Swipe)..(3 * Swipe) : (a <= p /\ p <= b) \/ (b <= p /\ p <= a)}

SnapTick == \E p \in Between(home.reached, Target(home)) :
    /\ home.lvgl > 0
    /\ home' = ApplyProgress(home, p)

SnapDeadline == /\ home.lvgl > 0
                /\ \E h \in {ApplyProgress(home, Target(home))} :
                      \E ended \in {Ended(h)} : home' = Layout(ended)

\* home_page_toggle_user_dropdown, _user_row_clicked and _user_mask_clicked:
\* the mask covers everything else.
UserClicked == \/ Untouched /\ home' = [home EXCEPT !.menu = TRUE]
               \/ home.menu /\ home' = [home EXCEPT !.menu = FALSE]
               \/ home.menu /\ \E u \in 0..(Users - 1) : home' = [home EXCEPT !.menu = FALSE, !.user = u]

\* The steps of the user that do not leave the page.
HomeTouch == (Press \/ Drag \/ Release \/ UserClicked) /\ UNCHANGED <<saved, table>>

-----------------------------------------------------------------------------
\* home_page_apply_slot_transform: where the slot i is drawn, the offset taken
\* to pixels.
Drawn(i, offset) == Weight(i, Quotient(offset * SwipePixels, Swipe))

\* What the user sees is what a tap opens: the five slots are the selected
\* recipe and its neighbours, each with its picture where it has one.  Under a
\* recipe that has none the picture of another may be left, but never a picture
\* LVGL could not make.
SlotsFollowSelection == home.count > 0 =>
    /\ home.selected \in 0..(home.count - 1)
    /\ \A i \in Slots :
          /\ home.slots[i] = (home.selected + i) % home.count
          /\ i \in home.images /\ HasPicture(home.slots[i]) => home.pictures[i] = home.slots[i]
          /\ i \notin home.images => home.pictures[i] = NoRecipe

\* The timer LVGL runs on the state of the page is the one the page points to;
\* it neither survives the page nor moves the carousel under a finger.
SnapTimerOwned == /\ home.lvgl = IF home.snap THEN 1 ELSE 0
                  /\ home.snap => home.alive /\ ~home.dragging
                  /\ home.dragging <=> home.pressed # "none"

\* The five slots are enough: their pictures do not overlap, and the two that
\* would come next are outside of the screen, wherever the finger drags.
CarouselFilled == home.count > 0 =>
    /\ \A i \in -2..1 : PictureRight(Drawn(i, home.offset)) < PictureLeft(Drawn(i + 1, home.offset))
    /\ PictureRight(Drawn(-3, home.offset)) <= 0
    /\ PictureLeft(Drawn(3, home.offset)) >= ScreenWidth

\* A snap ends on the recipe it was started for, unless a finger stops it.
Destination(h) == IF h.count = 0 THEN 0 ELSE (h.selected + h.dir * (h.total - h.done)) % h.count
DestinationKept ==
    [][home.snap /\ home'.alive /\ ~home'.dragging => Destination(home') = Destination(home)]_home

\* In a snap no picture moves backwards, also where a step is committed and the
\* picture gets another slot.  Only a snap started against the finger may take
\* back the jump of its first call, and no further than to the place where the
\* picture stood before the finger came.
SnapForward ==
    [][home.snap /\ home'.alive /\ ~home'.dragging /\ home.dir # 0
          => LET moved == home.dir * ((IF home'.snap THEN home'.done ELSE home.total) - home.done)
                 ahead(from, to) == home.dir * (PictureLeft(to) - PictureLeft(from)) <= 0
             IN  \A i \in Slots : i - moved \in Slots =>
                    \/ ahead(Drawn(i, home.offset), Drawn(i - moved, home'.offset))
                    \/ /\ home.reached * home.dir > 0
                       /\ ahead(Drawn(i + home.dir * home.done, 0), Drawn(i - moved, home'.offset))]_home
=============================================================================
