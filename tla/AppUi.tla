------------------------------- MODULE AppUi --------------------------------
(***************************************************************************)
(* The user interface: the nine pages app_ui_create registers, the page    *)
(* manager that makes and destroys them, and the LVGL timers that run      *)
(* between the user's touches.  A page is made when the page manager gets  *)
(* its screen and destroyed when LVGL deletes the screen: both happen      *)
(* inside the steps of the page manager.  Outside of a page change only    *)
(* the shown page can be touched; the timers of a page run whenever LVGL   *)
(* holds one, and so also in the 180 ms that bring in another page.        *)
(*                                                                         *)
(* Pages meet in two places: the carousel position home_page.c keeps while *)
(* its page is gone, and the recipe it leaves for running_page.c.          *)
(***************************************************************************)
EXTENDS PageManager, CleaningPage, BootPage, HomePage, RunningPage, SettingsPages

VARIABLES halted,     \* the program has used a pointer that is NULL
          past        \* what no state of the program shows: [left, lost]

pageVars == <<vars, boot, home, saved, table, running, pending, settings, stores, chooser, details, clean>>
appVars == <<pageVars, halted, past>>

ASSUME AppAssumption == /\ Pages = {"boot", "home", "running", "settings", "cleaning", "details"} \cup Choosers
                        /\ Start = "boot"

AppInit == /\ Init /\ BootInit /\ HomeInit /\ RunningInit /\ SettingsInit /\ CleaningInit
           /\ halted = FALSE
           /\ past = [left |-> NoRecipe, lost |-> 0]

-----------------------------------------------------------------------------
\* The callbacks of page p in a step of the page manager.
Life(p, Create, Destroy, Same) == CASE p \in screen' \ screen -> Create
                                    [] p \in screen \ screen' -> Destroy
                                    [] OTHER -> Same

BootLife == Life("boot", BootCreate, boot' = Destroyed(boot), UNCHANGED boot)
HomeLife == Life("home", HomeCreate, HomeDestroy, UNCHANGED <<home, saved, table>>)
RunningLife == Life("running", RunningCreate(table), RunningDestroy, UNCHANGED running)
\* A step that neither makes nor loses a page may be one that could not make it.
SettingsSame == IF screen' = screen /\ "settings" \notin screen THEN SettingsFails ELSE UNCHANGED <<settings, stores>>
SettingsLife == Life("settings", SettingsCreate, SettingsDestroy, SettingsSame)
CleaningLife == Life("cleaning", CleaningCreate, CleaningDestroy, UNCHANGED clean)
DetailsLife == Life("details", DetailsCreate, DetailsDestroy, UNCHANGED details)
ChooserLife == LET made == {p \in Choosers : p \in screen' \ screen}
                   gone == {p \in Choosers : p \in screen \ screen'}
               IN  CASE made # {} -> \E p \in made : ChooserCreate(p)
                     [] gone # {} -> \E p \in gone : ChooserDestroy(p)
                     [] OTHER -> UNCHANGED chooser

\* All pages but boot and home, and all but the one whose callback it is.
OthersLive == RunningLife /\ SettingsLife /\ CleaningLife /\ DetailsLife /\ ChooserLife
AllLive == UNCHANGED pending /\ BootLife /\ HomeLife /\ OthersLive

-----------------------------------------------------------------------------
\* Page changes.

To(from, to) == [from |-> from, to |-> to, animated |-> TRUE, history |-> TRUE]

\* app_ui_create
AppStarts == ShowFirst /\ AllLive

\* boot_page_timer_cb after the last stage goes on without an animation.
BootOver == /\ LastStage
            /\ SwitchBy([from |-> "boot", to |-> "home", animated |-> FALSE, history |-> FALSE])
            /\ boot' = IF "boot" \in screen' THEN Finished(boot) ELSE Destroyed(Finished(boot))
            /\ UNCHANGED pending
            /\ HomeLife /\ OthersLive

\* A tap on the recipe in the center.
RecipeOpened == /\ Open
                /\ pending' = Chosen
                /\ SwitchBy(To("home", "running"))
                /\ BootLife /\ OthersLive

SettingsOpened == Untouched /\ SwitchBy(To("home", "settings")) /\ AllLive

ItemOpened == \E p \in Choosers \cup {"cleaning", "details"} : SwitchBy(To("settings", p)) /\ AllLive

\* The back controls; on a list the confirm button does the same.
PlainBack == \E p \in {"running", "settings"} \cup Choosers : BackFrom(p) /\ AllLive
DetailsBack == ~details.modal /\ BackFrom("details") /\ AllLive
CleaningLeft == /\ CleaningBack /\ BackFrom("cleaning")
                /\ UNCHANGED pending
                /\ BootLife /\ HomeLife /\ RunningLife /\ SettingsLife /\ DetailsLife /\ ChooserLife

\* Which page LVGL deletes at the end of an animation.
PageShown == AnimationEnds /\ AllLive

-----------------------------------------------------------------------------
\* Steps inside of a page.
Touched == /\ UNCHANGED <<vars, boot, pending, stores, settings>>
           /\ \/ Usable("home") /\ HomeTouch /\ UNCHANGED <<running, chooser, details, clean>>
              \/ Usable("running") /\ RunningClick
                                   /\ UNCHANGED <<home, saved, table, chooser, details, clean>>
              \/ /\ \E p \in Choosers : Usable(p) /\ ChooserClick(p)
                 /\ UNCHANGED <<home, saved, table, running, details, clean>>
              \/ Usable("details") /\ DetailsClick
                                   /\ UNCHANGED <<home, saved, table, running, chooser, clean>>
              \/ Usable("cleaning") /\ CleaningClick
                                    /\ UNCHANGED <<home, saved, table, running, chooser, details>>

Elsewhere == UNCHANGED <<vars, running, pending, stores, settings, chooser, details>>
BootTimer == (LogoOver \/ StageOver) /\ Elsewhere /\ UNCHANGED <<home, saved, table, clean>>
CarouselOnly == Elsewhere /\ UNCHANGED <<boot, saved, table, clean>>
CarouselTimer == (SnapTick \/ SnapDeadline) /\ CarouselOnly
CleaningTimer == (RinseTick \/ ReturnTimer) /\ Elsewhere /\ UNCHANGED <<boot, home, saved, table>>

\* The page that is shown, or comes in.
Going == IF switching THEN transition ELSE current

\* History: left is the recipe that was in the center of the carousel when the
\* home page was last deleted, until the carousel is shown again; lost how many
\* levels backs that failed have cost since the home page was shown.
Remember ==
    past' = [left |-> IF home'.count > 0 THEN NoRecipe
                      ELSE IF home.count > 0 THEN home.slots[0] ELSE past.left,
             lost |-> IF Going' = "home" THEN 0
                      ELSE IF Going' = Going /\ Len(history') < Len(history) THEN past.lost + 1
                      ELSE past.lost]

\* A page change in which the home page is made.
GoesHome == /\ "home" \notin screen /\ ~Refused("home")
            /\ \/ LastStage
               \/ /\ history # <<>> /\ Top = "home"
                  /\ \E p \in Backs : /\ Usable(p)
                                      /\ p = "details" => ~details.modal
                                      /\ p = "cleaning" => Uncovered

\* home_page_apply_carousel_layout uses the container of every slot, also of
\* one that LVGL could not make.  What the callbacks have done up to there is
\* left out: nothing runs on it.
HomeCrashes == /\ ~halted
               /\ GoesHome
               /\ \E n \in Loaded : n > 0
               /\ IfFails({TRUE}) # {}
               /\ halted' = TRUE
               /\ UNCHANGED <<pageVars, past>>

Runs(A) == ~halted /\ A /\ UNCHANGED halted /\ Remember

AppNext == \/ Runs(AppStarts) \/ Runs(BootOver) \/ Runs(RecipeOpened) \/ Runs(SettingsOpened)
           \/ Runs(ItemOpened) \/ Runs(PlainBack) \/ Runs(DetailsBack) \/ Runs(CleaningLeft)
           \/ Runs(PageShown) \/ Runs(Touched)
           \/ Runs(BootTimer) \/ Runs(CarouselTimer) \/ Runs(CleaningTimer)
           \/ HomeCrashes

AppSpec == AppInit /\ [][AppNext]_appVars

\* LVGL runs its animations and timers: they end when their time is over,
\* whatever the user does.
AppFairSpec == /\ AppSpec
               /\ WF_loading(Runs(PageShown)) /\ WF_boot(Runs(BootTimer)) /\ WF_boot(Runs(BootOver))
               /\ WF_home(Runs(SnapDeadline /\ CarouselOnly)) /\ WF_clean(Runs(CleaningTimer))

-----------------------------------------------------------------------------
\* The running page shows the recipe the user saw in the center, with the
\* picture of that recipe or none, whatever picture was left in its slot.
RunningShowsSelection ==
    running.alive => /\ running.recipe = saved
                     /\ running.picture # NoRecipe => running.picture = saved /\ HasPicture(saved)

\* The home page lists all recipes or none, never a part of them.
ListWholeOrEmpty == home.alive => home.count \in {0, Len(table)}

\* Whatever page the user comes back from, and whatever failed meanwhile, the
\* carousel shows the recipe again that was in its center when the home page
\* went away, also where a snap was given up then.
HomeKeepsRecipe ==
    [][~home.alive /\ home'.alive /\ past.left # NoRecipe /\ home'.count > 0
          => home'.slots[0] = past.left]_appVars

\* The way back to the home page from page p.
Path(p) == CASE p \in {"running", "settings"} -> <<"home">>
             [] p \in Choosers \cup {"cleaning", "details"} -> <<"home", "settings">>
             [] OTHER -> <<>>

\* The way back leads up to the home page, and each level it lacks was lost by
\* a back that failed: page_manager_back takes the level off the history before
\* it is known whether that page can be made, and a page that has lost them all
\* cannot be left (docs/superpowers/specs/2026-06-13-running-page-design.md:23
\* promises that it can).
WayBack == /\ \A i \in DOMAIN history : \E k \in DOMAIN Path(Going) : history[i] = Path(Going)[k]
           /\ \A i, j \in DOMAIN history : i < j => Path(Going) = <<history[i], history[j]>>
           /\ Len(history) + past.lost = Len(Path(Going))

\* Dragging the carousel turns it and opens nothing: only a tap opens a recipe
\* (docs/superpowers/specs/2026-06-13-running-page-design.md:22).
DragDoesNotOpen ==
    [][~running.alive /\ running'.alive => home.dragging /\ Abs(home.offset) < Snap]_appVars

\* The boot page goes on to the home page, unless that cannot be made; then the
\* boot page stays, with no timer to try again (boot_page.c:285).
BootEnds == boot.alive ~> \/ current = "home" \/ halted
                          \/ boot.stage = BootStages /\ boot.lvgl = [stage |-> 0, spin |-> 0]

\* A rinse and its overlay go away without anyone touching them.
RinseEnds == clean.status = "running" ~> clean.status = "idle" \/ halted

\* The carousel comes to rest.
SnapEnds == home.snap ~> ~home.snap \/ halted

\* No page leaves an LVGL timer running on the memory it has freed, nor loses
\* one that runs, nor leaves its store of texts open: whatever was touched,
\* interrupted or could not be made, and however the page was left.
ResourcesOwned == RinseTimerOwned /\ BootTimersOwned /\ SnapTimerOwned /\ StoresOwned

\* What the settings pages show is the state they keep, also where LVGL could
\* make only a part of it.
SettingsTruthful == OneOverlay /\ ContentFollowsTab /\ SelectionShown /\ ModalOnItsTab

\* The carousel shows all recipes or none, the selected one in the center, and
\* no gap or overlap wherever the finger or the snap has moved it.
CarouselTruthful == SlotsFollowSelection /\ CarouselFilled /\ ListWholeOrEmpty

\* The running page shows the recipe that was tapped, with what can be set.
RunningTruthful == RunningShowsSelection /\ RowsFit

\* A snap goes to the recipe it was started for, and never backwards.
SnapFaithful == DestinationKept /\ SnapForward

\* Whatever LVGL's timers have begun comes to its end.
TimersFinish == RinseEnds /\ SnapEnds /\ BootEnds
=============================================================================
