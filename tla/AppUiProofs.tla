----------------------------- MODULE AppUiProofs ----------------------------
(***************************************************************************)
(* Proofs about AppUi, for any recipe tables, any thresholds, any number   *)
(* of boot stages, ticks, users and options: the pages of the application  *)
(* keep the page manager consistent, none leaves an LVGL timer or a store  *)
(* behind, the settings, home and running pages show what they keep, a     *)
(* snap and a rinse come to the end they were started for, and there is    *)
(* always a way back.  A page is alive exactly while the page manager has  *)
(* its screen: that is what its callbacks, its timers and its touches rest *)
(* on.                                                                     *)
(***************************************************************************)
EXTENDS AppUi, PageManagerProofs, WellFoundedInduction, SequenceTheorems

-----------------------------------------------------------------------------
(* The page manager under the pages of the application.                    *)

\* What the steps do to the pages: the history and the crash do not touch them.
PageChange == \/ AppStarts \/ BootOver \/ RecipeOpened \/ SettingsOpened \/ ItemOpened
              \/ PlainBack \/ DetailsBack \/ CleaningLeft \/ PageShown
PageNext == PageChange \/ Touched \/ BootTimer \/ CarouselTimer \/ CleaningTimer

HomeTimer == (SnapTick \/ SnapDeadline) /\ UNCHANGED <<saved, table>>

LEMMA PageStep ==
  ASSUME [AppNext]_appVars
  PROVE  \/ PageNext /\ Remember /\ UNCHANGED halted
         \/ UNCHANGED <<pageVars, past>>
  BY DEF AppNext, Runs, HomeCrashes, appVars, PageNext, PageChange

LEMMA PageStepOnly == [AppNext]_appVars => [PageNext]_pageVars
  BY PageStep

AppLinks == [from : Pages, to : Pages, animated : BOOLEAN, history : BOOLEAN]

LEMMA ToIsLink ==
  ASSUME NEW from \in Pages, NEW to \in Pages
  PROVE  To(from, to) \in AppLinks
  BY DEF To, AppLinks

LEMMA AppPagesInv ==
  ASSUME Inv, [PageNext]_pageVars
  PROVE  Inv'
<1> USE PageAssumption, AppAssumption
<1>1. history \in Histories /\ frozen \subseteq Pages
  BY DEF Inv, TypeOK, Histories
<1>2. UNCHANGED vars => Inv'
  BY <1>1, HistoryInv DEF vars, lvgl
<1>3. CASE AppStarts
  BY <1>1, <1>3, LoadInv DEF AppStarts, ShowFirst
<1>4. CASE BootOver
  <2>1. [from |-> "boot", to |-> "home", animated |-> FALSE, history |-> FALSE] \in AppLinks
    BY DEF AppLinks
  <2> QED
    BY <1>4, <2>1, SwitchInv DEF BootOver, AppLinks
<1>5. CASE RecipeOpened \/ SettingsOpened
  <2>1. To("home", "running") \in AppLinks /\ To("home", "settings") \in AppLinks
    BY ToIsLink
  <2> QED
    BY <1>5, <2>1, SwitchInv DEF RecipeOpened, SettingsOpened, AppLinks
<1>6. CASE ItemOpened
  <2>1. PICK p \in Choosers \cup {"cleaning", "details"} : SwitchBy(To("settings", p))
    BY <1>6 DEF ItemOpened
  <2>2. To("settings", p) \in AppLinks
    BY <2>1, ToIsLink
  <2> QED
    BY <2>1, <2>2, SwitchInv DEF AppLinks
<1>7. CASE PlainBack \/ DetailsBack \/ CleaningLeft
  BY <1>7, BackInv DEF PlainBack, DetailsBack, CleaningLeft
<1>8. CASE PageShown
  BY <1>8, AnimationEndsInv DEF PageShown
<1>9. CASE Touched \/ BootTimer \/ CarouselTimer \/ CleaningTimer \/ UNCHANGED pageVars
  BY <1>2, <1>9 DEF Touched, BootTimer, CarouselTimer, CarouselOnly, CleaningTimer, Elsewhere, pageVars
<1> QED
  BY <1>3, <1>4, <1>5, <1>6, <1>7, <1>8, <1>9 DEF PageNext, PageChange

-----------------------------------------------------------------------------
(* The boot page.                                                          *)

BootFields == {"alive", "phase", "stage", "timer", "spinner", "lvgl"}

\* The icon turns in the stages only.
BootOK(b) == /\ b = [x \in BootFields |-> b[x]]
             /\ {b.alive, b.timer, b.spinner} \subseteq BOOLEAN
             /\ b.lvgl = [stage |-> IF b.timer THEN 1 ELSE 0, spin |-> IF b.spinner THEN 1 ELSE 0]
             /\ ~b.alive => ~b.timer /\ ~b.spinner
             /\ b.phase = "logo" => ~b.spinner

NoTimers == [stage |-> 0, spin |-> 0]

\* A state without timers is one whatever else it holds.
LEMMA QuietBootOK ==
  ASSUME NEW b, b = [x \in BootFields |-> b[x]], b.alive \in BOOLEAN,
         b.timer = FALSE, b.spinner = FALSE, b.lvgl = NoTimers
  PROVE  BootOK(b)
  BY DEF BootOK, NoTimers

LEMMA NoBootWhole == NoBoot = [x \in BootFields |-> NoBoot[x]]
  BY DEF NoBoot, BootFields

LEMMA NoBootOK == BootOK(NoBoot) /\ ~NoBoot.alive
<1>1. NoBoot.timer = FALSE /\ NoBoot.spinner = FALSE /\ NoBoot.lvgl = NoTimers /\ NoBoot.alive = FALSE
  BY DEF NoBoot, NoTimers
<1> QED
  BY <1>1, NoBootWhole, QuietBootOK

\* boot_page_delete_timer and boot_page_delete_spinner_timer together.
LEMMA DeleteTimersOK ==
  ASSUME NEW b, BootOK(b)
  PROVE  /\ BootOK(DeleteTimers(b))
         /\ DeleteTimers(b).lvgl = NoTimers
         /\ DeleteTimers(b).alive = b.alive
<1> DEFINE d == DeleteTimers(b)
<1>1. /\ d = [x \in BootFields |-> d[x]]
      /\ d.timer = FALSE /\ d.spinner = FALSE /\ d.alive = b.alive
      /\ d.lvgl = [stage |-> b.lvgl.stage - (IF b.timer THEN 1 ELSE 0),
                   spin |-> b.lvgl.spin - (IF b.spinner THEN 1 ELSE 0)]
  BY DEF DeleteTimers, BootOK, BootFields
<1>2. /\ b.lvgl.stage = IF b.timer THEN 1 ELSE 0
      /\ b.lvgl.spin = IF b.spinner THEN 1 ELSE 0
  BY DEF BootOK
<1>3. d.lvgl = NoTimers
  BY <1>1, <1>2 DEF BootOK, NoTimers
<1>4. b.alive \in BOOLEAN
  BY DEF BootOK
<1> HIDE DEF d
<1>5. BootOK(d)
  BY <1>1, <1>3, <1>4, QuietBootOK
<1> QED
  BY <1>1, <1>3, <1>5 DEF d

\* Whatever the page did, its callback leaves no timer.
LEMMA DestroyedOK ==
  ASSUME NEW b, BootOK(b)
  PROVE  BootOK(Destroyed(b)) /\ ~Destroyed(b).alive
<1> DEFINE d == Destroyed(b)
<1>1. d = [NoBoot EXCEPT !.lvgl = NoTimers]
  BY DeleteTimersOK DEF Destroyed
<1>2. d = [x \in BootFields |-> d[x]] /\ d.lvgl = NoTimers
      /\ d.alive = FALSE /\ d.timer = FALSE /\ d.spinner = FALSE
  BY <1>1 DEF NoBoot, BootFields
<1> HIDE DEF d
<1>3. BootOK(d) /\ ~d.alive
  BY <1>2, QuietBootOK
<1> QED
  BY <1>3 DEF d

LEMMA FinishedOK ==
  ASSUME NEW b, BootOK(b)
  PROVE  BootOK(Finished(b)) /\ Finished(b).alive = b.alive
<1> DEFINE c == [b EXCEPT !.stage = @ + 1]
<1>1. BootOK(c) /\ c.alive = b.alive
  BY DEF BootOK, BootFields
<1> QED
  BY <1>1, DeleteTimersOK DEF Finished

LEMMA BootCreateOK == BootCreate => BootOK(boot)' /\ boot'.alive
<1> SUFFICES ASSUME BootCreate PROVE BootOK(boot') /\ boot'.alive
  OBVIOUS
<1>1. boot' = [x \in BootFields |-> boot'[x]] /\ boot'.alive = TRUE /\ boot'.timer = TRUE
      /\ boot'.spinner = FALSE /\ boot'.lvgl = [stage |-> 1, spin |-> 0]
  BY DEF BootCreate, NoBoot, BootFields
<1> QED
  BY <1>1 DEF BootOK

LEMMA BootLifeOK ==
  ASSUME BootOK(boot), boot.alive <=> "boot" \in screen, BootLife
  PROVE  BootOK(boot)' /\ (boot.alive <=> "boot" \in screen)'
<1>1. CASE "boot" \in screen' \ screen
  BY <1>1, BootCreateOK DEF BootLife, Life
<1>2. CASE "boot" \in screen \ screen'
  BY <1>2, DestroyedOK DEF BootLife, Life
<1>3. CASE "boot" \in screen <=> "boot" \in screen'
  BY <1>3 DEF BootLife, Life
<1> QED
  BY <1>1, <1>2, <1>3

LEMMA BootOverOK ==
  ASSUME BootOK(boot), boot.alive <=> "boot" \in screen, BootOver, screen' \subseteq screen \cup {"home"}
  PROVE  BootOK(boot)' /\ (boot.alive <=> "boot" \in screen)'
<1>1. BootOK(Finished(boot)) /\ Finished(boot).alive
  BY FinishedOK DEF BootOver, LastStage, BootOK
<1>2. boot.alive
  BY <1>1, FinishedOK
<1> QED
  BY <1>1, <1>2, DestroyedOK DEF BootOver

LEMMA BootTimerOK ==
  ASSUME BootOK(boot), LogoOver \/ StageOver
  PROVE  BootOK(boot)' /\ boot'.alive = boot.alive
<1>1. CASE LogoOver
  <2>1. PICK spins \in BOOLEAN :
            boot' = [boot EXCEPT !.phase = "stages", !.spinner = spins,
                                 !.lvgl.spin = IF spins THEN @ + 1 ELSE @]
    BY <1>1 DEF LogoOver, IfFails
  <2>2. boot.lvgl.stage = IF boot.timer THEN 1 ELSE 0
    BY DEF BootOK
  <2>3. boot.timer = TRUE /\ boot.spinner = FALSE /\ boot.alive = TRUE
    <3>1. boot.alive \in BOOLEAN /\ boot.timer \in BOOLEAN /\ boot.spinner \in BOOLEAN
      BY DEF BootOK
    <3> boot.lvgl.stage > 0
      BY <1>1 DEF LogoOver
    <3>2. boot.timer
      BY <2>2
    <3>3. ~boot.spinner /\ boot.alive
      BY <1>1, <3>2, Zenon DEF LogoOver, BootOK
    <3> QED
      BY <3>1, <3>2, <3>3, Zenon
  <2>4. boot.lvgl = [stage |-> 1, spin |-> 0]
    BY <2>3 DEF BootOK
  <2>5. /\ boot' = [x \in BootFields |-> boot'[x]]
        /\ boot'.phase = "stages" /\ boot'.spinner = spins
        /\ boot'.alive = boot.alive /\ boot'.timer = boot.timer
        /\ boot'.lvgl = [boot.lvgl EXCEPT !.spin = IF spins THEN @ + 1 ELSE @]
    BY <2>1 DEF BootOK, BootFields
  <2>6. boot'.lvgl = [stage |-> 1, spin |-> IF spins THEN 1 ELSE 0]
    BY <2>4, <2>5
  <2> QED
    BY <2>3, <2>5, <2>6 DEF BootOK
<1>2. CASE StageOver
  BY <1>2 DEF StageOver, BootOK, BootFields
<1> QED
  BY <1>1, <1>2

-----------------------------------------------------------------------------
(* The home page.                                                          *)

HomeFields == {"alive", "count", "selected", "slots", "images", "pictures", "pressed", "dragging", "offset", "dir", "total",
               "done", "reached", "snap", "lvgl", "user", "menu"}
HomeWhole(h) == h = [x \in HomeFields |-> h[x]]

\* A state h that has the timer it points to, whatever the finger does.
SnapOK(h) == /\ HomeWhole(h)
             /\ h.alive \in BOOLEAN /\ h.snap \in BOOLEAN /\ h.dragging \in BOOLEAN
             /\ h.lvgl = IF h.snap THEN 1 ELSE 0
             /\ h.snap => h.alive

HomeOK(h) == /\ SnapOK(h)
             /\ h.snap => ~h.dragging
             /\ h.dragging <=> h.pressed # "none"

\* The operations that do not touch the timer.
SameTimer(g, h) == /\ HomeWhole(h)
                   /\ h.alive = g.alive /\ h.snap = g.snap /\ h.lvgl = g.lvgl
                   /\ h.pressed = g.pressed

LEMMA LayoutSame ==
  ASSUME NEW h, HomeWhole(h)
  PROVE  SameTimer(h, Layout(h)) /\ Layout(h).dragging = h.dragging
  BY DEF HomeWhole, HomeFields, Layout, SameTimer

LEMMA CommitSame ==
  ASSUME NEW h, NEW n, HomeWhole(h)
  PROVE  SameTimer(h, Commit(h, n)) /\ Commit(h, n).dragging = h.dragging
<1>1. CASE n = 0
  BY <1>1 DEF Commit, SameTimer
<1>2. CASE n # 0
  BY <1>2 DEF Commit, HomeWhole, HomeFields, SameTimer
<1> QED
  BY <1>1, <1>2

LEMMA ProgressSame ==
  ASSUME NEW h, NEW p, HomeWhole(h)
  PROVE  SameTimer(h, ApplyProgress(h, p)) /\ ApplyProgress(h, p).dragging = h.dragging
<1>1. CASE h.total = 0 /\ h.dir = 0
  BY <1>1 DEF ApplyProgress, HomeWhole, HomeFields, SameTimer
<1>2. CASE ~(h.total = 0 /\ h.dir = 0)
  <2> DEFINE steps == Min2(Abs(p) \div Swipe, h.total)
             n == IF steps > h.done THEN steps - h.done ELSE 0
             c == Commit(h, n)
  <2>1. SameTimer(h, c) /\ c.dragging = h.dragging
    BY CommitSame
  <2>2. ApplyProgress(h, p) = [c EXCEPT !.offset = -h.dir * (Abs(p) - (h.done + n) * Swipe), !.reached = p]
    BY <1>2 DEF ApplyProgress
  <2> HIDE DEF c
  <2> QED
    BY <2>1, <2>2 DEF SameTimer, HomeWhole, HomeFields
<1> QED
  BY <1>1, <1>2

\* home_page_stop_snap_timer leaves no timer, home_page_reset_snap_state no drag.
LEMMA StopSnapOK ==
  ASSUME NEW h, SnapOK(h)
  PROVE  /\ SnapOK(StopSnap(h)) /\ StopSnap(h).snap = FALSE
         /\ StopSnap(h).alive = h.alive /\ StopSnap(h).pressed = h.pressed
         /\ StopSnap(h).dragging = h.dragging
<1> DEFINE s == StopSnap(h)
<1>1. /\ HomeWhole(s) /\ s.snap = FALSE /\ s.alive = h.alive /\ s.pressed = h.pressed
      /\ s.dragging = h.dragging /\ s.lvgl = IF h.snap THEN h.lvgl - 1 ELSE h.lvgl
  BY DEF SnapOK, HomeWhole, HomeFields, StopSnap
<1>2. h.lvgl = IF h.snap THEN 1 ELSE 0
  BY DEF SnapOK
<1>3. s.lvgl = 0
  BY <1>1, <1>2
<1>4. h.alive \in BOOLEAN /\ h.dragging \in BOOLEAN
  BY DEF SnapOK
<1> HIDE DEF s
<1>5. SnapOK(s)
  BY <1>1, <1>3, <1>4 DEF SnapOK
<1> QED
  BY <1>1, <1>5 DEF s

LEMMA ResetSame ==
  ASSUME NEW h, HomeWhole(h)
  PROVE  SameTimer(h, Reset(h)) /\ Reset(h).dragging = FALSE
  BY DEF HomeWhole, HomeFields, Reset, SameTimer

LEMMA SameTimerOK ==
  ASSUME NEW g, NEW h, SnapOK(g), SameTimer(g, h), h.dragging \in BOOLEAN
  PROVE  SnapOK(h)
  BY DEF SnapOK, SameTimer

LEMMA CancelOK ==
  ASSUME NEW h, SnapOK(h)
  PROVE  /\ SnapOK(Cancel(h)) /\ Cancel(h).snap = FALSE /\ Cancel(h).dragging = FALSE
         /\ Cancel(h).alive = h.alive /\ Cancel(h).pressed = h.pressed
<1>1. SnapOK(StopSnap(h)) /\ HomeWhole(StopSnap(h))
  BY StopSnapOK DEF SnapOK
<1>2. SameTimer(StopSnap(h), Cancel(h)) /\ Cancel(h).dragging = FALSE
  BY <1>1, ResetSame DEF Cancel
<1> QED
  BY <1>1, <1>2, StopSnapOK, SameTimerOK DEF SameTimer

LEMMA FinishOK ==
  ASSUME NEW h, SnapOK(h)
  PROVE  /\ SnapOK(Finish(h)) /\ Finish(h).snap = FALSE /\ Finish(h).dragging = FALSE
         /\ Finish(h).alive = h.alive /\ Finish(h).pressed = h.pressed
<1> DEFINE s == StopSnap(h)
           c == Commit(s, h.total - h.done)
           r == Reset(c)
<1>1. SnapOK(s) /\ HomeWhole(s) /\ s.snap = FALSE /\ s.alive = h.alive /\ s.pressed = h.pressed
  BY StopSnapOK DEF SnapOK
<1>2. Finish(h) = Layout(r)
  BY DEF Finish, Ended
<1> HIDE DEF s
<1>3. SameTimer(s, c) /\ HomeWhole(c)
  BY <1>1, CommitSame DEF SameTimer
<1> HIDE DEF c
<1>4. SameTimer(c, r) /\ HomeWhole(r) /\ r.dragging = FALSE
  BY <1>3, ResetSame DEF SameTimer
<1> HIDE DEF r
<1>5. SameTimer(r, Finish(h)) /\ Finish(h).dragging = FALSE
  BY <1>2, <1>4, LayoutSame
<1>6. SameTimer(s, Finish(h))
  BY <1>3, <1>4, <1>5 DEF SameTimer
<1> QED
  BY <1>1, <1>5, <1>6, SameTimerOK DEF SameTimer

\* A snap is started by a finger that leaves; it comes with one timer, or is at
\* its end at once.
LEMMA StartSnapOK ==
  ASSUME NEW h, NEW v, NEW g, SnapOK(h), h.alive, h.pressed = "none", g \in StartSnap(h, v)
  PROVE  HomeOK(g) /\ g.alive /\ ~g.dragging
<1> DEFINE d == Direction(h, v)
           s == [StopSnap(h) EXCEPT !.dir = d, !.total = IF d = 0 THEN 0 ELSE Steps(h, v),
                                    !.done = 0, !.reached = h.offset, !.dragging = FALSE]
           t == [s EXCEPT !.snap = TRUE, !.lvgl = @ + 1]
           e == ApplyProgress(s, Target(s))
<1>1. SnapOK(StopSnap(h)) /\ StopSnap(h).snap = FALSE /\ StopSnap(h).alive = h.alive
      /\ StopSnap(h).pressed = "none"
  BY StopSnapOK
<1>2. HomeWhole(s) /\ s.snap = FALSE /\ s.alive = h.alive /\ s.pressed = "none" /\ s.dragging = FALSE
      /\ s.lvgl = StopSnap(h).lvgl
  BY <1>1 DEF SnapOK, HomeWhole, HomeFields
<1>3. s.lvgl = 0 /\ h.alive = TRUE
  BY <1>1, <1>2 DEF SnapOK
<1>4. g \in {Finish(s)} \cup {t} \cup {Finish(e)}
  BY DEF StartSnap, IfFails
<1> HIDE DEF s
<1>5. SnapOK(s)
  BY <1>2, <1>3 DEF SnapOK
<1>6. HomeWhole(t) /\ t.snap = TRUE /\ t.alive = TRUE /\ t.pressed = "none" /\ t.dragging = FALSE /\ t.lvgl = 1
  <2>1. HomeWhole(t) /\ t.snap = TRUE /\ t.alive = s.alive /\ t.pressed = s.pressed
        /\ t.dragging = s.dragging /\ t.lvgl = s.lvgl + 1
    BY <1>2 DEF HomeWhole, HomeFields
  <2> HIDE DEF t
  <2> QED
    BY <1>2, <1>3, <2>1
<1>7. SameTimer(s, e) /\ e.dragging = s.dragging
  BY <1>2, ProgressSame
<1>8. SnapOK(e) /\ e.alive = TRUE /\ e.pressed = "none"
  BY <1>2, <1>3, <1>5, <1>7, SameTimerOK DEF SameTimer
<1> HIDE DEF t, e
<1>9. HomeOK(t) /\ t.alive /\ ~t.dragging
  BY <1>6 DEF HomeOK, SnapOK
<1>10. \A f : SnapOK(f) /\ f.alive = TRUE /\ f.pressed = "none"
               => HomeOK(Finish(f)) /\ Finish(f).alive /\ ~Finish(f).dragging
  BY FinishOK DEF HomeOK
<1> QED
  BY <1>2, <1>3, <1>4, <1>5, <1>8, <1>9, <1>10

LEMMA ReleaseOK ==
  ASSUME HomeOK(home), home.alive, home' \in AfterRelease
  PROVE  HomeOK(home)' /\ home'.alive /\ ~home'.dragging
<1> DEFINE h == [home EXCEPT !.pressed = "none"]
<1>1. PICK v \in Velocities : home' \in StartSnap(h, v)
  BY DEF AfterRelease
<1>2. SnapOK(h) /\ h.alive /\ h.pressed = "none"
  BY DEF HomeOK, SnapOK, HomeWhole, HomeFields
<1> HIDE DEF h
<1> QED
  BY <1>1, <1>2, StartSnapOK

LEMMA NoHomeOK == HomeOK(NoHome) /\ ~NoHome.alive /\ HomeWhole(NoHome)
<1>1. HomeWhole(NoHome) /\ NoHome.alive = FALSE /\ NoHome.snap = FALSE /\ NoHome.dragging = FALSE
      /\ NoHome.lvgl = 0 /\ NoHome.pressed = "none"
  BY DEF NoHome, HomeWhole, HomeFields
<1> QED
  BY <1>1 DEF HomeOK, SnapOK

LEMMA HomeLifeOK ==
  ASSUME HomeOK(home), home.alive <=> "home" \in screen, HomeLife
  PROVE  HomeOK(home)' /\ (home.alive <=> "home" \in screen)'
<1>1. CASE "home" \in screen' \ screen
  <2>1. PICK n, m, k : home' = Layout([NoHome EXCEPT !.alive = TRUE, !.count = n, !.images = m, !.selected = k])
    BY <1>1 DEF HomeLife, Life, HomeCreate
  <2> DEFINE h == [NoHome EXCEPT !.alive = TRUE, !.count = n, !.images = m, !.selected = k]
  <2>2. HomeWhole(h) /\ h.alive = TRUE /\ h.snap = FALSE /\ h.dragging = FALSE /\ h.lvgl = 0
        /\ h.pressed = "none"
    BY DEF NoHome, HomeWhole, HomeFields
  <2> HIDE DEF h
  <2>3. SameTimer(h, home') /\ home'.dragging = FALSE
    BY <2>1, <2>2, LayoutSame DEF h
  <2> QED
    BY <1>1, <2>2, <2>3 DEF SameTimer, HomeOK, SnapOK
<1>2. CASE "home" \in screen \ screen'
  <2>1. home' = [NoHome EXCEPT !.lvgl = Cancel(home).lvgl]
    BY <1>2 DEF HomeLife, Life, HomeDestroy
  <2>2. Cancel(home).lvgl = 0
    BY CancelOK DEF HomeOK, SnapOK
  <2>3. HomeWhole(home') /\ home'.alive = FALSE /\ home'.snap = FALSE /\ home'.dragging = FALSE
        /\ home'.lvgl = 0 /\ home'.pressed = "none"
    BY <2>1, <2>2 DEF NoHome, HomeWhole, HomeFields
  <2> QED
    BY <1>2, <2>3 DEF HomeOK, SnapOK
<1>3. CASE "home" \in screen <=> "home" \in screen'
  BY <1>3 DEF HomeLife, Life
<1> QED
  BY <1>1, <1>2, <1>3

\* Touches and the steps of the timer.
LEMMA HomeStepOK ==
  ASSUME HomeOK(home), (home.alive /\ HomeTouch) \/ HomeTimer
  PROVE  HomeOK(home)' /\ home'.alive = home.alive
<1>1. CASE Press
  <2>1. PICK part \in {"center", "other"} : home' = [Cancel(home) EXCEPT !.pressed = part, !.dragging = TRUE]
    BY <1>1 DEF Press
  <2>2. SnapOK(Cancel(home)) /\ Cancel(home).snap = FALSE /\ Cancel(home).alive = home.alive
    BY CancelOK DEF HomeOK
  <2>3. HomeWhole(home') /\ home'.snap = FALSE /\ home'.dragging = TRUE /\ home'.pressed = part
        /\ home'.alive = home.alive /\ home'.lvgl = Cancel(home).lvgl
    BY <2>1, <2>2 DEF SnapOK, HomeWhole, HomeFields
  <2> QED
    BY <2>2, <2>3 DEF HomeOK, SnapOK
<1>2. CASE Drag \/ UserClicked
  <2>1. HomeWhole(home') /\ home'.snap = home.snap /\ home'.dragging = home.dragging
        /\ home'.pressed = home.pressed /\ home'.alive = home.alive /\ home'.lvgl = home.lvgl
    BY <1>2 DEF Drag, UserClicked, HomeOK, SnapOK, HomeWhole, HomeFields
  <2> QED
    BY <2>1 DEF HomeOK, SnapOK
<1>3. CASE Release /\ home.alive
  BY <1>3, ReleaseOK DEF Release, HomeOK, SnapOK
<1>4. CASE SnapTick
  <2>1. PICK p : home' = ApplyProgress(home, p)
    BY <1>4 DEF SnapTick
  <2>2. SameTimer(home, home') /\ home'.dragging = home.dragging
    BY <2>1, ProgressSame DEF HomeOK, SnapOK
  <2> QED
    BY <2>2 DEF HomeOK, SnapOK, SameTimer
<1>5. CASE SnapDeadline
  <2> DEFINE h == ApplyProgress(home, Target(home))
  <2>1. home.lvgl > 0 /\ home' = Finish(h)
    BY <1>5 DEF SnapDeadline, Finish
  <2>2. home.lvgl = IF home.snap THEN 1 ELSE 0
    BY DEF HomeOK, SnapOK
  <2>3. home.snap
    BY <2>1, <2>2
  <2>4. home.pressed = "none" /\ home.dragging = FALSE
    BY <2>3 DEF HomeOK, SnapOK
  <2>5. SameTimer(home, h) /\ h.dragging = FALSE
    BY <2>4, ProgressSame DEF HomeOK, SnapOK
  <2>6. SnapOK(h) /\ h.pressed = "none" /\ h.alive = home.alive
    BY <2>4, <2>5, SameTimerOK DEF HomeOK, SameTimer
  <2> HIDE DEF h
  <2> QED
    BY <2>1, <2>6, FinishOK DEF HomeOK
<1> QED
  BY <1>1, <1>2, <1>3, <1>4, <1>5 DEF HomeTouch, HomeTimer

-----------------------------------------------------------------------------
(* The cleaning page.                                                      *)

CleanFields == {"alive", "tab", "content", "built", "level", "label", "time", "prepare", "controls",
                "next", "overlay", "status", "after", "elapsed", "timer", "lvgl"}
CleanWhole(c) == c = [x \in CleanFields |-> c[x]]

TimersFor(t) == [rinse |-> IF t = "rinse" THEN 1 ELSE 0, return |-> IF t = "return" THEN 1 ELSE 0]

\* LVGL holds the timer the page points to, and no other.
TimerOK(c) == /\ CleanWhole(c)
              /\ c.alive \in BOOLEAN
              /\ c.timer \in {"none", "rinse", "return"}
              /\ c.lvgl = TimersFor(c.timer)

CleanOK(c) == /\ TimerOK(c)
              /\ c.status = "running" <=> c.timer = "rinse"
              /\ c.status = "complete" => c.timer = "return"
              /\ ~c.alive => c.timer = "none"

Idle(c) == TimerOK(c) /\ c.timer = "none" /\ c.status = "idle"

\* Nothing of the rinse changes from c to d.
SameRinse(c, d) == /\ CleanWhole(d)
                   /\ d.alive = c.alive /\ d.timer = c.timer /\ d.status = c.status /\ d.lvgl = c.lvgl

LEMMA SameRinseOK ==
  ASSUME NEW c, NEW d, SameRinse(c, d)
  PROVE  /\ TimerOK(c) => TimerOK(d)
         /\ Idle(c) => Idle(d)
         /\ CleanOK(c) => CleanOK(d)
  BY DEF SameRinse, TimerOK, Idle, CleanOK

LEMMA IdleOK ==
  ASSUME NEW c, Idle(c)
  PROVE  CleanOK(c) /\ TimerOK(c)
  BY DEF Idle, CleanOK

LEMMA StopTimerOK ==
  ASSUME NEW c, TimerOK(c)
  PROVE  TimerOK(StopTimer(c)) /\ StopTimer(c).timer = "none" /\ StopTimer(c).alive = c.alive
<1> DEFINE s == StopTimer(c)
<1>1. CASE c.timer = "none"
  BY <1>1 DEF StopTimer
<1>2. CASE c.timer # "none"
  <2>1. CleanWhole(s) /\ s.timer = "none" /\ s.alive = c.alive /\ s.lvgl = [c.lvgl EXCEPT ![c.timer] = @ - 1]
    BY <1>2 DEF StopTimer, TimerOK, CleanWhole, CleanFields
  <2>2. c.lvgl = TimersFor(c.timer) /\ c.timer \in {"rinse", "return"} /\ c.alive \in BOOLEAN
    BY <1>2 DEF TimerOK
  <2>3. s.lvgl = TimersFor("none")
    BY <2>1, <2>2 DEF TimersFor
  <2> HIDE DEF s
  <2>4. TimerOK(s)
    BY <2>1, <2>2, <2>3 DEF TimerOK
  <2> QED
    BY <2>1, <2>4 DEF s
<1> QED
  BY <1>1, <1>2

LEMMA DeleteRinseOK ==
  ASSUME NEW c, TimerOK(c)
  PROVE  Idle(DeleteRinse(c)) /\ DeleteRinse(c).alive = c.alive
<1> DEFINE s == StopTimer(c)
           d == DeleteRinse(c)
<1>1. TimerOK(s) /\ s.timer = "none" /\ s.alive = c.alive
  BY StopTimerOK
<1>2. d = [s EXCEPT !.overlay = "none", !.status = "idle", !.after = "return"]
  BY DEF DeleteRinse
<1> HIDE DEF s, d
<1>3. CleanWhole(d) /\ d.timer = s.timer /\ d.alive = s.alive /\ d.lvgl = s.lvgl /\ d.status = "idle"
  BY <1>1, <1>2 DEF TimerOK, CleanWhole, CleanFields
<1>4. Idle(d) /\ d.alive = c.alive
  BY <1>1, <1>3 DEF Idle, TimerOK
<1> QED
  BY <1>4 DEF d

LEMMA DeletePrepareSame ==
  ASSUME NEW c, CleanWhole(c)
  PROVE  SameRinse(c, DeletePrepare(c))
  BY DEF CleanWhole, CleanFields, DeletePrepare, SameRinse

LEMMA ContentSame ==
  ASSUME NEW c, NEW tab, NEW g, CleanWhole(c), g \in ContentFor(c, tab)
  PROVE  SameRinse(c, g)
<1>1. PICK n, l : g = [c EXCEPT !.content = tab, !.built = n, !.label = l]
  BY DEF ContentFor
<1> QED
  BY <1>1 DEF CleanWhole, CleanFields, SameRinse

LEMMA CreatePrepareOK ==
  ASSUME NEW c, NEW kind, NEW next, NEW g, TimerOK(c), g \in CreatePrepare(c, kind, next)
  PROVE  Idle(g) /\ g.alive = c.alive
<1> DEFINE d == DeleteRinse(DeletePrepare(c))
           e == IF kind = "time" THEN [d EXCEPT !.time = 32] ELSE [d EXCEPT !.next = next]
<1>1. Idle(d) /\ d.alive = c.alive
  <2>1. SameRinse(c, DeletePrepare(c))
    BY DeletePrepareSame DEF TimerOK
  <2> QED
    BY <2>1, SameRinseOK, DeleteRinseOK DEF SameRinse
<1>2. \/ g = e
      \/ \E n : g = [e EXCEPT !.prepare = kind, !.controls = n]
  BY DEF CreatePrepare, IfFails
<1> HIDE DEF d
<1>3. SameRinse(d, e)
  BY <1>1 DEF Idle, TimerOK, CleanWhole, CleanFields, SameRinse
<1> HIDE DEF e
<1>4. SameRinse(e, g)
  BY <1>2, <1>3 DEF SameRinse, CleanWhole, CleanFields
<1> QED
  BY <1>1, <1>3, <1>4, SameRinseOK DEF SameRinse

\* The timer that closes the overlay: an own one, or the rinse timer.
LEMMA ScheduleReturnOK ==
  ASSUME NEW c, NEW g, TimerOK(c), c.alive = TRUE, g \in ScheduleReturn(c)
  PROVE  /\ TimerOK(g) /\ g.alive = TRUE /\ g.status = c.status
         /\ g.timer \in {"none", "return"}
         /\ c.timer # "none" => g.timer = "return"
<1> DEFINE s == StopTimer(c)
<1>1. TimerOK(s) /\ s.timer = "none" /\ s.alive = TRUE /\ s.status = c.status
  <2>1. s.status = c.status
    BY DEF StopTimer, TimerOK, CleanWhole, CleanFields
  <2> QED
    BY <2>1, StopTimerOK
<1>2. \/ g = [s EXCEPT !.lvgl.return = @ + 1, !.timer = "return"]
      \/ g = c /\ c.timer = "none"
  BY DEF ScheduleReturn, IfFails
<1> HIDE DEF s
<1>3. CASE g = [s EXCEPT !.lvgl.return = @ + 1, !.timer = "return"]
  <2>1. CleanWhole(g) /\ g.timer = "return" /\ g.alive = TRUE /\ g.status = c.status
        /\ g.lvgl = [s.lvgl EXCEPT !.return = @ + 1]
    BY <1>1, <1>3 DEF TimerOK, CleanWhole, CleanFields
  <2>2. s.lvgl = TimersFor("none")
    BY <1>1 DEF TimerOK
  <2>3. g.lvgl = TimersFor("return")
    BY <2>1, <2>2 DEF TimersFor
  <2> QED
    BY <2>1, <2>3 DEF TimerOK
<1>4. CASE g = c /\ c.timer = "none"
  BY <1>4
<1> QED
  BY <1>2, <1>3, <1>4

\* A rinse that is complete had its timer; one that is interrupted may not.
LEMMA RinseOverOK ==
  ASSUME NEW c, NEW status, NEW g, TimerOK(c), c.alive = TRUE, g \in RinseOver(c, status),
         status = "interrupted" \/ (status = "complete" /\ c.timer # "none")
  PROVE  CleanOK(g) /\ g.alive = TRUE
<1> DEFINE d == [c EXCEPT !.status = status]
<1>1. g \in ScheduleReturn(d)
  BY DEF RinseOver
<1>2. CleanWhole(d) /\ d.alive = c.alive /\ d.timer = c.timer /\ d.lvgl = c.lvgl /\ d.status = status
  BY DEF TimerOK, CleanWhole, CleanFields
<1> HIDE DEF d
<1>3. TimerOK(d) /\ d.alive = TRUE
  BY <1>2 DEF TimerOK
<1>4. /\ TimerOK(g) /\ g.alive = TRUE /\ g.status = status
      /\ g.timer \in {"none", "return"}
      /\ c.timer # "none" => g.timer = "return"
  BY <1>1, <1>2, <1>3, ScheduleReturnOK
<1> QED
  BY <1>4 DEF CleanOK

LEMMA CreateRinseOK ==
  ASSUME NEW c, NEW g, TimerOK(c), c.alive = TRUE, g \in CreateRinse(c)
  PROVE  CleanOK(g) /\ g.alive = TRUE
<1> DEFINE d == DeleteRinse(c)
           shown == [d EXCEPT !.overlay = "button", !.elapsed = 0]
           run == [shown EXCEPT !.status = "running", !.lvgl.rinse = @ + 1, !.timer = "rinse"]
<1>1. Idle(d) /\ d.alive = TRUE
  BY DeleteRinseOK
<1>2. \/ g = run
      \/ g \in {d, [d EXCEPT !.overlay = "bare"], [d EXCEPT !.overlay = "button"]}
      \/ g \in RinseOver(shown, "interrupted")
  BY DEF CreateRinse, IfFails
<1> HIDE DEF d
<1>3. SameRinse(d, shown) /\ SameRinse(d, d) /\ SameRinse(d, [d EXCEPT !.overlay = "bare"])
      /\ SameRinse(d, [d EXCEPT !.overlay = "button"])
  BY <1>1 DEF Idle, TimerOK, CleanWhole, CleanFields, SameRinse
<1> HIDE DEF shown
<1>4. Idle(shown) /\ shown.alive = TRUE
  BY <1>1, <1>3, SameRinseOK DEF SameRinse
<1>5. CleanOK(run) /\ run.alive = TRUE
  <2>1. CleanWhole(run) /\ run.timer = "rinse" /\ run.alive = TRUE /\ run.status = "running"
        /\ run.lvgl = [shown.lvgl EXCEPT !.rinse = @ + 1]
    BY <1>4 DEF Idle, TimerOK, CleanWhole, CleanFields
  <2>2. shown.lvgl = TimersFor("none")
    BY <1>4 DEF Idle, TimerOK
  <2>3. run.lvgl = TimersFor("rinse")
    BY <2>1, <2>2 DEF TimersFor
  <2> QED
    BY <2>1, <2>3 DEF CleanOK, TimerOK
<1>6. CASE g = run
  BY <1>5, <1>6
<1>7. CASE g \in {d, [d EXCEPT !.overlay = "bare"], [d EXCEPT !.overlay = "button"]}
  <2>1. SameRinse(d, g)
    BY <1>3, <1>7
  <2> QED
    BY <1>1, <2>1, SameRinseOK, IdleOK DEF SameRinse
<1>8. CASE g \in RinseOver(shown, "interrupted")
  BY <1>4, <1>8, RinseOverOK, IdleOK
<1> QED
  BY <1>2, <1>6, <1>7, <1>8

LEMMA StartRinseOK ==
  ASSUME NEW c, NEW after, NEW g, TimerOK(c), c.alive = TRUE, g \in StartRinse(c, after)
  PROVE  CleanOK(g) /\ g.alive = TRUE
<1> DEFINE d == [c EXCEPT !.elapsed = 0]
<1>1. PICK r \in CreateRinse(d) : g = [r EXCEPT !.after = after]
  BY DEF StartRinse
<1>2. SameRinse(c, d)
  BY DEF TimerOK, CleanWhole, CleanFields, SameRinse
<1> HIDE DEF d
<1>3. CleanOK(r) /\ r.alive = TRUE
  BY <1>1, <1>2, SameRinseOK, CreateRinseOK DEF SameRinse
<1>4. SameRinse(r, g)
  BY <1>1, <1>3 DEF CleanOK, TimerOK, CleanWhole, CleanFields, SameRinse
<1> QED
  BY <1>3, <1>4, SameRinseOK DEF SameRinse

LEMMA ClosedOK == CleanOK(Closed) /\ TimerOK(Closed) /\ ~Closed.alive
<1>1. CleanWhole(Closed) /\ Closed.alive = FALSE /\ Closed.timer = "none" /\ Closed.status = "idle"
      /\ Closed.lvgl = TimersFor("none")
  BY DEF Closed, CleanWhole, CleanFields, TimersFor
<1> QED
  BY <1>1 DEF CleanOK, TimerOK

LEMMA CleaningLifeOK ==
  ASSUME CleanOK(clean), clean.alive <=> "cleaning" \in screen, CleaningLife
  PROVE  CleanOK(clean)' /\ (clean.alive <=> "cleaning" \in screen)'
<1>1. CASE "cleaning" \in screen' \ screen
  <2>1. clean' = [Closed EXCEPT !.alive = TRUE, !.built = 3]
    BY <1>1 DEF CleaningLife, Life, CleaningCreate
  <2>2. CleanWhole(clean') /\ clean'.alive = TRUE /\ clean'.timer = "none" /\ clean'.status = "idle"
        /\ clean'.lvgl = TimersFor("none")
    BY <2>1 DEF Closed, CleanWhole, CleanFields, TimersFor
  <2> QED
    BY <1>1, <2>2 DEF CleanOK, TimerOK
<1>2. CASE "cleaning" \in screen \ screen'
  <2>1. clean' = [Closed EXCEPT !.lvgl = DeleteRinse(clean).lvgl]
    BY <1>2 DEF CleaningLife, Life, CleaningDestroy
  <2>2. DeleteRinse(clean).lvgl = TimersFor("none")
    BY DeleteRinseOK DEF CleanOK, Idle, TimerOK
  <2>3. CleanWhole(clean') /\ clean'.alive = FALSE /\ clean'.timer = "none" /\ clean'.status = "idle"
        /\ clean'.lvgl = TimersFor("none")
    BY <2>1, <2>2 DEF Closed, CleanWhole, CleanFields
  <2> QED
    BY <1>2, <2>3 DEF CleanOK, TimerOK
<1>3. CASE "cleaning" \in screen <=> "cleaning" \in screen'
  BY <1>3 DEF CleaningLife, Life
<1> QED
  BY <1>1, <1>2, <1>3

LEMMA CleaningBackOK ==
  ASSUME CleanOK(clean), CleaningBack
  PROVE  CleanOK(clean)' /\ clean'.alive = clean.alive
<1>1. SameRinse(clean, DeletePrepare(clean))
  BY DeletePrepareSame DEF CleanOK, TimerOK
<1>2. clean' = DeleteRinse(DeletePrepare(clean))
  BY DEF CleaningBack
<1> QED
  BY <1>1, <1>2, SameRinseOK, DeleteRinseOK, IdleOK DEF SameRinse, CleanOK

LEMMA CleaningClickOK ==
  ASSUME CleanOK(clean), clean.alive = TRUE, CleaningClick
  PROVE  CleanOK(clean)' /\ clean'.alive = TRUE
<1>1. TimerOK(clean) /\ CleanWhole(clean)
  BY DEF CleanOK, TimerOK
<1>2. SameRinse(clean, clean') => CleanOK(clean)' /\ clean'.alive = TRUE
  BY SameRinseOK DEF SameRinse
<1>3. SameRinse(clean, DeletePrepare(clean))
  BY <1>1, DeletePrepareSame
<1>4. TimerOK(DeletePrepare(clean)) /\ DeletePrepare(clean).alive = TRUE /\ CleanWhole(DeletePrepare(clean))
  BY <1>1, <1>3, SameRinseOK DEF SameRinse
<1>5. Idle(DeleteRinse(DeletePrepare(clean))) /\ DeleteRinse(DeletePrepare(clean)).alive = TRUE
  BY <1>4, DeleteRinseOK
<1>6. CASE CardClicked
  BY <1>1, <1>6, StartRinseOK, CreatePrepareOK, IdleOK DEF CardClicked
<1>7. CASE LevelTouched \/ TimeTouched
  <2>1. SameRinse(clean, clean')
    BY <1>1, <1>7 DEF LevelTouched, TimeTouched, SameRinse, CleanWhole, CleanFields
  <2> QED
    BY <1>2, <2>1
<1>8. CASE MenuClicked
  <2> DEFINE d == DeleteRinse(DeletePrepare(clean))
  <2>1. PICK tab : clean' \in ContentFor([d EXCEPT !.tab = tab], tab)
    BY <1>8 DEF MenuClicked
  <2> HIDE DEF d
  <2>2. SameRinse(d, [d EXCEPT !.tab = tab])
    BY <1>5 DEF d, Idle, TimerOK, CleanWhole, CleanFields, SameRinse
  <2>3. SameRinse([d EXCEPT !.tab = tab], clean')
    BY <2>1, <2>2, ContentSame DEF SameRinse
  <2>4. SameRinse(d, clean')
    BY <2>2, <2>3 DEF SameRinse
  <2> QED
    BY <1>5, <2>4, SameRinseOK, IdleOK DEF d, SameRinse
<1>9. CASE CancelClicked
  <2> DEFINE c == DeletePrepare(clean)
  <2>1. clean' = c \/ \E tab \in {"daily", "maintenance"} : clean' \in ContentFor(c, tab)
    BY <1>9 DEF CancelClicked
  <2> HIDE DEF c
  <2>2. SameRinse(c, clean')
    BY <1>4, <2>1, ContentSame DEF c, SameRinse
  <2>3. SameRinse(clean, clean')
    BY <1>3, <2>2 DEF c, SameRinse
  <2> QED
    BY <1>2, <2>3
<1>10. CASE GoClicked
  BY <1>4, <1>10, StartRinseOK DEF GoClicked
<1>11. CASE RinseClicked
  <2>1. CASE clean.status = "running"
    BY <1>1, <1>11, <2>1, RinseOverOK DEF RinseClicked
  <2>2. CASE clean.status # "running"
    <3> DEFINE c == [clean EXCEPT !.elapsed = 0]
    <3>1. SameRinse(clean, c)
      BY <1>1 DEF CleanWhole, CleanFields, SameRinse
    <3>2. clean' = DeleteRinse(c)
      BY <1>11, <2>2 DEF RinseClicked
    <3> HIDE DEF c
    <3> QED
      BY <1>1, <3>1, <3>2, SameRinseOK, DeleteRinseOK, IdleOK DEF SameRinse
  <2> QED
    BY <2>1, <2>2
<1> QED
  BY <1>6, <1>7, <1>8, <1>9, <1>10, <1>11 DEF CleaningClick

LEMMA CleaningTimerOK ==
  ASSUME CleanOK(clean), RinseTick \/ ReturnTimer
  PROVE  CleanOK(clean)' /\ clean'.alive = clean.alive
<1>1. TimerOK(clean) /\ CleanWhole(clean) /\ clean.lvgl = TimersFor(clean.timer) /\ clean.alive \in BOOLEAN
  BY DEF CleanOK, TimerOK
<1>2. CASE RinseTick
  <2> DEFINE c == [clean EXCEPT !.elapsed = @ + 1]
  <2>1. SameRinse(clean, c)
    BY <1>1 DEF CleanWhole, CleanFields, SameRinse
  <2>2. clean.lvgl.rinse > 0
    BY <1>2 DEF RinseTick
  <2>3. clean.timer = "rinse"
    BY <1>1, <2>2 DEF TimersFor
  <2>4. clean.alive = TRUE
    BY <1>1, <2>3 DEF CleanOK
  <2>5. clean' = clean \/ clean' = c \/ clean' \in RinseOver(c, "complete")
    BY <1>2 DEF RinseTick
  <2> HIDE DEF c
  <2>6. TimerOK(c) /\ c.alive = TRUE /\ c.timer = "rinse" /\ CleanOK(c)
    BY <1>1, <2>1, <2>3, <2>4, SameRinseOK DEF SameRinse
  <2> QED
    BY <2>4, <2>5, <2>6, RinseOverOK
<1>3. CASE ReturnTimer
  <2> DEFINE b == [clean EXCEPT !.timer = "none", !.lvgl.return = @ - 1]
             c == DeleteRinse(b)
  <2>1. clean.lvgl.return > 0
    BY <1>3 DEF ReturnTimer
  <2>2. clean.timer = "return"
    BY <1>1, <2>1 DEF TimersFor
  <2>3. CleanWhole(b) /\ b.timer = "none" /\ b.alive = clean.alive
        /\ b.lvgl = [clean.lvgl EXCEPT !.return = @ - 1]
    BY <1>1 DEF CleanWhole, CleanFields
  <2>4. b.lvgl = TimersFor("none")
    BY <1>1, <2>2, <2>3 DEF TimersFor
  <2>5. clean' = c \/ clean' \in CreatePrepare(c, "water", "return")
    BY <1>3 DEF ReturnTimer
  <2> HIDE DEF b
  <2>6. Idle(c) /\ c.alive = clean.alive
    BY <1>1, <2>3, <2>4, DeleteRinseOK DEF TimerOK
  <2> HIDE DEF c
  <2> QED
    BY <2>5, <2>6, CreatePrepareOK, IdleOK
<1> QED
  BY <1>2, <1>3

-----------------------------------------------------------------------------
(* The settings page and its store of texts.                               *)

StoresOK == /\ settings.alive \in BOOLEAN
            /\ ~settings.alive => settings = NoSettings
            /\ StoresOwned

\* A store that is open is that of the page, and can be closed again.
LEMMA LanguageOpenedOK ==
  ASSUME NEW s \in LanguageOpened, stores \in Int
  PROVE  /\ s.page \in [alive : {FALSE}, store : {"none", "language"}]
         /\ s.stores = IF s.page.store # "none" THEN stores + 1 ELSE stores
         /\ ClosedAgain(s).stores = stores
<1>1. Opened.page = [alive |-> FALSE, store |-> "language"] /\ Opened.stores = stores + 1
  BY DEF Opened, NoSettings
<1>2. ClosedAgain(Opened).page = [alive |-> FALSE, store |-> "none"] /\ ClosedAgain(Opened).stores = stores
  BY <1>1 DEF ClosedAgain, NoSettings
<1>3. CASE s = Opened
  <2>1. s.page = [alive |-> FALSE, store |-> "language"] /\ s.stores = stores + 1 /\ ClosedAgain(s).stores = stores
    BY <1>1, <1>2, <1>3
  <2> QED
    BY <2>1
<1>4. CASE s = ClosedAgain(Opened)
  <2>1. s.page = [alive |-> FALSE, store |-> "none"] /\ s.stores = stores
    BY <1>2, <1>4
  <2> QED
    BY <2>1 DEF ClosedAgain
<1>5. CASE s = [page |-> NoSettings, stores |-> stores]
  <2>1. s.page = [alive |-> FALSE, store |-> "none"] /\ s.stores = stores
    BY <1>5 DEF NoSettings
  <2> QED
    BY <2>1 DEF ClosedAgain
<1> QED
  BY <1>3, <1>4, <1>5 DEF LanguageOpened

LEMMA SettingsLifeOK ==
  ASSUME StoresOK, settings.alive <=> "settings" \in screen, SettingsLife
  PROVE  StoresOK' /\ (settings.alive <=> "settings" \in screen)'
<1>0. stores \in Int
  BY DEF StoresOK, StoresOwned
<1>1. CASE "settings" \in screen' \ screen
  <2>1. PICK s \in LanguageOpened : settings' = [s.page EXCEPT !.alive = TRUE] /\ stores' = s.stores
    BY <1>1 DEF SettingsLife, Life, SettingsCreate
  <2>2. stores = 0
    BY <1>1 DEF StoresOK, StoresOwned
  <2>3. s.page \in [alive : {FALSE}, store : {"none", "language"}]
        /\ s.stores = IF s.page.store # "none" THEN stores + 1 ELSE stores
    BY <1>0, LanguageOpenedOK
  <2>4. settings'.alive = TRUE /\ settings'.store = s.page.store
    BY <2>1, <2>3
  <2> QED
    BY <1>1, <2>1, <2>2, <2>3, <2>4 DEF StoresOK, StoresOwned
<1>2. CASE "settings" \in screen \ screen'
  <2>1. settings' = NoSettings /\ stores' = IF settings.store # "none" THEN stores - 1 ELSE stores
    BY <1>2 DEF SettingsLife, Life, SettingsDestroy, ClosedAgain
  <2>2. stores = IF settings.store # "none" THEN 1 ELSE 0
    BY <1>2 DEF StoresOK, StoresOwned
  <2>3. stores' = 0
    BY <2>1, <2>2
  <2> QED
    BY <1>2, <2>1, <2>3 DEF StoresOK, StoresOwned, NoSettings
<1>3. CASE "settings" \in screen <=> "settings" \in screen'
  <2>1. SettingsFails \/ UNCHANGED <<settings, stores>>
    BY <1>3 DEF SettingsLife, Life, SettingsSame
  <2>2. UNCHANGED settings /\ stores' = stores
    BY <1>0, <2>1, LanguageOpenedOK DEF SettingsFails
  <2> QED
    BY <1>3, <2>2 DEF StoresOK, StoresOwned
<1> QED
  BY <1>1, <1>2, <1>3

-----------------------------------------------------------------------------
(* All of the application.                                                 *)

\* A page is alive while the page manager has its screen.
Linked == /\ boot.alive <=> "boot" \in screen
          /\ home.alive <=> "home" \in screen
          /\ clean.alive <=> "cleaning" \in screen
          /\ settings.alive <=> "settings" \in screen

AppInv == Inv /\ BootOK(boot) /\ HomeOK(home) /\ CleanOK(clean) /\ StoresOK /\ Linked

LEMMA AppInitInv == AppInit => AppInv
<1> SUFFICES ASSUME AppInit PROVE AppInv
  OBVIOUS
<1>1. Inv
  BY InitInv DEF AppInit
<1>2. screen = {} /\ boot = NoBoot /\ home = NoHome /\ clean = Closed /\ settings = NoSettings /\ stores = 0
  BY DEF AppInit, Init, BootInit, HomeInit, CleaningInit, SettingsInit
<1>3. StoresOK
  BY <1>2 DEF StoresOK, StoresOwned, NoSettings
<1>4. Linked
  BY <1>2, NoBootOK, NoHomeOK, ClosedOK DEF Linked, NoSettings
<1> QED
  BY <1>1, <1>2, <1>3, <1>4, NoBootOK, NoHomeOK, ClosedOK DEF AppInv

\* A page that can be touched is there.
LEMMA UsableIsThere ==
  ASSUME Inv, NEW p \in Pages, Usable(p)
  PROVE  p \in screen
  BY PageAssumption DEF Usable, Inv, ScreenPointersValid, ShownScreensExist

\* An animation brings a screen and takes none, until it ends.
LEMMA SwitchScreens ==
  ASSUME NEW from, NEW to, SwitchBy(To(from, to))
  PROVE  screen \subseteq screen' /\ screen' \subseteq screen \cup {to}
  BY DEF SwitchBy, To, Load, CreateFails

LEMMA BackScreens ==
  ASSUME NEW p, BackFrom(p)
  PROVE  screen \subseteq screen' /\ screen' \subseteq screen \cup {Top}
  BY DEF BackFrom, Load, CreateFails, BackRefused

LEMMA AppNextInv == AppInv /\ [PageNext]_pageVars => AppInv'
<1> SUFFICES ASSUME AppInv, [PageNext]_pageVars PROVE AppInv'
  OBVIOUS
<1>1. Inv' /\ Inv
  BY AppPagesInv DEF AppInv
<1> SUFFICES BootOK(boot)' /\ HomeOK(home)' /\ CleanOK(clean)' /\ StoresOK' /\ Linked'
  BY <1>1 DEF AppInv
<1>2. BootOK(boot) /\ HomeOK(home) /\ CleanOK(clean) /\ StoresOK /\ Linked
  BY DEF AppInv
<1>3. BootLife => BootOK(boot)' /\ (boot.alive <=> "boot" \in screen)'
  BY <1>2, BootLifeOK DEF Linked
<1>4. HomeLife => HomeOK(home)' /\ (home.alive <=> "home" \in screen)'
  BY <1>2, HomeLifeOK DEF Linked
<1>5. CleaningLife => CleanOK(clean)' /\ (clean.alive <=> "cleaning" \in screen)'
  BY <1>2, CleaningLifeOK DEF Linked
<1>6. SettingsLife => StoresOK' /\ (settings.alive <=> "settings" \in screen)'
  BY <1>2, SettingsLifeOK DEF Linked
<1>7. CASE AppStarts \/ SettingsOpened \/ ItemOpened \/ PlainBack \/ DetailsBack \/ PageShown
  <2>1. AllLive
    BY <1>7 DEF AppStarts, SettingsOpened, ItemOpened, PlainBack, DetailsBack, PageShown
  <2> QED
    BY <1>3, <1>4, <1>5, <1>6, <2>1 DEF AllLive, OthersLive, Linked
<1>8. CASE BootOver
  <2>1. screen' \subseteq screen \cup {"home"}
    BY <1>8 DEF BootOver, SwitchBy, Load, CreateFails, ActivateNow
  <2>2. BootOK(boot)' /\ (boot.alive <=> "boot" \in screen)'
    BY <1>2, <1>8, <2>1, BootOverOK DEF Linked
  <2> QED
    BY <1>4, <1>5, <1>6, <1>8, <2>2 DEF BootOver, OthersLive, Linked
<1>9. CASE RecipeOpened
  <2>1. SwitchBy(To("home", "running")) /\ home' \in AfterRelease /\ BootLife /\ OthersLive
    BY <1>9 DEF RecipeOpened, Open
  <2>2. Usable("home")
    BY <2>1 DEF SwitchBy, To
  <2>3. "home" \in screen /\ "home" \in screen'
    BY <1>1, <2>1, <2>2, UsableIsThere, SwitchScreens, AppAssumption
  <2>4. HomeOK(home)' /\ home'.alive
    BY <1>2, <2>1, <2>3, ReleaseOK DEF Linked
  <2> QED
    BY <1>3, <1>5, <1>6, <2>1, <2>3, <2>4 DEF OthersLive, Linked
<1>10. CASE CleaningLeft
  <2>1. BackFrom("cleaning") /\ CleaningBack /\ BootLife /\ HomeLife /\ SettingsLife
    BY <1>10 DEF CleaningLeft
  <2>2. "cleaning" \in screen /\ "cleaning" \in screen'
    BY <1>1, <2>1, UsableIsThere, BackScreens, AppAssumption DEF BackFrom
  <2>3. CleanOK(clean)' /\ clean'.alive = clean.alive
    BY <1>2, <2>1, CleaningBackOK
  <2> QED
    BY <1>2, <1>3, <1>4, <1>6, <2>1, <2>2, <2>3 DEF Linked
<1>11. CASE Touched
  <2>1. UNCHANGED <<screen, boot, settings, stores>>
    BY <1>11 DEF Touched, vars
  <2>2. BootOK(boot)' /\ StoresOK'
    BY <1>2, <2>1 DEF StoresOK, StoresOwned
  <2>3. CASE UNCHANGED <<home, clean>>
    BY <1>2, <2>1, <2>2, <2>3 DEF Linked
  <2>4. CASE Usable("home") /\ HomeTouch /\ UNCHANGED clean
    <3>1. home.alive
      BY <1>1, <1>2, <2>4, UsableIsThere, AppAssumption DEF Linked
    <3>2. HomeOK(home)' /\ home'.alive = home.alive
      BY <1>2, <2>4, <3>1, HomeStepOK
    <3> QED
      BY <1>2, <2>1, <2>2, <2>4, <3>2 DEF Linked
  <2>5. CASE Usable("cleaning") /\ CleaningClick /\ UNCHANGED home
    <3>1. clean.alive = TRUE
      BY <1>1, <1>2, <2>5, UsableIsThere, AppAssumption DEF Linked, CleanOK, TimerOK
    <3>2. CleanOK(clean)' /\ clean'.alive = TRUE
      BY <1>2, <2>5, <3>1, CleaningClickOK
    <3> QED
      BY <1>2, <2>1, <2>2, <2>5, <3>1, <3>2 DEF Linked
  <2> QED
    BY <1>11, <2>3, <2>4, <2>5 DEF Touched
<1>12. CASE BootTimer
  <2>1. UNCHANGED <<screen, home, clean, settings, stores>> /\ (LogoOver \/ StageOver)
    BY <1>12 DEF BootTimer, Elsewhere, vars
  <2> QED
    BY <1>2, <2>1, BootTimerOK DEF Linked, StoresOK, StoresOwned
<1>13. CASE CarouselTimer
  <2>1. UNCHANGED <<screen, boot, clean, settings, stores>> /\ HomeTimer
    BY <1>13 DEF CarouselTimer, CarouselOnly, HomeTimer, Elsewhere, vars
  <2> QED
    BY <1>2, <2>1, HomeStepOK DEF Linked, StoresOK, StoresOwned
<1>14. CASE CleaningTimer
  <2>1. UNCHANGED <<screen, boot, home, settings, stores>> /\ (RinseTick \/ ReturnTimer)
    BY <1>14 DEF CleaningTimer, Elsewhere, vars
  <2> QED
    BY <1>2, <2>1, CleaningTimerOK DEF Linked, StoresOK, StoresOwned
<1>15. CASE UNCHANGED pageVars
  BY <1>2, <1>15 DEF pageVars, vars, Linked, StoresOK, StoresOwned
<1> QED
  BY <1>7, <1>8, <1>9, <1>10, <1>11, <1>12, <1>13, <1>14, <1>15 DEF PageNext, PageChange

LEMMA AppInvAlways == AppSpec => []AppInv
  BY AppInitInv, AppNextInv, PageStepOnly, PTL DEF AppSpec

-----------------------------------------------------------------------------
\* Whatever is touched or interrupted, whatever LVGL could not make and however
\* a page is left: each timer LVGL runs is the one a living page points to, and
\* a store of texts is open only for a settings page that uses it.
THEOREM NothingLeftBehind == AppSpec => []ResourcesOwned
<1>1. AppInv => ResourcesOwned
  <2> SUFFICES ASSUME AppInv PROVE ResourcesOwned
    OBVIOUS
  <2>1. BootTimersOwned
    BY DEF AppInv, BootOK, BootTimersOwned
  <2>2. RinseTimerOwned
    BY DEF AppInv, CleanOK, TimerOK, TimersFor, RinseTimerOwned
  <2>3. SnapTimerOwned
    BY DEF AppInv, HomeOK, SnapOK, SnapTimerOwned
  <2>4. StoresOwned
    BY DEF AppInv, StoresOK
  <2> QED
    BY <2>1, <2>2, <2>3, <2>4 DEF ResourcesOwned
<1> QED
  BY <1>1, AppInvAlways, PTL

\* The page manager's promises hold for the pages of the application.
THEOREM AppScreens == AppSpec => [](ScreenPointersValid /\ ShownScreensExist /\ CurrentIsShown)
<1>1. AppInv => ScreenPointersValid /\ ShownScreensExist /\ CurrentIsShown
  BY DEF AppInv, Inv
<1> QED
  BY <1>1, AppInvAlways, PTL

-----------------------------------------------------------------------------
(* What the settings pages show.  None of it depends on the timers.        *)

\* The tab, its content and the level are those of c.
SameContent(c, d) == /\ CleanWhole(d)
                     /\ d.tab = c.tab /\ d.content = c.content /\ d.built = c.built
                     /\ d.level = c.level /\ d.label = c.label

SameView(c, d) == /\ SameContent(c, d)
                  /\ d.prepare = c.prepare /\ d.overlay = c.overlay /\ d.status = c.status

Bare(c) == c.overlay = "none" /\ c.status = "idle"

ContentOK(c) == /\ c.content = c.tab
                /\ c.tab = "level" /\ c.built = 3 => c.label = c.level

\* The overlay with the time opens from the daily tab, to which its cancel
\* button returns.
ViewOK(c) == /\ CleanWhole(c)
             /\ c.prepare = "none" \/ c.overlay = "none"
             /\ c.status # "idle" => c.overlay = "button"
             /\ c.prepare = "time" => c.tab = "daily"
             /\ ContentOK(c)

LEMMA StopTimerView ==
  ASSUME NEW c, CleanWhole(c)
  PROVE  SameView(c, StopTimer(c))
<1>1. CASE c.timer = "none"
  BY <1>1 DEF StopTimer, SameView, SameContent
<1>2. CASE c.timer # "none"
  BY <1>2 DEF StopTimer, SameView, SameContent, CleanWhole, CleanFields
<1> QED
  BY <1>1, <1>2

LEMMA DeleteRinseView ==
  ASSUME NEW c, CleanWhole(c)
  PROVE  /\ SameContent(c, DeleteRinse(c)) /\ Bare(DeleteRinse(c))
         /\ DeleteRinse(c).prepare = c.prepare
<1> DEFINE s == StopTimer(c)
           d == [s EXCEPT !.overlay = "none", !.status = "idle", !.after = "return"]
<1>1. SameView(c, s)
  BY StopTimerView
<1>2. DeleteRinse(c) = d
  BY DEF DeleteRinse
<1> HIDE DEF s
<1>3. SameContent(s, d) /\ Bare(d) /\ d.prepare = s.prepare
  BY <1>1 DEF SameView, SameContent, Bare, CleanWhole, CleanFields
<1> QED
  BY <1>1, <1>2, <1>3 DEF SameView, SameContent

LEMMA DeletePrepareView ==
  ASSUME NEW c, CleanWhole(c)
  PROVE  /\ SameContent(c, DeletePrepare(c)) /\ DeletePrepare(c).prepare = "none"
         /\ DeletePrepare(c).overlay = c.overlay /\ DeletePrepare(c).status = c.status
  BY DEF DeletePrepare, SameContent, CleanWhole, CleanFields

LEMMA ContentForView ==
  ASSUME NEW c, NEW tab, NEW g, CleanWhole(c), g \in ContentFor(c, tab)
  PROVE  /\ CleanWhole(g) /\ g.tab = c.tab /\ g.content = tab
         /\ tab = "level" /\ g.built = 3 => g.label = g.level
         /\ g.prepare = c.prepare /\ g.overlay = c.overlay /\ g.status = c.status
<1>1. PICK n \in Parts(3) :
          g = [c EXCEPT !.content = tab, !.built = n,
                        !.label = IF tab # "level" THEN @ ELSE IF n = 3 THEN c.level ELSE 2]
  BY DEF ContentFor
<1> QED
  BY <1>1 DEF CleanWhole, CleanFields

LEMMA CreatePrepareView ==
  ASSUME NEW c, NEW kind, NEW next, NEW g, CleanWhole(c), g \in CreatePrepare(c, kind, next)
  PROVE  SameContent(c, g) /\ Bare(g) /\ g.prepare \in {kind, "none"}
<1> DEFINE p == DeletePrepare(c)
           d == DeleteRinse(p)
           e == IF kind = "time" THEN [d EXCEPT !.time = 32] ELSE [d EXCEPT !.next = next]
<1>1. SameContent(c, p) /\ p.prepare = "none"
  BY DeletePrepareView
<1>2. g = e \/ \E n : g = [e EXCEPT !.prepare = kind, !.controls = n]
  BY DEF CreatePrepare, IfFails
<1> HIDE DEF p
<1>3. SameContent(c, d) /\ Bare(d) /\ d.prepare = "none"
  BY <1>1, DeleteRinseView DEF SameContent
<1> HIDE DEF d
<1>4. SameContent(c, e) /\ Bare(e) /\ e.prepare = "none"
  BY <1>3 DEF SameContent, Bare, CleanWhole, CleanFields
<1> HIDE DEF e
<1> QED
  BY <1>2, <1>4 DEF SameContent, Bare, CleanWhole, CleanFields

LEMMA RinseOverView ==
  ASSUME NEW c, NEW status, NEW g, CleanWhole(c), g \in RinseOver(c, status)
  PROVE  /\ SameContent(c, g) /\ g.prepare = c.prepare /\ g.overlay = c.overlay
         /\ g.status = status
<1> DEFINE d == [c EXCEPT !.status = status]
           s == StopTimer(d)
<1>1. g \in {[s EXCEPT !.lvgl.return = @ + 1, !.timer = "return"], d}
  BY DEF RinseOver, ScheduleReturn, IfFails
<1>2. SameContent(c, d) /\ d.prepare = c.prepare /\ d.overlay = c.overlay /\ d.status = status
  BY DEF SameContent, CleanWhole, CleanFields
<1> HIDE DEF d
<1>3. SameView(d, s)
  BY <1>2, StopTimerView DEF SameContent
<1> HIDE DEF s
<1>4. SameView(s, [s EXCEPT !.lvgl.return = @ + 1, !.timer = "return"])
  BY <1>3 DEF SameView, SameContent, CleanWhole, CleanFields
<1> QED
  BY <1>1, <1>2, <1>3, <1>4 DEF SameView, SameContent

LEMMA CreateRinseView ==
  ASSUME NEW c, NEW g, CleanWhole(c), g \in CreateRinse(c)
  PROVE  /\ SameContent(c, g) /\ g.prepare = c.prepare
         /\ g.status # "idle" => g.overlay = "button"
<1> DEFINE d == DeleteRinse(c)
           shown == [d EXCEPT !.overlay = "button", !.elapsed = 0]
           run == [shown EXCEPT !.status = "running", !.lvgl.rinse = @ + 1, !.timer = "rinse"]
<1>1. SameContent(c, d) /\ Bare(d) /\ d.prepare = c.prepare
  BY DeleteRinseView
<1>2. \/ g = run
      \/ g \in {d, [d EXCEPT !.overlay = "bare"], [d EXCEPT !.overlay = "button"]}
      \/ g \in RinseOver(shown, "interrupted")
  BY DEF CreateRinse, IfFails
<1> HIDE DEF d
<1>3. SameContent(c, shown) /\ shown.prepare = c.prepare /\ shown.overlay = "button"
  BY <1>1 DEF SameContent, CleanWhole, CleanFields
<1>4. CASE g \in {d, [d EXCEPT !.overlay = "bare"], [d EXCEPT !.overlay = "button"]}
  BY <1>1, <1>4 DEF SameContent, Bare, CleanWhole, CleanFields
<1> HIDE DEF shown
<1>5. CASE g = run
  BY <1>3, <1>5 DEF SameContent, CleanWhole, CleanFields
<1>6. CASE g \in RinseOver(shown, "interrupted")
  BY <1>3, <1>6, RinseOverView DEF SameContent
<1> QED
  BY <1>2, <1>4, <1>5, <1>6

LEMMA StartRinseView ==
  ASSUME NEW c, NEW after, NEW g, CleanWhole(c), ContentOK(c), c.prepare = "none", g \in StartRinse(c, after)
  PROVE  ViewOK(g)
<1> DEFINE d == [c EXCEPT !.elapsed = 0]
<1>1. PICK r \in CreateRinse(d) : g = [r EXCEPT !.after = after]
  BY DEF StartRinse
<1>2. SameView(c, d)
  BY DEF SameView, SameContent, CleanWhole, CleanFields
<1> HIDE DEF d
<1>3. SameContent(c, r) /\ r.prepare = "none" /\ (r.status # "idle" => r.overlay = "button")
  BY <1>1, <1>2, CreateRinseView DEF SameView, SameContent
<1>4. SameView(r, g)
  BY <1>1, <1>3 DEF SameView, SameContent, CleanWhole, CleanFields
<1> QED
  BY <1>3, <1>4 DEF ViewOK, ContentOK, SameView, SameContent

\* An overlay that prepares a rinse, opened on a page with a right content.
LEMMA PrepareViewOK ==
  ASSUME NEW c, NEW kind, NEW next, NEW g, CleanWhole(c), ContentOK(c), g \in CreatePrepare(c, kind, next),
         kind = "time" => c.tab = "daily"
  PROVE  ViewOK(g)
<1>1. SameContent(c, g) /\ Bare(g) /\ g.prepare \in {kind, "none"}
  BY CreatePrepareView
<1> QED
  BY <1>1 DEF ViewOK, ContentOK, SameContent, Bare

LEMMA CleaningClickView ==
  ASSUME ViewOK(clean), CleaningClick
  PROVE  ViewOK(clean)'
<1> DEFINE p == DeletePrepare(clean)
<1>1. CleanWhole(clean) /\ ContentOK(clean)
  BY DEF ViewOK
<1>2. SameContent(clean, p) /\ p.prepare = "none" /\ p.overlay = clean.overlay /\ p.status = clean.status
  BY <1>1, DeletePrepareView
<1>3. CleanWhole(p) /\ ContentOK(p) /\ ViewOK(p)
  BY <1>1, <1>2 DEF SameContent, ContentOK, ViewOK
<1> HIDE DEF p
<1>4. CASE CardClicked
  <2>1. clean.prepare = "none" /\ clean.content = clean.tab
    BY <1>1, <1>4 DEF CardClicked, Uncovered, ContentOK
  <2>2. PICK i \in 1..clean.built :
           \/ clean.content = "daily" /\ clean' \in StartRinse(clean, "return")
           \/ clean.content = "daily" /\ clean' \in CreatePrepare(clean, "time", clean.next)
           \/ clean.content = "maintenance" /\ clean' \in CreatePrepare(clean, "tablet", Maintenance[i])
    BY <1>4 DEF CardClicked
  <2>3. CASE clean' \in StartRinse(clean, "return")
    BY <1>1, <2>1, <2>3, StartRinseView
  <2>4. CASE clean.content = "daily" /\ clean' \in CreatePrepare(clean, "time", clean.next)
    BY <1>1, <2>1, <2>4, PrepareViewOK
  <2>5. CASE clean' \in CreatePrepare(clean, "tablet", Maintenance[i])
    BY <1>1, <2>5, PrepareViewOK
  <2> QED
    BY <2>2, <2>3, <2>4, <2>5
<1>5. CASE LevelTouched
  BY <1>5 DEF LevelTouched, ViewOK, ContentOK, CleanWhole, CleanFields
<1>6. CASE TimeTouched
  BY <1>6 DEF TimeTouched, ViewOK, ContentOK, CleanWhole, CleanFields
<1>7. CASE MenuClicked
  <2> DEFINE d == DeleteRinse(p)
  <2>1. PICK tab \in Tabs : clean' \in ContentFor([d EXCEPT !.tab = tab], tab)
    BY <1>7 DEF MenuClicked, p
  <2>2. CleanWhole(d) /\ Bare(d) /\ d.prepare = "none"
    BY <1>2, <1>3, DeleteRinseView DEF SameContent
  <2> HIDE DEF d
  <2> DEFINE e == [d EXCEPT !.tab = tab]
  <2>3. CleanWhole(e) /\ Bare(e) /\ e.prepare = "none" /\ e.tab = tab /\ clean' \in ContentFor(e, tab)
    BY <2>1, <2>2 DEF CleanWhole, CleanFields, Bare
  <2> HIDE DEF e
  <2>4. /\ CleanWhole(clean') /\ clean'.tab = tab /\ clean'.content = tab
        /\ tab = "level" /\ clean'.built = 3 => clean'.label = clean'.level
        /\ clean'.prepare = "none" /\ clean'.overlay = "none" /\ clean'.status = "idle"
    BY <2>3, ContentForView DEF Bare
  <2> QED
    BY <2>4 DEF ViewOK, ContentOK
<1>8. CASE CancelClicked
  <2>1. \/ clean' = p
        \/ \E tab : p.tab = tab /\ clean' \in ContentFor(p, tab)
    BY <1>2, <1>8 DEF CancelClicked, p, ViewOK, SameContent
  <2>2. CASE clean' = p
    BY <1>3, <2>2
  <2>3. CASE \E tab : p.tab = tab /\ clean' \in ContentFor(p, tab)
    <3>1. PICK tab : p.tab = tab /\ clean' \in ContentFor(p, tab)
      BY <2>3
    <3>2. /\ CleanWhole(clean') /\ clean'.tab = tab /\ clean'.content = tab
          /\ tab = "level" /\ clean'.built = 3 => clean'.label = clean'.level
          /\ clean'.prepare = "none" /\ clean'.overlay = p.overlay /\ clean'.status = p.status
      BY <1>2, <1>3, <3>1, ContentForView
    <3> QED
      BY <1>3, <3>2 DEF ViewOK, ContentOK
  <2> QED
    BY <2>1, <2>2, <2>3
<1>9. CASE GoClicked
  BY <1>2, <1>3, <1>9, StartRinseView DEF GoClicked, p
<1>10. CASE RinseClicked
  <2>1. clean.overlay = "button" /\ clean.prepare = "none"
    BY <1>10 DEF RinseClicked, ViewOK
  <2>2. CASE clean' \in RinseOver(clean, "interrupted")
    BY <1>1, <2>1, <2>2, RinseOverView DEF ViewOK, ContentOK, SameContent
  <2>3. CASE clean' = DeleteRinse([clean EXCEPT !.elapsed = 0])
    <3> DEFINE e == [clean EXCEPT !.elapsed = 0]
    <3>1. SameView(clean, e)
      BY <1>1 DEF SameView, SameContent, CleanWhole, CleanFields
    <3> HIDE DEF e
    <3>2. SameContent(e, clean') /\ Bare(clean') /\ clean'.prepare = e.prepare
      BY <2>3, <3>1, DeleteRinseView DEF e, SameView, SameContent
    <3> QED
      BY <1>1, <2>1, <3>1, <3>2 DEF ViewOK, ContentOK, SameView, SameContent, Bare
  <2> QED
    BY <1>10, <2>2, <2>3 DEF RinseClicked
<1> QED
  BY <1>4, <1>5, <1>6, <1>7, <1>8, <1>9, <1>10 DEF CleaningClick

LEMMA CleaningTimerView ==
  ASSUME ViewOK(clean), RinseTick \/ ReturnTimer
  PROVE  ViewOK(clean)'
<1>1. CleanWhole(clean) /\ ContentOK(clean)
  BY DEF ViewOK
<1>2. CASE RinseTick
  <2> DEFINE c == [clean EXCEPT !.elapsed = @ + 1]
  <2>1. SameView(clean, c)
    BY <1>1 DEF SameView, SameContent, CleanWhole, CleanFields
  <2>2. \/ clean' = clean \/ clean' = c
        \/ clean.status = "running" /\ clean' \in RinseOver(c, "complete")
    BY <1>2 DEF RinseTick
  <2> HIDE DEF c
  <2>3. ViewOK(c)
    BY <2>1 DEF ViewOK, ContentOK, SameView, SameContent
  <2>4. CASE clean.status = "running" /\ clean' \in RinseOver(c, "complete")
    <3>1. c.overlay = "button"
      BY <2>1, <2>4 DEF ViewOK, SameView
    <3>2. SameContent(c, clean') /\ clean'.prepare = c.prepare /\ clean'.overlay = c.overlay
      BY <2>3, <2>4, RinseOverView DEF ViewOK
    <3> QED
      BY <2>3, <3>1, <3>2 DEF ViewOK, ContentOK, SameContent
  <2> QED
    BY <2>2, <2>3, <2>4
<1>3. CASE ReturnTimer
  <2> DEFINE b == [clean EXCEPT !.timer = "none", !.lvgl.return = @ - 1]
             c == DeleteRinse(b)
  <2>1. SameView(clean, b)
    BY <1>1 DEF SameView, SameContent, CleanWhole, CleanFields
  <2>2. clean' = c \/ clean' \in CreatePrepare(c, "water", "return")
    BY <1>3 DEF ReturnTimer
  <2> HIDE DEF b
  <2>3. SameContent(b, c) /\ Bare(c) /\ c.prepare = b.prepare
    BY <2>1, DeleteRinseView DEF SameView, SameContent
  <2> HIDE DEF c
  <2>4. ViewOK(c)
    BY <2>1, <2>3 DEF ViewOK, ContentOK, SameView, SameContent, Bare
  <2> QED
    BY <2>2, <2>4, PrepareViewOK DEF ViewOK
<1> QED
  BY <1>2, <1>3

LEMMA CleaningLifeView ==
  ASSUME ViewOK(clean), CleaningLife
  PROVE  ViewOK(clean)'
<1>1. \/ clean' = [Closed EXCEPT !.alive = TRUE, !.built = 3]
      \/ clean' = [Closed EXCEPT !.lvgl = DeleteRinse(clean).lvgl]
      \/ clean' = clean
  BY DEF CleaningLife, Life, CleaningCreate, CleaningDestroy
<1> QED
  BY <1>1 DEF Closed, ViewOK, ContentOK, CleanWhole, CleanFields

LEMMA CleaningBackView ==
  ASSUME ViewOK(clean), CleaningBack
  PROVE  ViewOK(clean)'
<1> DEFINE p == DeletePrepare(clean)
<1>1. SameContent(clean, p) /\ p.prepare = "none"
  BY DeletePrepareView DEF ViewOK
<1>2. clean' = DeleteRinse(p)
  BY DEF CleaningBack
<1> HIDE DEF p
<1>3. SameContent(p, clean') /\ Bare(clean') /\ clean'.prepare = "none"
  BY <1>1, <1>2, DeleteRinseView DEF SameContent
<1> QED
  BY <1>1, <1>3 DEF ViewOK, ContentOK, SameContent, Bare

\* The lists and the bar.
ChooserFields == {"alive", "rows", "selected", "marked"}
RowOptions(p) == 0..(Options[p] - 1)
MarksOK(p, c) == /\ c = [x \in ChooserFields |-> c[x]]
                 /\ c.rows \subseteq RowOptions(p)
                 /\ c.selected \in RowOptions(p)
                 /\ c.marked = {i \in c.rows : IF p = "brightness" THEN i <= c.selected
                                               ELSE i = c.selected}
ChoosersOK == /\ chooser = [p \in Choosers |-> chooser[p]]
              /\ \A p \in Choosers : MarksOK(p, chooser[p])

LEMMA MarkedRows ==
  ASSUME NEW p \in Choosers, NEW n \in RowOptions(p), NEW rows \in SUBSET RowOptions(p)
  PROVE  MarkedFor(p, n) \cap rows = {i \in rows : IF p = "brightness" THEN i <= n ELSE i = n}
<1>1. Options[p] \in Nat \ {0}
  BY OptionsAssumption
<1>2. \A i \in rows : i \in Int /\ i >= 0
  BY <1>1 DEF RowOptions
<1> QED
  <2>1. CASE p = "brightness"
    <3>1. n \in Int /\ MarkedFor(p, n) = 0..n
      BY <1>1, <2>1 DEF MarkedFor, RowOptions
    <3>2. \A i \in rows : i \in 0..n <=> i <= n
      BY <1>2, <3>1
    <3> QED
      BY <2>1, <3>1, <3>2
  <2>2. CASE p # "brightness"
    BY <2>2 DEF MarkedFor
  <2> QED
    BY <2>1, <2>2

LEMMA ChooserLifeMarks ==
  ASSUME ChoosersOK, ChooserLife
  PROVE  ChoosersOK'
<1>1. \/ \E p \in Choosers : ChooserCreate(p)
      \/ \E p \in Choosers : ChooserDestroy(p)
      \/ UNCHANGED chooser
  BY DEF ChooserLife
<1>2. ASSUME NEW p \in Choosers, NEW c, MarksOK(p, c), chooser' = [chooser EXCEPT ![p] = c]
      PROVE  ChoosersOK'
  BY <1>2 DEF ChoosersOK
<1>3. ASSUME NEW p \in Choosers, ChooserCreate(p)
      PROVE  ChoosersOK'
  <2>1. PICK rows \in SUBSET RowOptions(p) :
            chooser' = [chooser EXCEPT ![p] = [alive |-> TRUE, rows |-> rows, selected |-> Default[p],
                                               marked |-> MarkedFor(p, Default[p]) \cap rows]]
    BY <1>3 DEF ChooserCreate, IfFails, RowOptions
  <2> DEFINE c == [alive |-> TRUE, rows |-> rows, selected |-> Default[p],
                   marked |-> MarkedFor(p, Default[p]) \cap rows]
  <2>2. Default[p] \in RowOptions(p)
    BY OptionsAssumption DEF RowOptions
  <2>3. c.marked = {i \in rows : IF p = "brightness" THEN i <= Default[p] ELSE i = Default[p]}
    BY <2>2, MarkedRows
  <2>4. MarksOK(p, c)
    BY <2>2, <2>3 DEF MarksOK, ChooserFields
  <2> QED
    BY <1>2, <2>1, <2>4
<1>4. ASSUME NEW p \in Choosers, ChooserDestroy(p)
      PROVE  ChoosersOK'
  <2>1. Options[p] \in Nat \ {0}
    BY OptionsAssumption
  <2>2. MarksOK(p, NoChooser)
    BY <2>1 DEF MarksOK, ChooserFields, NoChooser, RowOptions
  <2> QED
    BY <1>2, <1>4, <2>2 DEF ChooserDestroy
<1> QED
  BY <1>1, <1>3, <1>4 DEF ChoosersOK

LEMMA ChooserClickMarks ==
  ASSUME ChoosersOK, NEW p \in Choosers, ChooserClick(p)
  PROVE  ChoosersOK'
<1>1. MarksOK(p, chooser[p]) /\ \A q \in Choosers : MarksOK(q, chooser[q])
  BY DEF ChoosersOK
<1>2. PICK n \in RowOptions(p) : Select(p, n)
  BY <1>1 DEF ChooserClick, RowClicked, StepClicked, MarksOK, RowOptions
<1> DEFINE c == [chooser[p] EXCEPT !.selected = n, !.marked = MarkedFor(p, n) \cap chooser[p].rows]
<1>3. chooser' = [chooser EXCEPT ![p] = c]
  BY <1>1, <1>2 DEF Select, ChoosersOK, MarksOK, ChooserFields
<1>4. MarkedFor(p, n) \cap chooser[p].rows
        = {i \in chooser[p].rows : IF p = "brightness" THEN i <= n ELSE i = n}
  BY <1>1, MarkedRows DEF MarksOK
<1>5. MarksOK(p, c)
  BY <1>1, <1>4 DEF MarksOK, ChooserFields
<1> HIDE DEF c
<1> QED
  BY <1>1, <1>3, <1>5 DEF ChoosersOK

\* The details page.
DetailsFields == {"alive", "tab", "button", "modal"}
DetailsOK == /\ details = [x \in DetailsFields |-> details[x]]
             /\ details.button \in BOOLEAN /\ details.modal \in BOOLEAN
             /\ ModalOnItsTab

LEMMA DetailsLifeOK ==
  ASSUME DetailsOK, DetailsLife
  PROVE  DetailsOK'
<1>1. details' = [NoDetails EXCEPT !.alive = TRUE] \/ details' = NoDetails \/ details' = details
  BY DEF DetailsLife, Life, DetailsCreate, DetailsDestroy
<1>2. CASE details' = details
  BY <1>2 DEF DetailsOK, ModalOnItsTab
<1>3. CASE details' = NoDetails
  BY <1>3 DEF DetailsOK, DetailsFields, NoDetails, ModalOnItsTab
<1>4. CASE details' = [NoDetails EXCEPT !.alive = TRUE]
  <2>1. details' = [x \in DetailsFields |-> details'[x]] /\ details'.button = FALSE /\ details'.modal = FALSE
    BY <1>4 DEF DetailsFields, NoDetails
  <2> QED
    BY <2>1 DEF DetailsOK, ModalOnItsTab
<1> QED
  BY <1>1, <1>2, <1>3, <1>4

LEMMA DetailsClickOK ==
  ASSUME DetailsOK, DetailsClick
  PROVE  DetailsOK'
<1>1. CASE DetailsMenuClicked
  <2>1. PICK tab, button : /\ button \in {tab = "machine", FALSE}
                           /\ ~details.modal
                           /\ details' = [details EXCEPT !.tab = tab, !.button = button]
    BY <1>1 DEF DetailsMenuClicked, IfFails
  <2> QED
    BY <2>1 DEF DetailsOK, DetailsFields, ModalOnItsTab
<1>2. CASE FactoryClicked
  BY <1>2 DEF FactoryClicked, DetailsOK, DetailsFields, ModalOnItsTab
<1> QED
  BY <1>1, <1>2 DEF DetailsClick

SettingsInv == ViewOK(clean) /\ ChoosersOK /\ DetailsOK

LEMMA SettingsInitInv == AppInit => SettingsInv
<1> SUFFICES ASSUME AppInit PROVE SettingsInv
  OBVIOUS
<1>1. clean = Closed /\ chooser = [p \in Choosers |-> NoChooser] /\ details = NoDetails
  BY DEF AppInit, CleaningInit, SettingsInit
<1>2. ViewOK(clean)
  BY <1>1 DEF Closed, ViewOK, ContentOK, CleanWhole, CleanFields
<1>3. ChoosersOK
  <2>1. \A p \in Choosers : Options[p] \in Nat \ {0}
    BY OptionsAssumption
  <2>2. \A p \in Choosers : MarksOK(p, NoChooser)
    BY <2>1 DEF MarksOK, ChooserFields, NoChooser, RowOptions
  <2> QED
    BY <1>1, <2>2 DEF ChoosersOK
<1>4. DetailsOK
  BY <1>1 DEF DetailsOK, DetailsFields, NoDetails, ModalOnItsTab
<1> QED
  BY <1>2, <1>3, <1>4 DEF SettingsInv

LEMMA SettingsNextInv == SettingsInv /\ [PageNext]_pageVars => SettingsInv'
<1> SUFFICES ASSUME SettingsInv, [PageNext]_pageVars PROVE SettingsInv'
  OBVIOUS
<1>1. ViewOK(clean) /\ ChoosersOK /\ DetailsOK
  BY DEF SettingsInv
<1>2. /\ UNCHANGED clean => ViewOK(clean)'
      /\ UNCHANGED chooser => ChoosersOK'
      /\ UNCHANGED details => DetailsOK'
  BY <1>1 DEF ChoosersOK, DetailsOK, ModalOnItsTab
<1>3. CASE OthersLive
  BY <1>1, <1>3, CleaningLifeView, ChooserLifeMarks, DetailsLifeOK DEF OthersLive, SettingsInv
<1>4. CASE CleaningLeft
  BY <1>1, <1>4, CleaningBackView, ChooserLifeMarks, DetailsLifeOK DEF CleaningLeft, SettingsInv
<1>5. CASE Touched
  <2>1. ViewOK(clean)'
    BY <1>1, <1>2, <1>5, CleaningClickView DEF Touched
  <2>2. ChoosersOK'
    BY <1>1, <1>2, <1>5, ChooserClickMarks DEF Touched
  <2>3. DetailsOK'
    BY <1>1, <1>2, <1>5, DetailsClickOK DEF Touched
  <2> QED
    BY <2>1, <2>2, <2>3 DEF SettingsInv
<1>6. CASE CleaningTimer
  <2>1. UNCHANGED <<chooser, details>> /\ (RinseTick \/ ReturnTimer)
    BY <1>6 DEF CleaningTimer, Elsewhere
  <2> QED
    BY <1>1, <1>2, <2>1, CleaningTimerView DEF SettingsInv
<1>7. CASE BootTimer \/ CarouselTimer \/ UNCHANGED pageVars
  <2>1. UNCHANGED <<clean, chooser, details>>
    BY <1>7 DEF BootTimer, CarouselTimer, CarouselOnly, Elsewhere, pageVars
  <2> QED
    BY <1>2, <2>1 DEF SettingsInv
<1>8. PageChange => OthersLive \/ CleaningLeft
  BY DEF PageChange, AppStarts, BootOver, RecipeOpened, SettingsOpened, ItemOpened, PlainBack,
         DetailsBack, PageShown, AllLive
<1> QED
  BY <1>3, <1>4, <1>5, <1>6, <1>7, <1>8 DEF PageNext

\* Whatever is clicked, interrupted or could not be made: the cleaning page
\* shows one overlay and the content of its tab, a list or bar marks what is
\* selected, and the reset question is asked on its own tab only.
THEOREM SettingsShown == AppSpec => []SettingsTruthful
<1>1. SettingsInv => SettingsTruthful
  BY DEF SettingsInv, ViewOK, ContentOK, ChoosersOK, MarksOK, RowOptions, DetailsOK, SettingsTruthful,
         OneOverlay, ContentFollowsTab, SelectionShown
<1> QED
  BY <1>1, SettingsInitInv, SettingsNextInv, PageStepOnly, PTL DEF AppSpec

-----------------------------------------------------------------------------
(* The way back.  The pages form a tree below the home page, and the       *)
(* history is the path from there to the page that is shown or coming in,  *)
(* without the levels that backs have lost.                                *)

SubPages == Choosers \cup {"cleaning", "details"}

\* LVGL handles no touch while a page slides in, and the tree fits the history.
AppConfig == ~CallsWhileAnimating /\ HistorySize >= 2

\* What may be left of the path to page p.
Ways(p) == CASE p \in {"running", "settings"} -> {<<>>, <<"home">>}
             [] p \in SubPages -> {<<>>, <<"home">>, <<"settings">>, <<"home", "settings">>}
             [] OTHER -> {<<>>}

WayTo(p, h, lost) == h \in Ways(p) /\ lost \in Int /\ Len(h) + lost = Len(Path(p))

PathInv == /\ frozen = {}
           /\ switching <=> loading # NoPage
           /\ switching => transition = loading
           /\ WayTo(Going, history, past.lost)

LEMMA Paths ==
  /\ \A p \in {"running", "settings"} : Len(Path(p)) = 1 /\ Ways(p) = {<<>>, <<"home">>}
  /\ \A p \in SubPages : /\ Len(Path(p)) = 2 /\ p \notin {"home", "running", "settings"}
                         /\ Ways(p) = {<<>>, <<"home">>, <<"settings">>, <<"home", "settings">>}
  /\ \A p : p \notin {"running", "settings"} \cup SubPages => Len(Path(p)) = 0 /\ Ways(p) = {<<>>}
  BY DEF Path, Ways, SubPages, Choosers

LEMMA Lost ==
  ASSUME Remember
  PROVE  past'.lost = IF Going' = "home" THEN 0
                      ELSE IF Going' = Going /\ Len(history') < Len(history) THEN past.lost + 1
                      ELSE past.lost
  BY DEF Remember

\* A page change between two pages that comes in with what is left of the path.
LEMMA LoadPath ==
  ASSUME PathInv, NEW p \in Pages, NEW add \in BOOLEAN, NEW h, p # active,
         Load(p, TRUE, add, h), WayTo(p, history', past'.lost)
  PROVE  PathInv'
<1>1. switching' = TRUE /\ transition' = p /\ loading' = p /\ frozen' = {}
  BY DEF Load, PathInv
<1>2. p # NoPage
  BY PageAssumption
<1>3. Going' = p
  BY <1>1 DEF Going
<1> QED
  BY <1>1, <1>2, <1>3 DEF PathInv

\* No page change, but perhaps a level less.
LEMMA StayPath ==
  ASSUME PathInv, UNCHANGED <<frozen, switching, transition, loading, current>>,
         WayTo(Going, history', past'.lost)
  PROVE  PathInv'
<1>1. Going' = Going
  BY DEF Going
<1> QED
  BY <1>1 DEF PathInv

\* A step that leaves the history alone loses nothing.
LEMMA SamePath ==
  ASSUME PathInv, Remember, UNCHANGED <<frozen, switching, transition, loading, current, history>>
  PROVE  PathInv'
<1>1. Going' = Going
  BY DEF Going
<1>2. past'.lost = IF Going = "home" THEN 0 ELSE past.lost
  <2>1. ~(Len(history') < Len(history))
    BY Paths DEF PathInv, WayTo
  <2> QED
    BY <1>1, <2>1, Lost
<1>3. Going = "home" => past.lost = 0
  <2> HAVE Going = "home"
  <2>1. Len(Path("home")) = 0 /\ Ways("home") = {<<>>}
    BY Paths DEF SubPages, Choosers
  <2> QED
    BY <2>1 DEF PathInv, WayTo
<1>4. past'.lost = past.lost
  BY <1>2, <1>3
<1> QED
  BY <1>4, StayPath DEF PathInv

LEMMA DirectPath ==
  ASSUME PathInv, Remember, NEW p, NEW h, NEW add, h = <<>>, add = FALSE,
         Going \in {NoPage, "boot"}, p \in {"boot", "home"}, Load(p, FALSE, add, h)
  PROVE  PathInv'
<1>1. /\ ~switching /\ switching' = switching /\ loading' = NoPage /\ frozen' = {}
      /\ current' = p /\ history' = <<>>
  BY DEF Load, Refused, ActivateNow, PathInv
<1>2. Going' = p
  BY <1>1 DEF Going
<1>3. /\ Len(Path(p)) = 0 /\ Ways(p) = {<<>>}
      /\ Len(Path(Going)) = 0 /\ Ways(Going) = {<<>>}
  BY Paths, PageAssumption, AppAssumption DEF SubPages, Choosers
<1>4. past.lost = 0 /\ history = <<>>
  BY <1>3 DEF PathInv, WayTo
<1>5. past'.lost = 0
  BY <1>1, <1>4, Lost
<1> QED
  BY <1>1, <1>2, <1>3, <1>5 DEF PathInv, WayTo

\* A page that can be touched is the current one.
LEMMA UsableIsCurrent ==
  ASSUME AppConfig, Inv, PathInv, NEW p, Usable(p)
  PROVE  ~switching /\ p = active /\ current = p /\ Going = p /\ WayTo(p, history, past.lost)
  BY DEF AppConfig, Usable, Inv, CurrentIsShown, PathInv, Going

LEMMA ToPath ==
  ASSUME AppConfig, Inv, PathInv, Remember, NEW from \in Pages, NEW to \in Pages, from # to, to # "home",
         \A h \in Ways(from) : Append(h, from) \in Ways(to) /\ Len(h) < 2 /\ Len(Append(h, from)) = Len(h) + 1,
         Len(Path(to)) = Len(Path(from)) + 1, Len(Path(from)) \in Nat,
         SwitchBy(To(from, to))
  PROVE  PathInv'
<1>1. Usable(from) /\ (Load(to, TRUE, TRUE, history) \/ CreateFails(to, history))
  BY DEF SwitchBy, To
<1>2. ~switching /\ active = from /\ current = from /\ Going = from /\ WayTo(from, history, past.lost)
  BY <1>1, UsableIsCurrent
<1>3. CASE Load(to, TRUE, TRUE, history)
  <2>1. Len(history) # HistorySize /\ from # NoPage /\ Len(history) \in Int
    BY <1>2, PageAssumption, Paths DEF AppConfig, WayTo
  <2>2. Pushed(history, current) = Append(history, from)
    BY <1>2, <2>1 DEF Pushed
  <2>3. history' = Append(history, from) /\ transition' = to /\ switching' = TRUE
    BY <1>2, <1>3, <2>2 DEF Load
  <2>4. past'.lost = past.lost
    BY <1>2, <2>3, Lost DEF Going
  <2>5. WayTo(to, history', past'.lost)
    BY <1>2, <2>1, <2>3, <2>4 DEF WayTo
  <2> QED
    BY <1>2, <1>3, <2>5, LoadPath
<1>4. CASE CreateFails(to, history)
  BY <1>4, SamePath DEF CreateFails, lvgl
<1> QED
  BY <1>1, <1>3, <1>4

\* What is on top of the history, and what is left without it.
LEMMA TopOf ==
  ASSUME NEW q \in Seq({"home", "settings"}), NEW x, history = Append(q, x)
  PROVE  Top = x /\ Popped = q /\ Len(history) = Len(q) + 1 /\ Len(q) \in Nat
  BY DEF Top, Popped

LEMMA Tops ==
  ASSUME NEW p \in {"running", "settings"} \cup SubPages, history \in Ways(p), history # <<>>
  PROVE  /\ Top \in {"home", "settings"} /\ Top # p
         /\ Popped \in Ways(p) /\ Len(Popped) = Len(history) - 1 /\ Len(history) \in Nat
         /\ Top = "home" => Popped = <<>>
         /\ Top = "settings" => p \in SubPages /\ Popped \in Ways("settings")
<1>1. <<>> \in Seq({"home", "settings"}) /\ <<"home">> \in Seq({"home", "settings"})
  OBVIOUS
<1>2. <<"home">> = Append(<<>>, "home") /\ <<"settings">> = Append(<<>>, "settings")
  OBVIOUS
<1>3. <<"home", "settings">> = Append(<<"home">>, "settings")
  OBVIOUS
<1>4. \A s : s \in Seq({"home", "settings"}) => Len(s) \in Nat
  OBVIOUS
<1>5. CASE p \in SubPages
  <2>1. history \in {<<"home">>, <<"settings">>, <<"home", "settings">>} /\ p \notin {"home", "settings"}
    BY <1>5, Paths
  <2>2. \E q \in {<<>>, <<"home">>}, x \in {"home", "settings"} :
           history = Append(q, x) /\ (x = "home" => q = <<>>)
    BY <1>2, <1>3, <2>1, Zenon
  <2>3. PICK q \in {<<>>, <<"home">>}, x \in {"home", "settings"} :
           history = Append(q, x) /\ (x = "home" => q = <<>>)
    BY <2>2
  <2>4. Top = x /\ Popped = q /\ Len(history) = Len(q) + 1 /\ Len(q) \in Nat
    BY <1>1, <2>3, TopOf
  <2>5. q \in Ways(p) /\ q \in Ways("settings")
    BY <1>5, Paths
  <2> QED
    BY <1>5, <2>1, <2>3, <2>4, <2>5
<1>6. CASE p \in {"running", "settings"}
  <2>1. history = Append(<<>>, "home") /\ p # "home"
    BY <1>2, <1>6, Paths
  <2>2. Top = "home" /\ Popped = <<>> /\ Len(history) = Len(<<>>) + 1 /\ Len(<<>>) \in Nat
    BY <1>1, <2>1, TopOf
  <2>3. <<>> \in Ways(p)
    BY <1>6, Paths
  <2> QED
    BY <2>1, <2>2, <2>3
<1> QED
  BY <1>5, <1>6

LEMMA BackPath ==
  ASSUME AppConfig, Inv, PathInv, Remember, NEW p \in {"running", "settings"} \cup SubPages, BackFrom(p)
  PROVE  PathInv'
<1>1. ~switching /\ active = p /\ current = p /\ Going = p /\ WayTo(p, history, past.lost) /\ history # <<>>
  BY UsableIsCurrent DEF BackFrom
<1>2. /\ Top \in {"home", "settings"} /\ Top # p
      /\ Popped \in Ways(p) /\ Len(Popped) = Len(history) - 1 /\ Len(history) \in Nat
      /\ Top = "home" => Popped = <<>>
      /\ Top = "settings" => p \in SubPages /\ Popped \in Ways("settings")
  BY <1>1, Tops DEF WayTo
<1>3. p # "home" /\ Top \in Pages
  BY <1>2, AppAssumption DEF SubPages, Choosers
<1>4. CASE Load(Top, TRUE, FALSE, Popped)
  <2>1. history' = Popped /\ transition' = Top /\ switching' = TRUE
    BY <1>4 DEF Load
  <2>2. Going' = Top
    BY <2>1 DEF Going
  <2>3. past'.lost = IF Top = "home" THEN 0 ELSE past.lost
    BY <1>1, <1>2, <2>2, Lost
  <2>4. CASE Top = "home"
    <3>1. Len(Path("home")) = 0 /\ Ways("home") = {<<>>} /\ Len(<<>>) = 0
      BY Paths DEF SubPages, Choosers
    <3>2. WayTo("home", <<>>, 0)
      BY <3>1 DEF WayTo
    <3>3. history' = <<>> /\ past'.lost = 0
      BY <1>2, <2>1, <2>3, <2>4
    <3> QED
      BY <1>1, <1>2, <1>3, <1>4, <2>4, <3>2, <3>3, LoadPath
  <2>5. CASE Top = "settings"
    <3>1. Len(Path("settings")) = 1 /\ Len(Path(p)) = 2
      BY <1>2, <2>5, Paths
    <3>2. Len(history) + past.lost = 2 /\ past.lost \in Int
      BY <1>1, <3>1 DEF WayTo
    <3>3. Popped \in Ways("settings") /\ Len(Popped) + past.lost = 1
      BY <1>2, <2>5, <3>2
    <3>4. WayTo("settings", Popped, past.lost)
      BY <3>1, <3>2, <3>3 DEF WayTo
    <3> QED
      BY <1>1, <1>2, <1>3, <1>4, <2>1, <2>3, <2>5, <3>4, LoadPath
  <2> QED
    BY <1>2, <2>4, <2>5
<1>5. CASE CreateFails(Top, Popped) \/ BackRefused
  <2>1. history' = Popped /\ UNCHANGED <<frozen, switching, transition, loading, current>>
    BY <1>5 DEF CreateFails, BackRefused, lvgl
  <2>2. Going' = Going
    BY <2>1 DEF Going
  <2>3. past'.lost = past.lost + 1
    BY <1>1, <1>2, <1>3, <2>1, <2>2, Lost
  <2>4. WayTo(Going, history', past'.lost)
    BY <1>1, <1>2, <2>1, <2>3, Paths DEF WayTo
  <2> QED
    BY <2>1, <2>4, StayPath
<1> QED
  BY <1>4, <1>5 DEF BackFrom

LEMMA AnimationPath ==
  ASSUME PathInv, Remember, AnimationEnds
  PROVE  PathInv'
<1>1. switching /\ transition = loading /\ Going = loading
  BY DEF AnimationEnds, PathInv, Going
<1>2. /\ current' = loading /\ switching' = FALSE /\ loading' = NoPage
      /\ history' = history /\ frozen' = {}
  BY <1>1 DEF AnimationEnds, ActivateNow, PathInv
<1>3. Going' = Going
  BY <1>1, <1>2 DEF Going
<1>4. past'.lost = IF Going = "home" THEN 0 ELSE past.lost
  <2>1. ~(Len(history') < Len(history))
    BY <1>2, Paths DEF PathInv, WayTo
  <2> QED
    BY <1>3, <2>1, Lost
<1>5. Going = "home" => past.lost = 0
  <2> HAVE Going = "home"
  <2>1. Len(Path("home")) = 0 /\ Ways("home") = {<<>>}
    BY Paths DEF SubPages, Choosers
  <2> QED
    BY <2>1 DEF PathInv, WayTo
<1>6. WayTo(Going', history', past'.lost)
  BY <1>2, <1>3, <1>4, <1>5 DEF PathInv, WayTo
<1> QED
  BY <1>2, <1>6 DEF PathInv

LEMMA PathInitInv == AppInit => PathInv
<1> SUFFICES ASSUME AppInit PROVE PathInv
  OBVIOUS
<1>1. /\ frozen = {} /\ current = NoPage /\ switching = FALSE
      /\ history = <<>> /\ loading = NoPage /\ past.lost = 0 /\ Going = NoPage
  BY DEF AppInit, Init, Going
<1>2. Len(Path(NoPage)) = 0 /\ Ways(NoPage) = {<<>>} /\ Len(<<>>) = 0
  BY Paths, PageAssumption, AppAssumption DEF SubPages
<1> QED
  BY <1>1, <1>2 DEF PathInv, WayTo

LEMMA PathNextInv ==
  ASSUME AppConfig, Inv, PathInv, PageNext, Remember
  PROVE  PathInv'
<1>1. CASE AppStarts
  <2>1. current = NoPage /\ Load("boot", FALSE, FALSE, history)
    BY <1>1, AppAssumption DEF AppStarts, ShowFirst
  <2>2. ~switching
    BY <2>1 DEF Load, Refused
  <2>3. Going = NoPage
    BY <2>1, <2>2 DEF Going
  <2>4. history = <<>>
    BY <2>3, Paths, PageAssumption, AppAssumption DEF PathInv, WayTo, SubPages
  <2> QED
    BY <2>1, <2>3, <2>4, DirectPath
<1>2. CASE BootOver
  <2>1. Usable("boot") /\ (Load("home", FALSE, FALSE, history) \/ CreateFails("home", history))
    BY <1>2 DEF BootOver, SwitchBy
  <2>2. Going = "boot" /\ WayTo("boot", history, past.lost)
    BY <2>1, UsableIsCurrent
  <2>3. history = <<>>
    BY <2>2, Paths DEF WayTo, SubPages, Choosers
  <2>4. CreateFails("home", history) => PathInv'
    BY SamePath DEF CreateFails, lvgl
  <2> QED
    BY <2>1, <2>2, <2>3, <2>4, DirectPath
<1>3. CASE RecipeOpened \/ SettingsOpened
  <2>1. \A to \in {"running", "settings"} :
            /\ Len(Path(to)) = 1 /\ Len(Path("home")) = 0
            /\ Ways("home") = {<<>>} /\ Ways(to) = {<<>>, <<"home">>}
    BY Paths DEF SubPages, Choosers
  <2>2. Append(<<>>, "home") = <<"home">> /\ Len(<<>>) = 0 /\ Len(<<"home">>) = 1
    OBVIOUS
  <2>3. \A to \in {"running", "settings"} : to \in Pages /\ "home" # to /\ "home" \in Pages
    BY AppAssumption
  <2>4. \A to \in {"running", "settings"} :
            /\ \A h \in Ways("home") : Append(h, "home") \in Ways(to) /\ Len(h) < 2
                                       /\ Len(Append(h, "home")) = Len(h) + 1
            /\ Len(Path(to)) = Len(Path("home")) + 1 /\ Len(Path("home")) \in Nat
    <3>1. 0 < 2 /\ 1 = 0 + 1 /\ 0 \in Nat
      OBVIOUS
    <3> QED
      BY <2>1, <2>2, <3>1, Zenon
  <2>5. PICK to \in {"running", "settings"} : SwitchBy(To("home", to))
    BY <1>3 DEF RecipeOpened, SettingsOpened
  <2> QED
    BY <2>3, <2>4, <2>5, ToPath
<1>4. CASE ItemOpened
  <2>1. PICK p \in SubPages : SwitchBy(To("settings", p))
    BY <1>4 DEF ItemOpened, SubPages
  <2>2. /\ Len(Path(p)) = 2 /\ Len(Path("settings")) = 1 /\ p # "settings" /\ p # "home"
        /\ Ways("settings") = {<<>>, <<"home">>}
        /\ Ways(p) = {<<>>, <<"home">>, <<"settings">>, <<"home", "settings">>}
    BY Paths
  <2>3. Append(<<>>, "settings") = <<"settings">> /\ Len(<<>>) = 0 /\ Len(<<"settings">>) = 1
    OBVIOUS
  <2>5. <<"home", "settings">> = Append(<<"home">>, "settings")
    OBVIOUS
  <2>6. Len(<<"home">>) = 1 /\ Len(<<"home", "settings">>) = 2
    <3>1. Len(<<"home">>) = 1
      OBVIOUS
    <3>2. Len(<<"home", "settings">>) = 2
      OBVIOUS
    <3> QED
      BY <3>1, <3>2, Zenon
  <2>7. /\ \A h \in Ways("settings") : Append(h, "settings") \in Ways(p) /\ Len(h) < 2
                                       /\ Len(Append(h, "settings")) = Len(h) + 1
        /\ Len(Path(p)) = Len(Path("settings")) + 1 /\ Len(Path("settings")) \in Nat
    <3>1. \A h \in Ways("settings") : h = <<>> \/ h = <<"home">>
      BY <2>2
    <3>2. 0 < 2 /\ 1 < 2 /\ 1 = 0 + 1 /\ 2 = 1 + 1 /\ 1 \in Nat
      OBVIOUS
    <3>3. <<"settings">> \in Ways(p) /\ <<"home", "settings">> \in Ways(p)
      BY <2>2, Zenon
    <3>4. \A h \in Ways("settings") : Append(h, "settings") \in Ways(p) /\ Len(h) < 2
                                      /\ Len(Append(h, "settings")) = Len(h) + 1
      <4> SUFFICES ASSUME NEW h \in Ways("settings")
                   PROVE  /\ Append(h, "settings") \in Ways(p) /\ Len(h) < 2
                          /\ Len(Append(h, "settings")) = Len(h) + 1
        OBVIOUS
      <4>1. CASE h = <<>>
        BY <2>3, <3>2, <3>3, <4>1, Zenon
      <4>2. CASE h = <<"home">>
        BY <2>5, <2>6, <3>2, <3>3, <4>2, Zenon
      <4> QED
        BY <3>1, <4>1, <4>2
    <3>5. Len(Path(p)) = Len(Path("settings")) + 1 /\ Len(Path("settings")) \in Nat
      BY <2>2, <3>2, Zenon
    <3> QED
      BY <3>4, <3>5, Zenon
  <2>4. p \in Pages /\ "settings" \in Pages
    BY AppAssumption DEF SubPages
  <2>8. "settings" # p /\ p # "home"
    BY <2>2
  <2> QED
    BY <2>1, <2>4, <2>7, <2>8, ToPath
<1>5. CASE PlainBack \/ DetailsBack \/ CleaningLeft
  <2>1. PICK p \in {"running", "settings"} \cup SubPages : BackFrom(p)
    BY <1>5 DEF PlainBack, DetailsBack, CleaningLeft, SubPages
  <2> QED
    BY <2>1, BackPath
<1>6. CASE PageShown
  BY <1>6, AnimationPath DEF PageShown
<1>7. CASE Touched \/ BootTimer \/ CarouselTimer \/ CleaningTimer
  <2>1. UNCHANGED vars
    BY <1>7 DEF Touched, BootTimer, CarouselTimer, CarouselOnly, CleaningTimer, Elsewhere
  <2> QED
    BY <2>1, SamePath DEF vars
<1> QED
  BY <1>1, <1>2, <1>3, <1>4, <1>5, <1>6, <1>7 DEF PageNext, PageChange

LEMMA PathAlways ==
  ASSUME AppConfig
  PROVE  AppSpec => []PathInv
<1>1. AppInv => Inv
  BY DEF AppInv
<1>2. Inv /\ PathInv /\ [AppNext]_appVars => PathInv'
  <2> SUFFICES ASSUME Inv, PathInv, [AppNext]_appVars PROVE PathInv'
    OBVIOUS
  <2>1. UNCHANGED <<pageVars, past>> => PathInv'
    BY DEF pageVars, vars, PathInv, WayTo, Going
  <2> QED
    BY <2>1, PageStep, PathNextInv
<1> QED
  BY <1>1, <1>2, PathInitInv, AppInvAlways, PTL DEF AppSpec

\* The lock page_manager_load_page takes is given back with the SCREEN_LOADED
\* of the page it was taken for: no page change of the application leaves it
\* taken for good.
THEOREM LockGivenBack ==
  ASSUME AppConfig
  PROVE  AppSpec => []LockMatchesAnimation
<1>1. PathInv => LockMatchesAnimation
  BY DEF PathInv, LockMatchesAnimation
<1> QED
  BY <1>1, PathAlways, PTL

\* The history holds the way back to the home page, in its order, and each
\* level it lacks is one that a failed page_manager_back has cost.
THEOREM LevelsAccounted ==
  ASSUME AppConfig
  PROVE  AppSpec => []WayBack
<1>1. PathInv => WayBack
  <2> SUFFICES ASSUME PathInv PROVE WayBack
    OBVIOUS
  <2>1. history \in Ways(Going) /\ Len(history) + past.lost = Len(Path(Going))
    BY DEF PathInv, WayTo
  <2>2. \/ Path(Going) = <<"home", "settings">>
           /\ history \in {<<>>, <<"home">>, <<"settings">>, <<"home", "settings">>}
        \/ Path(Going) = <<"home">> /\ history \in {<<>>, <<"home">>}
        \/ history = <<>>
    BY <2>1, Paths DEF Path, SubPages, Choosers
  <2>3. /\ DOMAIN <<>> = {} /\ DOMAIN <<"home">> = {1} /\ <<"home">>[1] = "home"
        /\ DOMAIN <<"settings">> = {1} /\ <<"settings">>[1] = "settings"
    OBVIOUS
  <2>4. /\ DOMAIN <<"home", "settings">> = {1, 2}
        /\ <<"home", "settings">>[1] = "home" /\ <<"home", "settings">>[2] = "settings"
    OBVIOUS
  <2>5. \A i \in DOMAIN history : \E k \in DOMAIN Path(Going) : history[i] = Path(Going)[k]
    BY <2>2, <2>3, <2>4
  <2>6. ASSUME NEW i \in DOMAIN history, NEW j \in DOMAIN history, i < j
        PROVE  Path(Going) = <<history[i], history[j]>>
    <3>1. history = <<"home", "settings">> /\ Path(Going) = <<"home", "settings">> /\ i = 1 /\ j = 2
      BY <2>2, <2>3, <2>4, <2>6
    <3> QED
      BY <2>4, <3>1
  <2> QED
    BY <2>1, <2>5, <2>6 DEF WayBack
<1> QED
  BY <1>1, PathAlways, PTL

-----------------------------------------------------------------------------
(* The water that follows a rinse.                                         *)

\* A rinse that runs has time left, one that is complete has used it all.
RinsedOK(c) == /\ CleanWhole(c) /\ c.elapsed \in Nat
               /\ c.status = "running" => c.elapsed < RinseTicks
               /\ c.status = "complete" => c.elapsed = RinseTicks

\* The operations that change neither the rinse nor the overlay before it, but
\* for what is named.
SameWater(c, d) == CleanWhole(d) /\ d.elapsed = c.elapsed /\ d.status = c.status /\ d.prepare = c.prepare

LEMMA SameWaterOK ==
  ASSUME NEW c, NEW d, SameWater(c, d), RinsedOK(c)
  PROVE  RinsedOK(d)
  BY DEF SameWater, RinsedOK

LEMMA StopTimerWater ==
  ASSUME NEW c, CleanWhole(c)
  PROVE  SameWater(c, StopTimer(c))
  BY DEF StopTimer, SameWater, CleanWhole, CleanFields

LEMMA DeleteRinseWater ==
  ASSUME NEW c, CleanWhole(c)
  PROVE  LET d == DeleteRinse(c)
         IN  CleanWhole(d) /\ d.elapsed = c.elapsed /\ d.status = "idle" /\ d.prepare = c.prepare
<1> DEFINE s == StopTimer(c)
<1>1. SameWater(c, s)
  BY StopTimerWater
<1>2. DeleteRinse(c) = [s EXCEPT !.overlay = "none", !.status = "idle", !.after = "return"]
  BY DEF DeleteRinse
<1> HIDE DEF s
<1> QED
  BY <1>1, <1>2 DEF SameWater, CleanWhole, CleanFields

LEMMA DeletePrepareWater ==
  ASSUME NEW c, CleanWhole(c)
  PROVE  LET d == DeletePrepare(c)
         IN  CleanWhole(d) /\ d.elapsed = c.elapsed /\ d.status = c.status /\ d.prepare = "none"
  BY DEF DeletePrepare, CleanWhole, CleanFields

LEMMA ContentWater ==
  ASSUME NEW c, NEW tab, NEW g, CleanWhole(c), g \in ContentFor(c, tab)
  PROVE  SameWater(c, g)
<1>1. PICK n, l : g = [c EXCEPT !.content = tab, !.built = n, !.label = l]
  BY DEF ContentFor
<1> QED
  BY <1>1 DEF CleanWhole, CleanFields, SameWater

LEMMA CreatePrepareWater ==
  ASSUME NEW c, NEW kind, NEW next, NEW g, RinsedOK(c), g \in CreatePrepare(c, kind, next)
  PROVE  RinsedOK(g) /\ g.prepare \in {kind, "none"}
<1> DEFINE p == DeletePrepare(c)
           d == DeleteRinse(p)
           e == IF kind = "time" THEN [d EXCEPT !.time = 32] ELSE [d EXCEPT !.next = next]
<1>1. CleanWhole(p) /\ p.elapsed = c.elapsed /\ p.prepare = "none"
  BY DeletePrepareWater DEF RinsedOK
<1>2. \/ g = e
      \/ \E n : g = [e EXCEPT !.prepare = kind, !.controls = n]
  BY DEF CreatePrepare, IfFails
<1> HIDE DEF p
<1>3. CleanWhole(d) /\ d.elapsed = c.elapsed /\ d.status = "idle" /\ d.prepare = "none"
  BY <1>1, DeleteRinseWater
<1> HIDE DEF d
<1>4. SameWater(d, e)
  BY <1>3 DEF CleanWhole, CleanFields, SameWater
<1> HIDE DEF e
<1>5. CleanWhole(g) /\ g.elapsed = e.elapsed /\ g.status = e.status /\ g.prepare \in {kind, e.prepare}
  BY <1>2, <1>4 DEF SameWater, CleanWhole, CleanFields
<1> QED
  BY <1>3, <1>4, <1>5 DEF SameWater, RinsedOK

LEMMA ScheduleReturnWater ==
  ASSUME NEW c, NEW g, CleanWhole(c), g \in ScheduleReturn(c)
  PROVE  SameWater(c, g)
<1> DEFINE s == StopTimer(c)
<1>1. SameWater(c, s)
  BY StopTimerWater
<1>2. g = [s EXCEPT !.lvgl.return = @ + 1, !.timer = "return"] \/ g = c
  BY DEF ScheduleReturn, IfFails
<1> HIDE DEF s
<1> QED
  BY <1>1, <1>2 DEF SameWater, CleanWhole, CleanFields

LEMMA RinseOverWater ==
  ASSUME NEW c, NEW status, NEW g, RinsedOK(c), g \in RinseOver(c, status),
         status = "interrupted" \/ (status = "complete" /\ c.elapsed = RinseTicks)
  PROVE  RinsedOK(g) /\ g.prepare = c.prepare
<1> DEFINE d == [c EXCEPT !.status = status]
<1>1. g \in ScheduleReturn(d)
  BY DEF RinseOver
<1>2. CleanWhole(d) /\ d.status = status /\ d.elapsed = c.elapsed /\ d.prepare = c.prepare
  BY DEF RinsedOK, CleanWhole, CleanFields
<1> HIDE DEF d
<1>3. SameWater(d, g)
  BY <1>1, <1>2, ScheduleReturnWater
<1> QED
  BY <1>2, <1>3 DEF SameWater, RinsedOK

\* A rinse starts with no time used.
LEMMA StartRinseWater ==
  ASSUME NEW c, NEW after, NEW g, RinsedOK(c), g \in StartRinse(c, after)
  PROVE  RinsedOK(g) /\ g.prepare = c.prepare
<1> DEFINE b == [c EXCEPT !.elapsed = 0]
           d == DeleteRinse(b)
           shown == [d EXCEPT !.overlay = "button", !.elapsed = 0]
           run == [shown EXCEPT !.status = "running", !.lvgl.rinse = @ + 1, !.timer = "rinse"]
<1>1. PICK r \in CreateRinse(b) : g = [r EXCEPT !.after = after]
  BY DEF StartRinse
<1>2. CleanWhole(b) /\ b.elapsed = 0 /\ b.prepare = c.prepare
  BY DEF RinsedOK, CleanWhole, CleanFields
<1>3. \/ r = run
      \/ r \in {d, [d EXCEPT !.overlay = "bare"], [d EXCEPT !.overlay = "button"]}
      \/ r \in RinseOver(shown, "interrupted")
  BY <1>1 DEF CreateRinse, IfFails
<1> HIDE DEF b
<1>4. CleanWhole(d) /\ d.elapsed = 0 /\ d.status = "idle" /\ d.prepare = c.prepare
  BY <1>2, DeleteRinseWater
<1> HIDE DEF d
<1>5. CleanWhole(shown) /\ shown.elapsed = 0 /\ shown.status = "idle" /\ shown.prepare = c.prepare
  BY <1>4 DEF CleanWhole, CleanFields
<1> HIDE DEF shown
<1>6. CleanWhole(run) /\ run.elapsed = 0 /\ run.status = "running" /\ run.prepare = c.prepare
  BY <1>5 DEF CleanWhole, CleanFields
<1> HIDE DEF run
<1>7. RinsedOK(r) /\ r.prepare = c.prepare
  <2>1. CASE r = run
    BY <1>6, <2>1, RinseAssumption DEF RinsedOK
  <2>2. CASE r \in {d, [d EXCEPT !.overlay = "bare"], [d EXCEPT !.overlay = "button"]}
    <3>1. SameWater(d, r)
      BY <1>4, <2>2 DEF SameWater, CleanWhole, CleanFields
    <3> QED
      BY <1>4, <3>1 DEF SameWater, RinsedOK
  <2>3. CASE r \in RinseOver(shown, "interrupted")
    <3>1. RinsedOK(shown)
      BY <1>5 DEF RinsedOK
    <3> QED
      BY <1>5, <2>3, <3>1, RinseOverWater
  <2> QED
    BY <1>3, <2>1, <2>2, <2>3
<1>8. SameWater(r, g)
  BY <1>1, <1>7 DEF RinsedOK, CleanWhole, CleanFields, SameWater
<1> QED
  BY <1>7, <1>8, SameWaterOK DEF SameWater

\* No touch asks for the water.
LEMMA CleaningClickWater ==
  ASSUME RinsedOK(clean), CleaningClick
  PROVE  RinsedOK(clean') /\ clean'.prepare \in {clean.prepare, "none", "time", "tablet"}
<1>1. CleanWhole(clean)
  BY DEF RinsedOK
<1> DEFINE p == DeletePrepare(clean)
<1>2. CleanWhole(p) /\ RinsedOK(p) /\ p.prepare = "none"
  BY <1>1, DeletePrepareWater DEF RinsedOK
<1>3. CASE CardClicked
  BY <1>3, StartRinseWater, CreatePrepareWater DEF CardClicked
<1>4. CASE LevelTouched \/ TimeTouched
  <2>1. SameWater(clean, clean')
    BY <1>1, <1>4 DEF LevelTouched, TimeTouched, SameWater, CleanWhole, CleanFields
  <2> QED
    BY <2>1, SameWaterOK DEF SameWater
<1>5. CASE MenuClicked
  <2> DEFINE d == DeleteRinse(p)
  <2>1. PICK tab : clean' \in ContentFor([d EXCEPT !.tab = tab], tab)
    BY <1>5 DEF MenuClicked
  <2> HIDE DEF p
  <2>2. CleanWhole(d) /\ d.elapsed = p.elapsed /\ d.status = "idle" /\ d.prepare = "none"
    BY <1>2, DeleteRinseWater
  <2> HIDE DEF d
  <2>3. SameWater(d, [d EXCEPT !.tab = tab])
    BY <2>2 DEF CleanWhole, CleanFields, SameWater
  <2>4. SameWater([d EXCEPT !.tab = tab], clean')
    BY <2>1, <2>3, ContentWater DEF SameWater
  <2> QED
    BY <1>2, <2>2, <2>3, <2>4 DEF SameWater, RinsedOK
<1>6. CASE CancelClicked
  <2>1. clean' = p \/ \E tab \in {"daily", "maintenance"} : clean' \in ContentFor(p, tab)
    BY <1>6 DEF CancelClicked
  <2> HIDE DEF p
  <2>2. SameWater(p, clean')
    BY <1>2, <2>1, ContentWater DEF SameWater
  <2> QED
    BY <1>2, <2>2, SameWaterOK DEF SameWater
<1>7. CASE GoClicked
  BY <1>2, <1>7, StartRinseWater DEF GoClicked
<1>8. CASE RinseClicked
  <2>1. CASE clean.status = "running"
    BY <1>8, <2>1, RinseOverWater DEF RinseClicked
  <2>2. CASE clean.status # "running"
    <3> DEFINE c == [clean EXCEPT !.elapsed = 0]
    <3>1. CleanWhole(c) /\ c.elapsed = 0 /\ c.prepare = clean.prepare
      BY <1>1 DEF CleanWhole, CleanFields
    <3>2. clean' = DeleteRinse(c)
      BY <1>8, <2>2 DEF RinseClicked
    <3> HIDE DEF c
    <3> QED
      BY <3>1, <3>2, DeleteRinseWater DEF RinsedOK
  <2> QED
    BY <2>1, <2>2
<1> QED
  BY <1>3, <1>4, <1>5, <1>6, <1>7, <1>8 DEF CleaningClick

\* The rinse timer counts to the end; only the timer of the return may ask for
\* the water.
LEMMA RinseTickWater ==
  ASSUME RinsedOK(clean), RinseTick
  PROVE  RinsedOK(clean') /\ clean'.prepare = clean.prepare
<1> DEFINE c == [clean EXCEPT !.elapsed = @ + 1]
<1>1. CleanWhole(c) /\ c.elapsed = clean.elapsed + 1 /\ c.status = clean.status /\ c.prepare = clean.prepare
  BY DEF RinsedOK, CleanWhole, CleanFields
<1>2. CASE clean.status # "running"
  BY <1>2 DEF RinseTick
<1>3. CASE clean.status = "running"
  <2>1. clean' \in IF c.elapsed >= RinseTicks THEN RinseOver(c, "complete") ELSE {c}
    BY <1>3 DEF RinseTick
  <2> HIDE DEF c
  <2>2. clean.elapsed \in Nat /\ clean.elapsed < RinseTicks /\ RinseTicks \in Nat
    BY <1>3, RinseAssumption DEF RinsedOK
  <2>3. CASE c.elapsed >= RinseTicks
    <3> DEFINE d == [c EXCEPT !.status = "complete"]
    <3>1. c.elapsed = RinseTicks
      BY <1>1, <2>2, <2>3
    <3>2. CleanWhole(d) /\ d.elapsed = RinseTicks /\ d.status = "complete" /\ d.prepare = clean.prepare
      BY <1>1, <3>1 DEF CleanWhole, CleanFields
    <3>3. clean' \in ScheduleReturn(d)
      BY <2>1, <2>3 DEF RinseOver
    <3> HIDE DEF d
    <3>4. SameWater(d, clean')
      BY <3>2, <3>3, ScheduleReturnWater
    <3> QED
      BY <2>2, <3>2, <3>4 DEF SameWater, RinsedOK
  <2>4. CASE ~(c.elapsed >= RinseTicks)
    BY <1>1, <1>3, <2>1, <2>2, <2>4 DEF RinsedOK
  <2> QED
    BY <2>3, <2>4
<1> QED
  BY <1>2, <1>3

LEMMA ReturnTimerWater ==
  ASSUME RinsedOK(clean), ReturnTimer
  PROVE  /\ RinsedOK(clean')
         /\ clean'.prepare \in {clean.prepare, "none"} \/ (clean.status = "complete" /\ clean.after = "water")
<1> DEFINE b == [clean EXCEPT !.timer = "none", !.lvgl.return = @ - 1]
           c == DeleteRinse(b)
<1>1. CleanWhole(b) /\ b.elapsed = clean.elapsed /\ b.prepare = clean.prepare
  BY DEF RinsedOK, CleanWhole, CleanFields
<1>2. clean' \in IF clean.status = "complete" /\ clean.after = "water"
                 THEN CreatePrepare(c, "water", "return") ELSE {c}
  BY DEF ReturnTimer
<1> HIDE DEF b
<1>3. RinsedOK(c) /\ c.prepare = clean.prepare
  BY <1>1, DeleteRinseWater DEF RinsedOK
<1> HIDE DEF c
<1> QED
  BY <1>2, <1>3, CreatePrepareWater

LEMMA ClosedWater == RinsedOK(Closed) /\ Closed.prepare = "none"
<1>1. CleanWhole(Closed) /\ Closed.elapsed = 0 /\ Closed.status = "idle" /\ Closed.prepare = "none"
  BY DEF Closed, CleanWhole, CleanFields
<1> QED
  BY <1>1 DEF RinsedOK

LEMMA WaterStep ==
  ASSUME RinsedOK(clean), [PageNext]_pageVars
  PROVE  /\ RinsedOK(clean')
         /\ clean'.prepare = "water" /\ clean.prepare # "water"
              => clean.status = "complete" /\ clean.after = "water"
<1>1. CASE CleaningLife
  <2>1. CASE CleaningCreate
    <3>1. CleanWhole(clean') /\ clean'.elapsed = 0 /\ clean'.status = "idle" /\ clean'.prepare = "none"
      BY <2>1 DEF CleaningCreate, Closed, CleanWhole, CleanFields
    <3> QED
      BY <3>1 DEF RinsedOK
  <2>2. CASE CleaningDestroy
    <3>1. CleanWhole(clean') /\ clean'.elapsed = 0 /\ clean'.status = "idle" /\ clean'.prepare = "none"
      BY <2>2 DEF CleaningDestroy, Closed, CleanWhole, CleanFields
    <3> QED
      BY <3>1 DEF RinsedOK
  <2> QED
    BY <1>1, <2>1, <2>2 DEF CleaningLife, Life
<1>2. CASE CleaningLeft
  <2> DEFINE p == DeletePrepare(clean)
  <2>1. CleanWhole(p) /\ p.elapsed = clean.elapsed /\ p.prepare = "none"
    BY DeletePrepareWater DEF RinsedOK
  <2>2. clean' = DeleteRinse(p)
    BY <1>2 DEF CleaningLeft, CleaningBack
  <2> HIDE DEF p
  <2> QED
    BY <2>1, <2>2, DeleteRinseWater DEF RinsedOK
<1>3. CASE CleaningClick
  BY <1>3, CleaningClickWater
<1>4. CASE CleaningTimer
  <2>1. RinseTick \/ ReturnTimer
    BY <1>4 DEF CleaningTimer
  <2>2. CASE RinseTick
    BY <2>2, RinseTickWater
  <2>3. CASE ReturnTimer
    BY <2>3, ReturnTimerWater
  <2> QED
    BY <2>1, <2>2, <2>3
<1>5. CASE UNCHANGED clean
  BY <1>5
<1>6. \/ CleaningLife \/ CleaningLeft \/ CleaningClick \/ CleaningTimer \/ UNCHANGED clean
  BY DEF PageNext, PageChange, AppStarts, BootOver, RecipeOpened, SettingsOpened, ItemOpened, PlainBack,
         DetailsBack, PageShown, AllLive, OthersLive, Touched, BootTimer, CarouselTimer, CarouselOnly, pageVars
<1> QED
  BY <1>1, <1>2, <1>3, <1>4, <1>5, <1>6

\* The water is asked for only after a rinse that was to be followed by it and
\* that has run to its end: never after an interruption, whatever was clicked
\* and whatever LVGL could not make.
THEOREM WaterFollowsRinse == AppSpec => WaterAfterFullRinse
<1>1. AppInit => RinsedOK(clean)
  BY ClosedWater DEF AppInit, CleaningInit
<1>2. RinsedOK(clean) /\ [PageNext]_pageVars => RinsedOK(clean)'
  BY WaterStep
<1>3. RinsedOK(clean) /\ [PageNext]_pageVars
        => [clean'.prepare = "water" /\ clean.prepare # "water"
              => /\ clean.status = "complete" /\ clean.after = "water"
                 /\ clean.elapsed = RinseTicks]_clean
  BY WaterStep DEF RinsedOK
<1> QED
  BY <1>1, <1>2, <1>3, PageStepOnly, PTL DEF AppSpec, WaterAfterFullRinse

-----------------------------------------------------------------------------
(* Where the carousel draws its slots.  A weight lies in one of four       *)
(* segments; in each, the left edge of the picture is a sum of shares      *)
(* (k * a) \div 1024, that is within one pixel of k * a / 1024.            *)

Share(x) == x \div Unit

LEMMA ShareBounds ==
  ASSUME NEW x \in Nat
  PROVE  Share(x) \in Nat /\ 1024 * Share(x) <= x /\ x <= 1024 * Share(x) + 1023
  BY DEF Share, Unit

\* The same after C's division, of a number below 0.
LEMMA ShareQuotient ==
  ASSUME NEW x \in Nat
  PROVE  Quotient(x, Unit) = Share(x) /\ Quotient(-x, Unit) = -Share(x)
<1>1. Quotient(x, 1024) = x \div 1024 /\ Quotient(-x, 1024) = -(x \div 1024)
  BY DEF Quotient
<1> QED
  BY <1>1 DEF Share, Unit

LEMMA LeftFar ==
  ASSUME NEW w \in Int, w <= -1024
  PROVE  PictureLeft(w) = 42 - Share(270 * (-w - 1024))
<1> DEFINE b == -w - 1024
<1>1. b \in Nat /\ 270 * b \in Nat
  BY DEF Unit
<1>2. (270 - 0) * (w + Unit) = -(270 * b)
  BY DEF Unit
<1> HIDE DEF b
<1>3. VisualX(w) = -Share(270 * b)
  <2>1. VisualX(w) = Lerp(0, 270, w + Unit)
    BY DEF VisualX, Unit
  <2>2. Quotient(-(270 * b), Unit) = -Share(270 * b) /\ Share(270 * b) \in Nat
    BY <1>1, ShareQuotient, ShareBounds
  <2> QED
    BY <1>2, <2>1, <2>2 DEF Lerp
<1>4. Aside(w) = Unit /\ w < 0
  BY DEF Aside, Abs, Unit
<1>5. ImageX(w) = 42
  BY <1>4 DEF ImageX, Lerp, Quotient, Unit
<1>6. Share(270 * b) \in Nat
  BY <1>1, ShareBounds
<1> QED
  BY <1>3, <1>5, <1>6 DEF PictureLeft, b

LEMMA LeftNear ==
  ASSUME NEW w \in -1024..0
  PROVE  PictureLeft(w) = 270 - Share(270 * (-w)) + Share(42 * (-w))
<1> DEFINE a == -w
<1>1. a \in 0..1024 /\ w = -a
  BY DEF Unit
<1>2. Share(270 * a) \in Nat /\ Share(42 * a) \in Nat
  BY <1>1, ShareBounds
<1>3. VisualX(w) = 270 - Share(270 * a)
  <2>1. CASE w = -1024
    <3>1. VisualX(w) = 0
      BY <2>1 DEF VisualX, Lerp, Quotient, Unit
    <3>2. Share(270 * a) = 270
      BY <2>1 DEF Share, Unit
    <3> QED
      BY <3>1, <3>2
  <2>2. CASE w # -1024
    <3>1. VisualX(w) = Lerp(270, 540, w)
      BY <1>1, <2>2 DEF VisualX, Unit
    <3>2. (540 - 270) * w = -(270 * a)
      BY <1>1
    <3> QED
      BY <1>1, <1>2, <3>1, <3>2, ShareQuotient DEF Lerp
  <2> QED
    BY <2>1, <2>2
<1>4. Aside(w) = a
  BY <1>1 DEF Aside, Abs, Unit
<1>5. ImageX(w) = Share(42 * a)
  <2>1. CASE w = 0
    BY <1>4, <2>1 DEF ImageX, Lerp, Quotient, Share, Unit
  <2>2. CASE w # 0
    <3>1. (42 - 0) * a = 42 * a /\ w < 0
      BY <1>1, <2>2
    <3> QED
      BY <1>1, <1>2, <1>4, <3>1, ShareQuotient DEF ImageX, Lerp
  <2> QED
    BY <2>1, <2>2
<1> QED
  BY <1>2, <1>3, <1>5 DEF PictureLeft

LEMMA RightNear ==
  ASSUME NEW w \in 0..1024
  PROVE  PictureLeft(w) = 270 + Share(260 * w) + Share(48 * w)
<1>1. w \in 0..1024
  BY DEF Unit
<1>2. 260 * w \in Nat /\ 48 * w \in Nat
  BY <1>1
<1>3. Share(260 * w) \in Nat /\ Share(48 * w) \in Nat
  BY <1>2, ShareBounds
<1>4. VisualX(w) = 270 + Share(260 * w)
  <2>1. CASE w = 0
    BY <2>1 DEF VisualX, Lerp, Quotient, Share, Unit
  <2>2. CASE w # 0
    <3>1. VisualX(w) = Lerp(270, 530, w)
      BY <1>1, <2>2 DEF VisualX, Unit
    <3>2. (530 - 270) * w = 260 * w
      BY <1>1
    <3> QED
      BY <1>1, <1>3, <3>1, <3>2, ShareQuotient DEF Lerp
  <2> QED
    BY <2>1, <2>2
<1>5. Aside(w) = w /\ ~(w < 0)
  BY <1>1 DEF Aside, Abs, Unit
<1>6. ImageX(w) = Share(48 * w)
  <2>1. (48 - 0) * w = 48 * w
    BY <1>1
  <2> QED
    BY <1>1, <1>3, <1>5, <2>1, ShareQuotient DEF ImageX, Lerp
<1> QED
  BY <1>3, <1>4, <1>6 DEF PictureLeft

LEMMA RightFar ==
  ASSUME NEW w \in Int, w >= 1024
  PROVE  PictureLeft(w) = 578 + Share(270 * (w - 1024))
<1> DEFINE b == w - 1024
<1>1. b \in Nat /\ (800 - 530) * b = 270 * b /\ 270 * b \in Nat /\ w > 0
  OBVIOUS
<1>2. Share(270 * b) \in Nat
  BY <1>1, ShareBounds
<1>3. VisualX(w) = 530 + Share(270 * b)
  <2>1. CASE w = 1024
    <3>1. b = 0
      BY <2>1 DEF Unit
    <3>2. VisualX(w) = 530
      BY <2>1 DEF VisualX, Lerp, Quotient, Unit
    <3> QED
      BY <3>1, <3>2 DEF Share, Unit
  <2>2. CASE w # 1024
    <3>1. VisualX(w) = Lerp(530, 800, b)
      BY <2>2 DEF VisualX, Unit
    <3> QED
      BY <1>1, <1>2, <3>1, ShareQuotient DEF Lerp
  <2> QED
    BY <2>1, <2>2
<1>4. Aside(w) = Unit /\ ~(w < 0)
  BY DEF Aside, Abs, Unit
<1>5. ImageX(w) = 48
  BY <1>4 DEF ImageX, Lerp, Quotient, Unit
<1> QED
  BY <1>2, <1>3, <1>5 DEF PictureLeft

\* The width of a picture, from its scale.
Width(w) == (NativeSize * ImageScale(w)) \div 256

LEMMA WidthBounds ==
  ASSUME NEW w \in Int
  PROVE  /\ Width(w) \in Nat
         /\ Abs(w) >= 1024 => Width(w) = 180
         /\ Abs(w) <= 1024 => 262144 * Width(w) <= 68321040 - 20400 * Abs(w)
         /\ PictureRight(w) = PictureLeft(w) + Width(w)
<1> DEFINE p == Aside(w)
           s == 277 - Share(85 * p)
<1>1. p \in 0..1024 /\ (Abs(w) >= 1024 => p = 1024) /\ (Abs(w) <= 1024 => p = Abs(w)) /\ Abs(w) \in Nat
  BY DEF Aside, Abs, Unit
<1>2. 85 * p \in Nat
  BY <1>1
<1> HIDE DEF p
<1>3. Share(85 * p) \in Nat /\ 1024 * Share(85 * p) <= 85 * p /\ 85 * p <= 1024 * Share(85 * p) + 1023
  BY <1>2, ShareBounds
<1>4. (192 - 277) * p = -(85 * p)
  BY <1>1
<1>5. ImageScale(w) = s
  BY <1>2, <1>1, <1>3, <1>4, ShareQuotient DEF ImageScale, Lerp, Selected, Side, p
<1>6. Width(w) = (240 * s) \div 256
  BY <1>5 DEF Width, NativeSize
<1>7. s \in 192..277
  BY <1>1, <1>3
<1> HIDE DEF s
<1>8. Width(w) \in Nat /\ 256 * Width(w) <= 240 * s
  BY <1>6, <1>7
<1>9. 1024 * s <= 1024 * 277 - 85 * p + 1023
  BY <1>1, <1>3 DEF s
<1>10. Abs(w) >= 1024 => s = 192
  BY <1>1, <1>3 DEF s
<1>11. Abs(w) <= 1024 => 262144 * Width(w) <= 68321040 - 20400 * Abs(w)
  BY <1>1, <1>7, <1>8, <1>9
<1>12. Abs(w) >= 1024 => Width(w) = 180
  BY <1>6, <1>10
<1> QED
  BY <1>8, <1>11, <1>12 DEF PictureRight, Width

\* A picture ends before the picture one slot further to the right begins.
LEMMA NoOverlap ==
  ASSUME NEW w \in Int
  PROVE  PictureRight(w) < PictureLeft(w + 1024)
<1> DEFINE v == w + 1024
<1>1. v \in Int /\ Width(w) \in Nat /\ PictureRight(w) = PictureLeft(w) + Width(w)
  BY WidthBounds
<1>2. CASE w <= -2048
  <2> DEFINE c == -w - 2048
             x == 270 * c
  <2>1. x \in Nat /\ 270 * (-w - 1024) = x + 276480 /\ 270 * (-v - 1024) = x /\ x + 276480 \in Nat
    BY <1>2
  <2>2. PictureLeft(w) = 42 - Share(x + 276480) /\ PictureLeft(v) = 42 - Share(x)
    BY <1>1, <1>2, <2>1, LeftFar
  <2> HIDE DEF x
  <2>3. Share(x + 276480) = Share(x) + 270 /\ Share(x) \in Nat
    BY <2>1 DEF Share, Unit
  <2>4. Width(w) = 180
    BY <1>2, WidthBounds DEF Abs
  <2> QED
    BY <1>1, <2>2, <2>3, <2>4
<1>3. CASE -2048 < w /\ w <= -1024
  <2> DEFINE a == -v
             x == 270 * a
             y == 42 * a
  <2>1. a \in 0..1024 /\ x \in Nat /\ y \in Nat /\ -w - 1024 = a
    BY <1>3
  <2>2. PictureLeft(w) = 42 - Share(x) /\ PictureLeft(v) = 270 - Share(x) + Share(y)
    BY <1>1, <1>3, <2>1, LeftFar, LeftNear
  <2> HIDE DEF x, y
  <2>3. Share(x) \in Nat /\ Share(y) \in Nat
    BY <2>1, ShareBounds
  <2>4. Width(w) = 180
    BY <1>3, WidthBounds DEF Abs
  <2> QED
    BY <1>1, <2>2, <2>3, <2>4
<1>4. CASE -1024 < w /\ w <= 0
  <2> DEFINE a == -w
             x == 270 * a
             y == 42 * a
             s == 260 * v
             t == 48 * v
  <2>1. a \in 0..1023 /\ x \in Nat /\ y \in Nat /\ s \in Nat /\ t \in Nat /\ v = 1024 - a /\ v \in 0..1024
    BY <1>4
  <2>2. PictureLeft(w) = 270 - Share(x) + Share(y) /\ PictureLeft(v) = 270 + Share(s) + Share(t)
    BY <1>4, <2>1, LeftNear, RightNear
  <2>3. x = 270 * a /\ y = 42 * a /\ s = 260 * (1024 - a) /\ t = 48 * (1024 - a)
    BY <2>1
  <2>4. 262144 * Width(w) <= 68321040 - 20400 * a
    BY <1>4, <2>1, WidthBounds DEF Abs
  <2> HIDE DEF a, x, y, s, t
  <2>5. /\ Share(x) \in Nat /\ x <= 1024 * Share(x) + 1023
        /\ Share(y) \in Nat /\ 1024 * Share(y) <= y
        /\ Share(s) \in Nat /\ s <= 1024 * Share(s) + 1023
        /\ Share(t) \in Nat /\ t <= 1024 * Share(t) + 1023
    BY <2>1, ShareBounds
  <2>6. PictureLeft(w) + Width(w) < PictureLeft(v)
    BY <1>1, <2>1, <2>2, <2>3, <2>4, <2>5
  <2> QED
    BY <1>1, <2>6
<1>5. CASE 0 < w /\ w < 1024
  <2> DEFINE x == 270 * w
             s == 260 * w
             t == 48 * w
  <2>1. x \in Nat /\ s \in Nat /\ t \in Nat /\ w \in 0..1024 /\ v - 1024 = w /\ v >= 1024
    BY <1>5
  <2>2. PictureLeft(v) = 578 + Share(x) /\ PictureLeft(w) = 270 + Share(s) + Share(t)
    BY <1>1, <2>1, RightNear, RightFar
  <2>3. 262144 * Width(w) <= 68321040 - 20400 * w
    BY <1>5, WidthBounds DEF Abs
  <2>4. x = 270 * w /\ s = 260 * w /\ t = 48 * w
    OBVIOUS
  <2> HIDE DEF x, s, t
  <2>5. /\ Share(x) \in Nat /\ x <= 1024 * Share(x) + 1023
        /\ Share(s) \in Nat /\ 1024 * Share(s) <= s
        /\ Share(t) \in Nat /\ 1024 * Share(t) <= t
    BY <2>1, ShareBounds
  <2>6. PictureLeft(w) + Width(w) < PictureLeft(v)
    BY <1>1, <1>5, <2>2, <2>3, <2>4, <2>5
  <2> QED
    BY <1>1, <2>6
<1>6. CASE w >= 1024
  <2> DEFINE x == 270 * (w - 1024)
  <2>1. x \in Nat /\ 270 * (v - 1024) = x + 276480 /\ x + 276480 \in Nat
    BY <1>6
  <2>2. PictureLeft(w) = 578 + Share(x) /\ PictureLeft(v) = 578 + Share(x + 276480)
    BY <1>1, <1>6, <2>1, RightFar
  <2> HIDE DEF x
  <2>3. Share(x + 276480) = Share(x) + 270 /\ Share(x) \in Nat
    BY <2>1 DEF Share, Unit
  <2>4. Width(w) = 180
    BY <1>6, WidthBounds DEF Abs
  <2> QED
    BY <1>1, <2>2, <2>3, <2>4
<1> QED
  BY <1>2, <1>3, <1>4, <1>5, <1>6

\* The pictures left and right of the five slots are outside of the screen.
LEMMA Outside ==
  ASSUME NEW e \in -1024..1024
  PROVE  PictureRight(-3072 + e) <= 0 /\ PictureLeft(3072 + e) >= ScreenWidth
<1>1. PictureRight(-3072 + e) <= 0
  <2> DEFINE w == -3072 + e
             x == 270 * (-w - 1024)
  <2>1. w \in Int /\ w <= -2048 /\ x \in Nat /\ x >= 276480
    OBVIOUS
  <2>2. PictureLeft(w) = 42 - Share(x)
    BY <2>1, LeftFar
  <2>3. Width(w) = 180 /\ PictureRight(w) = PictureLeft(w) + Width(w)
    BY <2>1, WidthBounds DEF Abs
  <2> HIDE DEF w, x
  <2>4. Share(x) \in Nat /\ Share(x) >= 270
    BY <2>1 DEF Share, Unit
  <2>5. PictureRight(w) <= 0
    BY <2>2, <2>3, <2>4
  <2> QED
    BY <2>5 DEF w
<1>2. PictureLeft(3072 + e) >= ScreenWidth
  <2> DEFINE w == 3072 + e
             x == 270 * (w - 1024)
  <2>1. w \in Int /\ w >= 2048 /\ x \in Nat /\ x >= 276480
    OBVIOUS
  <2>2. PictureLeft(w) = 578 + Share(x)
    BY <2>1, RightFar
  <2> HIDE DEF w, x
  <2>3. Share(x) \in Nat /\ Share(x) >= 270
    BY <2>1 DEF Share, Unit
  <2>4. PictureLeft(w) >= 800
    BY <2>2, <2>3
  <2> QED
    BY <2>4 DEF w, ScreenWidth
<1> QED
  BY <1>1, <1>2

\* A slot that moves by 12 units or more, a pixel of the finger, moves its
\* picture in that direction or leaves it where it is.
LEMMA PictureOrder ==
  ASSUME NEW v \in Int, NEW w \in Int, v = w \/ v + 12 <= w
  PROVE  PictureLeft(v) <= PictureLeft(w) /\ PictureLeft(w) \in Int
<1>1. ASSUME NEW u \in Int
      PROVE  /\ PictureLeft(u) \in Int
             /\ u <= -1024 => PictureLeft(u) <= 42
             /\ u >= -1024 => PictureLeft(u) >= 42
             /\ u <= 0 => PictureLeft(u) <= 270
             /\ u >= 0 => PictureLeft(u) >= 270
             /\ u <= 1024 => PictureLeft(u) <= 578
             /\ u >= 1024 => PictureLeft(u) >= 578
  <2>1. CASE u <= -1024
    <3> DEFINE x == 270 * (-u - 1024)
    <3>1. x \in Nat /\ (u >= -1024 => x = 0)
      BY <2>1
    <3>2. PictureLeft(u) = 42 - Share(x)
      BY <2>1, LeftFar
    <3> HIDE DEF x
    <3>3. Share(x) \in Nat /\ (x = 0 => Share(x) = 0)
      BY <3>1 DEF Share, Unit
    <3> QED
      BY <2>1, <3>1, <3>2, <3>3
  <2>2. CASE -1024 < u /\ u <= 0
    <3> DEFINE a == -u
               x == 270 * a
               y == 42 * a
    <3>1. u \in -1024..0 /\ a \in 0..1023 /\ x \in Nat /\ y \in Nat /\ x = 270 * a /\ y = 42 * a
          /\ (u = 0 => a = 0)
      BY <2>2
    <3>2. PictureLeft(u) = 270 - Share(x) + Share(y)
      BY <3>1, LeftNear
    <3> HIDE DEF a, x, y
    <3>3. /\ Share(x) \in Nat /\ 1024 * Share(x) <= x /\ x <= 1024 * Share(x) + 1023
          /\ Share(y) \in Nat /\ 1024 * Share(y) <= y /\ y <= 1024 * Share(y) + 1023
      BY <3>1, ShareBounds
    <3>4. Share(y) <= Share(x) /\ Share(x) - Share(y) <= 228 /\ (a = 0 => Share(x) = 0)
      BY <3>1, <3>3
    <3>5. Share(x) \in Int /\ Share(y) \in Int /\ (u >= 0 => u = 0)
      BY <2>2, <3>3
    <3>6. PictureLeft(u) \in Int /\ PictureLeft(u) >= 42 /\ PictureLeft(u) <= 270
      BY <3>2, <3>4, <3>5
    <3>7. u >= 0 => PictureLeft(u) >= 270
      BY <3>1, <3>2, <3>4, <3>5
    <3> QED
      BY <2>2, <3>6, <3>7
  <2>3. CASE 0 < u /\ u < 1024
    <3> DEFINE x == 260 * u
               y == 48 * u
    <3>1. u \in 0..1024 /\ x \in Nat /\ y \in Nat /\ x = 260 * u /\ y = 48 * u
      BY <2>3
    <3>2. PictureLeft(u) = 270 + Share(x) + Share(y)
      BY <3>1, RightNear
    <3> HIDE DEF x, y
    <3>3. /\ Share(x) \in Nat /\ 1024 * Share(x) <= x
          /\ Share(y) \in Nat /\ 1024 * Share(y) <= y
      BY <3>1, ShareBounds
    <3> QED
      BY <2>3, <3>1, <3>2, <3>3
  <2>4. CASE u >= 1024
    <3> DEFINE x == 270 * (u - 1024)
    <3>1. x \in Nat /\ (u <= 1024 => x = 0)
      BY <2>4
    <3>2. PictureLeft(u) = 578 + Share(x)
      BY <2>4, RightFar
    <3> HIDE DEF x
    <3>3. Share(x) \in Nat /\ (x = 0 => Share(x) = 0)
      BY <3>1 DEF Share, Unit
    <3> QED
      BY <2>4, <3>1, <3>2, <3>3
  <2> QED
    BY <2>1, <2>2, <2>3, <2>4
<1>2. CASE v + 12 <= w
  <2>1. CASE w <= -1024
    <3> DEFINE x == 270 * (-v - 1024)
               y == 270 * (-w - 1024)
    <3>1. x \in Nat /\ y \in Nat /\ y <= x /\ v <= -1024
      BY <1>2, <2>1
    <3>2. PictureLeft(v) = 42 - Share(x) /\ PictureLeft(w) = 42 - Share(y)
      BY <2>1, <3>1, LeftFar
    <3> HIDE DEF x, y
    <3>3. Share(x) \in Nat /\ Share(y) \in Nat /\ Share(y) <= Share(x)
      BY <3>1 DEF Share, Unit
    <3> QED
      BY <3>2, <3>3
  <2>2. CASE v \in -1024..0 /\ w \in -1024..0
    <3> DEFINE a == -v
               b == -w
               x == 270 * a
               y == 42 * a
               s == 270 * b
               t == 42 * b
    <3>1. /\ a \in Nat /\ b \in Nat /\ b + 12 <= a
          /\ x \in Nat /\ y \in Nat /\ s \in Nat /\ t \in Nat
          /\ x = 270 * a /\ y = 42 * a /\ s = 270 * b /\ t = 42 * b
      BY <1>2, <2>2
    <3>2. PictureLeft(v) = 270 - Share(x) + Share(y) /\ PictureLeft(w) = 270 - Share(s) + Share(t)
      BY <2>2, LeftNear
    <3> HIDE DEF a, b, x, y, s, t
    <3>3. /\ Share(x) \in Nat /\ x <= 1024 * Share(x) + 1023
          /\ Share(y) \in Nat /\ 1024 * Share(y) <= y
          /\ Share(s) \in Nat /\ 1024 * Share(s) <= s
          /\ Share(t) \in Nat /\ t <= 1024 * Share(t) + 1023
      BY <3>1, ShareBounds
    <3>4. PictureLeft(v) <= PictureLeft(w)
      BY <3>1, <3>2, <3>3
    <3> QED
      BY <1>1, <3>4
  <2>3. CASE v \in 0..1024 /\ w \in 0..1024
    <3> DEFINE x == 260 * v
               y == 48 * v
               s == 260 * w
               t == 48 * w
    <3>1. x \in Nat /\ y \in Nat /\ s \in Nat /\ t \in Nat /\ x <= s /\ y <= t
      BY <1>2, <2>3
    <3>2. PictureLeft(v) = 270 + Share(x) + Share(y) /\ PictureLeft(w) = 270 + Share(s) + Share(t)
      BY <2>3, RightNear
    <3> HIDE DEF x, y, s, t
    <3>3. /\ Share(x) \in Nat /\ Share(y) \in Nat /\ Share(s) \in Nat /\ Share(t) \in Nat
          /\ Share(x) <= Share(s) /\ Share(y) <= Share(t)
      BY <3>1 DEF Share, Unit
    <3>4. PictureLeft(v) <= PictureLeft(w)
      BY <3>2, <3>3
    <3> QED
      BY <1>1, <3>4
  <2>4. CASE v >= 1024
    <3> DEFINE x == 270 * (v - 1024)
               y == 270 * (w - 1024)
    <3>1. x \in Nat /\ y \in Nat /\ x <= y /\ w >= 1024
      BY <1>2, <2>4
    <3>2. PictureLeft(v) = 578 + Share(x) /\ PictureLeft(w) = 578 + Share(y)
      BY <2>4, <3>1, RightFar
    <3> HIDE DEF x, y
    <3>3. Share(x) \in Nat /\ Share(y) \in Nat /\ Share(x) <= Share(y)
      BY <3>1 DEF Share, Unit
    <3> QED
      BY <3>2, <3>3
  <2>5. CASE (v <= -1024 /\ w >= -1024) \/ (v <= 0 /\ w >= 0) \/ (v <= 1024 /\ w >= 1024)
    BY <1>1, <2>5
  <2> QED
    BY <1>2, <2>1, <2>2, <2>3, <2>4, <2>5
<1> QED
  BY <1>1, <1>2

-----------------------------------------------------------------------------
(* Division.                                                               *)

LEMMA Division ==
  ASSUME NEW a \in Int, NEW n \in Nat \ {0}
  PROVE  a \div n \in Int /\ a % n \in 0..(n - 1) /\ a = n * (a \div n) + (a % n)
  OBVIOUS

\* Quotient and remainder are the only ones.
LEMMA DivisionUnique ==
  ASSUME NEW n \in Nat \ {0}, NEW p \in Int, NEW q \in Int, NEW r \in 0..(n - 1), NEW s \in 0..(n - 1),
         n * p + r = n * q + s
  PROVE  p = q /\ r = s
<1>1. ASSUME NEW d \in Int, d >= 1 PROVE n * d >= n
  BY <1>1
<1>2. n * (p - q) = s - r /\ n * (q - p) = r - s
  OBVIOUS
<1>3. ~(p - q >= 1)
  BY <1>1, <1>2
<1>4. ~(q - p >= 1)
  BY <1>1, <1>2
<1>5. p = q
  BY <1>3, <1>4
<1> QED
  BY <1>5

\* A remainder may be taken early.
LEMMA ModAdd ==
  ASSUME NEW a \in Int, NEW b \in Int, NEW n \in Nat \ {0}
  PROVE  ((a % n) + b) % n = (a + b) % n
<1> DEFINE c == a % n
           x == c + b
           y == a + b
<1>1. c \in 0..(n - 1) /\ a \div n \in Int /\ a = n * (a \div n) + c
  BY Division
<1>2. x \in Int /\ y \in Int
  BY <1>1
<1> HIDE DEF c, x, y
<1>3. x \div n \in Int /\ x % n \in 0..(n - 1) /\ x = n * (x \div n) + (x % n)
  BY <1>2, Division
<1>4. y \div n \in Int /\ y % n \in 0..(n - 1) /\ y = n * (y \div n) + (y % n)
  BY <1>2, Division
<1> DEFINE k == a \div n
           l == x \div n
           m == y \div n
           r == x % n
           s == y % n
<1> HIDE DEF k, l, m, r, s
<1>5. k \in Int /\ l \in Int /\ m \in Int /\ r \in 0..(n - 1) /\ s \in 0..(n - 1)
      /\ a = n * k + c /\ x = n * l + r /\ y = n * m + s
  <2>1. k \in Int /\ a = n * k + c
    BY <1>1 DEF k
  <2>2. l \in Int /\ r \in 0..(n - 1) /\ x = n * l + r
    BY <1>3 DEF l, r
  <2>3. m \in Int /\ s \in 0..(n - 1) /\ y = n * m + s
    BY <1>4 DEF m, s
  <2> QED
    BY <2>1, <2>2, <2>3
<1>6. y = n * k + x
  BY <1>1, <1>2, <1>5 DEF x, y
<1>7. n * (k + l) + r = n * m + s
  BY <1>2, <1>5, <1>6
<1>8. r = s
  BY <1>5, <1>7, DivisionUnique
<1> QED
  BY <1>8 DEF c, x, y, r, s

LEMMA ModSmall ==
  ASSUME NEW n \in Nat \ {0}, NEW a \in 0..(n - 1)
  PROVE  a % n = a
  OBVIOUS

\* A multiple of the divisor bounds the quotient.
LEMMA QuotientBound ==
  ASSUME NEW n \in Nat \ {0}, NEW k \in Nat, NEW a \in 0..(k * n)
  PROVE  a \div n \in 0..k
<1> DEFINE q == a \div n
<1>1. q \in Int /\ n * q <= a /\ a < n * q + n
  BY Division
<1> HIDE DEF q
<1>2. q >= 0
  <2>1. n * (q + 1) = n * q + n
    BY <1>1
  <2>2. ASSUME q < 0 PROVE FALSE
    <3>1. n * (q + 1) <= 0
      BY <1>1, <2>2
    <3> QED
      BY <1>1, <2>1, <3>1
  <2> QED
    BY <1>1, <2>2
<1>3. q <= k
  <2>1. ASSUME q >= k + 1 PROVE FALSE
    <3>1. n * q >= n * (k + 1)
      BY <1>1, <2>1
    <3>2. n * (k + 1) = k * n + n
      OBVIOUS
    <3> QED
      BY <1>1, <3>1, <3>2
  <2> QED
    BY <1>1, <2>1
<1> QED
  BY <1>1, <1>2, <1>3 DEF q

-----------------------------------------------------------------------------
(* The carousel: what its operations make of the list and of a snap.       *)

LEMMA SwipeType == Swipe \in Nat \ {0} /\ Snap \in Nat /\ MaxRecipes \in Nat \ {0}
  BY HomeAssumption

\* A slot without an image has no picture; one with an image has that of its
\* recipe, where there is one.
Blank(h) == \A i \in Slots : i \notin h.images => h.pictures[i] = NoRecipe
Pictures(h) == \A i \in Slots : i \in h.images /\ HasPicture(h.slots[i]) => h.pictures[i] = h.slots[i]

\* The center is a recipe of the list, the slots are its neighbours.
ListOK(h) == /\ h.count \in 0..MaxRecipes
             /\ Blank(h)
             /\ h.count > 0 => /\ h.selected \in 0..(h.count - 1)
                               /\ h.slots = Around[h.count][h.selected]
                               /\ Pictures(h)

\* How far a snap has come towards its target.
Way(h) == -(h.dir * h.reached)

\* A snap goes 1 to 3 steps, fewer than there are recipes; the steps it has
\* committed lie behind it, and the offset is the rest of its way.  It may start
\* against the finger, up to a step from there, which may commit a step.
PlanOK(h) == /\ h.offset \in -Swipe..Swipe
             /\ h.dir \in {-1, 0, 1} /\ h.total \in 0..3 /\ h.done \in 0..h.total /\ h.reached \in Int
             /\ h.dir = 0 <=> h.total = 0
             /\ h.dir = 0 => h.reached \in -Swipe..Swipe
             /\ h.dir # 0 => /\ h.count > 1
                             /\ Way(h) <= h.total * Swipe
                             /\ Way(h) >= IF h.done <= 1 THEN -Swipe ELSE h.done * Swipe
                             /\ Way(h) >= 0 => h.offset = -h.dir * (Way(h) - h.done * Swipe)

\* The operations that do not touch the list, or the snap.
SameList(g, h) == /\ HomeWhole(h) /\ h.count = g.count /\ h.selected = g.selected /\ h.slots = g.slots
                  /\ h.images = g.images /\ h.pictures = g.pictures
SamePlan(g, h) == /\ HomeWhole(h) /\ h.count = g.count
                  /\ h.offset = g.offset /\ h.dir = g.dir /\ h.total = g.total /\ h.done = g.done
                  /\ h.reached = g.reached

LEMMA SameListOK ==
  ASSUME NEW g, NEW h, SameList(g, h), ListOK(g)
  PROVE  ListOK(h)
  BY DEF SameList, ListOK, Blank, Pictures

LEMMA SamePlanOK ==
  ASSUME NEW g, NEW h, SamePlan(g, h), PlanOK(g)
  PROVE  PlanOK(h)
  BY DEF SamePlan, PlanOK, Way

\* The last of the steps that has a picture leaves it.
LEMMA PicturedBy ==
  ASSUME NEW h, NEW i \in Slots, NEW K \in SUBSET Nat, NEW n \in K, \A k \in K : k <= n, Blank(h)
  PROVE  LET r == (h.selected + h.dir * n + i) % h.count
         IN  /\ i \in h.images /\ HasPicture(r) => Pictured(h, i, K) = r
             /\ i \notin h.images => Pictured(h, i, K) = NoRecipe
<1> DEFINE recipe(k) == (h.selected + h.dir * k + i) % h.count
           seen == {k \in K : i \in h.images /\ HasPicture(recipe(k))}
           top == CHOOSE k \in seen : \A j \in seen : j <= k
<1>1. Pictured(h, i, K) = IF seen = {} THEN h.pictures[i] ELSE recipe(top)
  BY DEF Pictured
<1>2. CASE i \notin h.images
  <2>1. seen = {}
    BY <1>2
  <2> QED
    BY <1>1, <1>2, <2>1 DEF Blank
<1>3. CASE i \in h.images /\ HasPicture(recipe(n))
  <2>1. n \in seen /\ seen \subseteq K
    BY <1>3
  <2>2. \A k \in seen : (\A j \in seen : j <= k) => k = n
    <3> SUFFICES ASSUME NEW k \in seen, \A j \in seen : j <= k PROVE k = n
      OBVIOUS
    <3>1. n <= k /\ k <= n /\ k \in Nat /\ n \in Nat
      BY <2>1
    <3> QED
      BY <3>1
  <2>3. \A j \in seen : j <= n
    BY <2>1
  <2> HIDE DEF seen
  <2>4. top = n
    BY <2>1, <2>2, <2>3
  <2> QED
    BY <1>1, <1>3, <2>1, <2>4
<1> QED
  BY <1>2, <1>3

LEMMA AroundAt ==
  ASSUME NEW n \in 1..MaxRecipes, NEW r \in 0..(n - 1), NEW i \in Slots
  PROVE  Around[n][r][i] = (r + i) % n
  BY SwipeType DEF Around

LEMMA LayoutList ==
  ASSUME NEW h, HomeWhole(h), h.count \in 0..MaxRecipes, h.count > 0 => h.selected \in 0..(h.count - 1),
         Blank(h), h.dir \in Int
  PROVE  ListOK(Layout(h)) /\ SamePlan(h, Layout(h)) /\ Layout(h).selected = h.selected
<1> DEFINE g == Layout(h)
<1>1. CASE h.count = 0
  <2>1. g = h
    BY <1>1 DEF Layout
  <2> QED
    BY <1>1, <2>1 DEF ListOK, SamePlan
<1>2. CASE h.count # 0
  <2>1. /\ HomeWhole(g) /\ g.count = h.count /\ g.selected = h.selected /\ SamePlan(h, g)
        /\ g.slots = Around[h.count][h.selected] /\ g.images = h.images
        /\ \A i \in Slots : g.pictures[i] = Pictured(h, i, {0})
    BY <1>2 DEF Layout, HomeWhole, HomeFields, SamePlan
  <2>2. h.count \in 1..MaxRecipes /\ h.selected \in 0..(h.count - 1)
    BY <1>2, SwipeType
  <2> HIDE DEF g
  <2>3. ASSUME NEW i \in Slots
        PROVE  /\ i \in g.images /\ HasPicture(g.slots[i]) => g.pictures[i] = g.slots[i]
               /\ i \notin g.images => g.pictures[i] = NoRecipe
    <3>1. h.selected + h.dir * 0 + i = h.selected + i
      BY <2>2 DEF Slots
    <3>2. g.slots[i] = (h.selected + h.dir * 0 + i) % h.count
      BY <2>1, <2>2, <3>1, AroundAt
    <3>3. {0} \in SUBSET Nat /\ 0 \in {0} /\ \A k \in {0} : k <= 0
      OBVIOUS
    <3>4. /\ i \in h.images /\ HasPicture(g.slots[i]) => Pictured(h, i, {0}) = g.slots[i]
          /\ i \notin h.images => Pictured(h, i, {0}) = NoRecipe
      BY <3>2, <3>3, PicturedBy
    <3> QED
      BY <2>1, <3>4
  <2> QED
    BY <2>1, <2>2, <2>3 DEF ListOK, Blank, Pictures, g
<1> QED
  BY <1>1, <1>2

\* n steps of a snap.
LEMMA CommitList ==
  ASSUME NEW h, NEW n \in Nat, HomeWhole(h), ListOK(h), h.dir \in {-1, 0, 1}, h.done \in Nat,
         n # 0 => h.count > 0
  PROVE  LET c == Commit(h, n)
         IN  /\ HomeWhole(c) /\ ListOK(c) /\ c.count = h.count
             /\ c.offset = h.offset /\ c.dir = h.dir /\ c.total = h.total /\ c.reached = h.reached
             /\ c.done = h.done + n
             /\ h.count > 0 => c.selected = (h.selected + h.dir * n) % h.count
<1>1. CASE n = 0
  <2>1. Commit(h, n) = h
    BY <1>1 DEF Commit
  <2>2. h.count > 0 => h.count \in Nat \ {0} /\ h.selected \in 0..(h.count - 1)
    BY SwipeType DEF ListOK
  <2>3. h.count > 0 => h.selected + h.dir * n = h.selected
    BY <1>1, <2>2
  <2>4. h.count > 0 => h.selected % h.count = h.selected
    BY <2>2, ModSmall
  <2> QED
    BY <1>1, <2>1, <2>3, <2>4
<1>2. CASE n # 0
  <2> DEFINE r == (h.selected + h.dir * n) % h.count
             c == Commit(h, n)
  <2>1. /\ HomeWhole(c) /\ c.count = h.count /\ c.selected = r /\ c.done = h.done + n
        /\ c.offset = h.offset /\ c.dir = h.dir /\ c.total = h.total /\ c.reached = h.reached
        /\ c.slots = Around[h.count][r] /\ c.images = h.images
        /\ \A i \in Slots : c.pictures[i] = Pictured(h, i, 1..n)
    BY <1>2 DEF Commit, HomeWhole, HomeFields
  <2>2. h.count \in Nat \ {0} /\ h.count \in 1..MaxRecipes /\ h.selected \in Int /\ Blank(h)
    BY <1>2, SwipeType DEF ListOK
  <2>3. h.selected + h.dir * n \in Int
    BY <2>2
  <2>4. r \in 0..(h.count - 1)
    BY <2>2, <2>3, Division
  <2> HIDE DEF c
  <2>5. ASSUME NEW i \in Slots
        PROVE  /\ i \in c.images /\ HasPicture(c.slots[i]) => c.pictures[i] = c.slots[i]
               /\ i \notin c.images => c.pictures[i] = NoRecipe
    <3>1. (r + i) % h.count = (h.selected + h.dir * n + i) % h.count
      <4> DEFINE a == h.selected + h.dir * n
      <4>1. a \in Int /\ i \in Int
        BY <2>3 DEF Slots
      <4> HIDE DEF a
      <4>2. ((a % h.count) + i) % h.count = (a + i) % h.count
        BY <2>2, <4>1, ModAdd
      <4> QED
        BY <4>2 DEF a
    <3> HIDE DEF r
    <3>2. c.slots[i] = (h.selected + h.dir * n + i) % h.count
      BY <2>1, <2>2, <2>4, <3>1, AroundAt
    <3>3. 1..n \in SUBSET Nat /\ n \in 1..n /\ \A k \in 1..n : k <= n
      BY <1>2
    <3>4. /\ i \in h.images /\ HasPicture(c.slots[i]) => Pictured(h, i, 1..n) = c.slots[i]
          /\ i \notin h.images => Pictured(h, i, 1..n) = NoRecipe
      BY <2>2, <3>2, <3>3, PicturedBy
    <3> QED
      BY <2>1, <3>4
  <2>6. ListOK(c)
    BY <2>1, <2>2, <2>4, <2>5 DEF ListOK, Blank, Pictures
  <2> QED
    BY <2>1, <2>6 DEF c
<1> QED
  BY <1>1, <1>2

\* Where a snap ends does not change with the steps it commits.
LEMMA CommitDestination ==
  ASSUME NEW h, NEW n \in Nat, HomeWhole(h), ListOK(h), h.dir \in {-1, 0, 1}, h.done \in Nat,
         h.total \in Nat, n # 0 => h.count > 0
  PROVE  Destination(Commit(h, n)) = Destination(h)
<1> DEFINE c == Commit(h, n)
           a == h.selected + h.dir * n
           b == h.dir * (h.total - (h.done + n))
<1>1. c.count = h.count /\ c.dir = h.dir /\ c.total = h.total /\ c.done = h.done + n
      /\ (h.count > 0 => c.selected = a % h.count)
  BY CommitList
<1> HIDE DEF c
<1>2. CASE h.count = 0
  BY <1>1, <1>2 DEF Destination, c
<1>3. CASE h.count # 0
  <2>1. h.count \in Nat \ {0} /\ h.count > 0 /\ h.selected \in Int
    BY <1>3, SwipeType DEF ListOK
  <2>2. a \in Int /\ b \in Int
    BY <2>1
  <2>3. a + b = h.selected + h.dir * (h.total - h.done)
    BY <2>1
  <2>4. Destination(c) = ((a % h.count) + b) % h.count
    BY <1>1, <1>3, <2>1 DEF Destination
  <2>5. Destination(h) = (a + b) % h.count
    BY <1>3, <2>3 DEF Destination
  <2> HIDE DEF a, b
  <2> QED
    BY <2>1, <2>2, <2>4, <2>5, ModAdd DEF c
<1> QED
  BY <1>2, <1>3

LEMMA StopSnapList ==
  ASSUME NEW h, HomeWhole(h)
  PROVE  SameList(h, StopSnap(h)) /\ SamePlan(h, StopSnap(h))
  BY DEF HomeWhole, HomeFields, StopSnap, SameList, SamePlan

LEMMA ResetPlan ==
  ASSUME NEW h, HomeWhole(h)
  PROVE  /\ SameList(h, Reset(h)) /\ PlanOK(Reset(h))
         /\ Reset(h).dir = 0 /\ Reset(h).offset = 0
<1> DEFINE r == Reset(h)
<1>1. SameList(h, r) /\ r.offset = 0 /\ r.dir = 0 /\ r.total = 0 /\ r.done = 0 /\ r.reached = 0
  BY DEF HomeWhole, HomeFields, Reset, SameList
<1> HIDE DEF r
<1>2. PlanOK(r)
  BY <1>1, SwipeType DEF PlanOK
<1> QED
  BY <1>1, <1>2 DEF r

LEMMA CancelPlan ==
  ASSUME NEW h, HomeWhole(h), ListOK(h)
  PROVE  /\ HomeWhole(Cancel(h)) /\ ListOK(Cancel(h)) /\ PlanOK(Cancel(h)) /\ Cancel(h).dir = 0
         /\ Cancel(h).count = h.count
<1>1. SameList(h, StopSnap(h)) /\ HomeWhole(StopSnap(h))
  BY StopSnapList DEF SameList
<1>2. SameList(StopSnap(h), Cancel(h)) /\ PlanOK(Cancel(h)) /\ Cancel(h).dir = 0
  BY <1>1, ResetPlan DEF Cancel
<1> QED
  BY <1>1, <1>2, SameListOK DEF SameList

\* The end of a snap: all its steps, and no offset.
LEMMA FinishPlan ==
  ASSUME NEW h, HomeWhole(h), ListOK(h), PlanOK(h)
  PROVE  /\ ListOK(Finish(h)) /\ PlanOK(Finish(h)) /\ Finish(h).dir = 0 /\ Finish(h).offset = 0
         /\ Finish(h).count = h.count
         /\ Destination(Finish(h)) = Destination(h)
<1> DEFINE s == StopSnap(h)
           n == h.total - h.done
           c == Commit(s, n)
           r == Reset(c)
           f == Finish(h)
<1>1. SameList(h, s) /\ SamePlan(h, s) /\ HomeWhole(s) /\ ListOK(s) /\ PlanOK(s)
  BY StopSnapList, SameListOK, SamePlanOK DEF SameList
<1>2. f = Layout(r)
  BY DEF Finish, Ended
<1>3. s.count = h.count /\ s.dir = h.dir /\ s.done = h.done /\ s.total = h.total /\ s.selected = h.selected
  BY <1>1 DEF SameList, SamePlan
<1>4. s.dir \in {-1, 0, 1} /\ s.done \in Nat /\ s.total \in Nat /\ n \in Nat /\ (n # 0 => s.count > 0)
  <2>1. h.total \in 0..3 /\ h.done \in 0..h.total /\ h.dir \in {-1, 0, 1} /\ (h.dir = 0 <=> h.total = 0)
        /\ (h.dir # 0 => h.count > 1) /\ h.count \in Int
    BY DEF PlanOK, ListOK
  <2> QED
    BY <1>3, <2>1
<1> HIDE DEF s, n, f
<1>5. HomeWhole(c) /\ ListOK(c) /\ c.count = s.count /\ c.dir = s.dir /\ c.total = s.total
      /\ c.done = s.done + n
  BY <1>1, <1>4, CommitList
<1>6. Destination(c) = Destination(s)
  BY <1>1, <1>4, CommitDestination
<1>7. Destination(s) = Destination(h)
  BY <1>3 DEF Destination
<1> HIDE DEF c
<1>8. SameList(c, r) /\ PlanOK(r) /\ r.dir = 0 /\ r.offset = 0 /\ ListOK(r) /\ HomeWhole(r)
  BY <1>5, ResetPlan, SameListOK DEF SameList
<1> HIDE DEF r
<1>9. ListOK(f) /\ SamePlan(r, f) /\ f.selected = r.selected
  <2>1. r.count \in 0..MaxRecipes /\ (r.count > 0 => r.selected \in 0..(r.count - 1)) /\ Blank(r) /\ r.dir \in Int
    BY <1>8 DEF ListOK
  <2> QED
    BY <1>2, <1>8, <2>1, LayoutList
<1>10. PlanOK(f) /\ f.dir = 0 /\ f.offset = 0 /\ f.count = h.count
  BY <1>3, <1>5, <1>8, <1>9, SamePlanOK DEF SamePlan, SameList
<1>11. Destination(f) = Destination(c)
  <2>1. f.count = c.count /\ f.selected = c.selected /\ c.count \in Int
    BY <1>3, <1>5, <1>8, <1>9, <1>10 DEF SameList, ListOK
  <2>2. c.done = c.total
    <3>1. c.done = s.done + (s.total - s.done) /\ c.total = s.total
      BY <1>3, <1>5 DEF n
    <3> QED
      BY <1>4, <3>1
  <2>3. c.dir * (c.total - c.done) = 0 /\ f.dir * (f.total - f.done) = 0
    <3>1. c.total \in Int /\ c.dir \in Int /\ f.total \in Int /\ f.done \in Int
      BY <1>4, <1>5, <1>10 DEF PlanOK
    <3> QED
      BY <1>10, <2>2, <3>1
  <2> QED
    BY <2>1, <2>3 DEF Destination
<1> QED
  BY <1>6, <1>7, <1>9, <1>10, <1>11 DEF f

\* A progress the timer may come with: further than the one before, up to the
\* target.
Ahead(h, p) == /\ p \in Int
               /\ h.dir = 0 => p \in -Swipe..Swipe
               /\ h.dir # 0 => /\ Way(h) <= -(h.dir * p) /\ -(h.dir * p) <= h.total * Swipe
                               /\ -Swipe <= -(h.dir * p)

\* The steps that a way of q pixels is worth.
LEMMA StepsOfWay ==
  ASSUME NEW t \in Nat, NEW d \in 0..t, NEW q \in 0..(t * Swipe), d * Swipe <= q
  PROVE  /\ q \div Swipe \in d..t
         /\ (q \div Swipe) * Swipe <= q /\ q < (q \div Swipe) * Swipe + Swipe
<1> DEFINE m == q \div Swipe
<1>1. Swipe \in Nat \ {0} /\ q \in Int
  BY SwipeType
<1>2. m \in Int /\ m * Swipe <= q /\ q < m * Swipe + Swipe
  BY <1>1, Division
<1>3. m \in 0..t
  BY <1>1, QuotientBound
<1> HIDE DEF m
<1>4. ASSUME m < d PROVE FALSE
  <2>1. (m + 1) * Swipe <= d * Swipe
    BY <1>1, <1>2, <1>4
  <2>2. (m + 1) * Swipe = m * Swipe + Swipe
    BY <1>1, <1>2
  <2>3. m * Swipe \in Int /\ d * Swipe \in Int
    BY <1>1, <1>2
  <2> QED
    BY <1>1, <1>2, <2>1, <2>2, <2>3
<1> QED
  BY <1>2, <1>3, <1>4 DEF m

\* The steps that are committed on the way from w to q, d of which were: those
\* q is worth, or d if the snap has gone back behind its first.
LEMMA StepsKept ==
  ASSUME NEW t \in Nat \ {0}, NEW d \in 0..t, NEW q \in Int, NEW w \in Int,
         -Swipe <= q, w <= q, q <= t * Swipe, w >= IF d <= 1 THEN -Swipe ELSE d * Swipe
  PROVE  LET s == Min2(Abs(q) \div Swipe, t)
             m == IF s > d THEN s ELSE d
         IN  m \in d..t /\ Abs(q) - m * Swipe \in -Swipe..Swipe /\ (m >= 2 => m * Swipe <= q)
             /\ (m = d \/ m * Swipe <= Abs(q))
<1> DEFINE a == Abs(q)
           k == a \div Swipe
           s == Min2(k, t)
           m == IF s > d THEN s ELSE d
<1>1. Swipe \in Nat \ {0} /\ a \in Nat /\ t * Swipe \in Int /\ d * Swipe \in Int /\ d * Swipe >= 0
  BY SwipeType DEF Abs
<1>2. a = IF q < 0 THEN -q ELSE q
  BY DEF Abs
<1> HIDE DEF a
<1>3. k \in Int /\ k * Swipe <= a /\ a < k * Swipe + Swipe
  BY <1>1, Division
<1>4. CASE q >= 0
  <2>1. a = q /\ q \in 0..(t * Swipe)
    BY <1>1, <1>2, <1>4
  <2>2. k \in 0..t
    BY <1>1, <2>1, QuotientBound
  <2> HIDE DEF k
  <2>3. s = k
    BY <2>2 DEF Min2
  <2>4. CASE k >= d
    <3>1. m = k
      BY <2>2, <2>3, <2>4
    <3>2. k * Swipe \in Int
      BY <1>1, <2>2
    <3> HIDE DEF m
    <3>3. k \in d..t /\ a - k * Swipe \in -Swipe..Swipe /\ k * Swipe <= q
      BY <1>1, <1>3, <2>1, <2>2, <2>4, <3>2
    <3>4. m \in d..t /\ a - m * Swipe \in -Swipe..Swipe /\ (m >= 2 => m * Swipe <= q) /\ m * Swipe <= a
      BY <1>3, <3>1, <3>3
    <3> QED
      BY <3>4 DEF m, s, k, a
  <2>5. CASE k < d
    <3>1. d <= 1
      <4>1. ASSUME d >= 2 PROVE k >= d
        <5>1. d * Swipe <= q
          BY <1>1, <4>1
        <5>2. t \in Nat
          OBVIOUS
        <5>3. q \div Swipe \in d..t
          BY <2>1, <5>1, <5>2, StepsOfWay
        <5>4. k = q \div Swipe
          BY <2>1 DEF k
        <5> QED
          BY <2>2, <5>3, <5>4
      <4>2. d \in Int /\ k \in Int
        BY <2>2
      <4> QED
        BY <2>5, <4>1, <4>2
    <3>2. d = 1 /\ k = 0
      BY <2>2, <2>5, <3>1
    <3>3. m = 1
      BY <2>3, <3>2
    <3>4. k * Swipe = 0 /\ 1 * Swipe = Swipe
      BY <1>1, <3>2
    <3> HIDE DEF m
    <3>5. a - m * Swipe \in -Swipe..Swipe
      BY <1>1, <1>3, <3>3, <3>4
    <3> QED
      BY <3>2, <3>3, <3>5 DEF m, s, k, a
  <2> QED
    BY <2>2, <2>4, <2>5
<1>5. CASE q < 0
  <2>1. a \in 0..(1 * Swipe)
    BY <1>1, <1>2, <1>5
  <2>2. k \in 0..1
    BY <1>1, <2>1, QuotientBound
  <2>3. d <= 1
    BY <1>1, <1>5
  <2> HIDE DEF k
  <2>4. s \in 0..1 /\ s <= t /\ s <= k
    BY <2>2 DEF Min2
  <2> HIDE DEF s
  <2>5. m \in 0..1 /\ m \in d..t /\ (m = d \/ (m = 1 /\ k = 1))
    BY <2>2, <2>3, <2>4
  <2>6. 0 * Swipe = 0 /\ 1 * Swipe = Swipe
    BY <1>1
  <2> HIDE DEF m
  <2>7. a - m * Swipe \in -Swipe..Swipe /\ (m = d \/ m * Swipe <= a)
    BY <1>1, <1>3, <2>1, <2>5, <2>6
  <2> QED
    BY <2>5, <2>7 DEF m, s, k, a
<1> QED
  BY <1>4, <1>5

\* home_page_apply_snap_progress keeps the plan: the steps that are committed
\* are those the way is worth.
LEMMA ProgressPlan ==
  ASSUME NEW h, NEW p, HomeWhole(h), ListOK(h), PlanOK(h), Ahead(h, p)
  PROVE  LET g == ApplyProgress(h, p)
         IN  /\ HomeWhole(g) /\ ListOK(g) /\ PlanOK(g)
             /\ g.count = h.count /\ g.dir = h.dir /\ g.total = h.total /\ g.reached = p
             /\ h.dir # 0 => /\ g.offset = -h.dir * (Abs(p) - g.done * Swipe)
                             /\ g.done >= h.done /\ (g.done = h.done \/ g.done * Swipe <= Abs(p))
             /\ Destination(g) = Destination(h)
<1> DEFINE g == ApplyProgress(h, p)
<1>1. Swipe \in Nat \ {0} /\ p \in Int /\ h.dir \in {-1, 0, 1} /\ h.total \in 0..3 /\ h.done \in 0..h.total
      /\ (h.dir = 0 <=> h.total = 0)
  BY SwipeType DEF PlanOK, Ahead
<1>2. CASE h.dir = 0
  <2>1. g = [h EXCEPT !.offset = p, !.reached = p]
    BY <1>1, <1>2 DEF ApplyProgress
  <2>2. HomeWhole(g) /\ SameList(h, g) /\ g.offset = p /\ g.reached = p /\ g.dir = h.dir /\ g.total = h.total
        /\ g.done = h.done
    BY <2>1 DEF HomeWhole, HomeFields, SameList
  <2> HIDE DEF g
  <2>3. ListOK(g)
    BY <2>2, SameListOK
  <2>4. PlanOK(g)
    BY <1>1, <1>2, <2>2 DEF PlanOK, Ahead
  <2>5. Destination(g) = Destination(h)
    BY <2>2 DEF Destination, SameList
  <2> QED
    BY <1>2, <2>2, <2>3, <2>4, <2>5 DEF SameList, g
<1>3. CASE h.dir # 0
  <2> DEFINE q == -(h.dir * p)
             steps == Min2(Abs(p) \div Swipe, h.total)
             n == IF steps > h.done THEN steps - h.done ELSE 0
             c == Commit(h, n)
             m == IF steps > h.done THEN steps ELSE h.done
  <2>1. g = [c EXCEPT !.offset = -h.dir * (Abs(p) - (h.done + n) * Swipe), !.reached = p]
    BY <1>3 DEF ApplyProgress
  <2>2. q \in Int /\ Abs(p) = Abs(q)
    BY <1>1, <1>3 DEF Abs
  <2>3. h.count > 1 /\ Way(h) <= q /\ q <= h.total * Swipe /\ -Swipe <= q
        /\ Way(h) \in Int /\ h.total # 0
        /\ Way(h) >= IF h.done <= 1 THEN -Swipe ELSE h.done * Swipe
    BY <1>1, <1>3 DEF PlanOK, Ahead, Way
  <2>4. m \in h.done..h.total /\ Abs(p) - m * Swipe \in -Swipe..Swipe /\ (m >= 2 => m * Swipe <= q)
        /\ (m = h.done \/ m * Swipe <= Abs(p))
    <3>1. h.total \in Nat \ {0} /\ h.done \in 0..h.total
      BY <1>1, <2>3
    <3> HIDE DEF q
    <3> QED
      BY <2>2, <2>3, <3>1, StepsKept
  <2>5. n \in Nat /\ h.done \in Nat /\ h.total \in Nat /\ h.done + n = m /\ (n # 0 => h.count > 0)
    <3>1. m \in Int /\ h.done \in Nat /\ h.total \in Nat
      BY <1>1, <2>4
    <3>2. CASE steps > h.done
      <4>1. m = steps /\ n = steps - h.done
        BY <3>2
      <4>2. m >= h.done /\ h.count > 0
        <5>1. m >= h.done
          BY <2>4, <3>1
        <5>2. h.count \in Int
          BY SwipeType DEF ListOK
        <5> QED
          BY <2>3, <5>1, <5>2
      <4> HIDE DEF steps, m, n
      <4> QED
        BY <3>1, <4>1, <4>2
    <3>3. CASE ~(steps > h.done)
      <4>1. m = h.done /\ n = 0
        BY <3>3
      <4> QED
        BY <2>3, <3>1, <4>1
    <3> QED
      BY <3>2, <3>3
  <2> HIDE DEF q, n, m
  <2>6. /\ HomeWhole(c) /\ ListOK(c) /\ c.count = h.count
        /\ c.dir = h.dir /\ c.total = h.total /\ c.done = m
    BY <1>1, <2>5, CommitList
  <2>7. Destination(c) = Destination(h)
    BY <1>1, <2>5, CommitDestination
  <2> HIDE DEF c, g
  <2>8. /\ HomeWhole(g) /\ SameList(c, g) /\ g.dir = h.dir /\ g.total = h.total /\ g.done = m
        /\ g.reached = p /\ g.offset = -h.dir * (Abs(p) - m * Swipe) /\ g.count = h.count
    <3>1. g = [c EXCEPT !.offset = -h.dir * (Abs(p) - m * Swipe), !.reached = p]
      BY <2>1, <2>5 DEF n
    <3> QED
      BY <2>6, <3>1 DEF HomeWhole, HomeFields, SameList
  <2>9. PlanOK(g)
    <3>1. Way(g) = q
      BY <2>8 DEF Way, q
    <3>2. m \in 0..3 /\ m * Swipe \in Int
      <4>1. m \in 0..3
        BY <1>1, <2>4
      <4> QED
        BY <1>1, <4>1
    <3>3. g.offset \in -Swipe..Swipe
      <4> DEFINE r == Abs(p) - m * Swipe
      <4>1. r \in -Swipe..Swipe
        BY <2>4
      <4> HIDE DEF r
      <4>2. -h.dir * r \in -Swipe..Swipe
        BY <1>1, <4>1
      <4> QED
        BY <2>8, <4>2 DEF r
    <3>4. q >= 0 => g.offset = -g.dir * (Way(g) - g.done * Swipe)
      <4>1. q >= 0 => Abs(p) = q
        BY <2>2 DEF Abs
      <4> QED
        BY <2>8, <3>1, <4>1
    <3>5. q >= IF m <= 1 THEN -Swipe ELSE m * Swipe
      BY <1>1, <2>2, <2>3, <2>4, <3>2
    <3>6. g.dir \in {-1, 0, 1} /\ g.total \in 0..3 /\ g.done \in 0..g.total /\ g.reached \in Int
          /\ (g.dir = 0 <=> g.total = 0) /\ g.dir # 0 /\ g.count > 1 /\ q <= g.total * Swipe
      BY <1>1, <1>3, <2>3, <2>4, <2>8
    <3> QED
      BY <2>8, <3>1, <3>3, <3>4, <3>5, <3>6 DEF PlanOK
  <2>10. ListOK(g)
    BY <2>6, <2>8, SameListOK
  <2>11. Destination(g) = Destination(c)
    BY <2>6, <2>8 DEF Destination, SameList
  <2>12. /\ g.offset = -h.dir * (Abs(p) - g.done * Swipe)
         /\ g.done >= h.done /\ (g.done = h.done \/ g.done * Swipe <= Abs(p))
    BY <1>1, <2>4, <2>8
  <2> QED
    BY <2>7, <2>8, <2>9, <2>10, <2>11, <2>12 DEF g
<1> QED
  BY <1>2, <1>3

\* Outside of a snap there is no plan.
CarouselOK(h) == /\ ListOK(h) /\ PlanOK(h)
                 /\ h.dir # 0 => h.snap

\* A plan that is made when the finger leaves.
LEMMA StartPlan ==
  ASSUME NEW h, NEW v \in Velocities, NEW g, HomeWhole(h), ListOK(h), PlanOK(h), h.dir = 0,
         g \in StartSnap(h, v)
  PROVE  CarouselOK(g) /\ g.count = h.count
<1> DEFINE d == Direction(h, v)
           t == IF d = 0 THEN 0 ELSE Steps(h, v)
           s == [StopSnap(h) EXCEPT !.dir = d, !.total = t, !.done = 0, !.reached = h.offset,
                                    !.dragging = FALSE]
           r == [s EXCEPT !.snap = TRUE, !.lvgl = @ + 1]
           e == ApplyProgress(s, Target(s))
<1>1. h.count \in Nat /\ h.offset \in -Swipe..Swipe /\ Swipe \in Nat \ {0}
  BY SwipeType DEF ListOK, PlanOK
<1>2. /\ d \in {-1, 0, 1} /\ (d # 0 => h.count > 1)
      /\ t \in 0..3 /\ (d = 0 <=> t = 0)
  <2>1. d \in {-1, 0, 1} /\ (d # 0 => h.count > 1)
    BY <1>1 DEF Direction
  <2>2. h.count > 1 => Steps(h, v) \in 1..3
    <3>1. v \in Int /\ Abs(v) \in 0..3 /\ (v # 0 => Abs(v) # 0)
      BY DEF Velocities, Abs
    <3> QED
      BY <1>1, <3>1 DEF Steps
  <2> QED
    BY <2>1, <2>2
<1>3. SameList(h, StopSnap(h)) /\ SamePlan(h, StopSnap(h)) /\ HomeWhole(StopSnap(h))
  BY StopSnapList DEF SameList
<1>4. g \in {Finish(s)} \cup {r} \cup {Finish(e)}
  BY DEF StartSnap, IfFails
<1> HIDE DEF d, t
<1>5. /\ SameList(StopSnap(h), s) /\ s.dir = d /\ s.total = t /\ s.done = 0 /\ s.reached = h.offset
      /\ s.offset = StopSnap(h).offset
  BY <1>3 DEF HomeWhole, HomeFields, SameList
<1>6. SameList(h, s) /\ s.offset = h.offset
  BY <1>3, <1>5 DEF SameList, SamePlan
<1> HIDE DEF s
<1>7. ListOK(s) /\ HomeWhole(s) /\ s.count = h.count
  BY <1>6, SameListOK DEF SameList
<1>8. s.total * Swipe \in Int /\ (d # 0 => s.total * Swipe >= Swipe)
  BY <1>1, <1>2, <1>5
<1>9. PlanOK(s)
  <2>1. d # 0 => Way(s) \in -Swipe..Swipe /\ s.offset = -s.dir * (Way(s) - 0 * Swipe)
    BY <1>1, <1>2, <1>5, <1>6 DEF Way
  <2>2. d # 0 => Way(s) <= s.total * Swipe /\ Way(s) >= -Swipe
    BY <1>1, <1>8, <2>1
  <2>3. /\ s.offset \in -Swipe..Swipe
        /\ s.dir \in {-1, 0, 1} /\ s.total \in 0..3 /\ s.done \in 0..s.total /\ s.reached \in Int
        /\ (s.dir = 0 <=> s.total = 0)
        /\ (s.dir = 0 => s.reached \in -Swipe..Swipe)
    BY <1>1, <1>2, <1>5, <1>6
  <2> QED
    BY <1>2, <1>5, <1>7, <2>1, <2>2, <2>3 DEF PlanOK
<1>10. Ahead(s, Target(s))
  <2> DEFINE T == s.total * Swipe
  <2>1. T \in Int /\ (d # 0 => T >= Swipe) /\ (d = 0 => T = 0)
    BY <1>1, <1>2, <1>5, <1>8
  <2>2. Target(s) = -s.dir * T
    BY <1>1, <1>2, <1>5 DEF Target
  <2>3. s.dir # 0 => Way(s) <= T
    BY <1>9 DEF PlanOK
  <2> HIDE DEF T
  <2>4. d # 0 => -(s.dir * Target(s)) = T
    BY <1>2, <1>5, <2>1, <2>2
  <2>5. Target(s) \in Int /\ (s.dir = 0 => Target(s) \in -Swipe..Swipe)
    BY <1>1, <1>2, <1>5, <2>1, <2>2
  <2>6. d # 0 => -Swipe <= T
    BY <1>1, <2>1
  <2>7. s.dir # 0 => Way(s) <= -(s.dir * Target(s)) /\ -(s.dir * Target(s)) <= T
                     /\ -Swipe <= -(s.dir * Target(s))
    <3>1. s.dir = d
      BY <1>5
    <3> QED
      BY <2>1, <2>3, <2>4, <2>6, <3>1
  <2> QED
    BY <2>5, <2>7 DEF Ahead, T
<1>11. HomeWhole(e) /\ ListOK(e) /\ PlanOK(e) /\ e.count = s.count
  BY <1>7, <1>9, <1>10, ProgressPlan
<1>12. CASE g = Finish(s) \/ g = Finish(e)
  BY <1>7, <1>9, <1>11, <1>12, FinishPlan DEF CarouselOK
<1>13. CASE g = r
  <2>1. SameList(s, r) /\ SamePlan(s, r) /\ r.snap = TRUE
    BY <1>7 DEF HomeWhole, HomeFields, SameList, SamePlan
  <2> QED
    BY <1>7, <1>9, <1>13, <2>1, SameListOK, SamePlanOK DEF CarouselOK, SameList
<1> QED
  BY <1>4, <1>12, <1>13

\* What the steps of the page need, and keep.
HomeGood(h) == HomeOK(h) /\ CarouselOK(h)

LEMMA HomeGoodParts ==
  ASSUME NEW h, HomeGood(h)
  PROVE  HomeWhole(h) /\ ListOK(h) /\ PlanOK(h) /\ (h.dir # 0 => h.snap) /\ (h.dragging => h.dir = 0)
  BY DEF HomeGood, HomeOK, SnapOK, CarouselOK

LEMMA ReleasePlan ==
  ASSUME HomeGood(home), home.dragging, home' \in AfterRelease
  PROVE  CarouselOK(home') /\ home'.count = home.count
<1> DEFINE h == [home EXCEPT !.pressed = "none"]
<1>1. PICK v \in Velocities : home' \in StartSnap(h, v)
  BY DEF AfterRelease
<1>2. SameList(home, h) /\ SamePlan(home, h)
  BY HomeGoodParts DEF HomeWhole, HomeFields, SameList, SamePlan
<1> HIDE DEF h
<1>3. HomeWhole(h) /\ ListOK(h) /\ PlanOK(h) /\ h.dir = 0 /\ h.count = home.count
  BY <1>2, HomeGoodParts, SameListOK, SamePlanOK DEF SameList, SamePlan
<1> QED
  BY <1>1, <1>3, StartPlan

\* The timer comes with progress that is ahead of the one before.
LEMMA BetweenAhead ==
  ASSUME NEW h, PlanOK(h), NEW p \in Between(h.reached, Target(h))
  PROVE  Ahead(h, p)
<1> DEFINE T == h.total * Swipe
<1>1. /\ Swipe \in Nat \ {0} /\ p \in Int /\ h.dir \in {-1, 0, 1} /\ h.total \in 0..3 /\ h.reached \in Int
      /\ (h.dir = 0 <=> h.total = 0)
  BY SwipeType DEF PlanOK, Between
<1>2. T \in Int /\ (h.dir = 0 => T = 0 /\ -h.dir * T = 0) /\ T >= 0
  BY <1>1
<1>3. Target(h) = -h.dir * T
  BY <1>1 DEF Target
<1>4. (h.reached <= p /\ p <= Target(h)) \/ (Target(h) <= p /\ p <= h.reached)
  BY DEF Between
<1>5. CASE h.dir = 0
  <2>1. h.reached \in -Swipe..Swipe
    BY <1>5 DEF PlanOK
  <2>2. Target(h) = 0
    BY <1>2, <1>3, <1>5, Zenon
  <2>3. p \in -Swipe..Swipe
    BY <1>1, <1>4, <2>1, <2>2
  <2> QED
    BY <1>1, <1>5, <2>3 DEF Ahead
<1>6. CASE h.dir # 0
  <2>1. Way(h) <= T /\ Way(h) >= -Swipe
    <3>1. Way(h) <= T /\ Way(h) >= IF h.done <= 1 THEN -Swipe ELSE h.done * Swipe
      BY <1>6 DEF PlanOK
    <3>2. h.done \in Nat
      BY DEF PlanOK
    <3>3. h.done * Swipe >= 0 /\ h.done * Swipe \in Int
      BY <1>1, <3>2
    <3>4. Way(h) \in Int
      BY <1>1 DEF Way
    <3> QED
      BY <1>1, <3>1, <3>3, <3>4
  <2> HIDE DEF T
  <2>2. Way(h) <= -(h.dir * p) /\ -(h.dir * p) <= T
    BY <1>1, <1>2, <1>3, <1>4, <1>6, <2>1 DEF Way
  <2>3. -(h.dir * p) \in Int /\ Way(h) \in Int
    BY <1>1 DEF Way
  <2> QED
    BY <1>1, <1>2, <1>6, <2>1, <2>2, <2>3 DEF Ahead, T
<1> QED
  BY <1>5, <1>6

LEMMA TargetAhead ==
  ASSUME NEW h, PlanOK(h)
  PROVE  Ahead(h, Target(h))
<1> DEFINE T == h.total * Swipe
<1>1. Swipe \in Nat \ {0} /\ h.dir \in {-1, 0, 1} /\ h.total \in 0..3 /\ (h.dir = 0 <=> h.total = 0)
  BY SwipeType DEF PlanOK
<1>2. T \in Int /\ T >= 0 /\ (h.dir = 0 => T = 0)
  BY <1>1
<1>3. Target(h) = -h.dir * T
  BY <1>1 DEF Target
<1>4. h.dir # 0 => Way(h) <= T
  BY DEF PlanOK
<1> HIDE DEF T
<1>5. Target(h) \in Int /\ (h.dir = 0 => Target(h) = 0) /\ (h.dir # 0 => -(h.dir * Target(h)) = T)
  BY <1>1, <1>2, <1>3
<1>6. 0 \in -Swipe..Swipe /\ -Swipe <= T
  BY <1>1, <1>2
<1> QED
  BY <1>2, <1>4, <1>5, <1>6 DEF Ahead, T

\* Touches and the steps of the timer.
LEMMA HomeStepPlan ==
  ASSUME HomeGood(home), HomeTouch \/ HomeTimer
  PROVE  CarouselOK(home') /\ home'.count = home.count
<1>1. CASE Press
  <2>1. PICK part \in {"center", "other"} : home' = [Cancel(home) EXCEPT !.pressed = part, !.dragging = TRUE]
    BY <1>1 DEF Press
  <2>2. HomeWhole(Cancel(home)) /\ ListOK(Cancel(home)) /\ PlanOK(Cancel(home)) /\ Cancel(home).dir = 0
        /\ Cancel(home).count = home.count
    BY HomeGoodParts, CancelPlan
  <2>3. SameList(Cancel(home), home') /\ SamePlan(Cancel(home), home')
    BY <2>1, <2>2 DEF HomeWhole, HomeFields, SameList, SamePlan
  <2> QED
    BY <2>2, <2>3, SameListOK, SamePlanOK DEF CarouselOK, SamePlan
<1>2. CASE Drag
  <2>1. PICK x \in -Swipe..Swipe : home' = [home EXCEPT !.offset = x]
    BY <1>2 DEF Drag
  <2>2. home.dir = 0
    BY <1>2, HomeGoodParts DEF Drag
  <2>3. SameList(home, home') /\ home'.offset = x /\ home'.dir = 0 /\ home'.total = home.total
        /\ home'.done = home.done /\ home'.reached = home.reached
    BY <2>1, <2>2, HomeGoodParts DEF HomeWhole, HomeFields, SameList
  <2>4. PlanOK(home')
    BY <2>2, <2>3, HomeGoodParts DEF PlanOK
  <2> QED
    BY <2>3, <2>4, HomeGoodParts, SameListOK DEF CarouselOK, SameList
<1>3. CASE UserClicked
  <2>1. SameList(home, home') /\ SamePlan(home, home') /\ home'.snap = home.snap
    BY <1>3, HomeGoodParts DEF UserClicked, HomeWhole, HomeFields, SameList, SamePlan
  <2> QED
    BY <2>1, HomeGoodParts, SameListOK, SamePlanOK DEF CarouselOK, SamePlan
<1>4. CASE Release
  BY <1>4, ReleasePlan DEF Release
<1>5. CASE SnapTick
  <2>1. PICK p \in Between(home.reached, Target(home)) : home.lvgl > 0 /\ home' = ApplyProgress(home, p)
    BY <1>5 DEF SnapTick
  <2>2. home.snap
    <3>1. home.lvgl = IF home.snap THEN 1 ELSE 0
      BY DEF HomeGood, HomeOK, SnapOK
    <3> QED
      BY <2>1, <3>1
  <2>3. ListOK(home') /\ PlanOK(home') /\ home'.count = home.count
    BY <2>1, HomeGoodParts, BetweenAhead, ProgressPlan
  <2>4. home'.snap = home.snap
    BY <2>1, HomeGoodParts, ProgressSame DEF SameTimer
  <2> QED
    BY <2>2, <2>3, <2>4 DEF CarouselOK
<1>6. CASE SnapDeadline
  <2> DEFINE e == ApplyProgress(home, Target(home))
  <2>1. home' = Finish(e)
    BY <1>6 DEF SnapDeadline, Finish
  <2>2. HomeWhole(e) /\ ListOK(e) /\ PlanOK(e) /\ e.count = home.count
    BY HomeGoodParts, TargetAhead, ProgressPlan
  <2> HIDE DEF e
  <2> QED
    BY <2>1, <2>2, FinishPlan DEF CarouselOK
<1> QED
  BY <1>1, <1>2, <1>3, <1>4, <1>5, <1>6 DEF HomeTouch, HomeTimer

-----------------------------------------------------------------------------
(* The carousel in the application.                                        *)

\* The number of recipes the table gives when it can be read.
Listed == Len(LoadList(table, MaxRecipes))

LEMMA LoadedOK ==
  ASSUME table \in Tables
  PROVE  Loaded = {0, Listed} /\ Listed \in 0..MaxRecipes /\ Listed \in {0, Len(table)}
<1>1. table \in Seq(RecipeRow)
  BY HomeAssumption
<1>2. Len(table) \in Nat /\ Len(<<>>) = 0
  BY <1>1
<1>3. LoadList(table, MaxRecipes) = <<>> \/ (LoadList(table, MaxRecipes) = table /\ Len(table) <= MaxRecipes)
  BY DEF LoadList
<1> QED
  BY <1>2, <1>3, SwipeType DEF Loaded, Listed

CarouselInv == /\ CarouselOK(home)
               /\ home.count \in IF home.alive THEN {0, Listed} ELSE {0}
               /\ table \in Tables
               /\ saved \in {NoRecipe} \cup 0..(Listed - 1)

\* What a step of the application may be to the home page.
LEMMA HomeMoves ==
  ASSUME AppInv, [PageNext]_pageVars
  PROVE  \/ HomeLife
         \/ Open /\ home.alive /\ home'.alive
         \/ (HomeTouch \/ HomeTimer) /\ home.alive /\ home'.alive
         \/ UNCHANGED <<home, saved, table>>
<1>1. Inv /\ HomeOK(home) /\ (home.alive <=> "home" \in screen)
  BY DEF AppInv, Linked
<1>2. CASE PageChange /\ ~RecipeOpened
  BY <1>2 DEF PageChange, AppStarts, BootOver, SettingsOpened, ItemOpened, PlainBack, DetailsBack,
              CleaningLeft, PageShown, AllLive
<1>3. CASE RecipeOpened
  <2>1. Open /\ Usable("home") /\ home' \in AfterRelease
    BY <1>3 DEF RecipeOpened, SwitchBy, To, Open
  <2>2. home.alive
    BY <1>1, <2>1, UsableIsThere, AppAssumption
  <2> QED
    BY <1>1, <2>1, <2>2, ReleaseOK
<1>4. CASE Touched
  <2>1. (Usable("home") /\ HomeTouch) \/ UNCHANGED <<home, saved, table>>
    BY <1>4 DEF Touched
  <2>2. Usable("home") => home.alive
    BY <1>1, UsableIsThere, AppAssumption
  <2> QED
    BY <1>1, <2>1, <2>2, HomeStepOK
<1>5. CASE CarouselTimer
  <2>1. HomeTimer /\ home.lvgl > 0
    BY <1>5 DEF CarouselTimer, CarouselOnly, HomeTimer, SnapTick, SnapDeadline
  <2>2. home.lvgl = (IF home.snap THEN 1 ELSE 0) /\ (home.snap => home.alive)
    BY <1>1 DEF HomeOK, SnapOK
  <2>3. home.alive
    BY <2>1, <2>2
  <2> QED
    BY <1>1, <2>1, <2>3, HomeStepOK
<1>6. CASE BootTimer \/ CleaningTimer \/ UNCHANGED pageVars
  BY <1>6 DEF BootTimer, CleaningTimer, pageVars
<1> QED
  BY <1>2, <1>3, <1>4, <1>5, <1>6 DEF PageNext

\* The table does not change, so what is told of home' is told of it in the next
\* state.
LEMMA SameTable ==
  ASSUME UNCHANGED table
  PROVE  Listed' = Listed /\ (table \in Tables <=> (table \in Tables)')
         /\ (CarouselOK(home') => CarouselOK(home)')
<1>1. \A i : HasPicture(i)' <=> HasPicture(i)
  BY DEF HasPicture
<1>2. Pictures(home') => Pictures(home)'
  BY <1>1 DEF Pictures, HasPicture
<1>3. ListOK(home') => ListOK(home)'
  BY <1>2 DEF ListOK, Blank, Around
<1>4. PlanOK(home') => PlanOK(home)'
  BY DEF PlanOK, Way
<1>5. HomeWhole(home') => HomeWhole(home)'
  BY DEF HomeWhole, HomeFields
<1> QED
  BY <1>3, <1>4, <1>5 DEF CarouselOK, Listed, LoadList

\* The page comes up with the list or without recipes, and with the recipe
\* selected before.
LEMMA HomeMade ==
  ASSUME CarouselInv, HomeCreate
  PROVE  /\ CarouselOK(home') /\ home'.count \in {0, Listed} /\ home'.alive = TRUE
         /\ home'.count > 0 /\ saved # NoRecipe => home'.selected = saved
<1>1. PICK n \in Loaded, lost \in {{}} \cup IfFails(LostImages) :
         home' = Layout([NoHome EXCEPT !.alive = TRUE, !.count = n, !.images = Slots \ lost,
                                       !.selected = IF n = 0 THEN 0 ELSE FirstSelected(n)])
  BY DEF HomeCreate
<1> DEFINE k == IF n = 0 THEN 0 ELSE FirstSelected(n)
           h == [NoHome EXCEPT !.alive = TRUE, !.count = n, !.images = Slots \ lost, !.selected = k]
<1>2. Listed \in 0..MaxRecipes /\ n \in {0, Listed} /\ saved \in {NoRecipe} \cup 0..(Listed - 1)
      /\ MaxRecipes \in Nat
  BY LoadedOK, SwipeType DEF CarouselInv
<1>3. n > 0 => k \in 0..(n - 1) /\ (saved # NoRecipe => k = saved)
  BY <1>2 DEF FirstSelected, NoRecipe
<1>4. home' = Layout(h)
  BY <1>1
<1> HIDE DEF k
<1>5. /\ HomeWhole(h) /\ h.alive = TRUE /\ h.count = n /\ h.selected = k /\ h.offset = 0 /\ h.dir = 0
      /\ h.total = 0 /\ h.done = 0 /\ h.reached = 0 /\ h.pictures = Empty
  BY DEF NoHome, HomeWhole, HomeFields
<1>6. Blank(h)
  BY <1>5 DEF Blank, Empty
<1> HIDE DEF h
<1>7. PlanOK(h)
  BY <1>5, SwipeType DEF PlanOK
<1>8. ListOK(home') /\ SamePlan(h, home') /\ home'.selected = k
  <2>1. h.count \in 0..MaxRecipes /\ (h.count > 0 => h.selected \in 0..(h.count - 1)) /\ h.dir \in Int
    BY <1>2, <1>3, <1>5
  <2> QED
    BY <1>4, <1>5, <1>6, <2>1, LayoutList
<1>9. home'.alive = TRUE
  BY <1>4, <1>5, LayoutSame DEF SameTimer
<1>10. PlanOK(home') /\ home'.count = n
  BY <1>5, <1>7, <1>8, SamePlanOK DEF SamePlan
<1>11. home'.dir = 0 /\ HomeWhole(home')
  BY <1>5, <1>8 DEF SamePlan
<1> QED
  BY <1>2, <1>3, <1>8, <1>9, <1>10, <1>11 DEF CarouselOK

LEMMA NoHomeCarousel ==
  ASSUME NEW h, HomeWhole(h), h.count = 0, h.offset = 0, h.dir = 0, h.total = 0, h.done = 0, h.reached = 0,
         Blank(h)
  PROVE  CarouselOK(h)
<1>1. PlanOK(h)
  BY SwipeType DEF PlanOK
<1>2. ListOK(h)
  BY SwipeType DEF ListOK
<1> QED
  BY <1>1, <1>2 DEF CarouselOK

LEMMA CarouselInitInv == AppInit => CarouselInv
<1> SUFFICES ASSUME AppInit PROVE CarouselInv
  OBVIOUS
<1>1. home = NoHome /\ saved = NoRecipe /\ table \in Tables
  BY DEF AppInit, HomeInit
<1>2. HomeWhole(NoHome) /\ NoHome.count = 0 /\ NoHome.offset = 0 /\ NoHome.dir = 0 /\ NoHome.total = 0
      /\ NoHome.done = 0 /\ NoHome.reached = 0 /\ NoHome.alive = FALSE /\ Blank(NoHome)
  BY DEF NoHome, HomeWhole, HomeFields, Blank, Empty
<1> QED
  BY <1>1, <1>2, NoHomeCarousel DEF CarouselInv

LEMMA CarouselNextInv == AppInv /\ CarouselInv /\ [PageNext]_pageVars => CarouselInv'
<1> SUFFICES ASSUME AppInv, CarouselInv, [PageNext]_pageVars PROVE CarouselInv'
  OBVIOUS
<1>1. HomeOK(home) /\ HomeGood(home) /\ (home.alive <=> "home" \in screen)
  BY DEF AppInv, CarouselInv, HomeGood, Linked
<1>2. Listed \in 0..MaxRecipes /\ MaxRecipes \in Nat
  BY LoadedOK, SwipeType DEF CarouselInv
<1>3. ASSUME UNCHANGED table, CarouselOK(home'), home'.count \in (IF home'.alive THEN {0, Listed} ELSE {0}),
             saved' \in {NoRecipe} \cup 0..(Listed - 1)
      PROVE  CarouselInv'
  BY <1>3, SameTable DEF CarouselInv
<1>4. CASE HomeLife
  <2>1. CASE HomeCreate
    BY <1>3, <2>1, HomeMade DEF CarouselInv, HomeCreate
  <2>2. CASE HomeDestroy
    <3>1. /\ HomeWhole(home') /\ home'.alive = FALSE /\ home'.count = 0 /\ home'.offset = 0 /\ home'.dir = 0
          /\ home'.total = 0 /\ home'.done = 0 /\ home'.reached = 0 /\ Blank(home')
      BY <2>2 DEF HomeDestroy, NoHome, HomeWhole, HomeFields, Blank, Empty
    <3>2. saved' \in {NoRecipe} \cup 0..(Listed - 1)
      <4>1. saved' = (IF home.count = 0 THEN saved ELSE home.selected) /\ ListOK(home)
        BY <1>1, <2>2, HomeGoodParts DEF HomeDestroy, HomeSaved
      <4>2. home.count # 0 => home.selected \in 0..(Listed - 1)
        BY <1>2, <4>1 DEF ListOK, CarouselInv
      <4> QED
        BY <4>1, <4>2 DEF CarouselInv
    <3>3. UNCHANGED table
      BY <2>2 DEF HomeDestroy
    <3>4. CarouselOK(home')
      BY <3>1, NoHomeCarousel
    <3>5. home'.count \in IF home'.alive THEN {0, Listed} ELSE {0}
      BY <3>1
    <3> QED
      BY <1>3, <3>2, <3>3, <3>4, <3>5
  <2>3. CASE UNCHANGED <<home, saved, table>>
    BY <1>3, <2>3 DEF CarouselInv
  <2> QED
    BY <1>4, <2>1, <2>2, <2>3 DEF HomeLife, Life
<1>5. CASE Open /\ home.alive /\ home'.alive
  <2>1. home.dragging /\ home' \in AfterRelease /\ home'.count > 0 /\ saved' = home'.selected /\ table' = table
    BY <1>1, <1>5 DEF Open, Opens, HomeOK
  <2>2. CarouselOK(home') /\ home'.count = home.count
    BY <1>1, <2>1, ReleasePlan
  <2>3. home'.selected \in 0..(home'.count - 1) /\ home.count \in {0, Listed}
    BY <1>5, <2>1, <2>2 DEF CarouselOK, ListOK, CarouselInv
  <2>4. saved' \in 0..(Listed - 1)
    BY <1>2, <2>1, <2>2, <2>3
  <2> QED
    BY <1>3, <1>5, <2>1, <2>2, <2>3, <2>4
<1>6. CASE (HomeTouch \/ HomeTimer) /\ home.alive /\ home'.alive
  <2>1. CarouselOK(home') /\ home'.count = home.count
    BY <1>1, <1>6, HomeStepPlan
  <2>2. UNCHANGED <<saved, table>>
    BY <1>6 DEF HomeTouch, HomeTimer
  <2> QED
    BY <1>3, <1>6, <2>1, <2>2 DEF CarouselInv
<1>7. CASE UNCHANGED <<home, saved, table>>
  BY <1>3, <1>7 DEF CarouselInv
<1> QED
  BY <1>4, <1>5, <1>6, <1>7, HomeMoves

LEMMA CarouselAlways == AppSpec => [](AppInv /\ CarouselInv)
<1>1. AppInit => AppInv /\ CarouselInv
  BY AppInitInv, CarouselInitInv
<1>2. AppInv /\ CarouselInv /\ [PageNext]_pageVars => (AppInv /\ CarouselInv)'
  BY AppNextInv, CarouselNextInv
<1> QED
  BY <1>1, <1>2, PageStepOnly, PTL DEF AppSpec

\* How far the offset moves the weights.
Drift(o) == Quotient(Quotient(o * SwipePixels, Swipe) * Unit, SwipePixels)

LEMMA DrawnDrift ==
  ASSUME NEW i \in Int, NEW o
  PROVE  Drawn(i, o) = i * 1024 + Drift(o)
  BY DEF Drawn, Weight, Drift, Unit

LEMMA DriftBound ==
  ASSUME NEW o \in -Swipe..Swipe
  PROVE  Drift(o) \in -1024..1024
<1>1. Swipe \in Nat \ {0} /\ o \in Int
  BY SwipeType
<1> DEFINE d == Quotient(o * 80, Swipe)
<1>2. d \in -80..80
  <2>1. CASE o >= 0
    <3>1. o * 80 \in 0..(80 * Swipe)
      BY <1>1, <2>1
    <3>2. (o * 80) \div Swipe \in 0..80
      BY <1>1, <3>1, QuotientBound
    <3>3. d = (o * 80) \div Swipe
      BY <1>1, <2>1 DEF Quotient
    <3> QED
      BY <3>2, <3>3
  <2>2. CASE o < 0
    <3>1. -(o * 80) \in 0..(80 * Swipe) /\ o * 80 < 0
      BY <1>1, <2>2
    <3>2. (-(o * 80)) \div Swipe \in 0..80
      BY <1>1, <3>1, QuotientBound
    <3>3. d = -((-(o * 80)) \div Swipe)
      BY <3>1 DEF Quotient
    <3> QED
      BY <3>2, <3>3
  <2> QED
    BY <1>1, <2>1, <2>2
<1>3. Drift(o) = Quotient(d * 1024, 80)
  BY DEF Drift, SwipePixels, Unit
<1> HIDE DEF d
<1>4. Quotient(d * 1024, 80) \in -1024..1024
  BY <1>2 DEF Quotient
<1> QED
  BY <1>3, <1>4

LEMMA CarouselSeen == CarouselInv => CarouselTruthful
<1> SUFFICES ASSUME CarouselInv PROVE CarouselTruthful
  OBVIOUS
<1>1. ListOK(home) /\ PlanOK(home) /\ table \in Tables
  BY DEF CarouselInv, CarouselOK
<1>2. SlotsFollowSelection
  <2>1. ASSUME home.count > 0, NEW i \in Slots
        PROVE  /\ home.slots[i] = (home.selected + i) % home.count
               /\ i \in home.images /\ HasPicture(home.slots[i]) => home.pictures[i] = home.slots[i]
               /\ i \notin home.images => home.pictures[i] = NoRecipe
    <3>1. home.count \in 1..MaxRecipes /\ home.selected \in 0..(home.count - 1)
          /\ home.slots = Around[home.count][home.selected]
      BY <1>1, <2>1, SwipeType DEF ListOK
    <3>2. home.slots[i] = (home.selected + i) % home.count
      BY <3>1, AroundAt
    <3> QED
      BY <1>1, <2>1, <3>2 DEF ListOK, Blank, Pictures
  <2> QED
    BY <1>1, <2>1 DEF ListOK, SlotsFollowSelection
<1>3. CarouselFilled
  <2> DEFINE e == Drift(home.offset)
  <2>1. home.offset \in -Swipe..Swipe
    BY <1>1 DEF PlanOK
  <2>2. e \in -1024..1024
    BY <2>1, DriftBound
  <2>3. \A i \in Int : Drawn(i, home.offset) = i * 1024 + e
    BY DrawnDrift
  <2> HIDE DEF e
  <2>4. ASSUME NEW i \in -2..1
        PROVE  PictureRight(Drawn(i, home.offset)) < PictureLeft(Drawn(i + 1, home.offset))
    <3> DEFINE w == i * 1024 + e
    <3>1. w \in Int /\ Drawn(i, home.offset) = w /\ Drawn(i + 1, home.offset) = w + 1024
      BY <2>2, <2>3
    <3> HIDE DEF w
    <3> QED
      BY <3>1, NoOverlap
  <2>5. Drawn(-3, home.offset) = -3072 + e /\ Drawn(3, home.offset) = 3072 + e
    BY <2>2, <2>3
  <2>6. PictureRight(-3072 + e) <= 0 /\ PictureLeft(3072 + e) >= ScreenWidth
    BY <2>2, Outside
  <2> QED
    BY <2>4, <2>5, <2>6 DEF CarouselFilled
<1>4. ListWholeOrEmpty
  BY <1>1, LoadedOK DEF CarouselInv, ListWholeOrEmpty
<1> QED
  BY <1>2, <1>3, <1>4 DEF CarouselTruthful

\* The carousel shows all recipes or none, the selected one in the center and
\* its neighbours around it, each with its picture where it has one and LVGL
\* made the image, and no gap or overlap wherever the finger or the snap has
\* moved it (home_page_set_slot_recipe, home_page_apply_slot_transform).
THEOREM CarouselShown == AppSpec => []CarouselTruthful
  BY CarouselAlways, CarouselSeen, PTL

\* While no recipe is shown, the position that is kept is that of the recipe
\* that was in the center when the home page went away.
LeftInv == home.count = 0 /\ past.left # NoRecipe => past.left = saved

\* The recipe in the center is the selected one.
LEMMA CenterSelected ==
  ASSUME NEW h, ListOK(h), h.count > 0
  PROVE  h.slots[0] = h.selected
<1>1. h.count \in 1..MaxRecipes /\ h.selected \in 0..(h.count - 1)
      /\ h.slots = Around[h.count][h.selected]
  BY SwipeType DEF ListOK
<1>2. h.slots[0] = (h.selected + 0) % h.count
  BY <1>1, AroundAt DEF Slots
<1>3. (h.selected + 0) % h.count = h.selected
  BY <1>1
<1> QED
  BY <1>2, <1>3

LEMMA LeftNextInv ==
  ASSUME AppInv, CarouselInv, LeftInv, [AppNext]_appVars
  PROVE  LeftInv'
<1>1. CASE UNCHANGED <<pageVars, past>>
  BY <1>1 DEF LeftInv, pageVars
<1>2. CASE PageNext /\ Remember
  <2>1. past'.left = IF home'.count > 0 THEN NoRecipe ELSE IF home.count > 0 THEN home.slots[0] ELSE past.left
    BY <1>2 DEF Remember
  <2>2. home.count \in Nat /\ HomeGood(home) /\ ListOK(home) /\ (home.alive <=> "home" \in screen)
        /\ (~home.alive => home.count = 0)
    BY LoadedOK, SwipeType DEF CarouselInv, AppInv, Linked, CarouselOK, HomeGood, ListOK
  <2>3. home'.count \in Nat
    BY <1>2, CarouselNextInv, SwipeType DEF CarouselInv, CarouselOK, ListOK
  <2>4. ASSUME home'.count = home.count, saved' = saved PROVE LeftInv'
    BY <2>1, <2>2, <2>4 DEF LeftInv
  <2>5. CASE HomeLife
    <3>1. CASE HomeCreate /\ "home" \notin screen
      BY <2>1, <2>2, <2>3, <3>1 DEF LeftInv, HomeCreate
    <3>2. CASE HomeDestroy
      <4>1. home'.count = 0 /\ saved' = (IF home.count = 0 THEN saved ELSE home.selected)
        BY <3>2 DEF HomeDestroy, NoHome, HomeSaved
      <4>2. home.count > 0 => home.slots[0] = home.selected
        BY <2>2, CenterSelected
      <4> QED
        BY <2>1, <2>2, <4>1, <4>2 DEF LeftInv
    <3>3. CASE UNCHANGED <<home, saved, table>>
      BY <2>4, <3>3
    <3> QED
      BY <2>5, <3>1, <3>2, <3>3 DEF HomeLife, Life
  <2>6. CASE Open /\ home.alive
    <3>1. home'.count > 0
      BY <2>6 DEF Open, Opens
    <3> QED
      BY <3>1 DEF LeftInv
  <2>7. CASE (HomeTouch \/ HomeTimer) /\ home.alive
    <3>1. home'.count = home.count
      BY <2>2, <2>7, HomeStepPlan
    <3>2. saved' = saved
      BY <2>7 DEF HomeTouch, HomeTimer
    <3> QED
      BY <2>4, <3>1, <3>2
  <2>8. CASE UNCHANGED <<home, saved, table>>
    BY <2>4, <2>8
  <2> QED
    BY <1>2, <2>5, <2>6, <2>7, <2>8, HomeMoves
<1> QED
  BY <1>1, <1>2, PageStep

\* The carousel comes back with the recipe in its center that was there when
\* the home page went away, whatever page the user comes back from, whatever
\* failed meanwhile, and also where a snap was given up
\* (home_page_save_selection, home_page_restore_selection).
THEOREM RecipeKept == AppSpec => HomeKeepsRecipe
<1>1. AppInit => LeftInv
  BY DEF AppInit, LeftInv
<1>2. ASSUME AppInv, CarouselInv, LeftInv, PageNext, ~home.alive, home'.alive, past.left # NoRecipe,
             home'.count > 0
      PROVE  home'.slots[0] = past.left
  <2>1. home.count = 0 /\ past.left = saved
    BY <1>2 DEF CarouselInv, LeftInv
  <2>2. HomeLife \/ home' = home
    BY <1>2, HomeMoves
  <2>3. HomeDestroy => ~home'.alive
    BY DEF HomeDestroy, NoHome
  <2>4. HomeCreate
    BY <1>2, <2>2, <2>3 DEF HomeLife, Life
  <2>5. CarouselOK(home') /\ home'.selected = saved
    BY <1>2, <2>1, <2>4, HomeMade
  <2>6. home'.slots[0] = home'.selected
    BY <1>2, <2>5, CenterSelected DEF CarouselOK
  <2> QED
    BY <2>1, <2>5, <2>6
<1>3. AppInv /\ CarouselInv /\ LeftInv /\ [AppNext]_appVars
        => [~home.alive /\ home'.alive /\ past.left # NoRecipe /\ home'.count > 0
              => home'.slots[0] = past.left]_appVars
  <2> SUFFICES ASSUME AppInv, CarouselInv, LeftInv, [AppNext]_appVars, ~home.alive, home'.alive,
                      past.left # NoRecipe, home'.count > 0
               PROVE  home'.slots[0] = past.left
    OBVIOUS
  <2>1. PageNext
    BY PageStep DEF pageVars
  <2> QED
    BY <1>2, <2>1
<1>4. AppInv /\ CarouselInv /\ LeftInv /\ [AppNext]_appVars => LeftInv'
  BY LeftNextInv
<1> QED
  BY <1>1, <1>3, <1>4, CarouselAlways, PTL DEF AppSpec, HomeKeepsRecipe

-----------------------------------------------------------------------------
(* A snap goes where it was started for, and every picture goes there with   *)
(* it.  Swipe divides the pixels, so a way is a whole number of pixels.      *)

Fine == SwipePixels \div Swipe

LEMMA FineType == Fine \in Nat \ {0} /\ Swipe * Fine = 80
<1>1. Swipe \in Nat \ {0} /\ 80 % Swipe = 0
  BY SwipeType, HomeAssumption DEF SwipePixels
<1>2. Fine \in Int /\ 80 = Swipe * Fine + (80 % Swipe)
  BY <1>1, Division DEF Fine, SwipePixels
<1> HIDE DEF Fine
<1>3. Swipe * Fine = 80
  BY <1>1, <1>2
<1> QED
  BY <1>1, <1>2, <1>3

\* How far a way of q takes the weights, from the start of the snap: rounded
\* down ahead of the last committed step, and up behind it.
Far(q) == (q * Fine * 1024) \div 80
FarUp(q) == -((-(q * Fine * 1024)) \div 80)
FarAt(q, n) == IF n * Swipe <= q THEN Far(q) ELSE FarUp(q)

LEMMA FarType ==
  ASSUME NEW q \in Nat
  PROVE  Far(q) \in Nat /\ FarUp(q) \in Nat /\ Far(q) <= FarUp(q) /\ (q = 0 => FarUp(q) = 0)
<1> DEFINE x == q * Fine
<1>1. x \in Nat /\ (q = 0 => x = 0)
  BY FineType
<1> HIDE DEF x
<1>2. /\ (x * 1024) \div 80 \in Nat /\ -((-(x * 1024)) \div 80) \in Nat
      /\ (x * 1024) \div 80 <= -((-(x * 1024)) \div 80)
      /\ x = 0 => -((-(x * 1024)) \div 80) = 0
  BY <1>1
<1> QED
  BY <1>1, <1>2 DEF Far, FarUp, x

LEMMA FarMore ==
  ASSUME NEW q \in Nat, NEW p \in Nat, q < p
  PROVE  FarUp(q) + 12 <= Far(p)
<1> DEFINE x == q * Fine
           y == p * Fine
<1>1. Fine \in Nat \ {0}
  BY FineType
<1>2. x \in Nat /\ y \in Nat
  BY <1>1
<1>3. y = x + (p - q) * Fine /\ (p - q) * Fine >= 1
  BY <1>1
<1>4. x + 1 <= y
  BY <1>1, <1>2, <1>3
<1> HIDE DEF x, y
<1>5. -((-(x * 1024)) \div 80) + 12 <= (y * 1024) \div 80
  BY <1>2, <1>4
<1> QED
  BY <1>5 DEF Far, FarUp, x, y

LEMMA FarAtMore ==
  ASSUME NEW q \in Nat, NEW p \in Nat, NEW n, NEW m
  PROVE  FarAt(q, n) \in Nat /\ (q = 0 => FarAt(q, n) = 0) /\ (q < p => FarAt(q, n) + 12 <= FarAt(p, m))
<1>1. FarAt(q, n) \in {Far(q), FarUp(q)} /\ FarAt(p, m) \in {Far(p), FarUp(p)}
  BY DEF FarAt
<1>2. /\ Far(q) \in Nat /\ FarUp(q) \in Nat /\ Far(q) <= FarUp(q) /\ (q = 0 => FarUp(q) = 0)
      /\ Far(p) \in Nat /\ FarUp(p) \in Nat /\ Far(p) <= FarUp(p)
  BY FarType
<1>3. q < p => FarUp(q) + 12 <= Far(p)
  BY FarMore
<1> QED
  BY <1>1, <1>2, <1>3

LEMMA FarStep ==
  ASSUME NEW n \in 0..3, NEW q \in Nat, n * Swipe <= q
  PROVE  Far(q - n * Swipe) = Far(q) - 1024 * n
<1> DEFINE x == q * Fine
           r == q - n * Swipe
<1>1. Fine \in Nat \ {0} /\ Swipe \in Nat \ {0} /\ Swipe * Fine = 80
  BY FineType, SwipeType
<1>2. x \in Nat /\ r \in Nat
  BY <1>1
<1>3. r * Fine = x - n * 80
  <2>1. r * Fine = q * Fine - (n * Swipe) * Fine
    BY <1>1
  <2>2. (n * Swipe) * Fine = n * (Swipe * Fine)
    BY <1>1
  <2> QED
    BY <1>1, <2>1, <2>2
<1> HIDE DEF x, r
<1>4. (r * Fine * 1024) \div 80 = ((x - n * 80) * 1024) \div 80
  BY <1>3
<1>5. ((x - n * 80) * 1024) \div 80 = (x * 1024) \div 80 - 1024 * n
  BY <1>2
<1> QED
  BY <1>4, <1>5 DEF Far, x, r

LEMMA FarBack ==
  ASSUME NEW n \in 0..3, NEW q \in Nat, q <= n * Swipe
  PROVE  Far(n * Swipe - q) = 1024 * n - FarUp(q)
<1> DEFINE x == q * Fine
           r == n * Swipe - q
<1>1. Fine \in Nat \ {0} /\ Swipe \in Nat \ {0} /\ Swipe * Fine = 80
  BY FineType, SwipeType
<1>2. x \in Nat /\ r \in Nat
  BY <1>1
<1>3. r * Fine = n * 80 - x
  <2>1. r * Fine = (n * Swipe) * Fine - q * Fine
    BY <1>1
  <2>2. (n * Swipe) * Fine = n * (Swipe * Fine)
    BY <1>1
  <2> QED
    BY <1>1, <2>1, <2>2
<1> HIDE DEF x, r
<1>4. (r * Fine * 1024) \div 80 = ((n * 80 - x) * 1024) \div 80
  BY <1>3
<1>5. ((n * 80 - x) * 1024) \div 80 = 1024 * n + (-(x * 1024)) \div 80
  BY <1>2
<1> QED
  BY <1>2, <1>4, <1>5 DEF Far, FarUp, x, r

LEMMA FarDrift ==
  ASSUME NEW r \in 0..Swipe
  PROVE  Drift(r) = Far(r) /\ Drift(-r) = -Far(r)
<1> DEFINE x == r * Fine
<1>1. Fine \in Nat \ {0} /\ Swipe \in Nat \ {0} /\ Swipe * Fine = 80 /\ r \in Nat
  BY FineType, SwipeType
<1>2. x \in Nat
  BY <1>1
<1>3. (r * 80) \div Swipe = x
  <2> DEFINE a == r * 80
             k == a \div Swipe
  <2>1. a = Swipe * x
    <3>1. Swipe * (r * Fine) = r * (Swipe * Fine)
      BY <1>1
    <3> QED
      BY <1>1, <3>1
  <2>2. a \in Int /\ k \in Int /\ a % Swipe \in 0..(Swipe - 1) /\ a = Swipe * k + (a % Swipe)
    <3>1. a \in Int
      BY <1>1
    <3> QED
      BY <1>1, <3>1, Division
  <2> HIDE DEF a, k, x
  <2>3. Swipe * k + (a % Swipe) = Swipe * x + 0 /\ 0 \in 0..(Swipe - 1)
    <3>1. Swipe * x \in Int
      BY <1>1, <1>2
    <3> QED
      BY <1>1, <2>1, <2>2, <3>1
  <2>4. k = x
    BY <1>1, <1>2, <2>2, <2>3, DivisionUnique
  <2> QED
    BY <2>4 DEF k, a
<1>4. Quotient(r * 80, Swipe) = x /\ Quotient((-r) * 80, Swipe) = -x
  <2>1. r * 80 >= 0 /\ (-r) * 80 = -(r * 80)
    BY <1>1
  <2>2. r = 0 => x = 0 /\ (-r) * 80 = 0 /\ r * 80 = 0
    BY <1>1
  <2>3. r # 0 => (-r) * 80 < 0 /\ -((-r) * 80) = r * 80
    BY <1>1
  <2> HIDE DEF x
  <2>4. Quotient(r * 80, Swipe) = x
    BY <1>1, <1>3, <2>1 DEF Quotient
  <2>5. r # 0 => Quotient((-r) * 80, Swipe) = -x
    BY <1>3, <2>3 DEF Quotient
  <2>6. r = 0 => Quotient((-r) * 80, Swipe) = -x
    BY <2>2, <2>4
  <2> QED
    BY <2>4, <2>5, <2>6
<1> HIDE DEF x
<1>5. Drift(r) = Quotient(x * 1024, 80) /\ Drift(-r) = Quotient((-x) * 1024, 80)
  BY <1>4 DEF Drift, SwipePixels, Unit
<1>6. Quotient(x * 1024, 80) = (x * 1024) \div 80 /\ Quotient((-x) * 1024, 80) = -((x * 1024) \div 80)
  BY <1>2 DEF Quotient
<1> QED
  BY <1>5, <1>6 DEF Far, x

\* A snap in direction d that has come q far and committed n steps, and its
\* offset o.
Snapped(d, n, q, o) == /\ d \in {-1, 1} /\ n \in 0..3 /\ q \in Nat
                       /\ q - n * Swipe \in -Swipe..Swipe /\ o = -d * (q - n * Swipe)

\* A slot of such a snap.
LEMMA SnapPlace ==
  ASSUME NEW d, NEW n, NEW q, NEW o, Snapped(d, n, q, o), NEW i \in Int
  PROVE  Drawn(i, o) = i * 1024 + d * (1024 * n - FarAt(q, n))
<1> DEFINE r == q - n * Swipe
           b == n * Swipe - q
<1>1. /\ Swipe \in Nat \ {0} /\ d \in {-1, 1} /\ n \in 0..3 /\ q \in Nat
      /\ q - n * Swipe \in -Swipe..Swipe /\ o = -d * (q - n * Swipe)
  BY SwipeType DEF Snapped
<1>2. n * Swipe \in Int /\ r \in Int /\ b \in Int /\ r = -b
  BY <1>1
<1>3. Far(q) \in Int /\ FarUp(q) \in Int
  BY <1>1, FarType
<1>4. Drawn(i, o) = i * 1024 + Drift(-d * r)
  BY <1>1, DrawnDrift DEF r
<1>5. CASE n * Swipe <= q
  <2>1. r \in 0..Swipe
    BY <1>1, <1>2, <1>5
  <2>2. Far(r) = Far(q) - 1024 * n
    BY <1>1, <1>5, FarStep
  <2> HIDE DEF r
  <2>3. Drift(r) = Far(r) /\ Drift(-r) = -Far(r)
    BY <2>1, FarDrift
  <2>4. (d = 1 => -d * r = -r) /\ (d = -1 => -d * r = r)
    BY <2>1
  <2>5. Drift(-d * r) = d * (1024 * n - Far(q))
    <3>1. CASE d = 1
      BY <1>1, <1>3, <2>2, <2>3, <2>4, <3>1
    <3>2. CASE d = -1
      BY <1>1, <1>3, <2>2, <2>3, <2>4, <3>2
    <3> QED
      BY <1>1, <3>1, <3>2
  <2>6. FarAt(q, n) = Far(q)
    BY <1>5 DEF FarAt
  <2> QED
    BY <1>4, <2>5, <2>6
<1>6. CASE ~(n * Swipe <= q)
  <2>1. b \in 0..Swipe /\ q <= n * Swipe
    BY <1>1, <1>2, <1>6
  <2>2. Far(b) = 1024 * n - FarUp(q)
    BY <1>1, <2>1, FarBack
  <2> HIDE DEF r, b
  <2>3. Drift(b) = Far(b) /\ Drift(-b) = -Far(b)
    BY <2>1, FarDrift
  <2>4. (d = 1 => -d * r = b) /\ (d = -1 => -d * r = -b)
    BY <1>2, <2>1
  <2>5. Drift(-d * r) = d * (1024 * n - FarUp(q))
    <3>1. CASE d = 1
      BY <1>1, <1>3, <2>2, <2>3, <2>4, <3>1
    <3>2. CASE d = -1
      BY <1>1, <1>3, <2>2, <2>3, <2>4, <3>2
    <3> QED
      BY <1>1, <3>1, <3>2
  <2>6. FarAt(q, n) = FarUp(q)
    BY <1>6 DEF FarAt
  <2> QED
    BY <1>4, <2>5, <2>6
<1> QED
  BY <1>5, <1>6

-----------------------------------------------------------------------------
\* A picture that changes its slot with the steps stays where it is.
LEMMA PlaceSum ==
  ASSUME NEW d \in {-1, 1}, NEW i \in Int, NEW n \in 0..3, NEW m \in 0..3, NEW f \in Int
  PROVE  (i - d * (n - m)) * 1024 + d * (1024 * n - f) = i * 1024 + d * (1024 * m - f)
<1>1. CASE d = 1
  BY <1>1
<1>2. CASE d = -1
  BY <1>2
<1> QED
  BY <1>1, <1>2

\* The weight of slot i when m steps are committed and f of the way is behind.
Placed(d, i, m, f, from) == /\ i \in Int /\ m \in 0..3 /\ f \in Int
                            /\ from = i * 1024 + d * (1024 * m - f)
Reaches(f, q, n) == f = FarAt(q, n) \/ f + 12 <= FarAt(q, n)

\* From such a place to that of the slot which takes the picture over when n
\* steps are committed.
LEMMA SnapMoves ==
  ASSUME NEW d, NEW n, NEW q, NEW o, Snapped(d, n, q, o),
         NEW i, NEW m, NEW f, NEW from, Placed(d, i, m, f, from), Reaches(f, q, n)
  PROVE  d * (PictureLeft(Drawn(i - d * (n - m), o)) - PictureLeft(from)) <= 0
<1> DEFINE g == FarAt(q, n)
           j == i - d * (n - m)
           b == i * 1024 + d * (1024 * m - g)
<1>1. /\ g \in Int /\ d \in {-1, 1} /\ n \in 0..3 /\ i \in Int /\ m \in 0..3 /\ f \in Int
      /\ from = i * 1024 + d * (1024 * m - f) /\ (f = g \/ f + 12 <= g)
  BY FarAtMore DEF Snapped, Placed, Reaches
<1>2. j \in Int
  BY <1>1
<1>3. Drawn(j, o) = b
  <2> HIDE DEF j
  <2>1. Drawn(j, o) = j * 1024 + d * (1024 * n - g)
    BY <1>2, SnapPlace
  <2> HIDE DEF g
  <2>2. j * 1024 + d * (1024 * n - g) = b
    BY <1>1, PlaceSum DEF j
  <2> QED
    BY <2>1, <2>2
<1> HIDE DEF g
<1>4. b \in Int /\ from \in Int /\ (f = g \/ f + 12 <= g)
  BY <1>1 DEF g
<1>5. CASE d = 1
  <2>1. b = from \/ b + 12 <= from
    BY <1>1, <1>4, <1>5
  <2> HIDE DEF b
  <2>2. PictureLeft(b) <= PictureLeft(from) /\ PictureLeft(from) \in Int /\ PictureLeft(b) \in Int
    BY <1>4, <2>1, PictureOrder
  <2>3. d * (PictureLeft(b) - PictureLeft(from)) <= 0
    BY <1>5, <2>2
  <2> QED
    BY <1>3, <2>3 DEF j
<1>6. CASE d = -1
  <2>1. from = b \/ from + 12 <= b
    BY <1>1, <1>4, <1>6
  <2> HIDE DEF b
  <2>2. PictureLeft(from) <= PictureLeft(b) /\ PictureLeft(from) \in Int /\ PictureLeft(b) \in Int
    BY <1>4, <2>1, PictureOrder
  <2>3. d * (PictureLeft(b) - PictureLeft(from)) <= 0
    BY <1>6, <2>2
  <2> QED
    BY <1>3, <2>3 DEF j
<1> QED
  BY <1>1, <1>5, <1>6

\* What may happen to a snap that goes on, or comes to its end.
LEMMA SnapSteps ==
  ASSUME AppInv, CarouselInv, [PageNext]_pageVars, home.snap, home'.alive, ~home'.dragging
  PROVE  home' = home \/ UserClicked \/ SnapTick \/ SnapDeadline
<1>1. home.alive /\ ~home.dragging /\ home.pressed = "none" /\ "home" \in screen
  BY DEF AppInv, Linked, HomeOK, SnapOK
<1>2. CASE HomeLife
  <2>1. HomeDestroy => ~home'.alive
    BY DEF HomeDestroy, NoHome
  <2> QED
    BY <1>1, <1>2, <2>1 DEF HomeLife, Life
<1>3. ~Open /\ ~Drag /\ ~Release
  BY <1>1 DEF Open, Drag, Release
<1>4. ~Press
  <2>1. ASSUME NEW part \in {"center", "other"}, home' = [Cancel(home) EXCEPT !.pressed = part, !.dragging = TRUE]
        PROVE  home'.dragging
    <3>1. HomeWhole(Cancel(home))
      BY CancelPlan, HomeGoodParts DEF AppInv, CarouselInv, HomeGood
    <3> QED
      BY <2>1, <3>1 DEF HomeWhole, HomeFields
  <2> QED
    BY <2>1 DEF Press
<1> QED
  BY <1>2, <1>3, <1>4, HomeMoves DEF HomeTouch, HomeTimer

LEMMA ClickSame ==
  ASSUME HomeGood(home), home' = home \/ UserClicked
  PROVE  SameList(home, home') /\ SamePlan(home, home') /\ home'.snap = home.snap
  BY HomeGoodParts DEF UserClicked, HomeWhole, HomeFields, SameList, SamePlan

LEMMA DestinationSame ==
  ASSUME HomeGood(home), home' = home \/ UserClicked \/ SnapTick \/ SnapDeadline
  PROVE  Destination(home') = Destination(home)
<1>1. HomeWhole(home) /\ ListOK(home) /\ PlanOK(home)
  BY HomeGoodParts
<1>2. CASE home' = home \/ UserClicked
  BY <1>2, ClickSame DEF Destination, SameList, SamePlan
<1>3. CASE SnapTick
  <2>1. PICK p \in Between(home.reached, Target(home)) : home' = ApplyProgress(home, p)
    BY <1>3 DEF SnapTick
  <2> QED
    BY <1>1, <2>1, BetweenAhead, ProgressPlan
<1>4. CASE SnapDeadline
  <2> DEFINE e == ApplyProgress(home, Target(home))
  <2>1. home' = Finish(e)
    BY <1>4 DEF SnapDeadline, Finish
  <2>2. HomeWhole(e) /\ ListOK(e) /\ PlanOK(e) /\ Destination(e) = Destination(home)
    BY <1>1, TargetAhead, ProgressPlan
  <2> HIDE DEF e
  <2> QED
    BY <2>1, <2>2, FinishPlan
<1> QED
  BY <1>2, <1>3, <1>4

\* From the slot drawn at the weight from, to the slot that takes its picture.
Forward(d, from, to) == d * (PictureLeft(to) - PictureLeft(from)) <= 0

\* The picture of the slot i, over a step of a snap to n steps and a way q.
LEMMA PictureMoves ==
  ASSUME PlanOK(home), home.dir # 0, NEW i \in Int, NEW n, NEW q, NEW o,
         Snapped(home.dir, n, q, o), n >= home.done,
         Way(home) >= 0 => Way(home) <= q /\ (n = home.done \/ n * Swipe <= q)
  PROVE  LET to == Drawn(i - home.dir * (n - home.done), o)
         IN  \/ Forward(home.dir, Drawn(i, home.offset), to)
             \/ home.reached * home.dir > 0 /\ Forward(home.dir, Drawn(i + home.dir * home.done, 0), to)
<1> DEFINE d == home.dir
           m == home.done
           w == Way(home)
<1>1. d \in {-1, 1} /\ m \in 0..3 /\ home.reached \in Int /\ w \in Int /\ home.offset \in -Swipe..Swipe
      /\ Swipe \in Nat \ {0} /\ w = -(d * home.reached) /\ n \in 0..3 /\ q \in Nat
  BY SwipeType DEF PlanOK, Way, Snapped
<1>2. CASE w >= 0
  <2>1. w \in Nat /\ w <= q /\ (n = m \/ n * Swipe <= q) /\ n * Swipe \in Int /\ m * Swipe \in Int
    BY <1>1, <1>2
  <2>2. home.offset = -d * (w - m * Swipe)
    BY <1>1, <1>2 DEF PlanOK
  <2> HIDE DEF d, m, w
  <2>3. w - m * Swipe \in -Swipe..Swipe
    <3> DEFINE r == w - m * Swipe
    <3>1. r \in Int /\ home.offset = -d * r
      BY <2>1, <2>2
    <3> HIDE DEF r
    <3>2. r \in -Swipe..Swipe
      BY <1>1, <3>1
    <3> QED
      BY <3>2 DEF r
  <2> DEFINE f == FarAt(w, m)
  <2>4. Drawn(i, home.offset) = i * 1024 + d * (1024 * m - f)
    <3>1. Snapped(d, m, w, home.offset)
      BY <1>1, <2>1, <2>2, <2>3 DEF Snapped
    <3> QED
      BY <3>1, SnapPlace
  <2>5. f \in Int /\ (f = FarAt(q, n) \/ f + 12 <= FarAt(q, n))
    <3>1. f \in Nat /\ (w < q => f + 12 <= FarAt(q, n))
      BY <1>1, <2>1, FarAtMore
    <3>2. w = q => f = FarAt(q, n)
      <4> SUFFICES ASSUME w = q PROVE FarAt(q, m) = FarAt(q, n)
        OBVIOUS
      <4>1. CASE n = m
        BY <4>1
      <4>2. CASE n # m
        <5>1. m * Swipe <= n * Swipe
          BY <1>1 DEF m
        <5>2. n * Swipe <= q /\ m * Swipe <= q
          BY <2>1, <4>2, <5>1
        <5> QED
          BY <5>2 DEF FarAt
      <4> QED
        BY <4>1, <4>2
    <3> QED
      BY <1>1, <2>1, <3>1, <3>2
  <2> HIDE DEF f
  <2>6. d * (PictureLeft(Drawn(i - d * (n - m), o)) - PictureLeft(Drawn(i, home.offset))) <= 0
    <3>1. Snapped(d, n, q, o)
      BY DEF d
    <3>2. Placed(d, i, m, f, Drawn(i, home.offset)) /\ Reaches(f, q, n)
      BY <1>1, <2>4, <2>5 DEF Placed, Reaches
    <3> QED
      BY <3>1, <3>2, SnapMoves
  <2> QED
    BY <2>6 DEF Forward, d, m
<1>3. CASE w < 0
  <2>1. home.reached * home.dir > 0
    BY <1>1, <1>3
  <2> DEFINE from == Drawn(i + d * m, 0)
  <2>2. from = i * 1024 + d * (1024 * m - 0)
    <3>1. Drift(0) = 0
      BY <1>1 DEF Drift, Quotient, SwipePixels, Unit
    <3>2. from = (i + d * m) * 1024 + Drift(0)
      BY <1>1, DrawnDrift
    <3>3. (i + d * m) * 1024 = i * 1024 + d * (1024 * m)
      BY <1>1
    <3> QED
      BY <1>1, <3>1, <3>2, <3>3
  <2> HIDE DEF d, m, from
  <2>3. 0 = FarAt(q, n) \/ 0 + 12 <= FarAt(q, n)
    <3>1. FarAt(0, n) = 0 /\ (0 < q => FarAt(0, n) + 12 <= FarAt(q, n))
      BY <1>1, FarAtMore
    <3> QED
      BY <1>1, <3>1
  <2>4. d * (PictureLeft(Drawn(i - d * (n - m), o)) - PictureLeft(from)) <= 0
    <3>1. Snapped(d, n, q, o)
      BY DEF d
    <3>2. Placed(d, i, m, 0, from) /\ Reaches(0, q, n)
      BY <1>1, <2>2, <2>3 DEF Placed, Reaches
    <3> QED
      BY <3>1, <3>2, SnapMoves
  <2> QED
    BY <2>1, <2>4 DEF Forward, d, m, from
<1> QED
  BY <1>1, <1>2, <1>3

\* The picture of the slot i, over a step of a snap.
LEMMA PictureFollows ==
  ASSUME HomeGood(home), home.snap, home.dir # 0,
         home' = home \/ UserClicked \/ SnapTick \/ SnapDeadline, NEW i \in Slots
  PROVE  LET moved == home.dir * ((IF home'.snap THEN home'.done ELSE home.total) - home.done)
             to == Drawn(i - moved, home'.offset)
         IN  \/ Forward(home.dir, Drawn(i, home.offset), to)
             \/ home.reached * home.dir > 0 /\ Forward(home.dir, Drawn(i + home.dir * home.done, 0), to)
<1>1. HomeWhole(home) /\ ListOK(home) /\ PlanOK(home) /\ i \in Int
  BY HomeGoodParts DEF Slots
<1>2. home.dir \in {-1, 1} /\ home.reached \in Int /\ home.total \in 0..3 /\ home.done \in 0..home.total
      /\ Swipe \in Nat \ {0} /\ Way(home) <= home.total * Swipe /\ Way(home) \in Int
  BY <1>1, SwipeType DEF PlanOK, Way
<1>3. CASE home' = home \/ UserClicked
  <2>1. home'.offset = home.offset /\ home'.done = home.done /\ home'.snap = home.snap
    BY <1>3, ClickSame DEF SamePlan
  <2>2. home.dir * (home.done - home.done) = 0
    BY <1>2
  <2>3. i - 0 = i
    BY <1>1
  <2>4. Drawn(i, home.offset) \in Int
    <3>1. home.offset \in -Swipe..Swipe
      BY <1>1 DEF PlanOK
    <3>2. Drift(home.offset) \in -1024..1024
      BY <3>1, DriftBound, Zenon
    <3> QED
      BY <1>1, <3>2, DrawnDrift
  <2>5. PictureLeft(Drawn(i, home.offset)) \in Int
    BY <2>4, PictureOrder
  <2>6. Forward(home.dir, Drawn(i, home.offset), Drawn(i, home.offset))
    BY <1>2, <2>5 DEF Forward
  <2> QED
    BY <2>1, <2>2, <2>3, <2>6
<1>4. CASE SnapTick
  <2>1. PICK p \in Between(home.reached, Target(home)) : home' = ApplyProgress(home, p)
    BY <1>4 DEF SnapTick
  <2>2. Ahead(home, p) /\ p \in Int
    BY <1>1, <2>1, BetweenAhead DEF Between
  <2>3. home'.snap
    BY <1>1, <2>1, ProgressSame DEF SameTimer
  <2> DEFINE n == home'.done
             q == Abs(p)
  <2>4. /\ PlanOK(home') /\ home'.dir = home.dir /\ home'.total = home.total
        /\ home'.offset = -home.dir * (q - n * Swipe)
        /\ n >= home.done /\ (n = home.done \/ n * Swipe <= q)
    BY <1>1, <2>1, <2>2, ProgressPlan
  <2>5. n \in 0..3 /\ home'.offset \in -Swipe..Swipe
    BY <1>2, <2>4 DEF PlanOK
  <2>6. q \in Nat /\ (Way(home) >= 0 => Way(home) <= q)
    <3>1. Way(home) <= -(home.dir * p)
      BY <1>2, <2>2 DEF Ahead
    <3> QED
      BY <1>2, <2>2, <3>1 DEF Abs
  <2> HIDE DEF n, q
  <2>7. q - n * Swipe \in -Swipe..Swipe
    <3> DEFINE r == q - n * Swipe
    <3>1. r \in Int /\ home'.offset = -home.dir * r
      BY <1>2, <2>4, <2>5, <2>6
    <3> HIDE DEF r
    <3>2. r \in -Swipe..Swipe
      BY <1>2, <2>5, <3>1
    <3> QED
      BY <3>2 DEF r
  <2>8. LET to == Drawn(i - home.dir * (n - home.done), home'.offset)
        IN  \/ Forward(home.dir, Drawn(i, home.offset), to)
            \/ home.reached * home.dir > 0 /\ Forward(home.dir, Drawn(i + home.dir * home.done, 0), to)
    <3>1. Snapped(home.dir, n, q, home'.offset)
      BY <1>2, <2>4, <2>5, <2>6, <2>7 DEF Snapped
    <3> QED
      BY <1>1, <2>4, <2>6, <3>1, PictureMoves
  <2> QED
    BY <2>3, <2>8 DEF n
<1>5. CASE SnapDeadline
  <2> DEFINE e == ApplyProgress(home, Target(home))
             q == home.total * Swipe
  <2>1. home' = Finish(e)
    BY <1>5 DEF SnapDeadline, Finish
  <2>2. HomeWhole(e) /\ ListOK(e) /\ PlanOK(e)
    BY <1>1, TargetAhead, ProgressPlan
  <2>3. SnapOK(e)
    <3>1. SameTimer(home, e) /\ e.dragging = home.dragging
      BY <1>1, ProgressSame
    <3>2. SnapOK(home)
      BY DEF HomeGood, HomeOK
    <3> QED
      BY <3>1, <3>2 DEF SnapOK, SameTimer
  <2> HIDE DEF e
  <2>4. home'.snap = FALSE /\ home'.offset = 0
    BY <2>1, <2>2, <2>3, FinishPlan, FinishOK
  <2>5. q \in Nat /\ Way(home) <= q /\ home.total * Swipe <= q /\ q - home.total * Swipe = 0
    <3>1. home.total \in Nat /\ Swipe \in Nat
      BY <1>2
    <3>2. q \in Nat
      BY <3>1
    <3>3. Way(home) <= q /\ home.total * Swipe = q
      BY <1>2
    <3> HIDE DEF q
    <3> QED
      BY <3>2, <3>3
  <2>6. 0 = -home.dir * (q - home.total * Swipe) /\ q - home.total * Swipe \in -Swipe..Swipe
        /\ home.total >= home.done
    BY <1>2, <2>5
  <2>7. LET to == Drawn(i - home.dir * (home.total - home.done), 0)
        IN  \/ Forward(home.dir, Drawn(i, home.offset), to)
            \/ home.reached * home.dir > 0 /\ Forward(home.dir, Drawn(i + home.dir * home.done, 0), to)
    <3> HIDE DEF q
    <3>1. Snapped(home.dir, home.total, q, 0)
      BY <1>2, <2>5, <2>6 DEF Snapped
    <3> QED
      BY <1>1, <2>5, <2>6, <3>1, PictureMoves
  <2> QED
    BY <2>4, <2>7
<1> QED
  BY <1>3, <1>4, <1>5

\* A snap ends at the recipe it was started for, unless a finger stops it.  On
\* the way no picture goes back, also where a step is committed and the pictures
\* change their slots; while a snap that was started against the finger has not
\* come back to the place of its start, no picture is behind the place where it
\* stood before the finger came (home_page_apply_snap_progress).
THEOREM SnapTrue == AppSpec => SnapFaithful
<1>1. ASSUME AppInv, CarouselInv, [PageNext]_pageVars, home.snap, home'.alive, ~home'.dragging
      PROVE  HomeGood(home) /\ (home' = home \/ UserClicked \/ SnapTick \/ SnapDeadline)
  BY <1>1, SnapSteps DEF AppInv, CarouselInv, HomeGood
<1>2. AppInv /\ CarouselInv /\ [PageNext]_pageVars
        => [home.snap /\ home'.alive /\ ~home'.dragging => Destination(home') = Destination(home)]_home
  BY <1>1, DestinationSame
<1>3. AppInv /\ CarouselInv /\ [PageNext]_pageVars
        => [home.snap /\ home'.alive /\ ~home'.dragging /\ home.dir # 0
              => LET moved == home.dir * ((IF home'.snap THEN home'.done ELSE home.total) - home.done)
                     ahead(from, to) == home.dir * (PictureLeft(to) - PictureLeft(from)) <= 0
                 IN  \A i \in Slots : i - moved \in Slots =>
                        \/ ahead(Drawn(i, home.offset), Drawn(i - moved, home'.offset))
                        \/ /\ home.reached * home.dir > 0
                           /\ ahead(Drawn(i + home.dir * home.done, 0),
                                    Drawn(i - moved, home'.offset))]_home
  BY <1>1, PictureFollows DEF Forward
<1>4. AppSpec => DestinationKept
  BY <1>2, CarouselAlways, PageStepOnly, PTL DEF AppSpec, DestinationKept
<1>5. AppSpec => SnapForward
  BY <1>3, CarouselAlways, PageStepOnly, PTL DEF AppSpec, SnapForward
<1> QED
  BY <1>4, <1>5 DEF SnapFaithful

-----------------------------------------------------------------------------
(* What the parser and the running page make of a recipe.  Their loops are *)
(* recursive functions; the lemma UpTo is the induction they need.         *)

\* A set of numbers that has 0 and with each number the next one.
LEMMA UpTo ==
  ASSUME NEW n \in Nat, NEW S, 0 \in S, \A k \in 0..(n - 1) : k \in S => k + 1 \in S
  PROVE  n \in S
<1> DEFINE R == {p \in Nat \X Nat : p[1] < p[2]}
           T == (0..n) \ S
<1>1. IsWellFoundedOn(R, Nat)
  <2>1. OpToRel(<, Nat) = R
    BY Zenon DEF OpToRel
  <2> QED
    BY <2>1, NatLessThanWellFounded, Zenon
<1>2. ASSUME T # {} PROVE FALSE
  <2>1. PICK x \in T : \A y \in T : <<y, x>> \notin R
    <3>1. T \subseteq Nat
      OBVIOUS
    <3> HIDE DEF T, R
    <3> QED
      BY <1>1, <1>2, <3>1, WFMin
  <2>2. x # 0 /\ x - 1 \in 0..(n - 1) /\ x \in Nat
    BY <2>1
  <2>3. <<x - 1, x>> \in R
    BY <2>2
  <2>4. x - 1 \notin T
    BY <2>1, <2>3
  <2> QED
    BY <2>1, <2>2, <2>4
<1> QED
  BY <1>2

LEMMA Maximum ==
  ASSUME NEW n \in Nat, NEW S \in SUBSET (0..n), 0 \in S
  PROVE  \E m \in S : \A k \in S : k <= m
<1> DEFINE T == {m \in 0..n : \E x \in S : x <= m /\ \A k \in S : k <= m => k <= x}
<1>1. 0 \in T
  OBVIOUS
<1>2. ASSUME NEW m \in 0..(n - 1), m \in T PROVE m + 1 \in T
  <2>1. PICK x \in S : x <= m /\ \A k \in S : k <= m => k <= x
    BY <1>2
  <2>2. CASE m + 1 \in S
    BY <2>2
  <2>3. CASE m + 1 \notin S
    <3>1. \A k \in S : k <= m + 1 => k <= m
      BY <2>3
    <3> QED
      BY <2>1, <3>1
  <2> QED
    BY <2>2, <2>3
<1> HIDE DEF T
<1>3. n \in T
  BY <1>1, <1>2, UpTo
<1> QED
  BY <1>3 DEF T

\* f goes through the loop of StepParams up to item m.
KeptRow(items, f, n) == IF n = 0 THEN <<>>
                        ELSE IF IsParam(items[n]) THEN Append(f[n - 1], items[n])
                        ELSE f[n - 1]
Kept(items, f, m) == f = [n \in 0..m |-> KeptRow(items, f, n)]

LEMMA KeptExists ==
  ASSUME NEW items, NEW m \in Nat
  PROVE  \E f : Kept(items, f, m)
<1> DEFINE S == {k \in 0..m : \E f : Kept(items, f, k)}
<1>1. 0 \in S
  <2>1. Kept(items, [n \in 0..0 |-> <<>>], 0)
    BY DEF Kept, KeptRow
  <2> QED
    BY <2>1
<1>2. ASSUME NEW k \in 0..(m - 1), k \in S PROVE k + 1 \in S
  <2>1. PICK f : Kept(items, f, k)
    BY <1>2
  <2> DEFINE g == [n \in 0..(k + 1) |-> IF n = k + 1 THEN KeptRow(items, f, n) ELSE f[n]]
  <2>2. ASSUME NEW n \in 0..(k + 1) PROVE g[n] = KeptRow(items, g, n)
    <3>1. n # 0 => g[n - 1] = f[n - 1]
      OBVIOUS
    <3>2. KeptRow(items, g, n) = KeptRow(items, f, n)
      BY <3>1 DEF KeptRow
    <3>3. n \in 0..k => f[n] = KeptRow(items, f, n)
      BY <2>1 DEF Kept
    <3>4. n # k + 1 => n \in 0..k
      OBVIOUS
    <3> QED
      BY <3>2, <3>3, <3>4
  <2>3. Kept(items, g, k + 1)
    BY <2>2 DEF Kept
  <2> QED
    BY <2>3
<1> HIDE DEF S
<1>3. m \in S
  BY <1>1, <1>2, UpTo
<1> QED
  BY <1>3 DEF S

\* A step has parameters of the recipe only.
LEMMA StepParamsTyped ==
  ASSUME NEW items \in Seq(Item)
  PROVE  StepParams(items) \in Seq(Item)
<1> DEFINE m == Len(items)
           f == CHOOSE f : Kept(items, f, m)
           S == {k \in 0..m : f[k] \in Seq(Item)}
<1>1. m \in Nat
  OBVIOUS
<1>2. Kept(items, f, m)
  BY <1>1, KeptExists
<1>3. StepParams(items) = f[m]
  BY DEF StepParams, Kept, KeptRow
<1> HIDE DEF f
<1>4. 0 \in S
  BY <1>1, <1>2 DEF Kept, KeptRow
<1>5. ASSUME NEW k \in 0..(m - 1), k \in S PROVE k + 1 \in S
  <2>1. f[k + 1] = KeptRow(items, f, k + 1) /\ (k + 1) - 1 = k /\ k + 1 # 0 /\ k + 1 \in 1..m
    BY <1>1, <1>2 DEF Kept
  <2>2. items[k + 1] \in Item
    BY <2>1
  <2>3. f[k + 1] \in {f[k], Append(f[k], items[k + 1])}
    BY <2>1 DEF KeptRow
  <2>4. f[k] \in Seq(Item)
    BY <1>5
  <2>5. Append(f[k], items[k + 1]) \in Seq(Item)
    BY <2>2, <2>4, AppendProperties
  <2>6. f[k + 1] \in Seq(Item)
    BY <2>3, <2>4, <2>5
  <2>7. k + 1 \in 0..m
    BY <1>1
  <2> QED
    BY <2>6, <2>7
<1> HIDE DEF S
<1>6. m \in S
  BY <1>1, <1>4, <1>5, UpTo
<1> QED
  BY <1>3, <1>6 DEF S

LEMMA ParsedTyped ==
  ASSUME NEW steps \in Seq(Seq(Item))
  PROVE  ParsedSteps(steps) \in Seq(Seq(Item))
<1> DEFINE good == {n \in 0..Len(steps) : n <= MaxSteps /\ \A i \in 1..n : StepParses(steps[i])}
           n == CHOOSE m \in good : \A k \in good : k <= m
<1>1. 0 \in good
  BY RecipeAssumption
<1>2. good \in SUBSET (0..Len(steps)) /\ Len(steps) \in Nat
  OBVIOUS
<1>3. ParsedSteps(steps) = [i \in 1..n |-> StepParams(steps[i])]
  BY DEF ParsedSteps
<1> HIDE DEF good
<1>4. n \in good
  BY <1>1, <1>2, Maximum
<1> HIDE DEF n
<1>5. n \in 0..Len(steps)
  BY <1>2, <1>4
<1>6. \A i \in 1..n : StepParams(steps[i]) \in Seq(Item)
  BY <1>5, StepParamsTyped
<1> QED
  BY <1>3, <1>5, <1>6

\* The parameter the page shows for a key is one of the step, and has a range.
LEMMA ParamFound ==
  ASSUME NEW step \in Seq(Item), NEW key \in AdjustableKeys(step)
  PROVE  Param(step, key) \in Item /\ Param(step, key).key = key /\ Adjustable(Param(step, key))
<1>1. PICK k \in DOMAIN step : \E j \in Found(step, step[k].key) : Adjustable(step[j]) /\ step[j].key = key
  BY DEF AdjustableKeys
<1>2. PICK j \in Found(step, step[k].key) : Adjustable(step[j]) /\ step[j].key = key
  BY <1>1
<1>3. j \in DOMAIN step /\ step[k].key = key
  BY <1>2 DEF Found
<1>4. j \in Found(step, key)
  BY <1>2, <1>3
<1>5. \A i \in Found(step, key) : i = j
  BY <1>4 DEF Found
<1>6. Param(step, key) = step[j]
  BY <1>4, <1>5 DEF Param
<1> QED
  BY <1>2, <1>3, <1>6

RowRange == {r \in [key : STRING, min : Int, max : Int, value : Int] :
                r.min < r.max /\ r.value \in r.min..r.max}

\* What strtol and the cast to int32_t make of a number is one.
LEMMA ParsedNumber ==
  ASSUME NEW text \in Int
  PROVE  Parsed(text) \in Int
<1>1. IntMax \in Nat /\ LongMax \in Nat
  BY NumberAssumption
<1> DEFINE n == Clamped(text, -LongMax - 1, LongMax)
<1>2. n \in Int
  BY <1>1 DEF Clamped
<1> HIDE DEF n
<1>3. n + IntMax + 1 \in Int /\ 2 * (IntMax + 1) \in Nat \ {0}
  BY <1>1, <1>2
<1>4. (n + IntMax + 1) % (2 * (IntMax + 1)) \in Int
  BY <1>3, Division
<1> QED
  BY <1>1, <1>4 DEF Parsed, Wrapped, n

LEMMA RowFits ==
  ASSUME NEW p \in Item, Adjustable(p)
  PROVE  Row(p) \in RowRange /\ Row(p).key = p.key
<1>1. p.key \in STRING /\ p.ctl \in Int /\ p.min \in Int /\ p.max \in Int
  BY DEF Item, Adjustable, Text
<1>2. Parsed(p.ctl) \in Int /\ Parsed(p.min) \in Int /\ Parsed(p.max) \in Int
  BY <1>1, ParsedNumber
<1>3. Parsed(p.min) # Parsed(p.max)
  BY DEF Adjustable
<1> QED
  BY <1>1, <1>2, <1>3 DEF Row, RowRange, Clamped

Place(key) == CHOOSE i \in DOMAIN Specs : Specs[i] = key

LEMMA SpecPlaces == DOMAIN Specs = 1..6 /\ Len(Specs) = 6 /\ \A i \in 1..6 : Place(Specs[i]) = i
<1>1. DOMAIN Specs = 1..6 /\ Len(Specs) = 6
  BY DEF Specs
<1>2. \A i, j \in 1..6 : Specs[i] = Specs[j] => i = j
  BY DEF Specs
<1> QED
  BY <1>1, <1>2 DEF Place

\* Rows in the order of Specs, each at most once.
RowsOK(rows) == /\ rows \in Seq(RowRange)
                /\ Len(rows) <= MaxRows
                /\ \A i \in DOMAIN rows : \A j \in 1..(i - 1) : Place(rows[j].key) < Place(rows[i].key)

\* What a failed row may leave: nothing, or a range behind the last row.
StrayRange == {r \in [title : STRING, min : Int, max : Int, value : Int, group : BOOLEAN] :
                  r.min < r.max /\ r.value \in r.min..r.max}
StrayOK(rows, stray) == \/ stray = NoStray
                        \/ /\ stray \in StrayRange
                           /\ Len(rows) < MaxRows
                           /\ \A j \in DOMAIN rows : Place(rows[j].key) < Place(stray.title)

\* f goes through the loop of RowsFor up to the parameter m: W are the places of
\* the parameters, row their rows, fault the rows that fail.
MadeRow(W, row, fault, f, n) ==
    IF n = 0 THEN [rows |-> <<>>, stray |-> NoStray]
    ELSE IF n \notin W THEN f[n - 1]
    ELSE RowAdded(f[n - 1], row[n], IF n \in DOMAIN fault THEN fault[n] ELSE "made")
Made(W, row, fault, f, m) == f = [n \in 0..m |-> MadeRow(W, row, fault, f, n)]

LEMMA MadeExists ==
  ASSUME NEW W, NEW row, NEW fault, NEW m \in Nat
  PROVE  \E f : Made(W, row, fault, f, m)
<1> DEFINE T == {k \in 0..m : \E f : Made(W, row, fault, f, k)}
<1>1. 0 \in T
  <2>1. Made(W, row, fault, [n \in 0..0 |-> [rows |-> <<>>, stray |-> NoStray]], 0)
    BY DEF Made, MadeRow
  <2> QED
    BY <2>1
<1>2. ASSUME NEW k \in 0..(m - 1), k \in T PROVE k + 1 \in T
  <2>1. PICK f : Made(W, row, fault, f, k)
    BY <1>2
  <2> DEFINE g == [n \in 0..(k + 1) |-> IF n = k + 1 THEN MadeRow(W, row, fault, f, n) ELSE f[n]]
  <2>2. ASSUME NEW n \in 0..(k + 1) PROVE g[n] = MadeRow(W, row, fault, g, n)
    <3>1. n # 0 => g[n - 1] = f[n - 1]
      OBVIOUS
    <3>2. MadeRow(W, row, fault, g, n) = MadeRow(W, row, fault, f, n)
      BY <3>1 DEF MadeRow
    <3>3. n \in 0..k => f[n] = MadeRow(W, row, fault, f, n)
      BY <2>1 DEF Made
    <3>4. n # k + 1 => n \in 0..k
      OBVIOUS
    <3> QED
      BY <3>2, <3>3, <3>4
  <2>3. Made(W, row, fault, g, k + 1)
    BY <2>2 DEF Made
  <2> QED
    BY <2>3
<1> HIDE DEF T
<1>3. m \in T
  BY <1>1, <1>2, UpTo
<1> QED
  BY <1>3 DEF T

\* A row that is added is the last in the order of Specs.
LEMMA RowLast ==
  ASSUME NEW rows, RowsOK(rows), Len(rows) < MaxRows, NEW r \in RowRange,
         \A i \in DOMAIN rows : Place(rows[i].key) < Place(r.key)
  PROVE  RowsOK(Append(rows, r))
<1> DEFINE new == Append(rows, r)
<1>1. rows \in Seq(RowRange) /\ Len(rows) \in Nat /\ DOMAIN rows = 1..Len(rows)
  BY DEF RowsOK
<1>2. new \in Seq(RowRange) /\ Len(new) = Len(rows) + 1 /\ DOMAIN new = 1..(Len(rows) + 1)
      /\ new[Len(rows) + 1] = r /\ \A i \in 1..Len(rows) : new[i] = rows[i]
  BY <1>1
<1> HIDE DEF new
<1>3. ASSUME NEW i \in DOMAIN new, NEW j \in 1..(i - 1)
      PROVE  Place(new[j].key) < Place(new[i].key)
  <2>1. j \in 1..Len(rows) /\ new[j] = rows[j]
    BY <1>1, <1>2, <1>3
  <2>2. CASE i = Len(rows) + 1
    BY <1>1, <1>2, <2>1, <2>2
  <2>3. CASE i # Len(rows) + 1
    <3>1. i \in DOMAIN rows /\ new[i] = rows[i]
      BY <1>1, <1>2, <1>3, <2>3
    <3> QED
      BY <1>3, <2>1, <3>1 DEF RowsOK
  <2> QED
    BY <2>2, <2>3
<1>4. Len(new) <= MaxRows
  BY <1>1, <1>2 DEF MaxRows
<1> QED
  BY <1>2, <1>3, <1>4 DEF RowsOK, new

\* The rows s of the parameters up to place k, and the stray behind them.
Good(s, k) == /\ s = [rows |-> s.rows, stray |-> s.stray]
              /\ RowsOK(s.rows) /\ StrayOK(s.rows, s.stray)
              /\ \A i \in DOMAIN s.rows : Place(s.rows[i].key) \in 1..k

\* A stray does not change the rows.
LEMMA StrayKept ==
  ASSUME NEW s, NEW stray, s = [rows |-> s.rows, stray |-> s.stray]
  PROVE  [s EXCEPT !.stray = stray] = [rows |-> s.rows, stray |-> stray]
  OBVIOUS

LEMMA RowAddedGood ==
  ASSUME NEW k \in Nat, NEW s, Good(s, k), NEW r \in RowRange, Place(r.key) = k + 1,
         NEW outcome \in {"made", "left", "none"}
  PROVE  Good(RowAdded(s, r, outcome), k + 1)
<1>1. RowsOK(s.rows) /\ s.rows \in Seq(RowRange) /\ Len(s.rows) \in Nat /\ Len(s.rows) <= MaxRows
      /\ MaxRows = 5
  BY DEF Good, RowsOK, MaxRows
<1>2. \A i \in DOMAIN s.rows : Place(s.rows[i].key) \in 1..k /\ Place(s.rows[i].key) < k + 1
  BY DEF Good
<1>7. Len(s.rows) # MaxRows => Len(s.rows) < MaxRows
  <2> DEFINE x == Len(s.rows)
  <2>1. x \in Nat /\ x <= 5 /\ MaxRows = 5
    BY <1>1
  <2> HIDE DEF x
  <2>2. x # 5 => x < 5
    BY <2>1
  <2> QED
    BY <2>1, <2>2 DEF x
<1>3. \A i \in DOMAIN s.rows : Place(s.rows[i].key) \in 1..(k + 1)
  BY <1>2
<1>4. CASE Len(s.rows) = MaxRows
  <2>1. RowAdded(s, r, outcome) = s
    BY <1>4 DEF RowAdded
  <2> QED
    BY <1>3, <2>1 DEF Good
<1>5. CASE Len(s.rows) # MaxRows /\ outcome = "made"
  <2> DEFINE new == Append(s.rows, r)
  <2>1. RowAdded(s, r, outcome) = [rows |-> new, stray |-> NoStray]
    BY <1>5 DEF RowAdded
  <2>2. RowsOK(new)
    <3>1. Len(s.rows) < MaxRows
      BY <1>5, <1>7
    <3> QED
      BY <1>1, <1>2, <3>1, RowLast
  <2>3. ASSUME NEW i \in DOMAIN new PROVE Place(new[i].key) \in 1..(k + 1)
    <3>1. CASE i = Len(s.rows) + 1
      BY <1>1, <3>1
    <3>2. CASE i # Len(s.rows) + 1
      <4>1. i \in DOMAIN s.rows /\ new[i] = s.rows[i]
        BY <1>1, <2>3, <3>2
      <4> QED
        BY <1>3, <4>1
    <3> QED
      BY <3>1, <3>2
  <2> HIDE DEF new
  <2> QED
    BY <2>1, <2>2, <2>3 DEF Good, StrayOK
<1>6. CASE Len(s.rows) # MaxRows /\ outcome # "made"
  <2> DEFINE t == RowAdded(s, r, outcome)
  <2>1. Len(s.rows) < MaxRows
    BY <1>6, <1>7
  <2>2. r.key \in STRING /\ r.min \in Int /\ r.max \in Int /\ r.value \in Int /\ r.min < r.max
        /\ r.value \in r.min..r.max
    BY DEF RowRange
  <2>6. s = [rows |-> s.rows, stray |-> s.stray]
    BY DEF Good
  <2>3. CASE outcome = "left"
    <3> DEFINE stray == [title |-> r.key, min |-> r.min, max |-> r.max, value |-> r.value, group |-> TRUE]
    <3>1. t = [s EXCEPT !.stray = stray]
      BY <1>6, <2>3 DEF RowAdded
    <3>2. stray \in StrayRange /\ stray.title = r.key
      BY <2>2 DEF StrayRange
    <3> HIDE DEF stray
    <3>3. StrayOK(s.rows, stray)
      BY <1>2, <2>1, <3>2 DEF StrayOK
    <3> QED
      BY <1>1, <1>3, <2>6, <3>1, <3>3, StrayKept DEF Good
  <2>4. CASE outcome = "none" /\ s.stray = NoStray
    <3>1. t = [s EXCEPT !.stray = s.stray]
      BY <1>6, <2>4 DEF RowAdded
    <3>2. StrayOK(s.rows, s.stray)
      BY DEF Good
    <3> QED
      BY <1>1, <1>3, <2>6, <3>1, <3>2, StrayKept DEF Good
  <2>5. CASE outcome = "none" /\ s.stray # NoStray
    <3> DEFINE stray == [title |-> s.stray.title, min |-> r.min, max |-> r.max, value |-> r.value,
                         group |-> FALSE]
    <3>1. t = [s EXCEPT !.stray = stray]
      BY <1>6, <2>5 DEF RowAdded
    <3>2. s.stray.title \in STRING /\ \A j \in DOMAIN s.rows : Place(s.rows[j].key) < Place(s.stray.title)
      BY <2>5 DEF Good, StrayOK, StrayRange
    <3>3. stray \in StrayRange /\ stray.title = s.stray.title
      BY <2>2, <3>2 DEF StrayRange
    <3> HIDE DEF stray
    <3>4. StrayOK(s.rows, stray)
      BY <2>1, <3>2, <3>3 DEF StrayOK
    <3> QED
      BY <1>1, <1>3, <2>6, <3>1, <3>4, StrayKept DEF Good
  <2> QED
    BY <1>6, <2>3, <2>4, <2>5
<1> QED
  BY <1>4, <1>5, <1>6

\* The rows of a recipe are those that can be set, in their order, as many as
\* there is room for; and each has a value in its range.
LEMMA RowsForOK ==
  ASSUME NEW step \in Seq(Item), NEW s \in RowsFor(step)
  PROVE  RowsOK(s.rows) /\ StrayOK(s.rows, s.stray)
<1> DEFINE W == {i \in DOMAIN Specs : Specs[i] \in AdjustableKeys(step)}
           row == [i \in W |-> Row(Param(step, Specs[i]))]
<1>1. PICK fault \in {<<>>} \cup IfFails(RowFaults) :
         s = LET f[n \in 0..Len(Specs)] ==
                   IF n = 0 THEN [rows |-> <<>>, stray |-> NoStray]
                   ELSE IF n \notin W THEN f[n - 1]
                   ELSE RowAdded(f[n - 1], row[n], IF n \in DOMAIN fault THEN fault[n] ELSE "made")
             IN  f[Len(Specs)]
  BY DEF RowsFor
<1> DEFINE f == CHOOSE f : Made(W, row, fault, f, Len(Specs))
           T == {k \in 0..6 : Good(f[k], k)}
<1>2. s = f[Len(Specs)]
  BY <1>1 DEF Made, MadeRow
<1>3. Len(Specs) = 6
  BY SpecPlaces
<1>4. Made(W, row, fault, f, 6)
  BY <1>3, MadeExists
<1> HIDE DEF f
<1>5. 0 \in T
  <2>1. f[0] = [rows |-> <<>>, stray |-> NoStray]
    BY <1>4 DEF Made, MadeRow
  <2>2. RowsOK(<<>>)
    <3>1. <<>> \in Seq(RowRange) /\ Len(<<>>) = 0 /\ DOMAIN <<>> = {}
      OBVIOUS
    <3> QED
      BY <3>1 DEF RowsOK, MaxRows
  <2> QED
    BY <2>1, <2>2 DEF Good, StrayOK
<1>6. ASSUME NEW n \in W PROVE row[n] \in RowRange /\ Place(row[n].key) = n
  <2>1. n \in DOMAIN Specs /\ Specs[n] \in AdjustableKeys(step)
    OBVIOUS
  <2>2. row[n] = Row(Param(step, Specs[n]))
    OBVIOUS
  <2>3. row[n] \in RowRange /\ row[n].key = Specs[n]
    BY <2>1, <2>2, ParamFound, RowFits
  <2> QED
    BY <2>1, <2>3, SpecPlaces
<1>7. \A n : (IF n \in DOMAIN fault THEN fault[n] ELSE "made") \in {"made", "left", "none"}
  <2>1. CASE fault = <<>>
    BY <2>1
  <2>2. CASE fault \in RowFaults
    <3>1. PICK F \in SUBSET DOMAIN Specs : fault \in [F -> {"left", "none"}]
      BY <2>2, FaultAssumption
    <3> QED
      BY <3>1
  <2> QED
    BY <1>1, <2>1, <2>2 DEF IfFails
<1> HIDE DEF W, row
<1>8. ASSUME NEW k \in 0..(6 - 1), k \in T PROVE k + 1 \in T
  <2>1. f[k + 1] = MadeRow(W, row, fault, f, k + 1) /\ (k + 1) - 1 = k /\ k + 1 # 0 /\ k + 1 \in 0..6
        /\ k \in Nat
    BY <1>4 DEF Made
  <2>2. Good(f[k], k)
    BY <1>8
  <2>3. CASE k + 1 \notin W
    <3>1. f[k + 1] = f[k]
      BY <2>1, <2>3 DEF MadeRow
    <3>2. \A i \in DOMAIN f[k].rows : Place(f[k].rows[i].key) \in 1..(k + 1)
      BY <2>1, <2>2 DEF Good
    <3>3. Good(f[k], k + 1)
      BY <2>2, <3>2 DEF Good
    <3> QED
      BY <2>1, <3>1, <3>3
  <2>4. CASE k + 1 \in W
    <3> DEFINE outcome == IF k + 1 \in DOMAIN fault THEN fault[k + 1] ELSE "made"
    <3>1. f[k + 1] = RowAdded(f[k], row[k + 1], outcome)
      BY <2>1, <2>4 DEF MadeRow
    <3>2. outcome \in {"made", "left", "none"}
      BY <1>7
    <3> HIDE DEF outcome
    <3>3. Good(f[k + 1], k + 1)
      BY <1>6, <2>1, <2>2, <2>4, <3>1, <3>2, RowAddedGood
    <3> QED
      BY <2>1, <3>3
  <2> QED
    BY <2>3, <2>4
<1> HIDE DEF T
<1>9. 6 \in T
  BY <1>5, <1>8, UpTo
<1> QED
  BY <1>2, <1>3, <1>9 DEF T, Good

RunningFields == {"alive", "recipe", "picture", "strength", "control", "rows", "stray"}
RunningOK(r) == /\ r = [x \in RunningFields |-> r[x]]
                /\ r.alive \in BOOLEAN
                /\ r.strength \in 1..3
                /\ RowsOK(r.rows)
                /\ StrayOK(r.rows, r.stray)

LEMMA NoRunningOK == RunningOK(NoRunning) /\ ~NoRunning.alive
<1>1. RowsOK(<<>>)
  BY EmptySeq DEF RowsOK, MaxRows
<1> QED
  BY <1>1 DEF NoRunning, RunningOK, RunningFields, Medium, StrayOK

\* A recipe that is opened, as the running page will find it.
LEMMA RunningCreateOK ==
  ASSUME table \in Tables, RunningCreate(table), pending'.recipe \in {NoRecipe} \cup 0..(Len(table) - 1)
  PROVE  RunningOK(running)' /\ running'.alive = TRUE
         /\ running'.recipe = pending'.recipe /\ running'.picture = pending'.picture
<1> DEFINE r == pending'.recipe
<1>1. PICK steps \in {<<>>} \cup IF r = NoRecipe THEN {} ELSE {ParsedSteps(table[r + 1].steps)} :
         LET step == IF steps = <<>> THEN <<>> ELSE steps[1]
             control == Powder \in AdjustableKeys(step)
         IN  \E s \in RowsFor(step) :
                running' = [alive |-> TRUE, recipe |-> r, picture |-> pending'.picture, control |-> control,
                            strength |-> IF control THEN Clamped(Parsed(Param(step, Powder).ctl), 1, 3) ELSE Medium,
                            rows |-> s.rows, stray |-> s.stray]
  BY DEF RunningCreate
<1> DEFINE step == IF steps = <<>> THEN <<>> ELSE steps[1]
           control == Powder \in AdjustableKeys(step)
           strength == IF control THEN Clamped(Parsed(Param(step, Powder).ctl), 1, 3) ELSE Medium
<1>6. PICK s \in RowsFor(step) :
         running' = [alive |-> TRUE, recipe |-> r, picture |-> pending'.picture, control |-> control,
                     strength |-> strength, rows |-> s.rows, stray |-> s.stray]
  BY <1>1
<1>2. steps \in Seq(Seq(Item))
  <2>1. CASE steps = <<>>
    BY <2>1
  <2>2. CASE r # NoRecipe /\ steps = ParsedSteps(table[r + 1].steps)
    <3>1. table \in Seq(RecipeRow)
      BY HomeAssumption
    <3>2. r + 1 \in 1..Len(table)
      BY <2>2, <3>1
    <3>3. table[r + 1] \in RecipeRow
      BY <3>1, <3>2
    <3>4. table[r + 1].steps \in Seq(Seq(Item))
      BY <3>3 DEF RecipeRow
    <3> QED
      BY <2>2, <3>4, ParsedTyped
  <2> QED
    BY <1>1, <2>1, <2>2
<1>3. step \in Seq(Item)
  <2>1. CASE steps = <<>>
    BY <2>1
  <2>2. CASE steps # <<>>
    BY <1>2, <2>2
  <2> QED
    BY <2>1, <2>2
<1> HIDE DEF step
<1>4. RowsOK(s.rows) /\ StrayOK(s.rows, s.stray)
  BY <1>3, <1>6, RowsForOK
<1>5. strength \in 1..3
  <2>1. CASE control
    <3>1. Param(step, Powder).ctl \in Int
      BY <1>3, <2>1, ParamFound DEF Item, Adjustable, Text
    <3>2. Parsed(Param(step, Powder).ctl) \in Int
      BY <3>1, ParsedNumber
    <3> QED
      BY <2>1, <3>2 DEF Clamped
  <2>2. CASE ~control
    BY <2>2 DEF Medium
  <2> QED
    BY <2>1, <2>2
<1> HIDE DEF strength, control
<1> QED
  BY <1>4, <1>5, <1>6 DEF RunningOK, RunningFields

\* A point on the track of a slider stands for a value of its range.
LEMMA ValueInRange ==
  ASSUME NEW x \in Int, NEW min \in Int, NEW max \in Int, min < max
  PROVE  ValueForPoint(x, RunningTrack, min, max) \in min..max
<1> DEFINE d == max - min
<1>1. CASE x <= 0 \/ x >= RunningTrack
  BY <1>1 DEF ValueForPoint
<1>2. CASE 0 < x /\ x < RunningTrack
  <2>1. x \in 1..269 /\ d \in Nat /\ RunningTrack = 270 /\ 270 \div 2 = 135
    BY <1>2 DEF RunningTrack
  <2> DEFINE y == x * d + 135
             q == y \div 270
  <2>2. x * d <= 269 * d /\ x * d >= 0 /\ x * d \in Int
    BY <2>1
  <2>3. y \in Nat /\ y < 270 * (d + 1)
    BY <2>1, <2>2
  <2>4. q \in 0..d
    BY <2>1, <2>3
  <2>5. ValueForPoint(x, RunningTrack, min, max) = min + q
    BY <1>2, <2>1 DEF ValueForPoint
  <2> HIDE DEF q
  <2> QED
    BY <2>1, <2>4, <2>5
<1> QED
  BY <1>1, <1>2 DEF RunningTrack

\* Whatever the arithmetic makes of a point, it stays in the range.
LEMMA ValuesInRange ==
  ASSUME NEW x \in Int, NEW min \in Int, NEW max \in Int, min < max, NEW v \in ValuesForPoint(x, min, max)
  PROVE  v \in min..max
<1>1. ValueForPoint(x, RunningTrack, min, max) \in min..max
  BY ValueInRange
<1> HIDE DEF ValueForPoint
<1>2. v \in min..max \/ v = Clamped(ValueForPoint(x, RunningTrack, min, max), min, max)
  BY DEF ValuesForPoint
<1> QED
  BY <1>1, <1>2 DEF Clamped

LEMMA ValueSet ==
  ASSUME NEW r \in RowRange, NEW v \in r.min..r.max
  PROVE  [r EXCEPT !.value = v] \in RowRange /\ [r EXCEPT !.value = v].key = r.key
<1>1. r \in [key : STRING, min : Int, max : Int, value : Int] /\ r.min < r.max /\ v \in Int
  BY DEF RowRange
<1> DEFINE s == [r EXCEPT !.value = v]
<1>2. s \in [key : STRING, min : Int, max : Int, value : Int] /\ s.key = r.key /\ s.min = r.min
      /\ s.max = r.max /\ s.value = v
  BY <1>1
<1> HIDE DEF s
<1> QED
  BY <1>1, <1>2 DEF RowRange, s

LEMMA RunningClickOK ==
  ASSUME RunningOK(running), RunningClick
  PROVE  RunningOK(running)' /\ running'.alive = running.alive
         /\ running'.recipe = running.recipe /\ running'.picture = running.picture
<1>1. CASE StrengthClicked
  BY <1>1 DEF StrengthClicked, RunningOK, RunningFields
<1>2. CASE ParamTouched
  <2>1. CASE \E i \in DOMAIN running.rows, x \in Touches :
               \E v \in ValuesForPoint(x, running.rows[i].min, running.rows[i].max) :
                  running' = [running EXCEPT !.rows[i].value = v]
    <3>1. PICK i \in DOMAIN running.rows, x \in Touches :
            \E v \in ValuesForPoint(x, running.rows[i].min, running.rows[i].max) :
               running' = [running EXCEPT !.rows[i].value = v]
      BY <2>1
    <3>2. PICK v \in ValuesForPoint(x, running.rows[i].min, running.rows[i].max) :
            running' = [running EXCEPT !.rows[i].value = v]
      BY <3>1
    <3> DEFINE rows == running.rows
               new == [rows EXCEPT ![i] = [@ EXCEPT !.value = v]]
    <3>3. rows \in Seq(RowRange) /\ rows[i] \in RowRange /\ x \in Int
      BY <3>1, TouchesAssumption DEF RunningOK, RowsOK
    <3>4. v \in rows[i].min..rows[i].max
      BY <3>2, <3>3, ValuesInRange DEF RowRange
    <3>5. running' = [running EXCEPT !.rows = new]
      BY <3>2
    <3>6. [rows[i] EXCEPT !.value = v] \in RowRange /\ [rows[i] EXCEPT !.value = v].key = rows[i].key
      BY <3>3, <3>4, ValueSet
    <3>7. new \in Seq(RowRange) /\ Len(new) = Len(rows) /\ DOMAIN new = DOMAIN rows
      BY <3>3, <3>6, ExceptSeq
    <3>8. \A j \in DOMAIN rows : new[j].key = rows[j].key
      BY <3>3, <3>6
    <3>9. running.alive \in BOOLEAN /\ RowsOK(rows) /\ StrayOK(rows, running.stray)
          /\ running.strength \in 1..3 /\ running = [f \in RunningFields |-> running[f]]
      BY DEF RunningOK
    <3> HIDE DEF new, rows
    <3>10. RowsOK(new)
      <4>1. \A j \in DOMAIN rows : \A k \in 1..(j - 1) : k \in DOMAIN rows
        BY <3>3
      <4> QED
        BY <3>7, <3>8, <3>9, <4>1 DEF RowsOK
    <3>11. StrayOK(new, running.stray)
      BY <3>7, <3>8, <3>9 DEF StrayOK
    <3> QED
      BY <3>5, <3>9, <3>10, <3>11 DEF RunningOK, RunningFields
  <2>2. CASE \E x \in Touches :
               LET row == running.stray
               IN  /\ row # NoStray
                   /\ \E v \in IF row.group THEN ValuesForPoint(x, row.min, row.max) ELSE {Clamped(0, row.min, row.max)} :
                         running' = [running EXCEPT !.stray.value = v]
    <3> DEFINE row == running.stray
    <3>1. PICK x \in Touches :
            /\ row # NoStray
            /\ \E v \in IF row.group THEN ValuesForPoint(x, row.min, row.max) ELSE {Clamped(0, row.min, row.max)} :
                  running' = [running EXCEPT !.stray.value = v]
      BY <2>2
    <3>2. PICK v \in IF row.group THEN ValuesForPoint(x, row.min, row.max) ELSE {Clamped(0, row.min, row.max)} :
            running' = [running EXCEPT !.stray.value = v]
      BY <3>1
    <3>3. /\ row \in StrayRange /\ Len(running.rows) < MaxRows
          /\ \A j \in DOMAIN running.rows : Place(running.rows[j].key) < Place(row.title)
      BY <3>1 DEF RunningOK, StrayOK
    <3>4. row \in [title : STRING, min : Int, max : Int, value : Int, group : BOOLEAN] /\ row.min < row.max
          /\ x \in Int
      BY <3>3, TouchesAssumption DEF StrayRange
    <3>5. v \in row.min..row.max
      <4>1. CASE row.group
        BY <3>2, <3>4, <4>1, ValuesInRange
      <4>2. CASE ~row.group
        BY <3>2, <3>4, <4>2 DEF Clamped
      <4> QED
        BY <4>1, <4>2
    <3> DEFINE new == [row EXCEPT !.value = v]
    <3>6. running' = [running EXCEPT !.stray = new]
      BY <3>2
    <3> HIDE DEF row
    <3>7. new \in StrayRange /\ new.title = row.title
      <4>1. v \in Int
        BY <3>4, <3>5
      <4>2. /\ new \in [title : STRING, min : Int, max : Int, value : Int, group : BOOLEAN]
            /\ new.min = row.min /\ new.max = row.max /\ new.value = v /\ new.title = row.title
        BY <3>4, <4>1
      <4> HIDE DEF new
      <4> QED
        BY <3>4, <3>5, <4>2 DEF StrayRange
    <3> HIDE DEF new
    <3>8. StrayOK(running.rows, new)
      BY <3>3, <3>7 DEF StrayOK
    <3> QED
      BY <3>6, <3>8 DEF RunningOK, RunningFields
  <2> QED
    BY <1>2, <2>1, <2>2 DEF ParamTouched
<1> QED
  BY <1>1, <1>2 DEF RunningClick

LEMMA RunningFits == RunningOK(running) => RowsFit
<1> SUFFICES ASSUME RunningOK(running) PROVE RowsFit
  OBVIOUS
<1> DEFINE rows == running.rows
<1>1. running.strength \in 1..3 /\ RowsOK(rows)
  BY DEF RunningOK
<1> HIDE DEF rows
<1>2. \A i \in DOMAIN rows : rows[i] \in RowRange
  BY <1>1 DEF RowsOK
<1>3. \A i \in DOMAIN rows : rows[i].min < rows[i].max /\ rows[i].value \in rows[i].min..rows[i].max
  BY <1>2 DEF RowRange
<1>4. Len(rows) <= MaxRows
      /\ \A i \in DOMAIN rows : \A j \in 1..(i - 1) : Place(rows[j].key) < Place(rows[i].key)
  BY <1>1 DEF RowsOK
<1>5. running.stray # NoStray =>
         /\ running.stray.min < running.stray.max
         /\ running.stray.value \in running.stray.min..running.stray.max
         /\ Len(rows) < MaxRows
         /\ \A j \in DOMAIN rows : Place(rows[j].key) < Place(running.stray.title)
  BY DEF RunningOK, StrayOK, StrayRange, rows
<1> QED
  BY <1>1, <1>3, <1>4, <1>5 DEF RowsFit, Place, rows

-----------------------------------------------------------------------------
(* The running page in the application.                                    *)

\* While the running page exists the carousel rests on its recipe or shows none,
\* and the recipe is saved.
RunningInv == /\ RunningOK(running)
              /\ running.alive <=> "running" \in screen
              /\ running.alive => /\ saved # NoRecipe
                                  /\ running.recipe = saved
                                  /\ running.picture # NoRecipe => running.picture = saved /\ HasPicture(saved)
              /\ running.alive /\ home.alive => /\ home.count > 0 => home.selected = saved
                                                /\ ~home.snap /\ ~home.dragging

\* The page that the back control of a page brings.
LEMMA BackTop ==
  ASSUME AppConfig, Inv, PathInv, NEW p \in {"running", "settings"} \cup SubPages, BackFrom(p)
  PROVE  Top \in {"home", "settings"}
<1>1. WayTo(p, history, past.lost) /\ history # <<>>
  BY UsableIsCurrent DEF BackFrom
<1> QED
  BY <1>1, Tops DEF WayTo

\* Only a tap on a recipe brings the running page.
LEMMA OthersBringNoRunning ==
  ASSUME AppConfig, Inv, PathInv, PageChange, ~RecipeOpened
  PROVE  "running" \notin screen' \ screen
<1>1. CASE AppStarts
  BY <1>1, AppAssumption DEF AppStarts, ShowFirst, Load, ActivateNow
<1>2. CASE BootOver
  BY <1>2 DEF BootOver, SwitchBy, Load, ActivateNow, CreateFails
<1>3. CASE SettingsOpened
  BY <1>3, SwitchScreens DEF SettingsOpened
<1>4. CASE ItemOpened
  <2>1. PICK p \in SubPages : SwitchBy(To("settings", p))
    BY <1>4 DEF ItemOpened, SubPages
  <2>2. p # "running"
    BY DEF SubPages, Choosers
  <2> QED
    BY <2>1, <2>2, SwitchScreens
<1>5. CASE PlainBack \/ DetailsBack \/ CleaningLeft
  <2>1. PICK p \in {"running", "settings"} \cup SubPages : BackFrom(p)
    BY <1>5 DEF PlainBack, DetailsBack, CleaningLeft, SubPages
  <2> QED
    BY <2>1, BackTop, BackScreens
<1>6. CASE PageShown
  BY <1>6 DEF PageShown, AnimationEnds, ActivateNow, Inv, ScreenPointersValid, ShownScreensExist
<1> QED
  BY <1>1, <1>2, <1>3, <1>4, <1>5, <1>6 DEF PageChange

\* A page that can be touched is the only one there is.
LEMMA TouchedIsAlone ==
  ASSUME AppConfig, Inv, NEW p \in Pages, Usable(p)
  PROVE  screen = {p}
  BY PageAssumption DEF AppConfig, Usable, Inv, ScreenPointersValid, ShownScreensExist

\* A tap on the recipe in the center: the carousel rests there, and the page
\* gets this recipe.
LEMMA RecipeOpenedInv ==
  ASSUME AppConfig, AppInv, PathInv, CarouselInv, RunningInv, RecipeOpened
  PROVE  RunningInv'
<1>1. Usable("home") /\ Open /\ pending' = Chosen /\ RunningLife
      /\ (Load("running", TRUE, TRUE, history) \/ CreateFails("running", history))
  BY DEF RecipeOpened, SwitchBy, To, OthersLive
<1>2. Inv /\ HomeGood(home) /\ home.alive /\ screen = {"home"}
  BY <1>1, TouchedIsAlone, AppAssumption DEF AppInv, CarouselInv, HomeGood, Linked
<1>3. home.dragging /\ home' \in AfterRelease /\ home'.count > 0 /\ ~home'.snap /\ saved' = home'.selected
      /\ table' = table
  BY <1>1, <1>2 DEF Open, Opens, HomeGood, HomeOK
<1>4. CASE CreateFails("running", history)
  <2>1. screen' = screen /\ ~running.alive
    BY <1>2, <1>4 DEF CreateFails, RunningInv
  <2>2. running' = running
    BY <1>1, <2>1 DEF RunningLife, Life
  <2> QED
    BY <2>1, <2>2 DEF RunningInv
<1>5. CASE Load("running", TRUE, TRUE, history)
  <2>1. screen' = {"home", "running"}
    BY <1>2, <1>5 DEF Load
  <2>2. RunningCreate(table)
    BY <1>1, <1>2, <2>1 DEF RunningLife, Life
  <2>3. HomeOK(home') /\ ~home'.dragging
    BY <1>2, <1>3, ReleaseOK DEF HomeGood
  <2>4. ListOK(home') /\ home'.count = home.count
    BY <1>2, <1>3, ReleasePlan DEF CarouselOK
  <2>5. home'.count = Len(table) /\ Len(table) \in Nat
    <3>1. home.count \in {0, Listed} /\ table \in Tables
      BY <1>2 DEF CarouselInv
    <3>2. Listed \in {0, Len(table)} /\ Len(table) \in Nat
      BY <3>1, LoadedOK, HomeAssumption
    <3> QED
      BY <1>3, <2>4, <3>1, <3>2
  <2>6. home'.selected \in 0..(Len(table) - 1) /\ home'.slots[0] = home'.selected
    BY <1>3, <2>4, <2>5, CenterSelected DEF ListOK
  <2>7. pending'.recipe = saved'
        /\ (pending'.picture # NoRecipe => pending'.picture = saved' /\ HasPicture(saved'))
    BY <1>1, <1>3, <2>6 DEF Chosen
  <2>8. RunningOK(running)' /\ running'.alive = TRUE
        /\ running'.recipe = pending'.recipe /\ running'.picture = pending'.picture
    <3>1. pending'.recipe \in {NoRecipe} \cup 0..(Len(table) - 1)
      BY <1>3, <2>6, <2>7
    <3> QED
      BY <2>2, <3>1, RunningCreateOK DEF CarouselInv
  <2>9. saved' # NoRecipe
    BY <1>3, <2>5, <2>6 DEF NoRecipe
  <2>10. HasPicture(saved') => HasPicture(saved)'
    BY <1>3 DEF HasPicture
  <2> QED
    BY <1>3, <2>1, <2>3, <2>7, <2>8, <2>9, <2>10 DEF RunningInv
<1> QED
  BY <1>1, <1>4, <1>5

\* While the pages change the home page comes with the recipe, or leaves it in
\* saved.
LEMMA PagesKeepRunning ==
  ASSUME AppInv, CarouselInv, RunningInv, HomeLife, RunningLife, "running" \notin screen' \ screen
  PROVE  RunningInv'
<1>1. CASE "running" \in screen \ screen'
  BY <1>1, NoRunningOK DEF RunningLife, Life, RunningDestroy, RunningInv
<1>2. CASE "running" \notin screen \ screen'
  <2>1. running' = running /\ (running'.alive <=> "running" \in screen') /\ RunningOK(running')
    BY <1>2 DEF RunningLife, Life, RunningInv
  <2>2. CASE ~running.alive
    BY <2>1, <2>2 DEF RunningInv
  <2>3. CASE running.alive
    <3>1. /\ saved # NoRecipe /\ running.recipe = saved
          /\ running.picture # NoRecipe => running.picture = saved /\ HasPicture(saved)
      BY <2>3 DEF RunningInv
    <3>6. ASSUME saved' = saved, table' = table,
                 home'.alive => (home'.count > 0 => home'.selected = saved) /\ ~home'.snap /\ ~home'.dragging
          PROVE  RunningInv'
      <4>1. HasPicture(saved) <=> HasPicture(saved)'
        BY <3>6 DEF HasPicture
      <4>2. RunningOK(running)' /\ (running.alive <=> "running" \in screen)'
        BY <2>1 DEF RunningOK, RunningFields
      <4> QED
        BY <2>1, <3>1, <3>6, <4>1, <4>2 DEF RunningInv
    <3>2. CASE HomeCreate
      <4>1. home'.count > 0 => home'.selected = saved
        BY <3>1, <3>2, HomeMade
      <4>2. ~home'.snap /\ ~home'.dragging
        <5>1. PICK n, lost, k : home' = Layout([NoHome EXCEPT !.alive = TRUE, !.count = n, !.images = Slots \ lost,
                                                              !.selected = k])
          BY <3>2 DEF HomeCreate
        <5> DEFINE h == [NoHome EXCEPT !.alive = TRUE, !.count = n, !.images = Slots \ lost, !.selected = k]
        <5>2. HomeWhole(h) /\ h.snap = FALSE /\ h.dragging = FALSE
          BY DEF NoHome, HomeWhole, HomeFields
        <5> HIDE DEF h
        <5> QED
          BY <5>1, <5>2, LayoutSame DEF SameTimer, h
      <4>3. saved' = saved /\ table' = table
        BY <3>2 DEF HomeCreate
      <4> QED
        BY <3>6, <4>1, <4>2, <4>3
    <3>3. CASE HomeDestroy /\ home.alive
      <4>1. home.count > 0 => home.selected = saved
        BY <2>3, <3>3 DEF RunningInv
      <4>2. home.count # 0 => home.count > 0
        BY SwipeType DEF CarouselInv, CarouselOK, ListOK
      <4>3. saved' = saved /\ table' = table
        BY <3>3, <4>1, <4>2 DEF HomeDestroy, HomeSaved
      <4>4. ~home'.alive
        BY <3>3 DEF HomeDestroy, NoHome
      <4> QED
        BY <3>6, <4>3, <4>4
    <3>4. CASE UNCHANGED <<home, saved, table>>
      BY <2>3, <3>4, <3>6 DEF RunningInv
    <3>5. "home" \in screen => home.alive
      BY DEF AppInv, Linked
    <3> QED
      BY <3>2, <3>3, <3>4, <3>5 DEF HomeLife, Life
  <2> QED
    BY <2>2, <2>3
<1> QED
  BY <1>1, <1>2

LEMMA SameRunning ==
  ASSUME RunningInv, UNCHANGED <<home, saved, table, running, screen>>
  PROVE  RunningInv'
<1>1. RunningOK(running)'
  BY DEF RunningInv, RunningOK, RunningFields
<1>2. HasPicture(saved) <=> HasPicture(saved)'
  BY DEF HasPicture
<1> QED
  BY <1>1, <1>2 DEF RunningInv

LEMMA RunningNextInv ==
  ASSUME AppConfig, AppInv, PathInv, CarouselInv, RunningInv, [PageNext]_pageVars
  PROVE  RunningInv'
<1>1. Inv
  BY DEF AppInv
<1>2. CASE RecipeOpened
  BY <1>2, RecipeOpenedInv
<1>3. CASE PageChange /\ ~RecipeOpened
  <2>1. HomeLife /\ RunningLife
    BY <1>3 DEF PageChange, AppStarts, BootOver, SettingsOpened, ItemOpened, PlainBack, DetailsBack,
                CleaningLeft, PageShown, AllLive, OthersLive
  <2> QED
    BY <1>1, <1>3, <2>1, OthersBringNoRunning, PagesKeepRunning
<1>4. CASE Touched
  <2>1. screen' = screen
    BY <1>4 DEF Touched, vars
  <2>2. CASE Usable("home") /\ HomeTouch /\ UNCHANGED running
    <3>1. ~running.alive
      <4>1. screen = {"home"}
        BY <1>1, <2>2, TouchedIsAlone, AppAssumption
      <4> QED
        BY <4>1 DEF RunningInv
    <3> QED
      BY <2>1, <2>2, <3>1 DEF RunningInv
  <2>3. CASE RunningClick /\ UNCHANGED <<home, saved, table>>
    BY <2>1, <2>3, RunningClickOK DEF RunningInv, HasPicture
  <2>4. CASE UNCHANGED <<home, saved, table, running>>
    BY <2>1, <2>4, SameRunning
  <2> QED
    BY <1>4, <2>2, <2>3, <2>4 DEF Touched
<1>5. CASE CarouselTimer
  <2>1. home.lvgl > 0 /\ UNCHANGED <<running, screen>>
    BY <1>5 DEF CarouselTimer, CarouselOnly, HomeTimer, SnapTick, SnapDeadline, Elsewhere, vars
  <2>2. home.lvgl = (IF home.snap THEN 1 ELSE 0) /\ (home.snap => home.alive)
    BY DEF AppInv, HomeOK, SnapOK
  <2>3. ~running.alive
    BY <2>1, <2>2 DEF RunningInv
  <2> QED
    BY <2>1, <2>3 DEF RunningInv
<1>6. CASE BootTimer \/ CleaningTimer \/ UNCHANGED pageVars
  <2>1. UNCHANGED <<home, saved, table, running, screen>>
    BY <1>6 DEF BootTimer, CleaningTimer, Elsewhere, pageVars, vars
  <2> QED
    BY <2>1, SameRunning
<1> QED
  BY <1>2, <1>3, <1>4, <1>5, <1>6 DEF PageNext, PageChange

LEMMA RunningInitInv == AppInit => RunningInv
<1> SUFFICES ASSUME AppInit PROVE RunningInv
  OBVIOUS
<1>1. running = NoRunning /\ screen = {}
  BY DEF AppInit, Init, RunningInit
<1> QED
  BY <1>1, NoRunningOK DEF RunningInv

\* The running page shows the recipe that was tapped, with its picture or none;
\* and whatever numbers the recipe holds, its rows fit and their values are in
\* range.
THEOREM RunningShown ==
  ASSUME AppConfig
  PROVE  AppSpec => []RunningTruthful
<1>1. RunningInv => RunningTruthful
  <2>1. RunningInv => RunningShowsSelection
    BY DEF RunningInv, RunningShowsSelection
  <2>2. RunningInv => RowsFit
    BY RunningFits DEF RunningInv
  <2> QED
    BY <2>1, <2>2 DEF RunningTruthful
<1>2. AppInv /\ CarouselInv /\ PathInv /\ RunningInv /\ [PageNext]_pageVars => RunningInv'
  BY RunningNextInv
<1> QED
  BY <1>1, <1>2, RunningInitInv, CarouselAlways, PathAlways, PageStepOnly, PTL DEF AppSpec
=============================================================================
