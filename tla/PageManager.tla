---------------------------- MODULE PageManager ----------------------------
(***************************************************************************)
(* The page manager (app/ui/page_manager.c) and the LVGL screens under it. *)
(* It runs in one thread; what interleaves are the calls of the pages and  *)
(* the steps of LVGL: a screen load with an animation returns at once and  *)
(* ends later with LV_EVENT_SCREEN_LOADED, and the screen left behind is   *)
(* deleted by LVGL (auto_del), which tells the page manager through the    *)
(* LV_EVENT_DELETE callback.                                               *)
(*                                                                         *)
(* Links is the set of page changes the pages ask for.  LVGL is external   *)
(* and modelled from the way page_manager.c uses it.                       *)
(***************************************************************************)
EXTENDS Naturals, Sequences, FiniteSets

CONSTANTS Pages,         \* page ids that are registered
          NoPage,        \* PAGE_MANAGER_NO_PAGE
          HistorySize,   \* PAGE_MANAGER_HISTORY_SIZE
          Start,         \* the page app_ui_create switches to
          Links,         \* [from, to, animated, history] of page_manager_switch
          Backs,         \* pages with a control that calls page_manager_back
          CallsWhileAnimating,  \* may a page be used during an animation?
          CreateMayFail,        \* may a create callback return NULL?
          Freezing              \* are page_manager_freeze/unfreeze used?

ASSUME PageAssumption ==
    /\ NoPage \notin Pages
    /\ HistorySize \in Nat \ {0}
    /\ Start \in Pages
    /\ Links \subseteq [from : Pages, to : Pages, animated : BOOLEAN, history : BOOLEAN]
    /\ Backs \subseteq Pages
    /\ {CallsWhileAnimating, CreateMayFail, Freezing} \subseteq BOOLEAN

VARIABLES screen,      \* pages whose entry->screen is not NULL
          frozen,      \* pages with is_frozen
          current,     \* current_page_id
          transition,  \* page_manager_transition_page_id
          switching,   \* page_manager_switching
          history      \* page_history, oldest first

\* LVGL: the screens that exist, the active one, and the one an animation is
\* bringing in.  A screen is named by its page; NoPage is the default screen.
VARIABLES alive, active, loading

manager == <<screen, frozen, current, transition, switching, history>>
lvgl == <<alive, active, loading>>
vars == <<screen, frozen, current, transition, switching, history, alive, active, loading>>

Init == /\ screen = {}
        /\ frozen = {}
        /\ current = NoPage
        /\ transition = NoPage
        /\ switching = FALSE
        /\ history = <<>>
        /\ alive = {}
        /\ active = NoPage
        /\ loading = NoPage

-----------------------------------------------------------------------------
\* page_manager_push_history: a full history forgets its oldest page.
Pushed(h, p) == IF p = NoPage THEN h
                ELSE Append(IF Len(h) = HistorySize THEN Tail(h) ELSE h, p)

\* Mutant: the delete callback leaves the entry's screen pointer set.
ActivateKeepsPointer(p) == /\ active' = p
                           /\ alive' = (alive \cup {p}) \ ({active} \ {p})
                           /\ screen' = screen \cup {p}
                           /\ loading' = NoPage

\* The screen of p becomes active at once: LV_EVENT_SCREEN_LOADED reaches
\* page_manager_screen_loaded_event, then the old screen is deleted and its
\* entry's screen pointer cleared.
ActivateNow(p) == /\ active' = p
                  /\ alive' = (alive \cup {p}) \ ({active} \ {p})
                  /\ screen' = (screen \cup {p}) \ ({active} \ {p})
                  /\ loading' = NoPage

\* Mutant: the lock is not looked at.
RefusedIfFrozen(p) == p \in frozen

\* page_manager_load_page refuses.
Refused(p) == switching \/ p \in frozen

\* Mutant: a load without animation does not give the lock back.
LoadStaysLocked(p, animated, add, h) ==
    /\ ~Refused(p)
    /\ history' = IF add /\ current # p THEN Pushed(h, current) ELSE h
    /\ switching' = TRUE
    /\ \/ /\ ~animated
          /\ ActivateNow(p)
          /\ current' = p
          /\ UNCHANGED transition
       \/ /\ animated
          /\ transition' = p
          /\ screen' = screen \cup {p}
          /\ alive' = alive \cup {p}
          /\ loading' = IF active = p THEN loading ELSE p
          /\ UNCHANGED <<active, current>>
    /\ UNCHANGED frozen

\* page_manager_load_page(p) with the history h it is called with.  Loading the
\* screen that is already active does nothing in LVGL.
Load(p, animated, add, h) ==
    /\ ~Refused(p)
    /\ history' = IF add /\ current # p THEN Pushed(h, current) ELSE h
    /\ \/ /\ ~animated
          /\ ActivateNow(p)
          /\ current' = p
          /\ UNCHANGED <<transition, switching>>
       \/ /\ animated
          /\ switching' = TRUE
          /\ transition' = p
          /\ screen' = screen \cup {p}
          /\ alive' = alive \cup {p}
          /\ loading' = IF active = p THEN loading ELSE p
          /\ UNCHANGED <<active, current>>
    /\ UNCHANGED frozen

\* The create callback of p fails: the page is not left.
CreateFails(p, h) == /\ ~Refused(p)
                     /\ CreateMayFail
                     /\ p \notin screen
                     /\ history' = h
                     /\ UNCHANGED <<screen, frozen, current, transition, switching, lvgl>>

-----------------------------------------------------------------------------
\* A page can be used while its screen is shown, on its own or in an animation.
Usable(p) == \/ p = active /\ loading = NoPage
             \/ CallsWhileAnimating /\ loading # NoPage /\ p \in {active, loading}

\* app_ui_create shows the first page, once the pages are registered.
ShowFirst == /\ current = NoPage
             /\ Load(Start, FALSE, FALSE, history)

\* A page calls page_manager_switch.
SwitchBy(l) == /\ current # NoPage
               /\ Usable(l.from)
               /\ \/ Load(l.to, l.animated, l.history, history)
                  \/ CreateFails(l.to, history)

Switch == \E l \in Links : SwitchBy(l)

\* A page calls page_manager_back: the last page is taken off the history
\* before it is known whether it can be loaded.
Top == history[Len(history)]

\* Mutant: going back clears the whole history.
PoppedAll == <<>>

Popped == SubSeq(history, 1, Len(history) - 1)

BackRefused == /\ Refused(Top)
               /\ history' = Popped
               /\ UNCHANGED <<screen, frozen, current, transition, switching, lvgl>>

BackFrom(p) == /\ Usable(p)
               /\ history # <<>>
               /\ \/ Load(Top, TRUE, FALSE, Popped)
                  \/ CreateFails(Top, Popped)
                  \/ BackRefused

Back == \E p \in Backs : BackFrom(p)

\* Mutant: the page manager waits for the event of the screen left behind.
AnimationEndsUnseen ==
    /\ loading # NoPage
    /\ ActivateNow(loading)
    /\ IF active = transition
       THEN current' = loading /\ transition' = NoPage /\ switching' = FALSE
       ELSE UNCHANGED <<current, transition, switching>>
    /\ UNCHANGED <<frozen, history>>

\* Mutant: the lock is given back, the current page is not recorded.
AnimationEndsUnrecorded ==
    /\ loading # NoPage
    /\ ActivateNow(loading)
    /\ IF loading = transition
       THEN transition' = NoPage /\ switching' = FALSE
       ELSE UNCHANGED <<transition, switching>>
    /\ UNCHANGED <<frozen, history, current>>

\* LVGL ends the animation: LV_EVENT_SCREEN_LOADED, which ends the transition
\* if it is the one the page manager waits for, and LV_EVENT_DELETE.
AnimationEnds ==
    /\ loading # NoPage
    /\ ActivateNow(loading)
    /\ IF loading = transition
       THEN current' = loading /\ transition' = NoPage /\ switching' = FALSE
       ELSE UNCHANGED <<current, transition, switching>>
    /\ UNCHANGED <<frozen, history>>

Freeze == \E p \in Pages :
             /\ Freezing
             /\ frozen' = IF p \in frozen THEN frozen \ {p} ELSE frozen \cup {p}
             /\ UNCHANGED <<screen, current, transition, switching, history, lvgl>>

Next == ShowFirst \/ Switch \/ Back \/ AnimationEnds \/ Freeze

Spec == Init /\ [][Next]_vars

\* LVGL runs its animations to their end.
FairSpec == Spec /\ WF_vars(AnimationEnds)

-----------------------------------------------------------------------------
TypeOK == /\ screen \subseteq Pages
          /\ frozen \subseteq Pages
          /\ current \in Pages \cup {NoPage}
          /\ transition \in Pages \cup {NoPage}
          /\ switching \in BOOLEAN
          /\ history \in Seq(Pages)
          /\ Len(history) <= HistorySize
          /\ alive \subseteq Pages
          /\ active \in Pages \cup {NoPage}
          /\ loading \in Pages \cup {NoPage}

\* The page manager holds a screen pointer exactly for the screens that exist:
\* no deleted screen is ever loaded again, and none is left without owner.
ScreenPointersValid == screen = alive

\* LVGL never shows, nor animates in, a screen that has been deleted, and only
\* the shown and the incoming screen exist.
ShownScreensExist == alive = {active, loading} \ {NoPage}

\* Outside a transition current_page_id, to which page_manager_send_event
\* delivers, is the page on the display.
CurrentIsShown == ~switching => current = active

\* The lock is held exactly while LVGL owes the page manager the
\* SCREEN_LOADED of the transition: it cannot be left locked for good.
LockMatchesAnimation == /\ switching <=> loading # NoPage
                        /\ switching => transition = loading

\* Every page change that is accepted completes.
TransitionsComplete == switching ~> ~switching
=============================================================================
