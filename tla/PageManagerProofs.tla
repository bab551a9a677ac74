-------------------------- MODULE PageManagerProofs --------------------------
(***************************************************************************)
(* Proofs about PageManager, for any pages, any page changes they ask for  *)
(* and any size of the history: the page manager and LVGL agree about the  *)
(* screens.  What makes the four invariants inductive is what the lock     *)
(* page_manager_switching is for: while it is free no screen is on its way *)
(* in, so that a load never overtakes another one.                         *)
(***************************************************************************)
EXTENDS PageManager, TLAPS

\* While the lock is free nothing is loading.
FreeMeansQuiet == ~switching => loading = NoPage

Inv == TypeOK /\ ScreenPointersValid /\ ShownScreensExist /\ CurrentIsShown /\ FreeMeansQuiet

-----------------------------------------------------------------------------
\* The history stays one of pages, and no longer than it may be.

Histories == {h \in Seq(Pages) : Len(h) <= HistorySize}

LEMMA PushedFits ==
  ASSUME NEW h \in Histories, NEW p \in Pages \cup {NoPage}
  PROVE  Pushed(h, p) \in Histories
<1> USE PageAssumption DEF Histories
<1>1. CASE p = NoPage
  BY <1>1 DEF Pushed
<1>2. CASE p # NoPage /\ Len(h) = HistorySize
  <2>1. h \in Seq(Pages) /\ h # <<>>
    BY <1>2
  <2>2. Tail(h) \in Seq(Pages) /\ Len(Tail(h)) = Len(h) - 1
    BY <2>1
  <2> QED
    BY <1>2, <2>2 DEF Pushed
<1>3. CASE p # NoPage /\ Len(h) # HistorySize
  BY <1>3 DEF Pushed
<1> QED
  BY <1>1, <1>2, <1>3

LEMMA PoppedFits ==
  ASSUME history \in Histories, history # <<>>
  PROVE  Popped \in Histories /\ Top \in Pages
<1>1. Popped \in Seq(Pages) /\ Len(Popped) = Len(history) - 1
  BY DEF Popped, Histories
<1> QED
  BY <1>1, PageAssumption DEF Top, Histories

-----------------------------------------------------------------------------
LEMMA InitInv == Init => Inv
<1> SUFFICES ASSUME Init PROVE Inv
  OBVIOUS
<1>1. history = <<>> /\ <<>> \in Seq(Pages) /\ Len(<<>>) = 0
  BY DEF Init
<1>2. history \in Seq(Pages) /\ Len(history) <= HistorySize
  BY <1>1, PageAssumption
<1>3. TypeOK
  BY <1>2, Zenon DEF Init, TypeOK
<1>4. ScreenPointersValid /\ ShownScreensExist /\ CurrentIsShown /\ FreeMeansQuiet
  BY DEF Init, ScreenPointersValid, ShownScreensExist, CurrentIsShown, FreeMeansQuiet
<1> QED
  BY <1>3, <1>4 DEF Inv

\* A load keeps the invariant, whoever asks for it.
LEMMA LoadInv ==
  ASSUME Inv, NEW p \in Pages, NEW h \in Histories, NEW animated \in BOOLEAN, NEW add \in BOOLEAN,
         Load(p, animated, add, h)
  PROVE  Inv'
<1> USE PageAssumption
<1>1. ~switching /\ loading = NoPage /\ current = active /\ p # NoPage
  BY DEF Load, Refused, Inv, FreeMeansQuiet, CurrentIsShown
<1>2. history' \in Histories
  BY PushedFits DEF Load, Inv, TypeOK
<1>3. screen = alive /\ alive = {active} \ {NoPage}
  BY <1>1 DEF Inv, ScreenPointersValid, ShownScreensExist
<1>4. frozen' \subseteq Pages
  BY DEF Load, Inv, TypeOK
<1>5. CASE ~animated
  <2>1. ActivateNow(p) /\ current' = p /\ UNCHANGED <<transition, switching>>
    BY <1>5 DEF Load
  <2>2. alive' = {p} /\ screen' = {p} /\ active' = p /\ loading' = NoPage
    BY <1>1, <1>3, <2>1 DEF ActivateNow
  <2> QED
    BY <1>1, <1>2, <1>4, <2>1, <2>2
       DEF Inv, TypeOK, ScreenPointersValid, ShownScreensExist, CurrentIsShown, FreeMeansQuiet, Histories
<1>6. CASE animated
  <2>1. /\ switching' = TRUE /\ transition' = p
        /\ screen' = screen \cup {p} /\ alive' = alive \cup {p}
        /\ loading' = IF active = p THEN loading ELSE p
        /\ UNCHANGED <<active, current>>
    BY <1>6 DEF Load
  <2>2. alive' = {active', loading'} \ {NoPage}
    BY <1>1, <1>3, <2>1
  <2> QED
    BY <1>1, <1>2, <1>3, <1>4, <2>1, <2>2
       DEF Inv, TypeOK, ScreenPointersValid, ShownScreensExist, CurrentIsShown, FreeMeansQuiet, Histories
<1> QED
  BY <1>5, <1>6

\* What leaves everything but the history and the freezing alone.
LEMMA HistoryInv ==
  ASSUME Inv, history' \in Histories, frozen' \subseteq Pages,
         UNCHANGED <<screen, current, transition, switching, lvgl>>
  PROVE  Inv'
  BY DEF Inv, TypeOK, ScreenPointersValid, ShownScreensExist, CurrentIsShown, FreeMeansQuiet,
         Histories, lvgl

LEMMA AnimationEndsInv == Inv /\ AnimationEnds => Inv'
<1> USE PageAssumption
<1> SUFFICES ASSUME Inv, AnimationEnds PROVE Inv'
  OBVIOUS
<1>1. loading \in Pages /\ loading # NoPage /\ switching
  BY DEF AnimationEnds, Inv, TypeOK, FreeMeansQuiet
<1>2. alive' = {loading} /\ screen' = {loading} /\ active' = loading /\ loading' = NoPage
  BY <1>1 DEF AnimationEnds, ActivateNow, Inv, ScreenPointersValid, ShownScreensExist
<1>3. /\ current' \in Pages \cup {NoPage} /\ transition' \in Pages \cup {NoPage}
      /\ switching' \in BOOLEAN
      /\ ~switching' => current' = loading
  BY <1>1 DEF AnimationEnds, Inv, TypeOK
<1>4. UNCHANGED <<frozen, history>>
  BY DEF AnimationEnds
<1> QED
  BY <1>1, <1>2, <1>3, <1>4
     DEF Inv, TypeOK, ScreenPointersValid, ShownScreensExist, CurrentIsShown, FreeMeansQuiet

\* A switch to a page, as the pages ask for it.
LEMMA SwitchInv ==
  ASSUME Inv, NEW l \in [from : Pages, to : Pages, animated : BOOLEAN, history : BOOLEAN], SwitchBy(l)
  PROVE  Inv'
<1>1. history \in Histories
  BY DEF Inv, TypeOK, Histories
<1>2. CASE Load(l.to, l.animated, l.history, history)
  BY <1>1, <1>2, LoadInv
<1>3. CASE CreateFails(l.to, history)
  BY <1>1, <1>3, HistoryInv DEF CreateFails, Inv, TypeOK
<1> QED
  BY <1>2, <1>3 DEF SwitchBy

LEMMA BackInv ==
  ASSUME Inv, NEW p, BackFrom(p)
  PROVE  Inv'
<1>1. history \in Histories /\ history # <<>>
  BY DEF Inv, TypeOK, Histories, BackFrom
<1>2. Popped \in Histories /\ Top \in Pages
  BY <1>1, PoppedFits
<1>3. CASE Load(Top, TRUE, FALSE, Popped)
  BY <1>2, <1>3, LoadInv
<1>4. CASE CreateFails(Top, Popped)
  BY <1>2, <1>4, HistoryInv DEF CreateFails, Inv, TypeOK
<1>5. CASE BackRefused
  BY <1>2, <1>5, HistoryInv DEF BackRefused, Inv, TypeOK
<1> QED
  BY <1>3, <1>4, <1>5 DEF BackFrom

LEMMA NextInv == Inv /\ [Next]_vars => Inv'
<1> USE PageAssumption
<1> SUFFICES ASSUME Inv, [Next]_vars PROVE Inv'
  OBVIOUS
<1>1. history \in Histories /\ frozen \subseteq Pages
  BY DEF Inv, TypeOK, Histories
<1>2. CASE ShowFirst
  BY <1>1, <1>2, LoadInv DEF ShowFirst
<1>3. CASE Switch
  BY <1>3, SwitchInv DEF Switch
<1>4. CASE Back
  BY <1>4, BackInv DEF Back
<1>5. CASE AnimationEnds
  BY <1>5, AnimationEndsInv
<1>6. CASE Freeze
  BY <1>1, <1>6, HistoryInv DEF Freeze
<1>7. CASE UNCHANGED vars
  BY <1>1, <1>7, HistoryInv DEF vars, lvgl
<1> QED
  BY <1>2, <1>3, <1>4, <1>5, <1>6, <1>7 DEF Next

LEMMA InvAlways == Spec => []Inv
  BY InitInv, NextInv, PTL DEF Spec

-----------------------------------------------------------------------------
\* Pages, history and lock keep their types; the history never grows beyond
\* PAGE_MANAGER_HISTORY_SIZE (page_manager_push_history).
THEOREM TypeCorrect == Spec => []TypeOK
<1>1. Inv => TypeOK
  BY DEF Inv
<1> QED
  BY <1>1, InvAlways, PTL

\* entry->screen is never a pointer to a screen LVGL has deleted, and no screen
\* is left without the entry that owns it.
THEOREM PointersValid == Spec => []ScreenPointersValid
<1>1. Inv => ScreenPointersValid
  BY DEF Inv
<1> QED
  BY <1>1, InvAlways, PTL

\* Only the shown and the incoming screen exist, and LVGL shows neither after
\* its deletion.
THEOREM ShownExist == Spec => []ShownScreensExist
<1>1. Inv => ShownScreensExist
  BY DEF Inv
<1> QED
  BY <1>1, InvAlways, PTL

\* Outside a transition page_manager_send_event reaches the page on the display.
THEOREM CurrentShown == Spec => []CurrentIsShown
<1>1. Inv => CurrentIsShown
  BY DEF Inv
<1> QED
  BY <1>1, InvAlways, PTL
=============================================================================
