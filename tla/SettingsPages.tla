--------------------------- MODULE SettingsPages ----------------------------
(***************************************************************************)
(* The settings page (settings_page.c) with the store of its texts         *)
(* (multi_lang.c), the two pages with a list to choose from                *)
(* (settings_common.c, settings_language_page.c, settings_sleep_page.c),   *)
(* the brightness page (settings_brightness_page.c) and the details page   *)
(* (settings_details_page.c).  None of them keeps what was chosen when it  *)
(* is left: back and confirm both only go back.                            *)
(***************************************************************************)
EXTENDS Integers, Lvgl

CONSTANTS Options,        \* how many options a list has: [page |-> number]
          Default         \* the one that is selected first: [page |-> option]

Choosers == {"language", "sleep", "brightness"}

ASSUME OptionsAssumption == /\ Options \in [Choosers -> Nat \ {0}]
                            /\ \A p \in Choosers : Default[p] \in 0..(Options[p] - 1)

VARIABLES settings,       \* settings_page_state_t
          stores,         \* multi_lang stores that are open
          chooser,        \* the list or the bar of each of the three pages
          details         \* settings_details_page_state_t

NoSettings == [alive |-> FALSE, store |-> "none"]
NoChooser == [alive |-> FALSE, rows |-> {}, selected |-> 0, marked |-> {}]
NoDetails == [alive |-> FALSE, tab |-> "drinks", button |-> FALSE, modal |-> FALSE]
DetailTabs == {"drinks", "descaling", "machine"}

SettingsInit == /\ settings = NoSettings /\ stores = 0
                /\ chooser = [p \in Choosers |-> NoChooser]
                /\ details = NoDetails

-----------------------------------------------------------------------------
\* multi_lang_open_db, and settings_page_close_state with multi_lang_close, for
\* a page and its stores.
Opened == [page |-> [NoSettings EXCEPT !.store = "language"], stores |-> stores + 1]
ClosedAgain(s) == [page |-> NoSettings,
                   stores |-> IF s.page.store # "none" THEN s.stores - 1 ELSE s.stores]

\* Mutant: a store without the language is forgotten, not closed.
LanguageOpenedLeaky == {[page |-> NoSettings, stores |-> stores], Opened, [Opened EXCEPT !.page = NoSettings]}

\* settings_page_open_language: the database may not open, and may not have the
\* language; then the page shows the keys.
LanguageOpened == {[page |-> NoSettings, stores |-> stores], Opened, ClosedAgain(Opened)}

\* settings_page_create, and how it fails after the language: with the rest of
\* the page the store is given up.
SettingsCreate == \E s \in LanguageOpened :
    /\ settings' = [s.page EXCEPT !.alive = TRUE]
    /\ stores' = s.stores

SettingsFails == \E s \in LanguageOpened :
    /\ UNCHANGED settings
    /\ stores' = ClosedAgain(s).stores

\* settings_page_destroy
SettingsDestroy == /\ settings' = NoSettings
                   /\ stores' = ClosedAgain([page |-> settings, stores |-> stores]).stores

\* What shows a selection: a list marks its row, the bar all segments up to it.
MarkedFor(p, n) == IF p = "brightness" THEN 0..n ELSE {n}

\* A list or the bar is made with its default marked.  A list lives with the
\* rows LVGL could make; the brightness page needs all its segments.
ChooserCreate(p) ==
    \E rows \in IF p = "brightness" THEN {0..(Options[p] - 1)}
                ELSE {0..(Options[p] - 1)} \cup IfFails(SUBSET (0..(Options[p] - 1))) :
       chooser' = [chooser EXCEPT ![p] = [alive |-> TRUE, rows |-> rows, selected |-> Default[p],
                                          marked |-> MarkedFor(p, Default[p]) \cap rows]]

\* settings_selection_list_release, with the state of the page.
ChooserDestroy(p) == chooser' = [chooser EXCEPT ![p] = NoChooser]

\* settings_selection_list_refresh and settings_brightness_refresh go over all
\* rows or segments.
Select(p, n) ==
    chooser' = [chooser EXCEPT ![p].selected = n, ![p].marked = MarkedFor(p, n) \cap chooser[p].rows]

\* settings_selection_row_clicked, settings_brightness_level_clicked
RowClicked(p) == \E n \in chooser[p].rows : Select(p, n)

\* settings_brightness_min_clicked and _max_clicked
StepClicked == \E d \in {-1, 1} :
    LET n == chooser["brightness"].selected + d
    IN  n \in 0..(Options["brightness"] - 1) /\ Select("brightness", n)

ChooserClick(p) == RowClicked(p) \/ (p = "brightness" /\ StepClicked)

DetailsCreate == details' = [NoDetails EXCEPT !.alive = TRUE]
DetailsDestroy == details' = NoDetails

\* settings_details_menu_row_clicked: the content is removed and that of the
\* tab built as far as it goes, on the last tab with the reset button.
DetailsMenuClicked == \E tab \in DetailTabs :
    /\ ~details.modal
    /\ \E button \in {tab = "machine"} \cup IfFails({FALSE}) :
          details' = [details EXCEPT !.tab = tab, !.button = button]

\* The question before a factory reset covers the page; both answers only
\* hide it.
FactoryClicked == \/ ~details.modal /\ details.button /\ details' = [details EXCEPT !.modal = TRUE]
                  \/ details.modal /\ details' = [details EXCEPT !.modal = FALSE]

DetailsClick == DetailsMenuClicked \/ FactoryClicked

-----------------------------------------------------------------------------
\* A store of texts is open exactly while a settings page uses it.
StoresOwned == stores = IF settings.alive /\ settings.store # "none" THEN 1 ELSE 0

\* A list or the bar shows the selection it has, and nothing else, as far as
\* it has rows to show it on.
SelectionShown == \A p \in Choosers : chooser[p].alive =>
    /\ chooser[p].marked = {i \in chooser[p].rows : IF p = "brightness" THEN i <= chooser[p].selected
                                                                     ELSE i = chooser[p].selected}
    /\ chooser[p].selected \in 0..(Options[p] - 1)

\* The question before a reset is only asked on the tab it belongs to.
ModalOnItsTab == details.modal \/ details.button => details.tab = "machine"
=============================================================================
