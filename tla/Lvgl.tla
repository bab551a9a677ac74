-------------------------------- MODULE Lvgl --------------------------------
(* What the pages have in common of LVGL, the graphics library they run on  *)
(* (external): its create functions return NULL when its memory is used up. *)
CONSTANT AllocMayFail      \* may that happen?

ASSUME AllocAssumption == AllocMayFail \in BOOLEAN

\* What is left of the outcomes S if they come from a function that failed.
IfFails(S) == IF AllocMayFail THEN S ELSE {}
=============================================================================
