------------------------------- MODULE Slider -------------------------------
(***************************************************************************)
(* The arithmetic of the sliders of the pages: the cleaning level and time *)
(* (settings_cleaning_page.c) and the rows of parameters (running_page.c)  *)
(* use the same formula on a track of a fixed width.                       *)
(*                                                                         *)
(* C divides towards zero; nothing that is divided here is negative.       *)
(***************************************************************************)
EXTENDS Integers

CONSTANT Touches       \* the positions on a track, in pixels, that are touched

ASSUME TouchesAssumption == Touches \subseteq Int

\* running_page_clamp_i32
Clamped(v, min, max) == IF v < min THEN min ELSE IF v > max THEN max ELSE v

\* The value for a touch x pixels from the left end of the track.
ValueForPoint(x, width, min, max) ==
    IF x <= 0 THEN min
    ELSE IF x >= width THEN max
    ELSE min + (x * (max - min) + width \div 2) \div width
=============================================================================
