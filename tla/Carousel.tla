------------------------------ MODULE Carousel ------------------------------
(***************************************************************************)
(* Where the carousel of the home page draws its five slots, in pixels     *)
(* (home_page.c).  A slot has a weight: its distance from the center, in   *)
(* units of 1024, moved by the drag.  Position, size and opacity follow    *)
(* from the weight alone.                                                  *)
(***************************************************************************)
EXTENDS Integers

Slots == -2..2            \* far left .. far right
ScreenWidth == 800        \* HOME_PAGE_SCREEN_WIDTH
Unit == 1024              \* HOME_PAGE_WEIGHT_UNIT
SwipePixels == 80         \* HOME_PAGE_SWIPE_THRESHOLD
NativeSize == 240         \* HOME_PAGE_RECIPE_IMAGE_NATIVE_SIZE
Selected == 277           \* HOME_PAGE_SELECTED_SCALE, in 1/256
Side == 192               \* HOME_PAGE_SIDE_SCALE

Abs(a) == IF a < 0 THEN -a ELSE a

\* The division of C.
Quotient(a, b) == IF a < 0 THEN -((-a) \div b) ELSE a \div b

\* home_page_lerp_i32
Lerp(from, to, progress) == from + Quotient((to - from) * progress, Unit)

\* home_page_visual_progress_for_offset and home_page_apply_slot_transform
Weight(slot, offset) == slot * Unit + Quotient(offset * Unit, SwipePixels)

\* home_page_visual_x_for_weight: between the places of two slots.
VisualX(w) == CASE w <= -Unit -> Lerp(0, 270, w + Unit)
                [] w > -Unit /\ w <= 0 -> Lerp(270, 540, w)
                [] w > 0 /\ w <= Unit -> Lerp(270, 530, w)
                [] OTHER -> Lerp(530, 800, w - Unit)

\* How much of the way to a side slot.
Aside(w) == IF Abs(w) > Unit THEN Unit ELSE Abs(w)

\* home_page_image_x_for_weight, home_page_scale_for_weight
ImageX(w) == Lerp(0, IF w < 0 THEN 42 ELSE 48, Aside(w))
ImageScale(w) == Lerp(Selected, Side, Aside(w))

\* The picture of a slot on the screen: from where to where.
PictureLeft(w) == VisualX(w) + ImageX(w)
PictureRight(w) == PictureLeft(w) + (NativeSize * ImageScale(w)) \div 256

\* home_page_ease_out_quad, for the share p of its time a snap has used.
EaseOut(p) == LET left == Unit - p IN Unit - (left * left) \div Unit

\* home_page_lerp_progress_i32 as home_page_snap_timer_cb calls it.
Progress(start, target, p) == start + Quotient((target - start) * EaseOut(p), Unit)
=============================================================================
