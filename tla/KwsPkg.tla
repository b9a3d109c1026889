------------------------------- MODULE KwsPkg -------------------------------
(***************************************************************************)
(* The compile-time geometry of the accelerator (rtl/kws_pkg.sv) and the   *)
(* pointer arithmetic of the frame ring.                                   *)
(*                                                                         *)
(* The ring pointers of the RTL are $clog2(HIST_DEPTH) bits wide and rely  *)
(* on natural wrap-around.  They are written here with one conditional     *)
(* addition or subtraction of HIST_DEPTH, which is the same function on    *)
(* 0 .. HIST_DEPTH - 1 and keeps the arithmetic linear for the provers.    *)
(***************************************************************************)
EXTENDS Naturals

CONSTANTS
  HIST_DEPTH,     \* frame slots in the feature ring            (64)
  WINDOW_LEN,     \* frames per analysis window                 (32)
  WINDOW_STRIDE   \* commits between two consecutive windows     (8)

\* The elaboration-time assertions of circular_buffer_controller.sv
\* (HIST_DEPTH >= 2 * WINDOW_LEN) and of window_scheduler.sv (a stride no
\* longer than a window, and a counter of SW = 8 bits that can hold two).
ASSUME GeometryAssumption ==
  /\ HIST_DEPTH \in Nat
  /\ WINDOW_LEN \in Nat
  /\ WINDOW_STRIDE \in Nat \ {0}
  /\ WINDOW_STRIDE <= WINDOW_LEN
  /\ HIST_DEPTH >= 2 * WINDOW_LEN
  /\ 2 * WINDOW_STRIDE < 255

Slots == 0 .. HIST_DEPTH - 1

\* wr_frame_o + 1'b1 on FR_W bits.
NextSlot(s) == IF s = HIST_DEPTH - 1 THEN 0 ELSE s + 1

\* The slot k places after / before s, for k <= HIST_DEPTH.
SlotAfter(s, k)  == IF s + k < HIST_DEPTH THEN s + k ELSE s + k - HIST_DEPTH
SlotBefore(s, k) == IF s >= k THEN s - k ELSE (s + HIST_DEPTH) - k

=============================================================================
