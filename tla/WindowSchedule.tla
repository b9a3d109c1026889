--------------------------- MODULE WindowSchedule ---------------------------
(***************************************************************************)
(* What the streaming path promises its host: in every session, window k   *)
(* (k = 0, 1, ...) is made of the WINDOW_LEN frames that end with frame    *)
(* WINDOW_LEN + k * WINDOW_STRIDE of the session, no window is skipped,    *)
(* repeated or late, and a new session starts from scratch.                *)
(***************************************************************************)
EXTENDS Naturals

CONSTANTS WINDOW_LEN, WINDOW_STRIDE

VARIABLES
  on,       \* the host has streaming enabled
  n,        \* frames accepted in this session
  k,        \* windows issued in this session
  win       \* the last frame of the newest window, 0 before the first

vars == <<on, n, k, win>>

DueAt == WINDOW_LEN + k * WINDOW_STRIDE

Init == on = FALSE /\ n = 0 /\ k = 0 /\ win = 0

\* A frame is accepted; never while a window is due and not yet issued.
Frame ==
  /\ on
  /\ n < DueAt
  /\ n' = n + 1
  /\ UNCHANGED <<on, k, win>>

Issue ==
  /\ on
  /\ n = DueAt
  /\ k' = k + 1
  /\ win' = n
  /\ UNCHANGED <<on, n>>

\* START and RESET open a session with nothing in it; STOP only pauses.
NewSession == on' \in BOOLEAN /\ n' = 0 /\ k' = 0 /\ win' = 0
Stop == on' = FALSE /\ UNCHANGED <<n, k, win>>

Next == Frame \/ Issue \/ NewSession \/ Stop

Spec == Init /\ [][Next]_vars

\* A due window is issued unless the stream is stopped or restarted first.
FairSpec == Spec /\ WF_vars(Issue)
=============================================================================
