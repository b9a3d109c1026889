-------------------------- MODULE WindowScheduler --------------------------
(***************************************************************************)
(* rtl/window_scheduler.sv: issues a window of the WINDOW_LEN newest       *)
(* frames when the ring is first primed and then every WINDOW_STRIDE       *)
(* commits, carrying stride credit across a busy engine and abandoning a   *)
(* window (drop) when two strides of credit have piled up.                 *)
(***************************************************************************)
EXTENDS KwsPkg

VARIABLES
  stride_cnt,   \* commits credited towards the next window
  first_done,   \* a window has been issued since the last clear
  issue_o,      \* registered one-cycle strobe: start the engines
  drop_o,       \* registered one-cycle strobe: a window was abandoned
  win_base,     \* first slot of the issued window
  win_fn        \* frame number of the newest frame in the issued window

schedVars == <<stride_cnt, first_done, issue_o, drop_o, win_base, win_fn>>

CNT_MAX == 255  \* all ones on SW = 8 bits

SchedInit ==
  /\ stride_cnt = 0
  /\ first_done = FALSE
  /\ issue_o = FALSE
  /\ drop_o = FALSE
  /\ win_base = 0
  /\ win_fn = 0

\* Mutants: a strict comparison for the stride; a drop only when the ring is
\* overrun.
StrideDueLate          == first_done /\ stride_cnt > WINDOW_STRIDE
DropNowAtRingEnd(busy) == busy /\ stride_cnt > HIST_DEPTH - WINDOW_LEN

\* The combinational wires.
FirstDue(total) == total = WINDOW_LEN /\ ~first_done
StrideDue       == first_done /\ stride_cnt >= WINDOW_STRIDE
IssueNow(enable, total, busy) == (FirstDue(total) \/ StrideDue) /\ ~busy /\ enable
DropNow(busy)   == StrideDue /\ busy /\ stride_cnt >= 2 * WINDOW_STRIDE

\* Mutants: an issue or a drop hides a simultaneous commit; the credit is never
\* spent.
CreditExclusive(commit, spend) ==
  IF spend THEN stride_cnt - WINDOW_STRIDE
  ELSE IF commit /\ first_done /\ stride_cnt # CNT_MAX THEN stride_cnt + 1
  ELSE stride_cnt
CreditUnspent(commit, spend) ==
  IF commit /\ first_done /\ stride_cnt # CNT_MAX THEN stride_cnt + 1 ELSE stride_cnt

\* Net bookkeeping of one edge: +1 for a commit, -WINDOW_STRIDE for an issue
\* or a drop; both may happen at once.
Credit(commit, spend) ==
  LET earned == IF commit /\ first_done /\ stride_cnt # CNT_MAX THEN 1 ELSE 0
      spent  == IF spend THEN WINDOW_STRIDE ELSE 0
  IN  (stride_cnt + earned) - spent

SchedEdge(clear, enable, commit, wr, total, newest, busy) ==
  LET issue == IssueNow(enable, total, busy)
      drop  == DropNow(busy)
  IN  \/ /\ clear
         /\ stride_cnt' = 0
         /\ first_done' = FALSE
         /\ issue_o' = FALSE
         /\ drop_o' = FALSE
         /\ UNCHANGED <<win_base, win_fn>>
      \/ /\ ~clear
         /\ stride_cnt' = Credit(commit, (issue /\ StrideDue) \/ drop)
         /\ issue_o' = issue
         /\ drop_o' = drop
         /\ first_done' = (first_done \/ issue)
         /\ win_base' = IF issue THEN SlotBefore(wr, WINDOW_LEN) ELSE win_base
         /\ win_fn' = IF issue THEN newest ELSE win_fn

=============================================================================
