---------------------------- MODULE HostSmoother ----------------------------
(***************************************************************************)
(* kws_smooth_init and kws_smooth_step of host/src/ref_model.c: the        *)
(* reference of temporal smoothing, a whole inference result per call.     *)
(***************************************************************************)
EXTENDS KwsMath, FiniteSets, Sequences

CONSTANTS N, DATA_W, DEPTH, THRESH, VOTE_MIN, MIN_CONSEC, DEBOUNCE, TARGETS, MAX_RUN

VARIABLES
  ref,      \* kws_smooth_t
  evt       \* what the last call returned

refVars == <<ref, evt>>

RefState0 ==
  [sums |-> [c \in 0 .. N - 1 |-> 0],
   hist |-> [d \in 0 .. DEPTH - 1 |-> [c \in 0 .. N - 1 |-> 0]], head |-> 0,
   win_hist |-> [d \in 0 .. DEPTH - 1 |-> 0], whead |-> 0, fill |-> 0,
   consec |-> 0, last_cand |-> -1, debounce_cnt |-> 0]

kws_smooth_init == ref' = RefState0 /\ evt' = <<>>

\* 1. Fold the logits and the winner of a window.
Folded(s, logits, winner) ==
  [s EXCEPT
     !.sums     = [c \in 0 .. N - 1 |-> Signed(@[c] + logits[c] - s.hist[s.head][c], 16)],
     !.hist     = [@ EXCEPT ![s.head] = logits],
     !.head     = (@ + 1) % DEPTH,
     !.win_hist = [@ EXCEPT ![s.whead] = winner],
     !.whead    = (@ + 1) % DEPTH,
     !.fill     = IF @ < DEPTH THEN @ + 1 ELSE @]

\* 2. Evaluate.  The class whose average is best, its average and its votes.
Averages(s) == [c \in 0 .. N - 1 |-> Signed(Average(s.sums[c], DEPTH), DATA_W)]
Verdict(s) ==
  LET idx == Argmax(Averages(s))
  IN  [class |-> idx, val |-> Averages(s)[idx],
       votes |-> Cardinality({d \in 0 .. s.fill - 1 : s.win_hist[d] = idx})]

Qualifies(v) == v.class \in TARGETS /\ v.val >= THRESH /\ v.votes >= VOTE_MIN

RunLength(s, v) ==
  IF ~Qualifies(v) THEN 0
  ELSE IF s.consec # 0 /\ s.last_cand = v.class
         THEN IF s.consec >= MAX_RUN THEN s.consec ELSE s.consec + 1
  ELSE 1

kws_smooth_step(logits, winner) ==
  LET s    == Folded(ref, logits, winner)
      v    == Verdict(s)
      run  == RunLength(s, v)
      fire == Qualifies(v) /\ s.debounce_cnt = 0 /\ run >= MIN_CONSEC
  IN  /\ ref' = [s EXCEPT
                   !.last_cand    = IF Qualifies(v) THEN v.class ELSE @,
                   !.consec       = IF fire THEN 0 ELSE run,
                   !.debounce_cnt = IF fire THEN DEBOUNCE ELSE IF @ > 0 THEN @ - 1 ELSE @]
      /\ evt' = IF fire
                  THEN <<[class |-> v.class, conf |-> IF v.val < 0 THEN 0 ELSE v.val, votes |-> v.votes]>>
                  ELSE <<>>

=============================================================================
