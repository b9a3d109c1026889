---------------------------- MODULE EngineChain ----------------------------
(***************************************************************************)
(* The inference chain of rtl/kws_core.sv: conv1d_engine, pooling_engine,  *)
(* classifier, the registered hand-off to temporal_smoothing, and the      *)
(* smoother with its confidence_accumulator.  Every done strobe starts the *)
(* next stage.                                                             *)
(*                                                                         *)
(* A stage that is running may take any number of cycles: the loop         *)
(* counters of the engines are abstracted to "stay" or "finish".  What the *)
(* stages compute is abstracted to its provenance: each RAM or register    *)
(* between two stages carries the frame number of the window its contents  *)
(* come from.  It is MIXED when they come from more than one window, and   *)
(* when they are dead because no stage will read them any more.            *)
(***************************************************************************)
EXTENDS Naturals

VARIABLES
  conv, conv_done,      \* conv1d_engine: state and done strobe
  conv_base,            \* win_base_q, the window start latched at start
  act_fn,               \* window whose activations the conv RAM holds
  pool, pool_done,      \* pooling_engine
  pooled_fn,            \* window whose features the pooled RAM holds
  cls, cls_done,        \* classifier
  logits_fn,            \* window of the logits
  smooth_update,        \* smooth_update_q
  smooth_fn,            \* window of smooth_logits_q / smooth_winner_q
  acc, acc_busy_d,      \* confidence_accumulator FSM, its busy delayed
  fold_fn,              \* window of the logits last folded into the average
  pend, phase,          \* temporal_smoothing: pend_q and phase_q
  detect,               \* detect_o
  eval_fn               \* window of an ST_EVAL decision just made

chainVars == <<conv, conv_done, conv_base, act_fn, pool, pool_done, pooled_fn,
               cls, cls_done, logits_fn, smooth_update, smooth_fn,
               acc, acc_busy_d, fold_fn, pend, phase, detect, eval_fn>>

MIXED == 0

ChainInit ==
  /\ conv = "IDLE" /\ conv_done = FALSE /\ conv_base = 0 /\ act_fn = MIXED
  /\ pool = "IDLE" /\ pool_done = FALSE /\ pooled_fn = MIXED
  /\ cls = "IDLE" /\ cls_done = FALSE /\ logits_fn = MIXED
  /\ smooth_update = FALSE /\ smooth_fn = MIXED
  /\ acc = "CLR" /\ acc_busy_d = FALSE /\ fold_fn = MIXED
  /\ pend = FALSE /\ phase = "IDLE" /\ detect = FALSE /\ eval_fn = MIXED

\* engine_busy in kws_core: the OR of the four stages' busy outputs.
AccBusy    == acc # "IDLE"
SmoothBusy == AccBusy \/ pend \/ phase # "IDLE"
EngineBusy == conv # "IDLE" \/ pool # "IDLE" \/ cls # "IDLE" \/ SmoothBusy

\* A window is somewhere between its issue and the smoother's decision.
ChainActive(issue) ==
  \/ issue \/ conv # "IDLE" \/ conv_done
  \/ pool # "IDLE" \/ pool_done \/ cls # "IDLE" \/ cls_done
  \/ smooth_update \/ acc # "IDLE" \/ pend \/ phase # "IDLE"

-----------------------------------------------------------------------------
(* One clock edge of each stage; rst is the asynchronous engine reset.     *)

\* The window being read by a running stage changes under it: its result mixes.
Carry(from, mine) == IF from = mine THEN mine ELSE MIXED

\* A buffer keeps its provenance while the stage behind it may still read it.
Keep(live, mine) == IF live THEN mine ELSE MIXED

ConvEdge(rst, start, base, fn) ==
  \/ /\ rst
     /\ conv' = "IDLE" /\ conv_done' = FALSE /\ conv_base' = 0
     /\ act_fn' = MIXED
  \/ /\ ~rst /\ conv = "IDLE" /\ start
     /\ conv' = "RUN" /\ conv_done' = FALSE
     /\ conv_base' = base /\ act_fn' = fn
  \/ /\ ~rst /\ conv = "IDLE" /\ ~start
     /\ conv_done' = FALSE
     /\ act_fn' = Keep(conv_done \/ pool = "RUN", act_fn)
     /\ UNCHANGED <<conv, conv_base>>
  \/ /\ ~rst /\ conv = "RUN"
     /\ \/ conv' = "RUN" /\ conv_done' = FALSE
        \/ conv' = "IDLE" /\ conv_done' = TRUE
     /\ UNCHANGED <<conv_base, act_fn>>

PoolEdge(rst) ==
  \/ /\ rst
     /\ pool' = "IDLE" /\ pool_done' = FALSE /\ pooled_fn' = MIXED
  \/ /\ ~rst /\ pool = "IDLE" /\ conv_done
     /\ pool' = "RUN" /\ pool_done' = FALSE /\ pooled_fn' = act_fn
  \/ /\ ~rst /\ pool = "IDLE" /\ ~conv_done
     /\ pool' = "IDLE" /\ pool_done' = FALSE
     /\ pooled_fn' = Keep(pool_done \/ cls = "RUN", pooled_fn)
  \/ /\ ~rst /\ pool = "RUN"
     /\ \/ pool' = "RUN" /\ pool_done' = FALSE
        \/ pool' = "IDLE" /\ pool_done' = TRUE
     /\ pooled_fn' = Carry(act_fn, pooled_fn)

ClsEdge(rst) ==
  \/ /\ rst
     /\ cls' = "IDLE" /\ cls_done' = FALSE /\ logits_fn' = MIXED
  \/ /\ ~rst /\ cls = "IDLE" /\ pool_done
     /\ cls' = "RUN" /\ cls_done' = FALSE /\ logits_fn' = pooled_fn
  \/ /\ ~rst /\ cls = "IDLE" /\ ~pool_done
     /\ cls' = "IDLE" /\ cls_done' = FALSE /\ logits_fn' = MIXED
  \/ /\ ~rst /\ cls = "RUN"
     /\ \/ cls' = "RUN" /\ cls_done' = FALSE
        \/ cls' = "IDLE" /\ cls_done' = TRUE
     /\ logits_fn' = Carry(pooled_fn, logits_fn)

\* smooth_update_q <= cls_done; the logits are registered with it.
HandoffEdge(rst) ==
  \/ /\ rst
     /\ smooth_update' = FALSE /\ smooth_fn' = MIXED
  \/ /\ ~rst
     /\ smooth_update' = cls_done
     /\ smooth_fn' = Keep(cls_done, logits_fn)

\* confidence_accumulator: reset enters ST_CLR, which zeroes the history RAM;
\* an update is folded only from ST_IDLE.  FOLD stands for ST_RD .. ST_UPD.
AccEdge(rst) ==
  \/ /\ rst
     /\ acc' = "CLR" /\ acc_busy_d' = FALSE /\ fold_fn' = MIXED
  \/ /\ ~rst /\ acc = "IDLE" /\ smooth_update
     /\ acc' = "FOLD" /\ acc_busy_d' = FALSE /\ fold_fn' = smooth_fn
  \/ /\ ~rst /\ acc = "IDLE" /\ ~smooth_update
     /\ acc' = "IDLE" /\ acc_busy_d' = FALSE
     /\ fold_fn' = Keep(pend \/ phase = "SCAN", fold_fn)
  \/ /\ ~rst /\ acc # "IDLE"
     /\ acc' \in {acc, "IDLE"} /\ acc_busy_d' = TRUE
     /\ fold_fn' = Keep(~smooth_update, fold_fn)

\* temporal_smoothing: wait for the fold to end, scan, evaluate.  SCAN stands
\* for ST_SCAN and ST_EVAL; whether the evaluation fires is left open here.

\* Mutant: the falling edge is looked for on the strobe that starts the fold.
FoldEndedAtUpdate == smooth_update /\ acc_busy_d /\ ~AccBusy

FoldEnded == pend /\ acc_busy_d /\ ~AccBusy

PhaseEdge(rst) ==
  \/ /\ rst
     /\ pend' = FALSE /\ phase' = "IDLE" /\ detect' = FALSE /\ eval_fn' = MIXED
  \/ /\ ~rst /\ phase = "IDLE"
     /\ phase' = IF FoldEnded THEN "SCAN" ELSE "IDLE"
     /\ pend' = (~FoldEnded /\ (pend \/ smooth_update))
     /\ detect' = FALSE /\ eval_fn' = MIXED
  \/ /\ ~rst /\ phase = "SCAN"
     /\ pend' = (pend \/ smooth_update)
     /\ \/ phase' = "SCAN" /\ detect' = FALSE /\ eval_fn' = MIXED
        \/ phase' = "IDLE" /\ detect' \in BOOLEAN /\ eval_fn' = fold_fn

ChainEdge(rst, start, base, fn) ==
  /\ ConvEdge(rst, start, base, fn)
  /\ PoolEdge(rst)
  /\ ClsEdge(rst)
  /\ HandoffEdge(rst)
  /\ AccEdge(rst)
  /\ PhaseEdge(rst)

=============================================================================
