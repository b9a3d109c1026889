----------------------------- MODULE Inference -----------------------------
(***************************************************************************)
(* The three engines in series, as rtl/kws_core.sv wires them: a done      *)
(* strobe starts the next stage, the activation and pooled RAMs lie        *)
(* between them, and the engine reset (START, RESET) may strike at any     *)
(* time, clearing the engines and neither the RAMs nor the read registers  *)
(* of the memories.                                                        *)
(*                                                                         *)
(* The outside world writes a window into the ring and issues it, as       *)
(* tb_conv1d.cpp, tb_pooling.cpp and tb_classifier.cpp do, when the        *)
(* engines are idle.                                                       *)
(***************************************************************************)
EXTENDS ConvEngine, PoolEngine, Classifier

CONSTANTS
  WINDOWS,        \* windows of features the world issues
  BASES,          \* ring slots they start at
  JUNK,           \* what the ring holds where nothing was written
  MAX_ISSUED,     \* windows issued in a behaviour
  MAX_RESETS      \* engine resets in a behaviour

VARIABLES
  ring,           \* feature memory: slot, coefficient
  act_ram, pooled_ram,
  mode,           \* cfg_pool_mode: "MAX" or "AVG"
  window,         \* the features of the window last issued
  issued, resets  \* bounds on the environment

ramVars       == <<act_ram, pooled_ram>>
envVars       == <<ring, mode, window, issued, resets>>
inferenceVars == <<conv, conv_rd, pool, pool_rd, cls, cls_rd, ramVars, envVars>>

ActSize == CONV_OUT_LEN * CONV_OUT_CH

InferenceInit ==
  /\ conv = ConvReset /\ conv_rd = ConvReadReset
  /\ pool = PoolReset /\ pool_rd = 0
  /\ cls = ClsReset /\ cls_rd = ClsReadReset
  /\ ring = [f \in Slots |-> [c \in Upto(NUM_MFCC) |-> JUNK]]
  /\ act_ram = [a \in Upto(ActSize) |-> 0]
  /\ pooled_ram = [a \in Upto(DENSE_IN) |-> 0]
  /\ mode = "MAX" /\ window = JUNK /\ issued = 0 /\ resets = 0

\* A synchronous RAM with the write a registered port carries.
Landed(ram, port) ==
  IF port.wr_en THEN [ram EXCEPT ![port.wr_addr] = port.wr_data] ELSE ram

Busy ==
  \/ conv.state # "IDLE" \/ pool.state # "IDLE" \/ cls.state # "IDLE"
  \/ conv.done \/ pool.done \/ cls.done

Clocked(start, base) ==
  /\ ConvEdge(start, base) /\ ConvMemories(ring)
  /\ PoolEdge(conv.done, mode) /\ pool_rd' = act_ram[pool.rd_addr]
  /\ ClsEdge(pool.done) /\ ClsMemories(pooled_ram)
  /\ act_ram' = Landed(act_ram, conv)
  /\ pooled_ram' = Landed(pooled_ram, pool)

Edge ==
  /\ Busy /\ Clocked(FALSE, 0) /\ UNCHANGED envVars

\* The window is in the ring when the edge that sees start_i comes.
Stored(feat, base) ==
  [f \in Slots |->
    LET t == (f + HIST_DEPTH - base) % HIST_DEPTH
    IN  IF t < WINDOW_LEN THEN feat[t] ELSE ring[f]]

Issue(feat, base, pooling) ==
  /\ ~Busy /\ issued < MAX_ISSUED
  /\ issued' = issued + 1 /\ window' = feat /\ mode' = pooling
  /\ ring' = Stored(feat, base)
  /\ Clocked(TRUE, base)
  /\ UNCHANGED resets

EngineReset ==
  /\ Busy /\ resets < MAX_RESETS
  /\ resets' = resets + 1
  /\ conv' = ConvReset /\ pool' = PoolReset /\ cls' = ClsReset
  /\ UNCHANGED <<conv_rd, pool_rd, cls_rd, ramVars, ring, mode, window, issued>>

InferenceNext ==
  \/ Edge
  \/ \E feat \in WINDOWS, base \in BASES, pooling \in {"MAX", "AVG"} :
       Issue(feat, base, pooling)
  \/ EngineReset

-----------------------------------------------------------------------------
(* Properties                                                              *)

\* The registers of the engines keep their ranges, no accumulator overflows.
InferenceTypeOK ==
  /\ conv.frame \in Slots /\ conv.coef \in Upto(NUM_MFCC)
  /\ conv.krn \in [Lanes -> Upto(CONV_OUT_CH * Taps)]
  /\ conv.wr_addr \in Upto(ActSize) /\ conv.wr_data \in 0 .. Largest
  /\ conv.acc \in [Lanes -> -(2^(ACC_W - 1)) .. 2^(ACC_W - 1) - 1]
  /\ pool.rd_addr \in Upto(ActSize) /\ pool.wr_addr \in Upto(DENSE_IN)
  /\ pool.wr_data \in Data
  /\ cls.rd_addr \in Upto(DENSE_IN) /\ cls.wgt_addr \in Upto(NUM_CLASSES * DENSE_IN)
  /\ cls.logits \in [Classes -> Data] /\ cls.winner_idx \in Classes
  /\ DOMAIN act_ram = Upto(ActSize) /\ DOMAIN pooled_ram = Upto(DENSE_IN)

\* What the reference computes of the window, laid out as the RAMs are.
Row(array, a) == array[a \div CONV_OUT_CH][a % CONV_OUT_CH]
RefConv   == kws_ref_conv1d(window)
RefPooled == kws_ref_pool(RefConv, mode)

\* When the classifier ends, logits, winner and winner's value are those of
\* kws_ref_infer on the window issued, ties to the lowest class.
LogitsMatch ==
  cls.done =>
    LET ref == kws_ref_infer(window, mode)
    IN  /\ cls.logits = ref.logits
        /\ cls.winner_idx = ref.winner
        /\ cls.winner_val = ref.logits[ref.winner]

\* When a convolution or a pooling pass ends, its RAM, with the write still on
\* its way, holds the reference's layer of this window in every cell: no
\* address missed, no operand taken a cycle early, no accumulator carried over
\* from another row, lane, window or from an inference a reset cut short.
LayersMatch ==
  /\ InferenceTypeOK /\ LogitsMatch
  /\ conv.done => \A a \in Upto(ActSize) : Landed(act_ram, conv)[a] = Row(RefConv, a)
  /\ pool.done => \A a \in Upto(DENSE_IN) : Landed(pooled_ram, pool)[a] = Row(RefPooled, a)

\* Every inference issued ends in a classification, unless a reset ends it.
InferenceEnds == conv.state # "IDLE" ~> (cls.done \/ conv = ConvReset)

InferenceFairness == WF_inferenceVars(Edge)

=============================================================================
