------------------------------- MODULE Layers -------------------------------
(***************************************************************************)
(* The arithmetic of one inference as host/src/ref_model.c computes it,    *)
(* layer by layer, and the requantisation unit of the device               *)
(* (rtl/activation_unit.sv), which works on bits instead of comparisons.   *)
(* The dimensions, weights and widths are parameters; arrays are functions *)
(* on 0 .. n-1 as in C.                                                    *)
(***************************************************************************)
EXTENDS KwsMath, KwsPkg, FiniteSetsExt

CONSTANTS
  DATA_W, ACC_W, MULT_W,          \* bits: data 8, accumulator 24, multiplier 16
  NUM_MFCC, CONV_K, CONV_OUT_CH,  \* 40, 3, 8
  PARALLEL,                       \* convolution lanes (1, 2, 4 or 8)
  POOL_SIZE, NUM_CLASSES,         \* 2, 10
  kws_conv_w, kws_conv_b, KWS_M_CONV, KWS_S_CONV,
  kws_dense_w, kws_dense_b, KWS_M_DENSE, KWS_S_DENSE

CONV_OUT_LEN == WINDOW_LEN - CONV_K + 1
POOL_OUT_LEN == CONV_OUT_LEN \div POOL_SIZE
DENSE_IN     == POOL_OUT_LEN * CONV_OUT_CH

Upto(n)   == 0 .. n - 1
Log2(n)   == CHOOSE e \in 0 .. n : 2^e = n
Largest   == 2^(DATA_W - 1) - 1
Smallest  == -(2^(DATA_W - 1))
Data      == Smallest .. Largest

\* The elaboration-time assertions of conv1d_engine.sv and pooling_engine.sv,
\* and what activation_unit.sv says of M and S.
ASSUME LayersAssumption ==
  /\ CONV_OUT_CH % PARALLEL = 0 /\ WINDOW_LEN > CONV_K
  /\ POOL_SIZE = 2^Log2(POOL_SIZE) /\ CONV_OUT_LEN % POOL_SIZE = 0
  /\ HIST_DEPTH = 2^Log2(HIST_DEPTH)
  /\ {KWS_M_CONV, KWS_M_DENSE} \subseteq 1 .. 2^(MULT_W - 1) - 1
  /\ {KWS_S_CONV, KWS_S_DENSE} \subseteq 1 .. 31

-----------------------------------------------------------------------------
(* ref_model.c                                                             *)

Inverted(x) == -x - 1                                       \* ~x

\* Mutant: the shift rounds a negative value towards zero.
kws_asr_truncating(v, s) ==
  IF v < 0 THEN -((-v) \div 2^s) ELSE v \div 2^s

\* kws_asr64, kws_asr32: a floor shift out of shifts of non-negative values.
kws_asr(v, s) ==
  IF v < 0 THEN Inverted(Inverted(v) \div 2^s) ELSE v \div 2^s

sat8(v) ==
  IF v > Largest THEN Largest ELSE IF v < Smallest THEN Smallest ELSE v

kws_requant(acc, m, s, relu) ==
  LET y == sat8(kws_asr(acc * m + 2^(s - 1), s))
  IN  IF relu /\ y < 0 THEN 0 ELSE y

kws_ref_conv1d(feat) ==
  LET Taps == Upto(CONV_K) \X Upto(NUM_MFCC)
      Product(t, oc, tap) ==
        feat[t + tap[1]][tap[2]] * kws_conv_w[oc][tap[1]][tap[2]]
  IN  [t \in Upto(CONV_OUT_LEN) |-> [oc \in Upto(CONV_OUT_CH) |->
        kws_requant(kws_conv_b[oc]
                      + MapThenSumSet(LAMBDA tap : Product(t, oc, tap), Taps),
                    KWS_M_CONV, KWS_S_CONV, TRUE)]]

kws_ref_pool(act, mode) ==
  [p \in Upto(POOL_OUT_LEN) |-> [c \in Upto(CONV_OUT_CH) |->
    LET At(q) == act[p * POOL_SIZE + q][c]
    IN  IF mode = "AVG"
        THEN kws_asr(MapThenSumSet(At, Upto(POOL_SIZE)), Log2(POOL_SIZE))
        ELSE Max({At(q) : q \in Upto(POOL_SIZE)})]]

kws_ref_dense(pooled) ==
  LET Product(c, i) ==
        pooled[i \div CONV_OUT_CH][i % CONV_OUT_CH] * kws_dense_w[c][i]
  IN  [c \in Upto(NUM_CLASSES) |->
        kws_requant(kws_dense_b[c]
                      + MapThenSumSet(LAMBDA i : Product(c, i), Upto(DENSE_IN)),
                    KWS_M_DENSE, KWS_S_DENSE, FALSE)]

kws_ref_infer(feat, mode) ==
  LET logits == kws_ref_dense(kws_ref_pool(kws_ref_conv1d(feat), mode))
  IN  [logits |-> logits, winner |-> Argmax(logits)]

-----------------------------------------------------------------------------
(* activation_unit.sv and relu.sv                                          *)

PROD_W == ACC_W + MULT_W + 1

\* The bits of a PROD_W-bit word from DATA_W - 1 upwards; a value fits DATA_W
\* bits when they are all equal.
HighBits(word) == (word % 2^PROD_W) \div 2^(DATA_W - 1)
SignOnly       == {0, 2^(PROD_W - DATA_W + 1) - 1}

Saturated(shifted) ==
  IF HighBits(shifted) \in SignOnly THEN Signed(shifted, DATA_W)
  ELSE IF shifted < 0 THEN Smallest ELSE Largest

ActivationUnit(acc, m, s, relu_en) ==
  LET prod    == Signed(acc * m, PROD_W)
      rounded == Signed(prod + 2^(s - 1), PROD_W)
      y       == Saturated(rounded \div 2^s)
  IN  IF relu_en /\ y < 0 THEN 0 ELSE y

=============================================================================
