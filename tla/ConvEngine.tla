----------------------------- MODULE ConvEngine -----------------------------
(***************************************************************************)
(* rtl/conv1d_engine.sv at the clock level: every loop counter, address    *)
(* and pipeline register.  A read takes two edges: the address register,   *)
(* then the memory's output register (feature_memory, kernel_memory,       *)
(* bias_memory), which no reset touches.  The operands of the tap issued   *)
(* at one edge are accumulated two edges later, by v1 and v2.              *)
(***************************************************************************)
EXTENDS Layers

VARIABLES
  conv,       \* the engine's registers
  conv_rd     \* output registers of the memories it reads

Lanes == Upto(PARALLEL)
Taps  == CONV_K * NUM_MFCC

ConvReset ==
  [state |-> "IDLE", base |-> 0, m |-> 0, s |-> 0,
   bias |-> [l \in Lanes |-> 0], acc |-> [l \in Lanes |-> 0],
   oc_col |-> 0, t |-> 0, j |-> 0, ic |-> 0, k |-> 0, lane |-> 0,
   lane_base |-> [l \in Lanes |-> 0], out_row |-> 0, v1 |-> FALSE, v2 |-> FALSE,
   done |-> FALSE, frame |-> 0, coef |-> 0, krn |-> [l \in Lanes |-> 0],
   bias_addr |-> 0, wr_en |-> FALSE, wr_addr |-> 0, wr_data |-> 0]

ConvReadReset == [feat |-> 0, krn |-> [l \in Lanes |-> 0], bias |-> 0]

\* The kernel ROM, flattened as the export writes it, and the parameter ROM:
\* the biases, then M, then S.
KernelRom(a) ==
  kws_conv_w[a \div Taps][(a % Taps) \div NUM_MFCC][a % NUM_MFCC]
ConvBiasRom(a) ==
  IF a < CONV_OUT_CH THEN kws_conv_b[a]
  ELSE IF a = CONV_OUT_CH THEN KWS_M_CONV ELSE KWS_S_CONV

ConvMemories(ring) ==
  conv_rd' = [feat |-> ring[conv.frame][conv.coef],
              krn  |-> [l \in Lanes |-> KernelRom(conv.krn[l])],
              bias |-> ConvBiasRom(conv.bias_addr)]

ConvIssues == conv.state = "MAC" /\ conv.j # Taps

\* What every edge does, whatever the state.
ConvPiped ==
  [conv EXCEPT !.done = FALSE, !.wr_en = FALSE,
               !.v1 = ConvIssues, !.v2 = conv.v1,
               !.acc = [l \in Lanes |->
                 IF conv.v2 THEN Signed(@[l] + conv_rd.feat * conv_rd.krn[l], ACC_W)
                            ELSE @[l]]]

ConvIdle(start, base) ==
  /\ conv.state = "IDLE"
  /\ conv' = IF start
             THEN [ConvPiped EXCEPT !.base = base, !.oc_col = 0,
                                    !.lane_base = [l \in Lanes |-> l * Taps],
                                    !.state = "LD_M_A"]
             ELSE ConvPiped

\* A state that only lets a read settle.
ConvWaits(from, to) ==
  conv.state = from /\ conv' = [ConvPiped EXCEPT !.state = to]

ConvLoadParams ==
  \/ /\ conv.state = "LD_M_A"
     /\ conv' = [ConvPiped EXCEPT !.bias_addr = CONV_OUT_CH, !.state = "LD_M_W"]
  \/ ConvWaits("LD_M_W", "LD_M_C")
  \/ /\ conv.state = "LD_M_C"
     /\ conv' = [ConvPiped EXCEPT !.m = conv_rd.bias,
                                  !.bias_addr = CONV_OUT_CH + 1,
                                  !.state = "LD_S_W"]
  \/ ConvWaits("LD_S_W", "LD_S_C")
  \/ /\ conv.state = "LD_S_C"
     /\ conv' = [ConvPiped EXCEPT !.s = conv_rd.bias, !.lane = 0, !.state = "LD_B_A"]

\* Mutant: every accumulator is seeded from its register, the last lane's too.
ConvBiasArrivesLate ==
  /\ conv.state = "LD_B_C"
  /\ LET biases == [conv.bias EXCEPT ![conv.lane] = conv_rd.bias]
     IN  conv' = IF conv.lane = PARALLEL - 1
                 THEN [ConvPiped EXCEPT !.bias = biases, !.acc = conv.bias,
                                        !.t = 0, !.out_row = 0,
                                        !.j = 0, !.ic = 0, !.k = 0,
                                        !.state = "MAC"]
                 ELSE [ConvPiped EXCEPT !.bias = biases, !.lane = @ + 1,
                                        !.state = "LD_B_A"]

\* The bias of the last lane is seeded directly: its register is written by
\* this very edge.
ConvBiasArrives ==
  /\ conv.state = "LD_B_C"
  /\ LET biases == [conv.bias EXCEPT ![conv.lane] = conv_rd.bias]
     IN  conv' = IF conv.lane = PARALLEL - 1
                 THEN [ConvPiped EXCEPT !.bias = biases, !.acc = biases,
                                        !.t = 0, !.out_row = 0,
                                        !.j = 0, !.ic = 0, !.k = 0,
                                        !.state = "MAC"]
                 ELSE [ConvPiped EXCEPT !.bias = biases, !.lane = @ + 1,
                                        !.state = "LD_B_A"]

ConvLoadBias ==
  \/ /\ conv.state = "LD_B_A"
     /\ conv' = [ConvPiped EXCEPT !.bias_addr = conv.oc_col + conv.lane,
                                  !.state = "LD_B_W"]
  \/ ConvWaits("LD_B_W", "LD_B_C")
  \/ ConvBiasArrives

\* One operand fetch an edge, then the drain of the pipeline.
ConvMac ==
  /\ conv.state = "MAC"
  /\ conv' =
       LET last == conv.ic = NUM_MFCC - 1
       IN  IF ConvIssues
           THEN [ConvPiped EXCEPT
                   !.frame = (conv.base + conv.t + conv.k) % HIST_DEPTH,
                   !.coef = conv.ic,
                   !.krn = [l \in Lanes |-> conv.lane_base[l] + conv.j],
                   !.j = @ + 1,
                   !.ic = IF last THEN 0 ELSE @ + 1,
                   !.k  = IF last THEN @ + 1 ELSE @]
           ELSE IF ~conv.v1 /\ ~conv.v2
                THEN [ConvPiped EXCEPT !.lane = 0, !.state = "REQ"]
                ELSE ConvPiped

ConvLastLane == conv.lane = PARALLEL - 1
ConvLastRow  == conv.t = CONV_OUT_LEN - 1
ConvLastCol  == conv.oc_col = CONV_OUT_CH - PARALLEL

\* The lane's accumulator, requantised, on its way to the activation RAM.
ConvWritten ==
  [ConvPiped EXCEPT
     !.wr_en = TRUE, !.wr_addr = conv.out_row + conv.oc_col + conv.lane,
     !.wr_data = ActivationUnit(conv.acc[conv.lane], conv.m, conv.s, TRUE)]

\* The same when it completes a row of the current lanes.
ConvRowWritten ==
  [ConvWritten EXCEPT !.j = 0, !.ic = 0, !.k = 0, !.acc = conv.bias]

ConvReq ==
  /\ conv.state = "REQ"
  /\ \/ /\ ~ConvLastLane
        /\ conv' = [ConvWritten EXCEPT !.lane = @ + 1]
     \/ /\ ConvLastLane /\ ~ConvLastRow
        /\ conv' = [ConvRowWritten EXCEPT !.t = @ + 1, !.out_row = @ + CONV_OUT_CH,
                                          !.state = "MAC"]
     \/ /\ ConvLastLane /\ ConvLastRow /\ ~ConvLastCol
        /\ conv' = [ConvRowWritten EXCEPT
                      !.oc_col = @ + PARALLEL, !.lane = 0, !.state = "LD_B_A",
                      !.lane_base = [l \in Lanes |-> @[l] + PARALLEL * Taps]]
     \/ /\ ConvLastLane /\ ConvLastRow /\ ConvLastCol
        /\ conv' = [ConvRowWritten EXCEPT !.done = TRUE, !.state = "IDLE"]

ConvEdge(start, base) ==
  \/ ConvIdle(start, base) \/ ConvLoadParams \/ ConvLoadBias \/ ConvMac \/ ConvReq

=============================================================================
