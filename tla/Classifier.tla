----------------------------- MODULE Classifier -----------------------------
(***************************************************************************)
(* rtl/classifier.sv at the clock level: the dense layer, walked by one    *)
(* weight address that never restarts between classes, and the sequential  *)
(* argmax over the logits.                                                 *)
(***************************************************************************)
EXTENDS Layers

VARIABLES
  cls,        \* the engine's registers
  cls_rd      \* output registers of the pooled RAM, weight and bias ROMs

Classes == Upto(NUM_CLASSES)

ClsReset ==
  [state |-> "IDLE", m |-> 0, s |-> 0, acc |-> 0, cls |-> 0, j |-> 0,
   waddr |-> 0, v1 |-> FALSE, v2 |-> FALSE, done |-> FALSE,
   rd_addr |-> 0, wgt_addr |-> 0, bias_addr |-> 0,
   logits |-> [c \in Classes |-> 0], winner_idx |-> 0, winner_val |-> 0,
   scan_c |-> 0]

ClsReadReset == [pool |-> 0, wgt |-> 0, bias |-> 0]

DenseRom(a) == kws_dense_w[a \div DENSE_IN][a % DENSE_IN]
DenseBiasRom(a) ==
  IF a < NUM_CLASSES THEN kws_dense_b[a]
  ELSE IF a = NUM_CLASSES THEN KWS_M_DENSE ELSE KWS_S_DENSE

ClsMemories(pool_ram) ==
  cls_rd' = [pool |-> pool_ram[cls.rd_addr], wgt |-> DenseRom(cls.wgt_addr),
             bias |-> DenseBiasRom(cls.bias_addr)]

ClsIssues == cls.state = "MAC" /\ cls.j # DENSE_IN

ClsPiped ==
  [cls EXCEPT !.done = FALSE, !.v1 = ClsIssues, !.v2 = cls.v1,
              !.acc = IF cls.v2 THEN Signed(@ + cls_rd.pool * cls_rd.wgt, ACC_W)
                                ELSE @]

ClsIdle(start) ==
  /\ cls.state = "IDLE"
  /\ cls' = IF start THEN [ClsPiped EXCEPT !.cls = 0, !.waddr = 0, !.state = "LD_M_A"]
                     ELSE ClsPiped

ClsWaits(from, to) ==
  cls.state = from /\ cls' = [ClsPiped EXCEPT !.state = to]

ClsLoadParams ==
  \/ /\ cls.state = "LD_M_A"
     /\ cls' = [ClsPiped EXCEPT !.bias_addr = NUM_CLASSES, !.state = "LD_M_W"]
  \/ ClsWaits("LD_M_W", "LD_M_C")
  \/ /\ cls.state = "LD_M_C"
     /\ cls' = [ClsPiped EXCEPT !.m = cls_rd.bias, !.bias_addr = NUM_CLASSES + 1,
                                !.state = "LD_S_W"]
  \/ ClsWaits("LD_S_W", "LD_S_C")
  \/ /\ cls.state = "LD_S_C"
     /\ cls' = [ClsPiped EXCEPT !.s = cls_rd.bias, !.state = "LD_B_A"]

ClsLoadBias ==
  \/ /\ cls.state = "LD_B_A"
     /\ cls' = [ClsPiped EXCEPT !.bias_addr = cls.cls, !.state = "LD_B_W"]
  \/ ClsWaits("LD_B_W", "LD_B_C")
  \/ /\ cls.state = "LD_B_C"
     /\ cls' = [ClsPiped EXCEPT !.acc = cls_rd.bias, !.j = 0, !.state = "MAC"]

ClsMac ==
  /\ cls.state = "MAC"
  /\ cls' = IF ClsIssues
            THEN [ClsPiped EXCEPT !.rd_addr = cls.j, !.wgt_addr = cls.waddr,
                                  !.waddr = @ + 1,
                                  !.j = @ + 1]
            ELSE IF ~cls.v1 /\ ~cls.v2 THEN [ClsPiped EXCEPT !.state = "REQ"]
                                       ELSE ClsPiped

ClsReq ==
  /\ cls.state = "REQ"
  /\ LET y == ActivationUnit(cls.acc, cls.m, cls.s, FALSE)
     IN  cls' = IF cls.cls = NUM_CLASSES - 1
                THEN [ClsPiped EXCEPT !.logits[cls.cls] = y, !.winner_idx = 0,
                                      !.winner_val = y, !.scan_c = 0,
                                      !.state = "SCAN"]
                ELSE [ClsPiped EXCEPT !.logits[cls.cls] = y, !.cls = @ + 1,
                                      !.state = "LD_B_A"]

\* Strictly greater: the lowest index wins a tie.
Scanned ==
  IF cls.scan_c = 0
  THEN [ClsPiped EXCEPT !.winner_idx = 0, !.winner_val = cls.logits[0]]
  ELSE IF cls.logits[cls.scan_c] > cls.winner_val
  THEN [ClsPiped EXCEPT !.winner_idx = cls.scan_c,
                        !.winner_val = cls.logits[cls.scan_c]]
  ELSE ClsPiped

ClsScan ==
  /\ cls.state = "SCAN"
  /\ cls' = IF cls.scan_c = NUM_CLASSES - 1
            THEN [Scanned EXCEPT !.done = TRUE, !.state = "IDLE"]
            ELSE [Scanned EXCEPT !.scan_c = @ + 1]

ClsEdge(start) ==
  \/ ClsIdle(start) \/ ClsLoadParams \/ ClsLoadBias \/ ClsMac \/ ClsReq \/ ClsScan

=============================================================================
