----------------------------- MODULE PoolEngine -----------------------------
(***************************************************************************)
(* rtl/pooling_engine.sv at the clock level, reading the activation RAM    *)
(* (ram_dp_sync, two edges a read) and reducing POOL_SIZE rows to one.     *)
(***************************************************************************)
EXTENDS Layers

VARIABLES
  pool,       \* the engine's registers
  pool_rd     \* read register of the activation RAM

PoolReset ==
  [state |-> "IDLE", p |-> 0, ch |-> 0, q |-> 0, in_base |-> 0, out_idx |-> 0,
   red |-> 0, done |-> FALSE, rd_addr |-> 0,
   wr_en |-> FALSE, wr_addr |-> 0, wr_data |-> 0]

SUM_W == DATA_W + Log2(POOL_SIZE)

PoolPiped == [pool EXCEPT !.done = FALSE, !.wr_en = FALSE]

\* red_next: fold the arriving sample into the running maximum or sum.
Reduced(mode) ==
  IF pool.q = 0 THEN pool_rd
  ELSE IF mode = "AVG" THEN Signed(pool.red + pool_rd, SUM_W)
  ELSE IF pool_rd > pool.red THEN pool_rd ELSE pool.red

PoolIdle(start) ==
  /\ pool.state = "IDLE"
  /\ pool' = IF start
             THEN [PoolPiped EXCEPT !.p = 0, !.ch = 0, !.q = 0, !.in_base = 0,
                                    !.out_idx = 0, !.state = "RD_A"]
             ELSE PoolPiped

PoolRead(mode) ==
  \/ /\ pool.state = "RD_A"
     /\ pool' = [PoolPiped EXCEPT
                   !.rd_addr = pool.in_base + pool.q * CONV_OUT_CH + pool.ch,
                   !.state = "RD_W"]
  \/ /\ pool.state = "RD_W"
     /\ pool' = [PoolPiped EXCEPT !.state = "RD_C"]
  \/ /\ pool.state = "RD_C"
     /\ pool' = IF pool.q = POOL_SIZE - 1
                THEN [PoolPiped EXCEPT !.red = Reduced(mode), !.state = "WR"]
                ELSE [PoolPiped EXCEPT !.red = Reduced(mode), !.q = @ + 1,
                                       !.state = "RD_A"]

PoolWritten(mode) ==
  [PoolPiped EXCEPT
     !.wr_en = TRUE, !.wr_addr = pool.out_idx, !.out_idx = @ + 1, !.q = 0,
     !.wr_data = IF mode = "AVG" THEN Signed(pool.red \div POOL_SIZE, DATA_W)
                                 ELSE Signed(pool.red, DATA_W)]

PoolRowWritten(mode) ==
  [PoolWritten(mode) EXCEPT !.ch = 0, !.in_base = @ + POOL_SIZE * CONV_OUT_CH]

\* Mutant: the last write raises no strobe.
PoolWriteSilent(mode) ==
  /\ pool.state = "WR"
  /\ pool' = IF pool.ch < CONV_OUT_CH - 1
             THEN [PoolWritten(mode) EXCEPT !.ch = @ + 1, !.state = "RD_A"]
             ELSE IF pool.p < POOL_OUT_LEN - 1
             THEN [PoolRowWritten(mode) EXCEPT !.p = @ + 1, !.state = "RD_A"]
             ELSE [PoolRowWritten(mode) EXCEPT !.state = "IDLE"]

PoolWrite(mode) ==
  /\ pool.state = "WR"
  /\ pool' = IF pool.ch < CONV_OUT_CH - 1
             THEN [PoolWritten(mode) EXCEPT !.ch = @ + 1, !.state = "RD_A"]
             ELSE IF pool.p < POOL_OUT_LEN - 1
             THEN [PoolRowWritten(mode) EXCEPT !.p = @ + 1, !.state = "RD_A"]
             ELSE [PoolRowWritten(mode) EXCEPT !.done = TRUE, !.state = "IDLE"]

PoolEdge(start, mode) == PoolIdle(start) \/ PoolRead(mode) \/ PoolWrite(mode)

=============================================================================
