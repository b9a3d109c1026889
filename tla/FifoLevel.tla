------------------------------ MODULE FifoLevel ------------------------------
(***************************************************************************)
(* The flow-control half of rtl/uart_fifo.sv: the level, and the strobes   *)
(* that follow a read and a refused write.  UartFifo adds the storage.     *)
(***************************************************************************)
EXTENDS Naturals

CONSTANT DEPTH

ASSUME DepthAssumption == DEPTH \in Nat \ {0}

VARIABLES level, rd_valid, overflow

levelVars == <<level, rd_valid, overflow>>

LevelInit == level = 0 /\ rd_valid = FALSE /\ overflow = FALSE

Full == level = DEPTH
Empty == level = 0

DoWr(wr) == wr /\ ~Full
DoRd(rd) == rd /\ ~Empty

LevelEdge(wr, rd) ==
  /\ \/ DoWr(wr) /\ ~DoRd(rd) /\ level' = level + 1
     \/ ~DoWr(wr) /\ DoRd(rd) /\ level' = level - 1
     \/ (DoWr(wr) <=> DoRd(rd)) /\ UNCHANGED level
  /\ rd_valid' = DoRd(rd)
  /\ overflow' = (wr /\ Full)

=============================================================================
