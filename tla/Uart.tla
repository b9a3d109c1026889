-------------------------------- MODULE Uart --------------------------------
(***************************************************************************)
(* rtl/uart_rx.sv and rtl/uart_tx.sv, and what they share: the length of a *)
(* bit cell in clocks and the bytes, sequences of bits with the least      *)
(* significant first.                                                      *)
(***************************************************************************)
EXTENDS Naturals, Sequences

CONSTANTS
  CLKS_PER_BIT,   \* CLK_FREQ_HZ / BAUD_RATE            (104)
  DATA_BITS       \* bits of a byte                     (8)

\* The first is asserted by the receiver.
ASSUME UartAssumption == CLKS_PER_BIT \in Nat /\ CLKS_PER_BIT >= 16 /\ DATA_BITS \in Nat \ {0}

Bit == {0, 1}
Byte == [1 .. DATA_BITS -> Bit]
Zeros == [k \in 1 .. DATA_BITS |-> 0]
States == {"IDLE", "START", "DATA", "STOP"}

CellEnd(cnt) == cnt = CLKS_PER_BIT - 1

-----------------------------------------------------------------------------
(* rtl/uart_rx.sv, one step per clock edge.                               *)

VARIABLES
  sync,                        \* sync_q, the newest level first
  rx_state, rx_cnt, rx_bit,    \* state_q, clk_cnt_q, bit_idx_q
  rx_shift, samp,              \* shift_q, samp_q
  received, frame_err          \* data_o when valid_o strobes, or none; frame_err_o

rxVars == <<sync, rx_state, rx_cnt, rx_bit, rx_shift, samp, received, frame_err>>

MID == CLKS_PER_BIT \div 2

\* Two of the three samples.
Maj == IF samp[1] + samp[2] + samp[3] >= 2 THEN 1 ELSE 0

RxInit ==
  /\ sync = <<1, 1>> /\ rx_state = "IDLE" /\ rx_cnt = 0 /\ rx_bit = 0
  /\ rx_shift = Zeros /\ samp = <<0, 0, 0>>
  /\ received = <<>> /\ frame_err = FALSE

Silent == received' = <<>> /\ frame_err' = FALSE
Count == rx_cnt' = rx_cnt + 1 /\ UNCHANGED <<rx_state, rx_bit, rx_shift>> /\ Silent

RxIdle ==
  /\ rx_state = "IDLE" /\ rx_cnt' = 0 /\ rx_bit' = 0
  /\ rx_state' = IF sync[2] = 0 THEN "START" ELSE "IDLE"
  /\ UNCHANGED rx_shift /\ Silent

RxStart ==
  /\ rx_state = "START"
  /\ \/ ~CellEnd(rx_cnt) /\ Count
     \/ /\ CellEnd(rx_cnt) /\ rx_cnt' = 0
        /\ rx_state' = IF Maj = 1 THEN "IDLE" ELSE "DATA"
        /\ UNCHANGED <<rx_bit, rx_shift>> /\ Silent

RxData ==
  /\ rx_state = "DATA"
  /\ \/ ~CellEnd(rx_cnt) /\ Count
     \/ /\ CellEnd(rx_cnt) /\ rx_cnt' = 0
        /\ rx_shift' = Append(Tail(rx_shift), Maj)
        /\ \/ rx_bit = DATA_BITS - 1 /\ rx_state' = "STOP" /\ UNCHANGED rx_bit
           \/ rx_bit < DATA_BITS - 1 /\ rx_bit' = rx_bit + 1 /\ UNCHANGED rx_state
        /\ Silent

\* Early, to be ready for the next start bit of a sender that runs fast.
RxStop ==
  /\ rx_state = "STOP"
  /\ \/ rx_cnt # MID + 2 /\ Count
     \/ /\ rx_cnt = MID + 2 /\ rx_cnt' = 0 /\ rx_state' = "IDLE"
        /\ received' = IF Maj = 1 THEN <<rx_shift>> ELSE <<>>
        /\ frame_err' = (Maj = 0)
        /\ UNCHANGED <<rx_bit, rx_shift>>

\* Mutant: one sample decides.
SampleOnce == samp' = IF rx_cnt = MID THEN [k \in 1 .. 3 |-> sync[2]] ELSE samp

Sample == samp' = [k \in 1 .. 3 |-> IF rx_cnt = MID - 2 + k THEN sync[2] ELSE samp[k]]

\* rxd: the level of the line.
RxEdge(rxd) ==
  /\ sync' = <<rxd, sync[1]>>
  /\ Sample
  /\ RxIdle \/ RxStart \/ RxData \/ RxStop

-----------------------------------------------------------------------------
(* rtl/uart_tx.sv, one step per clock edge.                               *)

VARIABLES tx_state, tx_cnt, tx_bit, tx_shift, txd

txVars == <<tx_state, tx_cnt, tx_bit, tx_shift, txd>>

TxInit ==
  /\ tx_state = "IDLE" /\ tx_cnt = 0 /\ tx_bit = 0
  /\ tx_shift = Zeros /\ txd = 1

TxReady == tx_state = "IDLE"

TxCount == tx_cnt' = tx_cnt + 1 /\ UNCHANGED <<tx_state, tx_bit, tx_shift, txd>>
TxCellEnd == CellEnd(tx_cnt)

\* The next data bit on the line; ones follow.
ShiftOut == txd' = Head(tx_shift) /\ tx_shift' = Append(Tail(tx_shift), 1)

\* offer: the byte under valid_i, or none.
TxIdle(offer) ==
  /\ TxReady /\ tx_cnt' = 0 /\ tx_bit' = 0
  /\ \/ offer = <<>> /\ txd' = 1 /\ UNCHANGED <<tx_state, tx_shift>>
     \/ offer # <<>> /\ txd' = 0 /\ tx_state' = "START" /\ tx_shift' = offer[1]

TxStart ==
  /\ tx_state = "START"
  /\ \/ ~TxCellEnd /\ TxCount
     \/ TxCellEnd /\ tx_cnt' = 0 /\ ShiftOut /\ tx_state' = "DATA" /\ UNCHANGED tx_bit

\* Mutant: the last data bit is left out.
TxDataShort ==
  /\ tx_state = "DATA"
  /\ \/ ~TxCellEnd /\ TxCount
     \/ /\ TxCellEnd /\ tx_cnt' = 0
        /\ \/ tx_bit = DATA_BITS - 2 /\ txd' = 1 /\ tx_state' = "STOP" /\ UNCHANGED <<tx_bit, tx_shift>>
           \/ tx_bit < DATA_BITS - 2 /\ tx_bit' = tx_bit + 1 /\ ShiftOut /\ UNCHANGED tx_state

TxData ==
  /\ tx_state = "DATA"
  /\ \/ ~TxCellEnd /\ TxCount
     \/ /\ TxCellEnd /\ tx_cnt' = 0
        /\ \/ tx_bit = DATA_BITS - 1 /\ txd' = 1 /\ tx_state' = "STOP" /\ UNCHANGED <<tx_bit, tx_shift>>
           \/ tx_bit < DATA_BITS - 1 /\ tx_bit' = tx_bit + 1 /\ ShiftOut /\ UNCHANGED tx_state

\* Mutant: the end is at CLKS_PER_BIT, which the counter wraps before.
TxStopWraps ==
  /\ tx_state = "STOP"
  /\ tx_cnt' = (tx_cnt + 1) % CLKS_PER_BIT /\ UNCHANGED <<tx_state, tx_bit, tx_shift, txd>>

TxStop ==
  /\ tx_state = "STOP"
  /\ \/ ~TxCellEnd /\ TxCount
     \/ TxCellEnd /\ tx_cnt' = 0 /\ tx_state' = "IDLE" /\ UNCHANGED <<tx_bit, tx_shift, txd>>

TxEdge(offer) == TxIdle(offer) \/ TxStart \/ TxData \/ TxStop

=============================================================================
