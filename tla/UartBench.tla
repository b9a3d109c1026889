----------------------------- MODULE UartBench -----------------------------
(***************************************************************************)
(* The two ends of the serial line.  tb/common/tb_util.h drives and        *)
(* watches the line as the host's port does; tb_uart_rx.cpp and            *)
(* tb_uart_tx.cpp set it against the receiver and the transmitter.  Here   *)
(* the driver's clock may run off the receiver's, and the line may be      *)
(* disturbed for a clock.                                                  *)
(***************************************************************************)
EXTENDS Uart, UartFifo, Integers

CONSTANTS
  BYTES,       \* bytes sent (all)
  DRIFT,       \* clocks a byte may be longer or shorter than its cells
  PULSES,      \* lengths of a pulse on the idle line, in clocks  (3)
  GAPS         \* clocks between a byte and the next

ASSUME BenchAssumption == BYTES \subseteq Byte /\ DRIFT \in Nat /\ PULSES \subseteq Nat \ {0} /\ GAPS \subseteq Nat

\* What three samples about the middle of a cell, two clocks of synchronizer and one
\* of the state tolerate: a byte that loses or gains one clock more, or a pulse one
\* clock longer, is read wrong.
ASSUME ToleranceAssumption == DRIFT + MID + 4 <= CLKS_PER_BIT /\ \A n \in PULSES : n <= MID + 1

VARIABLES
  d_state, d_cnt, d_bit, d_shift,   \* the driver
  drift, flipped,                   \* of the byte being driven: its drift; disturbed
  expected,                         \* bytes driven and not yet received
  flushing, noticed,                \* a break is on the line or just was; its framing error
  m_state, m_cnt, m_bit, m_shift,   \* the monitor
  sent, rx_q                        \* bytes given to the transmitter, and monitored

driveVars == <<d_state, d_cnt, d_bit, d_shift, drift, flipped>>
boardVars == <<expected, flushing, noticed>>
monVars == <<m_state, m_cnt, m_bit, m_shift, sent, rx_q>>
benchVars == <<rxVars, txVars, driveVars, boardVars, monVars>>

-----------------------------------------------------------------------------
(* UartBfm::drive.  rxd: the level driven; new: the byte begun, if any.    *)

Frame(byte) == <<0>> \o byte \o <<1>>
FRAME_BITS == DATA_BITS + 2
BREAK == (DATA_BITS + 7) * CLKS_PER_BIT   \* of the line, and of the silence after it

DriveGap(rxd, new) ==
  /\ d_state = "idle" /\ rxd = 1 /\ new = <<>>
  /\ d_cnt' = IF d_cnt > 0 THEN d_cnt - 1 ELSE 0
  /\ UNCHANGED <<d_state, d_bit, d_shift, drift, flipped, flushing>>

\* Bound: the driver stops when as many bytes were not received.
MAX_UNSEEN == 2

DriveByte(rxd, new) ==
  /\ Len(expected) < MAX_UNSEEN
  /\ d_state = "idle" /\ d_cnt = 0 /\ rxd = 0
  /\ \E b \in BYTES : new = <<b>> /\ d_shift' = b
  /\ d_state' = "shift" /\ d_cnt' = 1 /\ d_bit' = 0 /\ drift' \in -DRIFT .. DRIFT /\ flipped' = FALSE
  /\ flushing' = FALSE

\* The first cells of a byte take up its drift, a clock each.
CellLength ==
  IF d_bit < drift THEN CLKS_PER_BIT + 1
  ELSE IF d_bit < -drift THEN CLKS_PER_BIT - 1 ELSE CLKS_PER_BIT

DriveCell ==
  \/ d_cnt + 1 < CellLength /\ d_cnt' = d_cnt + 1 /\ UNCHANGED <<d_state, d_bit, d_shift, drift>>
  \/ /\ d_cnt + 1 = CellLength
     /\ \/ /\ d_bit + 1 < FRAME_BITS /\ d_bit' = d_bit + 1 /\ d_cnt' = 0
           /\ UNCHANGED <<d_state, d_shift, drift>>
        \/ /\ d_bit + 1 = FRAME_BITS /\ d_bit' = 0 /\ d_cnt' \in GAPS
           /\ d_state' = "idle" /\ drift' = 0 /\ d_shift' = Zeros

\* One clock of the start bit or a data bit may be disturbed.
DriveBit(rxd, new) ==
  /\ d_state = "shift" /\ new = <<>>
  /\ \/ rxd = Frame(d_shift)[d_bit + 1] /\ flipped' = (flipped /\ d_bit <= DATA_BITS)
     \/ /\ ~flipped /\ d_bit <= DATA_BITS
        /\ rxd = 1 - Frame(d_shift)[d_bit + 1] /\ flipped' = TRUE
  /\ DriveCell
  /\ UNCHANGED flushing

\* A pulse, or a break: the line is low for so long and then idle for so long.
DriveLow(rxd, new) ==
  /\ new = <<>> /\ rxd = 0
  /\ \/ /\ d_state = "idle" /\ d_cnt = 0
        /\ \/ d_state' = "pulse" /\ d_cnt' \in {n - 1 : n \in PULSES} /\ flushing' = FALSE
           \/ d_state' = "break" /\ d_cnt' = BREAK - 1 /\ flushing' = TRUE
     \/ /\ d_state \in {"pulse", "break"} /\ d_cnt > 0
        /\ d_cnt' = d_cnt - 1 /\ UNCHANGED <<d_state, flushing>>
  /\ UNCHANGED <<d_bit, d_shift, drift, flipped>>

DriveRelease(rxd, new) ==
  /\ new = <<>> /\ rxd = 1 /\ d_cnt = 0
  /\ \/ d_state = "pulse" /\ d_cnt' = CLKS_PER_BIT
     \/ d_state = "break" /\ d_cnt' = BREAK
  /\ d_state' = "idle"
  /\ UNCHANGED <<d_bit, d_shift, drift, flipped, flushing>>

Drive(rxd, new) ==
  \/ DriveGap(rxd, new) \/ DriveByte(rxd, new) \/ DriveBit(rxd, new)
  \/ DriveLow(rxd, new) \/ DriveRelease(rxd, new)

\* The scoreboard of tb_uart_rx: what is flushed after a break is not expected.
Score(new) ==
  /\ expected' = (IF received # <<>> /\ expected # <<>> THEN Tail(expected) ELSE expected) \o new
  /\ noticed' = (flushing' /\ ((noticed /\ flushing) \/ frame_err))

RxBench ==
  /\ \E rxd \in Bit, new \in {<<>>} \cup {<<b>> : b \in BYTES} :
       Drive(rxd, new) /\ RxEdge(rxd) /\ Score(new)
  /\ UNCHANGED <<txVars, monVars>>

-----------------------------------------------------------------------------
(* UartBfm::monitor. *)

MonitorIdle ==
  /\ m_state = 0 /\ UNCHANGED <<m_bit, m_shift, rx_q>>
  /\ IF txd = 0 THEN m_state' = 1 /\ m_cnt' = 0 ELSE UNCHANGED <<m_state, m_cnt>>

MonitorCount(cells) ==
  /\ m_cnt + 1 < cells /\ m_cnt' = m_cnt + 1 /\ UNCHANGED <<m_state, m_bit, m_shift, rx_q>>

MonitorStart ==
  /\ m_state = 1
  /\ \/ MonitorCount(MID)
     \/ /\ m_cnt + 1 >= MID /\ UNCHANGED rx_q
        /\ IF txd = 0 THEN m_state' = 2 /\ m_cnt' = 0 /\ m_bit' = 0 /\ m_shift' = Zeros
           ELSE m_state' = 0 /\ m_cnt' = m_cnt + 1 /\ UNCHANGED <<m_bit, m_shift>>

MonitorData ==
  /\ m_state = 2
  /\ \/ MonitorCount(CLKS_PER_BIT)
     \/ /\ m_cnt + 1 >= CLKS_PER_BIT /\ m_cnt' = 0 /\ UNCHANGED rx_q
        /\ m_shift' = Append(Tail(m_shift), txd) /\ m_bit' = m_bit + 1
        /\ m_state' = IF m_bit + 1 = DATA_BITS THEN 3 ELSE 2

MonitorStop ==
  /\ m_state = 3
  /\ \/ MonitorCount(CLKS_PER_BIT)
     \/ /\ m_cnt + 1 >= CLKS_PER_BIT /\ m_cnt' = 0 /\ m_state' = 0
        /\ rx_q' = IF txd = 1 THEN Append(rx_q, m_shift) ELSE rx_q
        /\ UNCHANGED <<m_bit, m_shift>>

Monitor == MonitorIdle \/ MonitorStart \/ MonitorData \/ MonitorStop

\* The bench keeps all bytes to the end; equal heads are dropped here as they
\* come, to keep the queues short.
Agreed == sent # <<>> /\ rx_q # <<>> /\ Head(sent) = Head(rx_q)

TxBench ==
  /\ UNCHANGED <<rxVars, driveVars, boardVars>>
  /\ \/ /\ Agreed /\ sent' = Tail(sent) /\ rx_q' = Tail(rx_q)
        /\ UNCHANGED <<txVars, m_state, m_cnt, m_bit, m_shift>>
     \/ /\ ~Agreed /\ Monitor
        /\ \E offer \in {<<>>} \cup {<<b>> : b \in BYTES} :
             /\ TxEdge(offer)
             /\ sent' = IF TxReady THEN sent \o offer ELSE sent

-----------------------------------------------------------------------------
BenchInit ==
  /\ RxInit /\ TxInit
  /\ d_state = "idle" /\ d_cnt = 0 /\ d_bit = 0 /\ d_shift = Zeros /\ drift = 0 /\ flipped = FALSE
  /\ expected = <<>> /\ flushing = FALSE /\ noticed = FALSE
  /\ m_state = 0 /\ m_cnt = 0 /\ m_bit = 0 /\ m_shift = Zeros /\ sent = <<>> /\ rx_q = <<>>

(* The benches tb_fifo, tb_uart_rx and tb_uart_tx, one of them at a time.   *)

VARIABLE bench

\* Bytes whose bits change often, seldom and never.
TestBytes == {<<0, 1, 0, 1, 0, 1>>, <<1, 0, 0, 0, 1, 1>>, <<1, 1, 1, 1, 1, 1>>, Zeros}

\* What the storage holds at first matters to its own bench only.
Init ==
  /\ FifoInit /\ BenchInit /\ bench \in {"fifo", "uart_rx", "uart_tx"}
  /\ bench # "fifo" => rd_data = 1 /\ \A k \in DOMAIN mem : mem[k] = 1

Fifo == bench = "fifo" /\ FifoNext /\ UNCHANGED <<bench, benchVars>>
Rx == bench = "uart_rx" /\ RxBench /\ UNCHANGED <<bench, fifoVars>>
Tx == bench = "uart_tx" /\ TxBench /\ UNCHANGED <<bench, fifoVars>>

Next == Fifo \/ Rx \/ Tx

Spec == Init /\ [][Next]_<<bench, fifoVars, benchVars>>

\* The clock ticks.
FairSpec == Spec /\ WF_<<fifoVars, benchVars>>(Next)

-----------------------------------------------------------------------------
\* The registers of the receiver, the transmitter and the bench keep their ranges.
BenchTypeOK ==
  /\ sync \in Bit \X Bit /\ rx_state \in States /\ rx_cnt \in 0 .. CLKS_PER_BIT - 1
  /\ rx_bit \in 0 .. DATA_BITS - 1 /\ rx_shift \in Byte /\ (received # <<>> => received[1] \in Byte)
  /\ samp \in Bit \X Bit \X Bit /\ ~(received # <<>> /\ frame_err)
  /\ tx_state \in States /\ tx_cnt \in 0 .. CLKS_PER_BIT - 1 /\ tx_bit \in 0 .. DATA_BITS - 1
  /\ tx_shift \in Byte /\ txd \in Bit
  /\ d_bit \in 0 .. FRAME_BITS - 1 /\ drift \in -DRIFT .. DRIFT /\ d_shift \in Byte
  /\ m_state \in 0 .. 3 /\ m_bit \in 0 .. DATA_BITS /\ m_shift \in Byte

\* A framing error is a break's, and a break is one.
BreaksAreNoticed ==
  /\ frame_err => flushing
  /\ flushing /\ d_state = "idle" /\ d_cnt = 0 => noticed

\* A byte is received as it was driven, in order, and once, though the
\* sender's clock runs off, the line is disturbed for a clock, or a pulse of half a
\* bit came before.  Only a break may leave a stray byte.
ReceivedAsDriven ==
  /\ BenchTypeOK /\ BreaksAreNoticed
  /\ received # <<>> /\ ~flushing => expected # <<>> /\ Head(received) = Head(expected)

\* The monitor sees the bytes the transmitter took, in order, back to back or not;
\* at most two are on the line.
SentAsTaken ==
  /\ rx_q # <<>> => sent # <<>> /\ Head(rx_q) = Head(sent)
  /\ Len(sent) <= 2

\* A byte driven is received, a byte taken is seen, and the transmitter takes the
\* next one.
EveryByteArrives ==
  /\ expected # <<>> ~> expected = <<>> \/ received # <<>>
  /\ sent # <<>> ~> rx_q # <<>>
  /\ ~TxReady ~> TxReady
=============================================================================
