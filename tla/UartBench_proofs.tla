-------------------------- MODULE UartBench_proofs --------------------------
(***************************************************************************)
(* What TLAPS proves of the UART and the FIFO, for every bit time, width   *)
(* and depth: the transmitter drives every byte it takes so that the       *)
(* monitor of the testbench reads it, the receiver reads every byte driven *)
(* with a tolerated drift and disturbance, and the FIFO is a bounded       *)
(* queue, its level the distance of its pointers.                          *)
(***************************************************************************)
EXTENDS UartBench, SequenceTheorems, TLAPS

-----------------------------------------------------------------------------
(* The transmitter and the monitor. *)

\* A shift register takes a bit at its end.
LEMMA ShiftsIn ==
  ASSUME NEW s \in Byte, NEW x \in Bit
  PROVE  /\ Append(Tail(s), x) \in Byte
         /\ Append(Tail(s), x)[DATA_BITS] = x
         /\ \A i \in 1 .. DATA_BITS - 1 : Append(Tail(s), x)[i] = s[i + 1]
         /\ Head(s) = s[1] /\ s[1] \in Bit
<1> USE UartAssumption
<1>1. s \in Seq(Bit) /\ Len(s) = DATA_BITS
  <2>1. DOMAIN s = 1 .. DATA_BITS /\ \A i \in 1 .. DATA_BITS : s[i] \in Bit
    BY DEF Byte
  <2>2. s \in [1 .. DATA_BITS -> Bit] /\ DATA_BITS \in Nat
    BY DEF Byte
  <2>3. s \in Seq(Bit)
    BY <2>2, SeqDef
  <2> QED
    BY <2>1, <2>3, LenProperties
<1>2. s # <<>>
  BY <1>1
<1>3. /\ Tail(s) \in Seq(Bit) /\ Len(Tail(s)) = DATA_BITS - 1
      /\ \A i \in 1 .. DATA_BITS - 1 : Tail(s)[i] = s[i + 1]
  BY <1>1, <1>2, HeadTailProperties
<1> DEFINE t == Append(Tail(s), x)
<1>4. /\ t \in Seq(Bit) /\ Len(t) = DATA_BITS /\ t[DATA_BITS] = x
      /\ \A i \in 1 .. DATA_BITS - 1 : t[i] = s[i + 1]
  BY <1>3, AppendProperties
<1>5. t \in Byte
  BY <1>4, LenProperties DEF Byte
<1>6. Head(s) = s[1] /\ s[1] \in Bit
  BY <1>1, <1>2
<1> QED
  BY <1>4, <1>5, <1>6

\* The cell of the byte that the transmitter drives: 0 its start, the last its stop.
TxCell ==
  CASE tx_state = "START" -> 0
    [] tx_state = "DATA"  -> tx_bit + 1
    [] tx_state = "STOP"  -> DATA_BITS + 1
    [] OTHER              -> DATA_BITS + 2

TxTypes ==
  /\ tx_state \in States /\ tx_cnt \in 0 .. CLKS_PER_BIT - 1 /\ tx_bit \in 0 .. DATA_BITS - 1
  /\ tx_shift \in Byte /\ txd \in Bit
  /\ m_state \in 0 .. 3 /\ m_cnt \in Nat /\ m_bit \in 0 .. DATA_BITS /\ m_shift \in Byte

\* The monitor samples half a cell and a clock behind the transmitter's edges.
InPhase(cell) ==
  IF m_cnt + MID + 1 < CLKS_PER_BIT
  THEN TxCell = cell /\ tx_cnt = m_cnt + MID + 1
  ELSE TxCell = cell + 1 /\ tx_cnt = (m_cnt + MID + 1) - CLKS_PER_BIT

Phase ==
  /\ m_state = 0 => \/ tx_state = "IDLE"
                    \/ tx_state = "START" /\ tx_cnt = 0
                    \/ tx_state = "STOP" /\ tx_cnt > MID
  /\ m_state = 1 => tx_state = "START" /\ tx_cnt = m_cnt + 1 /\ m_cnt < MID
  /\ m_state = 2 => m_cnt < CLKS_PER_BIT /\ m_bit < DATA_BITS /\ InPhase(m_bit)
  /\ m_state = 3 => m_cnt < CLKS_PER_BIT /\ m_bit = DATA_BITS /\ InPhase(DATA_BITS)
  /\ tx_state = "START" => tx_bit = 0

\* A byte is under way until the monitor has its stop bit.
Pending == m_state # 0 \/ tx_state = "START"

\* The levels that follow are those of the byte b.
Drives(b) ==
  /\ tx_state \in {"IDLE", "STOP"} => txd = 1
  /\ tx_state = "START" => txd = 0 /\ tx_shift = b
  /\ tx_state = "DATA" =>
       /\ txd = b[tx_bit + 1]
       /\ \A k \in 1 .. DATA_BITS - 1 : k + tx_bit + 1 <= DATA_BITS => tx_shift[k] = b[k + tx_bit + 1]

\* The bits monitored so far are those of the byte b.
Collects(b) ==
  m_state \in {2, 3} => \A k \in 1 .. DATA_BITS : k <= m_bit => m_shift[(DATA_BITS - m_bit) + k] = b[k]

\* What was taken and not yet compared is the byte under way, or one just seen.
SentInv ==
  /\ Pending => \E b \in Byte : sent = <<b>> /\ rx_q = <<>> /\ Drives(b) /\ Collects(b)
  /\ ~Pending => txd = 1 /\ rx_q = sent /\ (sent = <<>> \/ \E b \in Byte : sent = <<b>>)

TxInv == TxTypes /\ Phase /\ SentInv

\* One clock of the transmitter and the monitor, which has compared what came.
TxClock(offer) == Monitor /\ TxEdge(offer) /\ sent' = (IF TxReady THEN sent \o offer ELSE sent)

LEMMA TxKeepsTypes ==
  ASSUME TxTypes, Phase, NEW offer \in {<<>>} \cup {<<b>> : b \in Byte}, Monitor, TxEdge(offer)
  PROVE  TxTypes'
<1> USE UartAssumption
<1>1. /\ tx_state' \in States /\ tx_cnt' \in 0 .. CLKS_PER_BIT - 1 /\ tx_bit' \in 0 .. DATA_BITS - 1
  BY DEF TxEdge, TxIdle, TxStart, TxData, TxStop, TxCount, TxCellEnd, CellEnd, ShiftOut, TxTypes, States
<1>2. tx_shift' \in Byte /\ txd' \in Bit
  <2>1. CASE TxIdle(offer)
    BY <2>1 DEF TxIdle, TxTypes, Bit
  <2>2. CASE ShiftOut
    <3>1. 1 \in Bit
      BY DEF Bit
    <3> QED
      BY <2>2, <3>1, ShiftsIn DEF ShiftOut, TxTypes
  <2>3. CASE tx_shift' = tx_shift /\ (txd' = txd \/ txd' = 1)
    BY <2>3 DEF TxTypes, Bit
  <2> QED
    BY <2>1, <2>2, <2>3, Zenon DEF TxEdge, TxStart, TxData, TxStop, TxCount
<1>3. m_state' \in 0 .. 3 /\ m_cnt' \in Nat /\ m_bit' \in 0 .. DATA_BITS
  BY DEF Monitor, MonitorIdle, MonitorStart, MonitorData, MonitorStop, MonitorCount, TxTypes, Phase
<1>4. m_shift' \in Byte
  <2>1. Zeros \in Byte
    BY DEF Zeros, Byte, Bit
  <2>2. Append(Tail(m_shift), txd) \in Byte
    BY ShiftsIn DEF TxTypes
  <2> QED
    BY <2>1, <2>2 DEF Monitor, MonitorIdle, MonitorStart, MonitorData, MonitorStop, MonitorCount, TxTypes
<1> QED
  BY <1>1, <1>2, <1>3, <1>4 DEF TxTypes

\* The start bit is seen in the clock it begins.
LEMMA SeesStart ==
  ASSUME TxInv, NEW offer, TxClock(offer), m_state = 0, tx_state = "START"
  PROVE  Phase' /\ SentInv'
<1> USE UartAssumption
<1>1. tx_cnt = 0 /\ tx_bit = 0
  BY DEF TxInv, Phase
<1>2. PICK b \in Byte : sent = <<b>> /\ rx_q = <<>> /\ Drives(b) /\ Collects(b)
  BY DEF TxInv, SentInv, Pending
<1>3. txd = 0
  BY <1>2 DEF Drives
<1>4. m_state' = 1 /\ m_cnt' = 0 /\ rx_q' = rx_q
  BY <1>3 DEF TxClock, Monitor, MonitorIdle, MonitorStart, MonitorData, MonitorStop
<1>5. tx_state' = "START" /\ tx_cnt' = 1 /\ tx_bit' = 0 /\ tx_shift' = tx_shift /\ txd' = txd /\ sent' = sent
  <2>1. ~CellEnd(tx_cnt)
    BY <1>1 DEF CellEnd
  <2> QED
    BY <1>1, <2>1 DEF TxClock, TxEdge, TxIdle, TxStart, TxData, TxStop, TxCount, TxReady, TxCellEnd
<1>6. Phase'
  BY <1>4, <1>5 DEF Phase, MID
<1>7. SentInv'
  BY <1>2, <1>4, <1>5 DEF SentInv, Pending, Drives, Collects
<1> QED
  BY <1>6, <1>7

\* The monitor waits on a high line, for the next byte.
LEMMA SeesNone ==
  ASSUME TxInv, NEW offer \in {<<>>} \cup {<<b>> : b \in Byte}, TxClock(offer), ~Agreed,
         m_state = 0, tx_state # "START"
  PROVE  Phase' /\ SentInv'
<1> USE UartAssumption
<1>1. ~Pending /\ txd = 1 /\ sent = <<>> /\ rx_q = <<>>
  <2>1. ~Pending /\ txd = 1 /\ rx_q = sent
    BY DEF TxInv, SentInv, Pending
  <2> QED
    BY <2>1 DEF Agreed
<1>2. m_state' = 0 /\ rx_q' = <<>>
  BY <1>1 DEF TxClock, Monitor, MonitorIdle, MonitorStart, MonitorData, MonitorStop
<1>3. CASE tx_state = "STOP"
  <2>1. tx_cnt > MID /\ tx_cnt \in Nat /\ MID \in Nat
    BY <1>3 DEF TxInv, Phase, TxTypes, MID
  <2>2. /\ txd' = 1 /\ sent' = <<>>
        /\ tx_state' = "IDLE" \/ (tx_state' = "STOP" /\ tx_cnt' = tx_cnt + 1)
    BY <1>1, <1>3 DEF TxClock, TxEdge, TxIdle, TxStart, TxData, TxStop, TxCount, TxReady
  <2>3. Phase'
    BY <1>2, <2>1, <2>2 DEF Phase, MID
  <2>4. SentInv'
    BY <1>2, <2>2 DEF SentInv, Pending
  <2> QED
    BY <2>3, <2>4
<1>4. CASE tx_state = "IDLE" /\ offer = <<>>
  <2>1. tx_state' = "IDLE" /\ txd' = 1 /\ sent' = <<>>
    BY <1>1, <1>4 DEF TxClock, TxEdge, TxIdle, TxStart, TxData, TxStop, TxReady
  <2> QED
    BY <1>2, <2>1 DEF Phase, SentInv, Pending
<1>5. CASE tx_state = "IDLE" /\ offer # <<>>
  <2>1. PICK b \in Byte : offer = <<b>>
    BY <1>5
  <2>2. /\ tx_state' = "START" /\ tx_cnt' = 0 /\ tx_bit' = 0
        /\ txd' = 0 /\ tx_shift' = b /\ sent' = <<b>>
    BY <1>1, <1>5, <2>1 DEF TxClock, TxEdge, TxIdle, TxStart, TxData, TxStop, TxReady
  <2>3. Phase'
    BY <1>2, <2>2 DEF Phase
  <2>4. SentInv'
    BY <1>2, <2>2 DEF SentInv, Pending, Drives, Collects
  <2> QED
    BY <2>3, <2>4
<1>6. tx_state \in {"IDLE", "START", "STOP"}
  BY DEF TxInv, Phase
<1> QED
  BY <1>3, <1>4, <1>5, <1>6

\* What the transmitter does in the middle of a byte: it moves on by a clock, and its
\* next cell begins as the last one ends.
LEMMA TxMovesOn ==
  ASSUME TxInv, NEW offer, TxEdge(offer), tx_state # "IDLE"
  PROVE  /\ tx_cnt + 1 < CLKS_PER_BIT => TxCell' = TxCell /\ tx_cnt' = tx_cnt + 1
         /\ tx_cnt + 1 = CLKS_PER_BIT => TxCell' = TxCell + 1 /\ tx_cnt' = 0
<1> USE UartAssumption
<1>1. tx_cnt \in 0 .. CLKS_PER_BIT - 1 /\ tx_bit \in 0 .. DATA_BITS - 1 /\ (tx_state = "START" => tx_bit = 0)
  BY DEF TxInv, TxTypes, Phase
<1>2. CASE tx_cnt + 1 < CLKS_PER_BIT
  <2>1. tx_cnt' = tx_cnt + 1 /\ tx_state' = tx_state /\ tx_bit' = tx_bit
    BY <1>1, <1>2 DEF TxEdge, TxIdle, TxStart, TxData, TxStop, TxCount, TxReady, TxCellEnd, CellEnd
  <2> QED
    BY <1>1, <1>2, <2>1 DEF TxCell
<1>3. CASE tx_cnt + 1 = CLKS_PER_BIT
  <2>1. CellEnd(tx_cnt)
    BY <1>1, <1>3 DEF CellEnd
  <2>2. CASE tx_state = "START"
    BY <1>1, <1>3, <2>1, <2>2 DEF TxCell, TxEdge, TxIdle, TxStart, TxData, TxStop, TxReady, TxCellEnd
  <2>3. CASE tx_state = "DATA"
    BY <1>1, <1>3, <2>1, <2>3 DEF TxCell, TxEdge, TxIdle, TxStart, TxData, TxStop, TxReady, TxCellEnd
  <2>4. CASE tx_state = "STOP"
    BY <1>1, <1>3, <2>1, <2>4 DEF TxCell, TxEdge, TxIdle, TxStart, TxData, TxStop, TxReady, TxCellEnd
  <2> QED
    BY <2>2, <2>3, <2>4 DEF TxInv, TxTypes, States
<1> QED
  BY <1>1, <1>2, <1>3

\* It goes on to drive the same byte.
LEMMA TxDrivesOn ==
  ASSUME TxInv, NEW offer, TxEdge(offer), tx_state # "IDLE", NEW b \in Byte, Drives(b)
  PROVE  Drives(b)'
<1> USE UartAssumption
<1>1. /\ tx_bit \in 0 .. DATA_BITS - 1 /\ (tx_state = "START" => tx_bit = 0)
      /\ tx_shift \in Byte /\ 1 \in Bit
  BY DEF TxInv, TxTypes, Phase, Bit
<1>2. CASE UNCHANGED <<tx_state, tx_bit, tx_shift, txd>>
  BY <1>2 DEF Drives
<1>3. CASE txd' = 1 /\ tx_state' \in {"IDLE", "STOP"}
  BY <1>3 DEF Drives
<1>4. CASE ShiftOut /\ tx_state' = "DATA" /\ ~UNCHANGED <<tx_state, tx_bit, tx_shift, txd>>
  <2> DEFINE n == IF tx_state = "START" THEN 0 ELSE tx_bit + 1
  <2>1. /\ tx_bit' = n /\ n \in 0 .. DATA_BITS - 1
        /\ tx_state \in {"START", "DATA"}
    BY <1>1, <1>4 DEF TxEdge, TxIdle, TxStart, TxData, TxStop, TxReady, TxCount
  <2>2. \A k \in 1 .. DATA_BITS : k + n <= DATA_BITS => tx_shift[k] = b[k + n]
    <3>1. CASE tx_state = "START"
      BY <3>1, <1>1 DEF Drives
    <3>2. CASE tx_state = "DATA"
      <4> SUFFICES ASSUME NEW k \in 1 .. DATA_BITS, k + n <= DATA_BITS PROVE tx_shift[k] = b[k + n]
        OBVIOUS
      <4>1. k \in 1 .. DATA_BITS - 1 /\ k + tx_bit + 1 <= DATA_BITS /\ k + n = k + tx_bit + 1
        BY <3>2, <1>1
      <4> QED
        BY <3>2, <4>1 DEF Drives
    <3> QED
      BY <2>1, <3>1, <3>2
  <2> HIDE DEF n
  <2>3. /\ txd' = tx_shift[1]
        /\ \A k \in 1 .. DATA_BITS - 1 : tx_shift'[k] = tx_shift[k + 1]
    BY <1>1, <1>4, ShiftsIn DEF ShiftOut
  <2>4. txd' = b[n + 1]
    <3>1. 1 \in 1 .. DATA_BITS /\ 1 + n <= DATA_BITS /\ 1 + n = n + 1
      BY <2>1
    <3> QED
      BY <2>2, <2>3, <3>1
  <2>5. ASSUME NEW k \in 1 .. DATA_BITS - 1, k + n + 1 <= DATA_BITS PROVE tx_shift'[k] = b[k + n + 1]
    <3>1. k + 1 \in 1 .. DATA_BITS /\ (k + 1) + n <= DATA_BITS /\ (k + 1) + n = k + n + 1
      BY <2>1, <2>5
    <3>2. tx_shift[k + 1] = b[(k + 1) + n]
      BY <2>2, <3>1
    <3> QED
      BY <2>3, <3>1, <3>2
  <2> QED
    BY <1>4, <2>1, <2>4, <2>5 DEF Drives
<1> QED
  BY <1>2, <1>3, <1>4, <1>1 DEF TxEdge, TxIdle, TxStart, TxData, TxStop, TxReady, TxCount, Drives

\* The cell names the state.
LEMMA CellNames ==
  ASSUME TxTypes
  PROVE  /\ TxCell \in Nat
         /\ TxCell = 0 <=> tx_state = "START"
         /\ TxCell \in 1 .. DATA_BITS => tx_state = "DATA" /\ tx_bit + 1 = TxCell
         /\ TxCell = DATA_BITS + 1 <=> tx_state = "STOP"
         /\ TxCell < DATA_BITS + 2 => tx_state # "IDLE"
BY UartAssumption DEF TxCell, TxTypes, States

\* In the middle of a byte transmitter and monitor move on together.
LEMMA StaysInPhase ==
  ASSUME TxInv, NEW offer, TxEdge(offer), tx_state # "IDLE", NEW cell \in Nat, InPhase(cell), m_cnt < CLKS_PER_BIT
  PROVE  /\ m_cnt + 1 < CLKS_PER_BIT /\ m_cnt' = m_cnt + 1 => InPhase(cell)'
         /\ m_cnt + 1 = CLKS_PER_BIT => TxCell = cell + 1 /\ tx_cnt = MID
         /\ m_cnt + 1 = CLKS_PER_BIT => TxCell' = cell + 1 /\ tx_cnt' = MID + 1
<1> USE UartAssumption
<1>1. m_cnt \in Nat /\ tx_cnt \in 0 .. CLKS_PER_BIT - 1 /\ MID \in Nat /\ MID + 1 < CLKS_PER_BIT /\ TxCell \in Nat
  BY CellNames DEF TxInv, TxTypes, MID
<1> HIDE DEF MID
<1>2. /\ tx_cnt + 1 < CLKS_PER_BIT => TxCell' = TxCell /\ tx_cnt' = tx_cnt + 1
      /\ tx_cnt + 1 = CLKS_PER_BIT => TxCell' = TxCell + 1 /\ tx_cnt' = 0
  BY TxMovesOn
<1>3. IF m_cnt + MID + 1 < CLKS_PER_BIT
      THEN TxCell = cell /\ tx_cnt = m_cnt + MID + 1
      ELSE TxCell = cell + 1 /\ tx_cnt = (m_cnt + MID + 1) - CLKS_PER_BIT
  BY DEF InPhase
<1>4. ASSUME m_cnt + 1 < CLKS_PER_BIT, m_cnt' = m_cnt + 1 PROVE InPhase(cell)'
  <2>1. CASE m_cnt + MID + 2 < CLKS_PER_BIT
    BY <1>1, <1>2, <1>3, <1>4, <2>1 DEF InPhase, MID
  <2>2. CASE m_cnt + MID + 2 >= CLKS_PER_BIT
    BY <1>1, <1>2, <1>3, <1>4, <2>2 DEF InPhase, MID
  <2> QED
    BY <1>1, <2>1, <2>2
<1>5. ASSUME m_cnt + 1 = CLKS_PER_BIT
      PROVE  TxCell = cell + 1 /\ tx_cnt = MID /\ TxCell' = cell + 1 /\ tx_cnt' = MID + 1
  BY <1>1, <1>2, <1>3, <1>5
<1> QED
  BY <1>4, <1>5

\* Half a cell into the start bit the monitor begins to count cells.
LEMMA SeesStartBit ==
  ASSUME TxInv, NEW offer, TxClock(offer), m_state = 1, NEW b \in Byte,
         sent = <<b>>, rx_q = <<>>, Drives(b)
  PROVE  /\ Phase' /\ Pending' /\ sent' = <<b>> /\ rx_q' = <<>> /\ Collects(b)'
<1> USE UartAssumption
<1>1. /\ tx_state = "START" /\ tx_cnt = m_cnt + 1 /\ m_cnt < MID /\ m_cnt \in Nat /\ MID \in Nat /\ MID + 1 < CLKS_PER_BIT
      /\ txd = 0 /\ tx_bit = 0
  BY DEF TxInv, Phase, TxTypes, MID, Drives
<1> HIDE DEF MID
<1>2. tx_state' = "START" /\ tx_cnt' = m_cnt + 2 /\ tx_bit' = 0 /\ sent' = sent
  BY <1>1 DEF TxClock, TxEdge, TxIdle, TxStart, TxData, TxStop, TxReady, TxCount, TxCellEnd, CellEnd
<1>3. /\ rx_q' = rx_q
      /\ \/ m_state' = 1 /\ m_cnt + 1 < MID /\ m_cnt' = m_cnt + 1
         \/ m_state' = 2 /\ m_cnt + 1 >= MID /\ m_cnt' = 0 /\ m_bit' = 0
  BY <1>1 DEF TxClock, Monitor, MonitorIdle, MonitorStart, MonitorData, MonitorStop, MonitorCount
<1>4. Phase' /\ Collects(b)'
  <2>1. CASE m_state' = 1 /\ m_cnt + 1 < MID /\ m_cnt' = m_cnt + 1
    BY <1>1, <1>2, <2>1 DEF Phase, Collects, MID
  <2>2. CASE m_state' = 2 /\ m_cnt + 1 >= MID /\ m_cnt' = 0 /\ m_bit' = 0
    <3>1. TxCell' = 0
      BY <1>2 DEF TxCell
    <3>2. tx_cnt' = MID + 1
      BY <1>1, <1>2, <2>2
    <3>3. InPhase(m_bit)'
      BY <1>1, <2>2, <3>1, <3>2 DEF InPhase, MID
    <3> QED
      BY <1>1, <1>2, <2>2, <3>3 DEF Phase, Collects
  <2> QED
    BY <1>3, <2>1, <2>2
<1> QED
  BY <1>2, <1>3, <1>4 DEF Pending

\* Each data bit is sampled in the middle of its cell.
LEMMA SeesDataBit ==
  ASSUME TxInv, NEW offer, TxClock(offer), m_state = 2, NEW b \in Byte,
         sent = <<b>>, rx_q = <<>>, Drives(b), Collects(b)
  PROVE  /\ Phase' /\ Pending' /\ sent' = <<b>> /\ rx_q' = <<>> /\ Collects(b)'
<1> USE UartAssumption
<1>1. /\ m_cnt < CLKS_PER_BIT /\ m_cnt \in Nat /\ m_bit \in 0 .. DATA_BITS - 1 /\ InPhase(m_bit) /\ m_shift \in Byte
      /\ txd \in Bit /\ TxTypes
  BY DEF TxInv, Phase, TxTypes
<1>2. TxCell < DATA_BITS + 2 /\ TxCell \in Nat
  BY <1>1, CellNames DEF InPhase
<1>3. tx_state # "IDLE"
  BY <1>1, <1>2, CellNames
<1>4. sent' = sent
  BY <1>3 DEF TxClock, TxReady
<1>5. tx_state' = "START" => tx_bit' = 0
  BY <1>3 DEF TxInv, Phase, TxClock, TxEdge, TxIdle, TxStart, TxData, TxStop, TxReady, TxCount
<1>6. /\ m_cnt + 1 < CLKS_PER_BIT /\ m_cnt' = m_cnt + 1 => InPhase(m_bit)'
      /\ m_cnt + 1 = CLKS_PER_BIT => TxCell = m_bit + 1
      /\ m_cnt + 1 = CLKS_PER_BIT => TxCell' = m_bit + 1 /\ tx_cnt' = MID + 1
  <2>1. m_bit \in Nat
    BY <1>1
  <2> SUFFICES ASSUME m_cnt + 1 < CLKS_PER_BIT, m_cnt' = m_cnt + 1, m_bit' # m_bit
               PROVE  FALSE
    BY <1>1, <1>3, <2>1, StaysInPhase DEF TxClock, InPhase
  <2> QED
    BY <1>1 DEF TxClock, Monitor, MonitorIdle, MonitorStart, MonitorData, MonitorStop, MonitorCount
<1>7. \/ /\ m_state' = 2 /\ m_cnt + 1 < CLKS_PER_BIT /\ m_cnt' = m_cnt + 1
         /\ UNCHANGED <<m_bit, m_shift, rx_q>>
      \/ /\ m_cnt + 1 = CLKS_PER_BIT /\ m_cnt' = 0 /\ UNCHANGED rx_q
         /\ m_shift' = Append(Tail(m_shift), txd) /\ m_bit' = m_bit + 1
         /\ m_state' = IF m_bit + 1 = DATA_BITS THEN 3 ELSE 2
  BY <1>1 DEF TxClock, Monitor, MonitorIdle, MonitorStart, MonitorData, MonitorStop, MonitorCount
<1>8. CASE m_cnt + 1 < CLKS_PER_BIT
  BY <1>1, <1>4, <1>5, <1>6, <1>7, <1>8 DEF Phase, Pending, Collects
<1>9. CASE m_cnt + 1 = CLKS_PER_BIT
  <2>1. /\ m_cnt' = 0 /\ UNCHANGED rx_q
        /\ m_shift' = Append(Tail(m_shift), txd) /\ m_bit' = m_bit + 1
        /\ m_state' = IF m_bit + 1 = DATA_BITS THEN 3 ELSE 2
    BY <1>1, <1>7, <1>9
  <2>2. txd = b[m_bit + 1]
    <3>1. tx_state = "DATA" /\ tx_bit + 1 = m_bit + 1
      BY <1>1, <1>6, <1>9, CellNames
    <3> QED
      BY <3>1 DEF Drives
  <2>3. m_shift'[DATA_BITS] = txd /\ \A i \in 1 .. DATA_BITS - 1 : m_shift'[i] = m_shift[i + 1]
    BY <1>1, <2>1, ShiftsIn
  <2>4. ASSUME NEW k \in 1 .. DATA_BITS, k <= m_bit + 1
        PROVE  m_shift'[(DATA_BITS - (m_bit + 1)) + k] = b[k]
    <3>1. CASE k = m_bit + 1
      <4>1. (DATA_BITS - (m_bit + 1)) + k = DATA_BITS
        BY <1>1, <3>1
      <4> QED
        BY <2>2, <2>3, <3>1, <4>1
    <3>2. CASE k # m_bit + 1
      <4>1. /\ (DATA_BITS - (m_bit + 1)) + k \in 1 .. DATA_BITS - 1
            /\ ((DATA_BITS - (m_bit + 1)) + k) + 1 = (DATA_BITS - m_bit) + k
            /\ k <= m_bit
        BY <1>1, <2>4, <3>2
      <4>2. m_shift[(DATA_BITS - m_bit) + k] = b[k]
        BY <4>1 DEF Collects
      <4> QED
        BY <2>3, <4>1, <4>2
    <3> QED
      BY <3>1, <3>2
  <2>5. Collects(b)'
    BY <2>1, <2>4 DEF Collects
  <2>6. InPhase(m_bit)'
    <3>1. m_cnt' = 0 /\ TxCell' = m_bit' /\ tx_cnt' = MID + 1 /\ MID + 1 < CLKS_PER_BIT /\ MID \in Nat
      BY <1>6, <1>9, <2>1 DEF MID
    <3> QED
      BY <3>1 DEF InPhase, MID
  <2> QED
    BY <1>1, <1>4, <1>5, <2>1, <2>5, <2>6 DEF Phase, Pending
<1> QED
  BY <1>1, <1>8, <1>9

\* The stop bit hands the byte over.
LEMMA SeesStopBit ==
  ASSUME TxInv, NEW offer, TxClock(offer), m_state = 3, NEW b \in Byte,
         sent = <<b>>, rx_q = <<>>, Drives(b), Collects(b), Drives(b)'
  PROVE  /\ Phase' /\ sent' = <<b>>
         /\ \/ Pending' /\ rx_q' = <<>> /\ Collects(b)'
            \/ ~Pending' /\ rx_q' = <<b>> /\ txd' = 1
<1> USE UartAssumption
<1>1. /\ m_cnt < CLKS_PER_BIT /\ m_cnt \in Nat /\ m_bit = DATA_BITS /\ InPhase(DATA_BITS) /\ m_shift \in Byte
      /\ TxTypes
  BY DEF TxInv, Phase, TxTypes
<1>2. TxCell < DATA_BITS + 2 /\ TxCell \in Nat
  BY <1>1, CellNames DEF InPhase
<1>3. tx_state # "IDLE"
  BY <1>1, <1>2, CellNames
<1>4. sent' = sent
  BY <1>3 DEF TxClock, TxReady
<1>5. tx_state' = "START" => tx_bit' = 0
  BY <1>3 DEF TxInv, Phase, TxClock, TxEdge, TxIdle, TxStart, TxData, TxStop, TxReady, TxCount
<1>6. /\ m_cnt + 1 < CLKS_PER_BIT /\ m_cnt' = m_cnt + 1 => InPhase(DATA_BITS)'
      /\ m_cnt + 1 = CLKS_PER_BIT => TxCell = DATA_BITS + 1 /\ tx_cnt = MID
      /\ m_cnt + 1 = CLKS_PER_BIT => TxCell' = DATA_BITS + 1 /\ tx_cnt' = MID + 1
  BY <1>1, <1>3, StaysInPhase DEF TxClock
<1>7. \/ /\ m_state' = 3 /\ m_cnt + 1 < CLKS_PER_BIT /\ m_cnt' = m_cnt + 1
         /\ UNCHANGED <<m_bit, m_shift, rx_q>>
      \/ /\ m_cnt + 1 = CLKS_PER_BIT /\ m_cnt' = 0 /\ m_state' = 0
         /\ rx_q' = IF txd = 1 THEN Append(rx_q, m_shift) ELSE rx_q
  BY <1>1 DEF TxClock, Monitor, MonitorIdle, MonitorStart, MonitorData, MonitorStop, MonitorCount
<1>8. CASE m_cnt + 1 < CLKS_PER_BIT
  <2>1. m_state' = 3 /\ m_cnt' = m_cnt + 1 /\ UNCHANGED <<m_bit, m_shift, rx_q>>
    BY <1>1, <1>7, <1>8
  <2>2. InPhase(DATA_BITS)'
    BY <1>6, <1>8, <2>1
  <2>3. Phase'
    BY <1>1, <1>5, <1>8, <2>1, <2>2 DEF Phase
  <2>4. Collects(b)'
    BY <2>1 DEF Collects
  <2> QED
    BY <1>4, <2>1, <2>3, <2>4 DEF Pending
<1>9. CASE m_cnt + 1 = CLKS_PER_BIT
  <2>1. m_state' = 0 /\ rx_q' = IF txd = 1 THEN Append(rx_q, m_shift) ELSE rx_q
    BY <1>1, <1>7, <1>9
  <2>2. txd = 1
    <3>1. tx_state = "STOP"
      BY <1>1, <1>6, <1>9, CellNames
    <3> QED
      BY <3>1 DEF Drives
  <2>3. m_shift = b
    <3>1. \A k \in 1 .. DATA_BITS : m_shift[(DATA_BITS - DATA_BITS) + k] = b[k]
      BY <1>1 DEF Collects
    <3>2. \A k \in 1 .. DATA_BITS : m_shift[k] = b[k]
      <4> SUFFICES ASSUME NEW k \in 1 .. DATA_BITS PROVE m_shift[k] = b[k]
        OBVIOUS
      <4>1. (DATA_BITS - DATA_BITS) + k = k
        OBVIOUS
      <4> QED
        BY <3>1, <4>1, Zenon
    <3> QED
      BY <1>1, <3>2 DEF Byte
  <2>4. rx_q' = <<b>>
    BY <2>1, <2>2, <2>3
  <2>5. tx_state' = "STOP" /\ tx_cnt' > MID
    <3>1. tx_state' \in States /\ tx_bit' \in 0 .. DATA_BITS - 1
      BY <1>1, <1>3 DEF TxTypes, States, TxClock, TxEdge, TxIdle, TxStart, TxData, TxStop, TxReady, TxCount
    <3> QED
      BY <1>6, <1>9, <3>1 DEF TxCell, MID, States
  <2>6. txd' = 1
    BY <2>5 DEF Drives
  <2> QED
    BY <1>4, <2>1, <2>4, <2>5, <2>6 DEF Phase, Pending
<1> QED
  BY <1>1, <1>8, <1>9

LEMMA ClockKeepsTx ==
  ASSUME TxInv, NEW offer \in {<<>>} \cup {<<b>> : b \in Byte}, TxClock(offer), ~Agreed
  PROVE  TxInv'
<1>1. TxTypes'
  BY TxKeepsTypes DEF TxInv, TxClock
<1>2. CASE m_state = 0
  BY <1>1, <1>2, SeesStart, SeesNone DEF TxInv
<1>3. CASE m_state # 0
  <2>1. PICK b \in Byte : sent = <<b>> /\ rx_q = <<>> /\ Drives(b) /\ Collects(b)
    BY <1>3 DEF TxInv, SentInv, Pending
  <2>2. tx_state # "IDLE"
    <3>1. CASE m_state = 1
      BY <3>1 DEF TxInv, Phase
    <3>2. CASE m_state \in {2, 3}
      <4>1. InPhase(m_bit) /\ m_bit \in 0 .. DATA_BITS /\ TxTypes
        BY <3>2 DEF TxInv, Phase, TxTypes
      <4> QED
        BY <4>1, CellNames, UartAssumption DEF InPhase
    <3> QED
      BY <1>3, <3>1, <3>2 DEF TxInv, TxTypes
  <2>3. Drives(b)'
    BY <2>1, <2>2, TxDrivesOn DEF TxClock
  <2>4. /\ Phase' /\ sent' = <<b>>
        /\ \/ Pending' /\ rx_q' = <<>> /\ Collects(b)'
           \/ ~Pending' /\ rx_q' = <<b>> /\ txd' = 1
    <3>1. CASE m_state = 1
      BY <2>1, <3>1, SeesStartBit
    <3>2. CASE m_state = 2
      BY <2>1, <3>2, SeesDataBit
    <3>3. CASE m_state = 3
      BY <2>1, <2>3, <3>3, SeesStopBit
    <3> QED
      BY <1>3, <3>1, <3>2, <3>3 DEF TxInv, TxTypes
  <2>5. SentInv'
    BY <2>3, <2>4 DEF SentInv
  <2> QED
    BY <1>1, <2>4, <2>5 DEF TxInv
<1> QED
  BY <1>2, <1>3

LEMMA NextKeepsTx == ASSUME TxInv, [Next]_<<bench, fifoVars, benchVars>> PROVE TxInv'
<1>1. CASE Fifo \/ Rx \/ UNCHANGED <<bench, fifoVars, benchVars>>
  <2>1. UNCHANGED <<txVars, monVars>>
    BY <1>1 DEF Fifo, Rx, RxBench, benchVars
  <2> QED
    BY <2>1 DEF txVars, monVars, TxInv, TxTypes, Phase, SentInv, Pending, Drives, Collects, InPhase, TxCell
<1>2. CASE Tx
  <2>1. CASE Agreed /\ sent' = Tail(sent) /\ rx_q' = Tail(rx_q) /\ UNCHANGED <<txVars, m_state, m_cnt, m_bit, m_shift>>
    <3>1. ~Pending /\ txd = 1 /\ \E b \in Byte : sent = <<b>> /\ rx_q = <<b>>
      BY <2>1 DEF TxInv, SentInv, Agreed
    <3>2. sent' = <<>> /\ rx_q' = <<>>
      BY <2>1, <3>1
    <3>3. SentInv'
      BY <2>1, <3>1, <3>2 DEF SentInv, Pending, txVars
    <3> QED
      BY <2>1, <3>3 DEF txVars, TxInv, TxTypes, Phase, InPhase, TxCell
  <2>2. ASSUME ~Agreed, NEW offer \in {<<>>} \cup {<<b>> : b \in BYTES}, TxClock(offer) PROVE TxInv'
    <3>1. offer \in {<<>>} \cup {<<b>> : b \in Byte}
      BY BenchAssumption
    <3> QED
      BY <2>2, <3>1, ClockKeepsTx
  <2> QED
    BY <1>2, <2>1, <2>2 DEF Tx, TxBench, TxClock
<1> QED
  BY <1>1, <1>2 DEF Next

LEMMA InitTx == Init => TxInv
<1> SUFFICES ASSUME Init PROVE TxInv
  OBVIOUS
<1>1. /\ tx_state = "IDLE" /\ tx_cnt = 0 /\ tx_bit = 0 /\ tx_shift = Zeros /\ txd = 1
      /\ m_state = 0 /\ m_cnt = 0 /\ m_bit = 0 /\ m_shift = Zeros /\ sent = <<>> /\ rx_q = <<>>
  BY DEF Init, BenchInit, TxInit
<1>2. Zeros \in Byte
  BY DEF Zeros, Byte, Bit
<1> QED
  BY <1>1, <1>2, UartAssumption DEF TxInv, TxTypes, Phase, SentInv, Pending, States, Bit

\* uart_tx and the monitor of tb_util.h: every byte the transmitter takes is
\* monitored as it was, in order, whatever its bits and the gap to the next.
THEOREM SendsAsTaken == Spec => []SentAsTaken
<1>1. TxInv => SentAsTaken
  <2> SUFFICES ASSUME TxInv PROVE SentAsTaken
    OBVIOUS
  <2>1. \/ sent = <<>> /\ rx_q = <<>>
        \/ \E b \in Byte : sent = <<b>> /\ (rx_q = <<>> \/ rx_q = <<b>>)
    BY DEF TxInv, SentInv
  <2> QED
    BY <2>1 DEF SentAsTaken
<1> QED
  BY <1>1, InitTx, NextKeepsTx, PTL DEF Spec

-----------------------------------------------------------------------------
(* The driver and the receiver.  A byte is driven in clocks counted from    *)
(* the edge of its start bit; the receiver's own count of them is three     *)
(* behind, two for sync and one for the state, so what it samples in the    *)
(* middle of one of its cells was driven in the same cell as long as the    *)
(* drift is less than what is left on either side.                          *)

Cells(n) == n * CLKS_PER_BIT

\* The clocks by which cell n of the byte begins late.
Shift(n) ==
  IF drift >= 0 THEN IF n < drift THEN n ELSE drift
                ELSE IF n < -drift THEN -n ELSE drift

Driven == Cells(d_bit) + Shift(d_bit) + d_cnt

InFrame == rx_state # "IDLE"
RxCell == IF rx_state = "START" THEN 0 ELSE IF rx_state = "DATA" THEN rx_bit + 1 ELSE DATA_BITS + 1
RxClock == Cells(RxCell) + rx_cnt

\* The line in cell c of byte b, and before it.
Level(b, c) == IF c = 0 THEN 0 ELSE IF c \in 1 .. DATA_BITS THEN b[c] ELSE 1

\* The cell that was driven n clocks ago.
CellBefore(n) == IF d_cnt >= n THEN d_bit ELSE d_bit - 1

Wrong(x, y) == IF x = y THEN 0 ELSE 1
Taken(k) == rx_cnt > (MID - 2) + k
Misread(k, x) == IF Taken(k) THEN Wrong(samp[k], x) ELSE 0
Misreads(x) == Misread(1, x) + Misread(2, x) + Misread(3, x)

\* What differs from the byte being driven, in the synchronizer and the samples.
Disturbed ==
  Wrong(sync[1], Level(d_shift, CellBefore(1))) + Wrong(sync[2], Level(d_shift, CellBefore(2)))
    + (IF InFrame THEN Misreads(Level(d_shift, RxCell)) ELSE 0)

\* The bits received so far are those of the byte b.
Gathers(b) ==
  /\ rx_state = "DATA" => \A k \in 1 .. DATA_BITS : k <= rx_bit => rx_shift[(DATA_BITS - rx_bit) + k] = b[k]
  /\ rx_state = "STOP" => rx_shift = b

RxTypes ==
  /\ rx_state \in States /\ rx_cnt \in 0 .. CLKS_PER_BIT - 1 /\ rx_bit \in 0 .. DATA_BITS - 1
  /\ rx_state = "STOP" => rx_cnt <= MID + 2
  /\ rx_state = "START" => rx_bit = 0
  /\ rx_shift \in Byte /\ sync \in Bit \X Bit /\ samp \in Bit \X Bit \X Bit
  /\ received \in {<<>>} \cup {<<b>> : b \in Byte} /\ frame_err \in BOOLEAN
  /\ ~(received # <<>> /\ frame_err)

DriveTypes ==
  /\ d_state \in {"idle", "shift", "pulse", "break"} /\ d_cnt \in Nat /\ d_bit \in 0 .. FRAME_BITS - 1
  /\ drift \in -DRIFT .. DRIFT /\ d_shift \in Byte /\ flipped \in BOOLEAN
  /\ flushing \in BOOLEAN /\ noticed \in BOOLEAN /\ expected \in Seq(Byte)

\* Bytes driven whose last sample is still to come.
Air == IF received # <<>> /\ expected # <<>> THEN Tail(expected) ELSE expected

\* Between two bytes: the receiver is idle, or decides on the last one's stop bit.
Deciding == rx_state = "STOP" /\ rx_cnt = MID + 2 /\ Misreads(1) <= 1
AtRest == rx_state = "IDLE" \/ Deciding
Owed == IF rx_state = "STOP" THEN <<rx_shift>> ELSE <<>>

Resting ==
  /\ d_state = "idle" /\ ~flushing /\ sync = <<1, 1>> /\ Air = Owed
  /\ AtRest \/ (rx_state = "STOP" /\ rx_cnt = MID + 1 /\ Misreads(1) <= 1)

\* The start bit is in the synchronizer.
Arriving ==
  /\ d_state = "shift" /\ d_bit = 0 /\ ~flushing /\ Air = Owed \o <<d_shift>>
  /\ \/ d_cnt = 1 /\ AtRest /\ sync = <<0, 1>> /\ ~flipped
     \/ d_cnt = 2 /\ rx_state = "IDLE" /\ sync[2] = 0 /\ (sync[1] = 1 => flipped)

Receiving ==
  /\ d_state = "shift" /\ d_cnt < CellLength /\ ~flushing /\ Air = <<d_shift>>
  /\ InFrame /\ RxClock = Driven - 3 /\ Gathers(d_shift)
  /\ Disturbed <= 1 /\ (Disturbed = 1 => flipped \/ d_bit > DATA_BITS)
  /\ d_bit > DATA_BITS => (d_cnt >= 1 => sync[1] = 1) /\ (d_cnt >= 2 => sync[2] = 1)

Received ==
  /\ d_state = "shift" /\ d_cnt < CellLength /\ ~flushing /\ Air = <<>>
  /\ rx_state = "IDLE" /\ sync = <<1, 1>> /\ d_bit > DATA_BITS
  /\ Driven > (Cells(DATA_BITS + 1) + MID) + 5

\* A pulse on its way through the receiver, which takes it for a start bit; and after.
Pulsing ==
  /\ d_state = "pulse" /\ ~flushing /\ sync[1] = 0
  /\ \/ AtRest /\ sync[2] = 1 /\ d_cnt <= MID /\ Air = Owed
     \/ rx_state = "IDLE" /\ sync[2] = 0 /\ d_cnt <= MID - 1 /\ Air = <<>>
     \/ rx_state = "START" /\ rx_cnt + d_cnt <= MID - 2 /\ Air = <<>>

Pulsed ==
  /\ d_state = "idle" /\ ~flushing /\ sync[1] = 1 /\ Air = <<>> /\ d_cnt <= CLKS_PER_BIT
  /\ \/ rx_state = "IDLE" /\ sync[2] = 0 /\ d_cnt = CLKS_PER_BIT
     \/ /\ rx_state = "START"
        /\ rx_cnt + d_cnt \in CLKS_PER_BIT - 1 .. CLKS_PER_BIT + MID - 1
        /\ d_cnt < CLKS_PER_BIT => sync[2] = 1
        /\ (Taken(2) => samp[2] = 1) /\ (Taken(3) => samp[3] = 1)

\* A break: zeroes with no stop bit, then whatever the receiver makes of the rest.
Breaking ==
  /\ d_state = "break" /\ flushing /\ d_cnt < BREAK
  /\ \/ d_cnt = BREAK - 1 /\ AtRest /\ sync = <<0, 1>> /\ Air = Owed
     \/ d_cnt = BREAK - 2 /\ rx_state = "IDLE" /\ sync = <<0, 0>> /\ Air = <<>>
     \/ /\ InFrame /\ RxClock = (BREAK - d_cnt) - 3 /\ sync = <<0, 0>> /\ Air = <<>>
        /\ \A k \in 1 .. 3 : Taken(k) => samp[k] = 0
     \/ (noticed \/ frame_err) /\ Air = <<>>

\* Clocks until the receiver is idle again, at most.
Left ==
  CASE rx_state = "IDLE"  -> 0
    [] rx_state = "START" -> ((Cells(DATA_BITS + 1) + MID) + 3) - rx_cnt
    [] rx_state = "DATA"  -> ((Cells(DATA_BITS - rx_bit) + MID) + 3) - rx_cnt
    [] rx_state = "STOP"  -> (MID + 3) - rx_cnt

Flushed ==
  /\ d_state = "idle" /\ flushing /\ sync[1] = 1 /\ Air = <<>> /\ (noticed \/ frame_err)
  /\ d_cnt = BREAK \/ (d_cnt < BREAK /\ noticed /\ sync[2] = 1 /\ Left <= d_cnt)

\* Only a break may break what was promised.
Honest ==
  /\ frame_err => flushing
  /\ received # <<>> /\ ~flushing => expected # <<>> /\ received[1] = expected[1]

LineInv ==
  \/ Resting \/ Arriving \/ Receiving \/ Received
  \/ Pulsing \/ Pulsed \/ Breaking \/ Flushed

RxInv == RxTypes /\ DriveTypes /\ Honest /\ LineInv

LEMMA MidFacts ==
  /\ CLKS_PER_BIT \in Nat /\ MID \in Nat /\ MID >= 8
  /\ MID + MID <= CLKS_PER_BIT /\ CLKS_PER_BIT <= MID + MID + 1
  /\ DRIFT \in Nat /\ DRIFT + MID + 4 <= CLKS_PER_BIT
  /\ DATA_BITS \in Nat /\ DATA_BITS >= 1
BY UartAssumption, BenchAssumption, ToleranceAssumption DEF MID

LEMMA CellsFacts ==
  /\ Cells(0) = 0
  /\ \A n \in Int : Cells(n) \in Int /\ Cells(n + 1) = Cells(n) + CLKS_PER_BIT
  /\ \A m \in Int, n \in Int : m < n => Cells(m) + CLKS_PER_BIT <= Cells(n)
<1>1. CLKS_PER_BIT \in Int /\ CLKS_PER_BIT >= 0
  BY MidFacts
<1>2. Cells(0) = 0
  BY <1>1 DEF Cells
<1>3. ASSUME NEW n \in Int PROVE Cells(n) \in Int /\ Cells(n + 1) = Cells(n) + CLKS_PER_BIT
  BY <1>1 DEF Cells
<1>4. ASSUME NEW m \in Int, NEW n \in Int, m < n PROVE Cells(m) + CLKS_PER_BIT <= Cells(n)
  <2>1. PICK j \in Nat : n = (m + 1) + j
    <3>1. n - (m + 1) \in Nat /\ n = (m + 1) + (n - (m + 1))
      BY <1>4
    <3> QED
      BY <3>1
  <2>2. j * CLKS_PER_BIT >= 0 /\ j * CLKS_PER_BIT \in Int
    BY <1>1
  <2>3. ((m + 1) + j) * CLKS_PER_BIT = (m * CLKS_PER_BIT + CLKS_PER_BIT) + j * CLKS_PER_BIT
    BY <1>1
  <2>4. m * CLKS_PER_BIT \in Int
    BY <1>1
  <2> QED
    BY <1>1, <2>1, <2>2, <2>3, <2>4 DEF Cells
<1> QED
  BY <1>2, <1>3, <1>4

\* A byte with its start and stop bits, cell by cell.
LEMMA FrameLevels ==
  ASSUME NEW b \in Byte, NEW c \in 0 .. DATA_BITS + 1
  PROVE  Frame(b)[c + 1] = Level(b, c) /\ Level(b, c) \in Bit
<1>1. DATA_BITS \in Nat /\ DATA_BITS >= 1
  BY MidFacts
<1>2. b \in [1 .. DATA_BITS -> Bit]
  BY DEF Byte
<1>3. b \in Seq(Bit) /\ Len(b) = DATA_BITS
  BY <1>1, <1>2, SeqDef, LenProperties
<1>4. <<0>> \in Seq(Bit) /\ Len(<<0>>) = 1 /\ <<1>> \in Seq(Bit) /\ Len(<<1>>) = 1
  BY DEF Bit
<1>5. /\ <<0>> \o b \in Seq(Bit) /\ Len(<<0>> \o b) = DATA_BITS + 1
      /\ \A i \in 1 .. DATA_BITS + 1 : (<<0>> \o b)[i] = IF i <= 1 THEN <<0>>[i] ELSE b[i - 1]
  BY <1>1, <1>3, <1>4, ConcatProperties
<1>6. \A i \in 1 .. DATA_BITS + 2 :
        Frame(b)[i] = IF i <= DATA_BITS + 1 THEN (<<0>> \o b)[i] ELSE <<1>>[i - (DATA_BITS + 1)]
  <2>1. Frame(b) = (<<0>> \o b) \o <<1>>
    BY DEF Frame
  <2> QED
    BY <1>1, <1>4, <1>5, <2>1, ConcatProperties
<1>7. \A k \in 1 .. DATA_BITS : b[k] \in Bit
  BY <1>2
<1>8. CASE c = 0
  BY <1>1, <1>5, <1>6, <1>8 DEF Level, Bit
<1>9. CASE c \in 1 .. DATA_BITS
  <2>1. Frame(b)[c + 1] = b[c]
    BY <1>1, <1>5, <1>6, <1>9
  <2> QED
    BY <1>7, <1>9, <2>1 DEF Level
<1>10. CASE c = DATA_BITS + 1
  BY <1>1, <1>6, <1>10 DEF Level, Bit
<1> QED
  BY <1>1, <1>8, <1>9, <1>10

LEMMA SampleFacts ==
  ASSUME Sample, samp \in Bit \X Bit \X Bit, sync[2] \in Bit
  PROVE  /\ samp' \in Bit \X Bit \X Bit
         /\ \A k \in 1 .. 3 : samp'[k] = IF rx_cnt = (MID - 2) + k THEN sync[2] ELSE samp[k]
<1> DEFINE s == [k \in 1 .. 3 |-> IF rx_cnt = (MID - 2) + k THEN sync[2] ELSE samp[k]]
<1>1. samp' = s
  BY DEF Sample
<1>2. samp[1] \in Bit /\ samp[2] \in Bit /\ samp[3] \in Bit
  OBVIOUS
<1>3. \A k \in 1 .. 3 : s[k] \in Bit
  BY <1>2
<1>4. s \in [1 .. 3 -> Bit]
  BY <1>3
<1>5. s \in Seq(Bit)
  BY <1>4, SeqDef
<1>6. Len(s) = 3
  BY <1>5, LenProperties
<1>7. <<s[1], s[2], s[3]>> \in Seq(Bit) /\ Len(<<s[1], s[2], s[3]>>) = 3
  BY <1>3
<1>8. s = <<s[1], s[2], s[3]>>
  <2> HIDE DEF s
  <2>1. \A i \in 1 .. 3 : s[i] = <<s[1], s[2], s[3]>>[i]
    OBVIOUS
  <2> QED
    BY <1>5, <1>6, <1>7, <2>1, SeqEqual
<1>9. <<s[1], s[2], s[3]>> \in Bit \X Bit \X Bit
  BY <1>3
<1> QED
  BY <1>1, <1>8, <1>9, Zenon

\* A bad sample among three is outvoted.
LEMMA MajorityIsRight ==
  ASSUME RxTypes, NEW x \in Bit, rx_cnt >= MID + 2, Misreads(x) <= 1
  PROVE  Maj = x
<1>1. Taken(1) /\ Taken(2) /\ Taken(3)
  BY MidFacts DEF RxTypes, Taken
<1>2. samp[1] \in {0, 1} /\ samp[2] \in {0, 1} /\ samp[3] \in {0, 1}
  BY DEF RxTypes, Bit
<1> QED
  BY <1>1, <1>2 DEF Misreads, Misread, Wrong, Maj, Bit

\* What a clock in a cell adds to the misread samples.
LEMMA ClockMisreads ==
  ASSUME RxTypes, Sample, rx_cnt' = rx_cnt + 1, NEW x \in Bit
  PROVE  /\ Misreads(x)' = Misreads(x) + (IF rx_cnt \in MID - 1 .. MID + 1 THEN Wrong(sync[2], x) ELSE 0)
         /\ Misreads(x) \in 0 .. 3
<1>1. samp \in Bit \X Bit \X Bit /\ sync[2] \in Bit /\ rx_cnt \in Nat
  BY MidFacts DEF RxTypes
<1>2. \A k \in 1 .. 3 : samp'[k] = IF rx_cnt = (MID - 2) + k THEN sync[2] ELSE samp[k]
  BY <1>1, SampleFacts
<1>3. /\ samp'[1] = IF rx_cnt = MID - 1 THEN sync[2] ELSE samp[1]
      /\ samp'[2] = IF rx_cnt = MID THEN sync[2] ELSE samp[2]
      /\ samp'[3] = IF rx_cnt = MID + 1 THEN sync[2] ELSE samp[3]
  BY <1>2, MidFacts
<1>4. Misread(1, x)' = IF rx_cnt = MID - 1 THEN Wrong(sync[2], x) ELSE Misread(1, x)
  BY <1>1, <1>3, MidFacts DEF Misread, Taken, Wrong
<1>5. Misread(2, x)' = IF rx_cnt = MID THEN Wrong(sync[2], x) ELSE Misread(2, x)
  BY <1>1, <1>3, MidFacts DEF Misread, Taken, Wrong
<1>6. Misread(3, x)' = IF rx_cnt = MID + 1 THEN Wrong(sync[2], x) ELSE Misread(3, x)
  BY <1>1, <1>3, MidFacts DEF Misread, Taken, Wrong
<1>7. /\ rx_cnt = MID - 1 => Misread(1, x) = 0
      /\ rx_cnt = MID => Misread(2, x) = 0
      /\ rx_cnt = MID + 1 => Misread(3, x) = 0
  BY <1>1, MidFacts DEF Misread, Taken
<1>8. /\ Misread(1, x) \in {0, 1} /\ Misread(2, x) \in {0, 1} /\ Misread(3, x) \in {0, 1}
      /\ Wrong(sync[2], x) \in {0, 1}
  BY DEF Misread, Wrong
<1>9. Misreads(x)' = Misread(1, x)' + Misread(2, x)' + Misread(3, x)'
  BY DEF Misreads
<1> QED
  BY <1>1, <1>4, <1>5, <1>6, <1>7, <1>8, <1>9, MidFacts DEF Misreads

\* None is taken at the beginning of a cell.
LEMMA NoMisreads == ASSUME rx_cnt = 0, NEW x PROVE Misreads(x) = 0
BY MidFacts DEF Misreads, Misread, Taken

LEMMA RxKeepsTypes ==
  ASSUME RxTypes, NEW rxd \in Bit, RxEdge(rxd)
  PROVE  RxTypes'
<1> USE DEF RxEdge
<1>1. sync' \in Bit \X Bit
  <2>1. sync[1] \in Bit
    BY DEF RxTypes
  <2> QED
    BY <2>1
<1>2. samp' \in Bit \X Bit \X Bit
  <2>1. sync[2] \in Bit
    BY DEF RxTypes
  <2> QED
    BY <2>1, SampleFacts DEF RxTypes
<1>3. /\ rx_state' \in States /\ rx_cnt' \in 0 .. CLKS_PER_BIT - 1 /\ rx_bit' \in 0 .. DATA_BITS - 1
      /\ rx_state' = "STOP" => rx_cnt' <= MID + 2
      /\ rx_state' = "START" => rx_bit' = 0
  <2>1. CASE RxIdle
    BY <2>1, MidFacts DEF RxIdle, States, RxTypes
  <2>2. CASE RxStart
    BY <2>2, MidFacts DEF RxStart, Count, CellEnd, States, RxTypes
  <2>3. CASE RxData
    BY <2>3, MidFacts DEF RxData, Count, CellEnd, States, RxTypes
  <2>4. CASE RxStop
    BY <2>4, MidFacts DEF RxStop, Count, States, RxTypes
  <2> QED
    BY <2>1, <2>2, <2>3, <2>4
<1>4. Maj \in Bit
  BY DEF Maj, Bit
<1>5. rx_shift' \in Byte
  <2>1. Append(Tail(rx_shift), Maj) \in Byte
    BY <1>4, ShiftsIn DEF RxTypes
  <2> QED
    BY <2>1, Zenon DEF RxIdle, RxStart, RxData, RxStop, Count, RxTypes
<1>6. /\ received' \in {<<>>} \cup {<<b>> : b \in Byte} /\ frame_err' \in BOOLEAN
      /\ ~(received' # <<>> /\ frame_err')
  <2>1. CASE RxStop
    <3>1. rx_shift \in Byte
      BY DEF RxTypes
    <3>2. CASE received' = <<rx_shift>> /\ frame_err' = FALSE
      BY <3>1, <3>2
    <3>3. CASE received' = <<>> /\ frame_err' \in BOOLEAN
      BY <3>3
    <3>4. \/ received' = <<rx_shift>> /\ frame_err' = FALSE
          \/ received' = <<>> /\ frame_err' \in BOOLEAN
      <4>1. Maj = 1 => (Maj = 0) = FALSE
        OBVIOUS
      <4>2. Maj = 1 \/ Maj # 1
        OBVIOUS
      <4> QED
        BY <2>1, <4>1, <4>2, Zenon DEF RxStop, Count, Silent
    <3> QED
      BY <3>2, <3>3, <3>4
  <2>2. CASE Silent
    BY <2>2 DEF Silent
  <2> QED
    BY <2>1, <2>2 DEF RxIdle, RxStart, RxData, Count
<1> QED
  BY <1>1, <1>2, <1>3, <1>5, <1>6 DEF RxTypes

\* The bytes a clock drives come after those in the air.
LEMMA ScoreFacts ==
  ASSUME DriveTypes, NEW new, Score(new)
  PROVE  expected' = Air \o new /\ Air \in Seq(Byte)
         /\ noticed' = (flushing' /\ ((noticed /\ flushing) \/ frame_err))
<1>1. expected # <<>> => Tail(expected) \in Seq(Byte)
  BY HeadTailProperties DEF DriveTypes
<1> QED
  BY <1>1 DEF Score, Air, DriveTypes

LEMMA DriveKeepsTypes ==
  ASSUME RxTypes, DriveTypes, NEW rxd \in Bit, NEW new \in {<<>>} \cup {<<b>> : b \in BYTES},
         Drive(rxd, new), Score(new)
  PROVE  DriveTypes'
<1> USE DEF Drive
<1>1. d_state' \in {"idle", "shift", "pulse", "break"}
  BY DEF DriveTypes, DriveGap, DriveByte, DriveBit, DriveCell, DriveLow, DriveRelease
<1>2. CLKS_PER_BIT \in Nat /\ BREAK \in Nat /\ BREAK >= 1
  <2>1. BREAK = Cells(DATA_BITS + 7)
    BY DEF BREAK, Cells
  <2>2. Cells(0) + CLKS_PER_BIT <= Cells(DATA_BITS + 7) /\ Cells(DATA_BITS + 7) \in Int /\ Cells(0) = 0
    <3>1. 0 \in Int /\ DATA_BITS + 7 \in Int /\ 0 < DATA_BITS + 7
      BY MidFacts
    <3> QED
      BY <3>1, CellsFacts
  <2> QED
    BY <2>1, <2>2, MidFacts
<1>3. d_cnt' \in Nat
  <2>1. CASE DriveGap(rxd, new) \/ DriveByte(rxd, new)
    BY <2>1 DEF DriveTypes, DriveGap, DriveByte
  <2>2. CASE DriveBit(rxd, new)
    <3>1. DriveCell /\ d_cnt \in Nat
      BY <2>2 DEF DriveTypes, DriveBit
    <3>2. GAPS \subseteq Nat
      BY BenchAssumption
    <3>3. d_cnt' = d_cnt + 1 \/ d_cnt' = 0 \/ d_cnt' \in GAPS
      BY <3>1, Zenon DEF DriveCell
    <3>4. d_cnt + 1 \in Nat /\ 0 \in Nat
      BY <3>1
    <3> QED
      BY <3>2, <3>3, <3>4, Zenon
  <2>3. CASE DriveLow(rxd, new)
    BY <1>2, <2>3, BenchAssumption DEF DriveTypes, DriveLow
  <2>4. CASE DriveRelease(rxd, new)
    BY <1>2, <2>4 DEF DriveRelease
  <2> QED
    BY <2>1, <2>2, <2>3, <2>4
<1>4. d_bit' \in 0 .. FRAME_BITS - 1
  BY MidFacts DEF DriveTypes, DriveGap, DriveByte, DriveBit, DriveCell, DriveLow, DriveRelease, FRAME_BITS
<1>5. drift' \in -DRIFT .. DRIFT
  BY MidFacts DEF DriveTypes, DriveGap, DriveByte, DriveBit, DriveCell, DriveLow, DriveRelease
<1>6. d_shift' \in Byte
  <2>1. Zeros \in Byte
    BY DEF Zeros, Byte, Bit
  <2> QED
    BY <2>1, BenchAssumption DEF DriveTypes, DriveGap, DriveByte, DriveBit, DriveCell, DriveLow, DriveRelease
<1>7. flipped' \in BOOLEAN
  <2>1. (flipped /\ d_bit <= DATA_BITS) \in BOOLEAN
    OBVIOUS
  <2> QED
    BY <2>1, Zenon DEF DriveTypes, DriveGap, DriveByte, DriveBit, DriveCell, DriveLow, DriveRelease
<1>8. flushing' \in BOOLEAN /\ noticed' \in BOOLEAN
  <2>1. flushing' \in BOOLEAN
    BY Zenon DEF DriveTypes, DriveGap, DriveByte, DriveBit, DriveCell, DriveLow, DriveRelease
  <2>2. noticed' \in BOOLEAN
    BY Zenon DEF Score
  <2> QED
    BY <2>1, <2>2
<1>9. expected' \in Seq(Byte)
  <2>1. new \in Seq(Byte)
    <3>1. CASE new = <<>>
      BY <3>1
    <3>2. ASSUME NEW b \in BYTES, new = <<b>> PROVE new \in Seq(Byte)
      BY <3>2, BenchAssumption
    <3> QED
      BY <3>1, <3>2
  <2>2. expected' = Air \o new /\ Air \in Seq(Byte)
    BY ScoreFacts
  <2> QED
    BY <2>1, <2>2, ConcatProperties
<1> QED
  BY <1>1, <1>3, <1>4, <1>5, <1>6, <1>7, <1>8, <1>9 DEF DriveTypes

-----------------------------------------------------------------------------
(* The clocks of the driver and of the receiver. *)

LEMMA CellFacts ==
  ASSUME DriveTypes
  PROVE  /\ d_bit \in 0 .. DATA_BITS + 1
         /\ Shift(d_bit) \in -DRIFT .. DRIFT /\ Shift(d_bit + 1) \in -DRIFT .. DRIFT
         /\ Shift(0) = 0
         /\ CellLength \in Nat /\ CellLength >= 15 /\ CellLength <= CLKS_PER_BIT + 1
         /\ Shift(d_bit + 1) + CLKS_PER_BIT = Shift(d_bit) + CellLength
<1>1. d_bit \in Nat /\ d_bit \in 0 .. DATA_BITS + 1 /\ drift \in Int /\ -DRIFT <= drift /\ drift <= DRIFT
  BY MidFacts DEF DriveTypes, FRAME_BITS
<1>2. Shift(d_bit) \in -DRIFT .. DRIFT /\ Shift(d_bit + 1) \in -DRIFT .. DRIFT
  BY <1>1, MidFacts DEF Shift
<1>3. Shift(0) = 0
  <2>1. drift \in Int
    BY <1>1
  <2>2. ASSUME NEW n \in Int, drift < 0, n < -drift PROVE Shift(n) + n = 0
    BY <2>1, <2>2 DEF Shift
  <2>3. CASE drift < 0
    <3>1. 0 < -drift /\ 0 \in Int
      BY <2>1, <2>3
    <3>2. Shift(0) + 0 = 0
      BY <2>2, <2>3, <3>1
    <3>3. Shift(0) \in Int
      BY <2>1, <2>3, <3>1 DEF Shift
    <3> QED
      BY <3>2, <3>3
  <2>4. CASE drift >= 0
    BY <2>1, <2>4 DEF Shift
  <2> QED
    BY <2>1, <2>3, <2>4
<1>4. CellLength \in Nat /\ CellLength >= 15 /\ CellLength <= CLKS_PER_BIT + 1
  BY <1>1, MidFacts DEF CellLength
<1>5. Shift(d_bit + 1) + CLKS_PER_BIT = Shift(d_bit) + CellLength
  BY <1>1, MidFacts DEF Shift, CellLength
<1> QED
  BY <1>1, <1>2, <1>3, <1>4, <1>5

LEMMA DrivenIsInt == ASSUME DriveTypes PROVE Driven \in Int
<1>1. d_bit \in Int /\ d_cnt \in Nat /\ Shift(d_bit) \in Int
  BY CellFacts, MidFacts DEF DriveTypes
<1>2. Cells(d_bit) \in Int
  BY <1>1, CellsFacts
<1> QED
  BY <1>1, <1>2 DEF Driven

\* A clock of a byte: in the middle of a cell, at its end, or at the byte's.
LEMMA DriverClock ==
  ASSUME DriveTypes, d_state = "shift", d_cnt < CellLength, NEW rxd \in Bit, NEW new, Drive(rxd, new)
  PROVE  /\ DriveBit(rxd, new) /\ new = <<>> /\ flushing' = flushing
         /\ d_state' \in {"shift", "idle"}
         /\ d_state' = "shift" =>
              /\ d_shift' = d_shift /\ drift' = drift /\ d_cnt' < CellLength'
              /\ d_bit' >= d_bit /\ Driven' = Driven + 1
              /\ CellBefore(1)' = d_bit /\ CellBefore(2)' = CellBefore(1)
              /\ (d_bit' = d_bit /\ d_cnt' = d_cnt + 1) \/ (d_bit' = d_bit + 1 /\ d_cnt' = 0)
         /\ d_state' = "idle" =>
              d_bit = DATA_BITS + 1 /\ Driven + 1 = Cells(DATA_BITS + 2) + Shift(DATA_BITS + 2)
<1>1. DriveBit(rxd, new)
  BY DEF Drive, DriveGap, DriveByte, DriveLow, DriveRelease
<1>2. new = <<>> /\ flushing' = flushing /\ DriveCell
  BY <1>1 DEF DriveBit
<1>3. d_cnt \in Nat /\ d_bit \in 0 .. DATA_BITS + 1 /\ d_bit \in Int /\ Shift(d_bit) \in Int
  BY CellFacts, MidFacts DEF DriveTypes
<1>4. CASE d_cnt + 1 < CellLength
  <2>1. d_cnt' = d_cnt + 1 /\ UNCHANGED <<d_state, d_bit, d_shift, drift>>
    BY <1>2, <1>3, <1>4, CellFacts DEF DriveCell
  <2>2. CellLength' = CellLength /\ Shift(d_bit)' = Shift(d_bit) /\ Cells(d_bit)' = Cells(d_bit)
    BY <2>1 DEF CellLength, Shift, Cells
  <2>3. Driven' = Cells(d_bit) + Shift(d_bit) + (d_cnt + 1)
    BY <2>1, <2>2 DEF Driven
  <2>4. Driven' = Driven + 1
    BY <1>3, <2>3, CellsFacts DEF Driven
  <2>5. CellBefore(1)' = d_bit /\ CellBefore(2)' = CellBefore(1)
    BY <1>3, <2>1 DEF CellBefore
  <2>6. d_cnt' < CellLength' /\ d_bit' = d_bit /\ d_bit' >= d_bit /\ d_state' = "shift"
    BY <1>3, <1>4, <2>1, <2>2
  <2> QED
    BY <1>1, <1>2, <2>1, <2>4, <2>5, <2>6
<1>5. CASE d_cnt + 1 = CellLength /\ d_bit + 1 < FRAME_BITS
  <2>1. d_bit' = d_bit + 1 /\ d_cnt' = 0 /\ UNCHANGED <<d_state, d_shift, drift>>
    BY <1>2, <1>3, <1>5, CellFacts DEF DriveCell
  <2>2. /\ CellLength' \in Nat /\ CellLength' >= 15
        /\ Shift(d_bit)' = Shift(d_bit + 1) /\ Cells(d_bit)' = Cells(d_bit + 1)
    <3>1. CellLength' = IF d_bit + 1 < drift THEN CLKS_PER_BIT + 1
                        ELSE IF d_bit + 1 < -drift THEN CLKS_PER_BIT - 1 ELSE CLKS_PER_BIT
      BY <2>1 DEF CellLength
    <3> QED
      BY <2>1, <3>1, MidFacts DEF Shift, Cells
  <2>3. Driven' = Cells(d_bit + 1) + Shift(d_bit + 1) + 0
    BY <2>1, <2>2 DEF Driven
  <2>4. Cells(d_bit) \in Int /\ Cells(d_bit + 1) = Cells(d_bit) + CLKS_PER_BIT
    BY <1>3, CellsFacts
  <2>5. Shift(d_bit + 1) + CLKS_PER_BIT = Shift(d_bit) + CellLength /\ Shift(d_bit + 1) \in Int /\ CellLength \in Nat
    BY CellFacts, MidFacts
  <2>6. Driven' = Driven + 1
    BY <1>3, <1>5, <2>3, <2>4, <2>5, MidFacts DEF Driven
  <2>7. CellBefore(1)' = d_bit /\ CellBefore(2)' = CellBefore(1)
    BY <1>3, <1>5, <2>1, CellFacts DEF CellBefore
  <2> QED
    BY <1>1, <1>2, <1>3, <2>1, <2>2, <2>6, <2>7
<1>6. CASE d_cnt + 1 = CellLength /\ d_bit + 1 = FRAME_BITS
  <2>1. d_state' = "idle" /\ d_bit = DATA_BITS + 1
    BY <1>2, <1>3, <1>6, CellFacts, MidFacts DEF DriveCell, FRAME_BITS
  <2>2. Cells(d_bit) \in Int /\ Cells(d_bit + 1) = Cells(d_bit) + CLKS_PER_BIT /\ d_bit + 1 = DATA_BITS + 2
    BY <1>3, <2>1, CellsFacts, MidFacts
  <2>3. Shift(d_bit + 1) + CLKS_PER_BIT = Shift(d_bit) + CellLength /\ Shift(d_bit + 1) \in Int /\ CellLength \in Nat
    BY CellFacts, MidFacts
  <2>4. Driven + 1 = Cells(d_bit + 1) + Shift(d_bit + 1)
    BY <1>3, <1>6, <2>2, <2>3, MidFacts DEF Driven
  <2> QED
    BY <1>1, <1>2, <2>1, <2>2, <2>4
<1>7. d_bit + 1 <= FRAME_BITS /\ d_cnt + 1 <= CellLength
  BY <1>3, CellFacts, MidFacts DEF FRAME_BITS
<1> QED
  BY <1>3, <1>4, <1>5, <1>6, <1>7, CellFacts, MidFacts DEF FRAME_BITS

\* The level a clock of a byte puts on the line.
LEMMA DriverLevel ==
  ASSUME DriveTypes, NEW rxd \in Bit, NEW new, DriveBit(rxd, new)
  PROVE  /\ Wrong(rxd, Level(d_shift, d_bit)) \in {0, 1}
         /\ Wrong(rxd, Level(d_shift, d_bit)) = 1 => ~flipped /\ d_bit <= DATA_BITS /\ flipped'
         /\ flipped /\ d_bit <= DATA_BITS => flipped'
<1>1. d_bit \in 0 .. DATA_BITS + 1 /\ d_shift \in Byte
  BY CellFacts DEF DriveTypes
<1>2. Frame(d_shift)[d_bit + 1] = Level(d_shift, d_bit)
  BY <1>1, FrameLevels
<1>3. CASE rxd = Frame(d_shift)[d_bit + 1] /\ flipped' = (flipped /\ d_bit <= DATA_BITS)
  <2>1. Wrong(rxd, Level(d_shift, d_bit)) = 0
    BY <1>2, <1>3 DEF Wrong
  <2>2. flipped /\ d_bit <= DATA_BITS => flipped'
    BY <1>3, Zenon
  <2> QED
    BY <2>1, <2>2
<1>4. CASE ~flipped /\ d_bit <= DATA_BITS /\ flipped' = TRUE
  <2>1. Wrong(rxd, Level(d_shift, d_bit)) \in {0, 1}
    BY DEF Wrong
  <2> QED
    BY <1>4, <2>1
<1> QED
  BY <1>3, <1>4, Zenon DEF DriveBit

\* What the receiver samples was driven in the cell it is in.
LEMMA SamplesItsCell ==
  ASSUME RxTypes, DriveTypes, InFrame, RxClock = Driven - 3, d_cnt < CellLength
  PROVE  /\ rx_cnt \in MID - 1 .. MID + 1 => CellBefore(2) = RxCell
         /\ RxCell = DATA_BITS + 1 /\ rx_cnt = MID + 2 => d_bit = DATA_BITS + 1 /\ d_cnt >= 2
<1> DEFINE r == RxCell
           s == Shift(d_bit)
<1>1. /\ d_bit \in Int /\ d_bit \in 0 .. DATA_BITS + 1 /\ d_cnt \in Nat /\ rx_cnt \in 0 .. CLKS_PER_BIT - 1
      /\ s \in -DRIFT .. DRIFT /\ s \in Int /\ CellLength \in Nat
      /\ s + CellLength <= DRIFT + CLKS_PER_BIT
  <2>1. s + CellLength = Shift(d_bit + 1) + CLKS_PER_BIT
    BY CellFacts, MidFacts
  <2> QED
    BY <2>1, CellFacts, MidFacts DEF DriveTypes, RxTypes
<1>2. r \in Int /\ r \in 0 .. DATA_BITS + 1
  BY MidFacts DEF RxTypes, RxCell
<1>3. Cells(r) + rx_cnt = (Cells(d_bit) + s + d_cnt) - 3
  BY DEF RxClock, Driven
<1>4. Cells(r) \in Int /\ Cells(d_bit) \in Int
  BY <1>1, <1>2, CellsFacts
<1> HIDE DEF r, s
<1>5. r < d_bit => Cells(r) + CLKS_PER_BIT <= Cells(d_bit)
  BY <1>1, <1>2, CellsFacts
<1>6. d_bit < r => Cells(d_bit) + CLKS_PER_BIT <= Cells(r)
  BY <1>1, <1>2, CellsFacts
<1>7. r < d_bit - 1 => Cells(r) + CLKS_PER_BIT <= Cells(d_bit) - CLKS_PER_BIT
  <2>1. d_bit - 1 \in Int /\ Cells((d_bit - 1) + 1) = Cells(d_bit - 1) + CLKS_PER_BIT /\ Cells(d_bit - 1) \in Int
    <3>1. d_bit - 1 \in Int
      BY <1>1
    <3> QED
      BY <3>1, CellsFacts
  <2>2. (d_bit - 1) + 1 = d_bit
    BY <1>1
  <2>3. r < d_bit - 1 => Cells(r) + CLKS_PER_BIT <= Cells(d_bit - 1)
    BY <1>2, <2>1, CellsFacts
  <2> QED
    BY <2>1, <2>2, <2>3, MidFacts
<1>8. ASSUME rx_cnt \in MID - 1 .. MID + 1, d_cnt >= 2 PROVE r = d_bit
  BY <1>1, <1>2, <1>3, <1>4, <1>5, <1>6, <1>8, MidFacts
<1>9. ASSUME rx_cnt \in MID - 1 .. MID + 1, d_cnt < 2 PROVE r = d_bit - 1
  <2>1. ~(r < d_bit - 1)
    BY <1>1, <1>2, <1>3, <1>4, <1>7, <1>9, MidFacts
  <2>2. ~(d_bit < r)
    BY <1>1, <1>2, <1>3, <1>4, <1>6, <1>9, MidFacts
  <2>3. r # d_bit
    BY <1>1, <1>2, <1>3, <1>4, <1>9, MidFacts
  <2> QED
    BY <1>1, <1>2, <2>1, <2>2, <2>3
<1>10. ASSUME rx_cnt = MID + 2, r = DATA_BITS + 1 PROVE d_bit = DATA_BITS + 1 /\ d_cnt >= 2
  BY <1>1, <1>2, <1>3, <1>4, <1>5, <1>6, <1>10, MidFacts
<1> QED
  BY <1>1, <1>8, <1>9, <1>10 DEF CellBefore, r

-----------------------------------------------------------------------------
(* A byte on its way. *)

LEMMA NothingReceived == ASSUME received' = <<>> PROVE Air' = expected'
BY DEF Air

LEMMA OneReceived ==
  ASSUME NEW x \in Byte, NEW w \in Seq(Byte), received' = <<x>>, expected' = <<x>> \o w
  PROVE  Air' = w /\ expected' # <<>> /\ received'[1] = expected'[1]
<1>1. /\ <<x>> \o w \in Seq(Byte) /\ Len(<<x>> \o w) = 1 + Len(w)
      /\ \A i \in 1 .. 1 + Len(w) : (<<x>> \o w)[i] = IF i <= 1 THEN <<x>>[i] ELSE w[i - 1]
  <2>1. <<x>> \in Seq(Byte) /\ Len(<<x>>) = 1
    OBVIOUS
  <2> QED
    BY <2>1, ConcatProperties
<1>2. Len(w) \in Nat
  BY LenProperties
<1>3. <<x>> \o w # <<>> /\ (<<x>> \o w)[1] = x
  BY <1>1, <1>2
<1>4. /\ Tail(<<x>> \o w) \in Seq(Byte) /\ Len(Tail(<<x>> \o w)) = Len(w)
      /\ \A i \in 1 .. Len(w) : Tail(<<x>> \o w)[i] = (<<x>> \o w)[i + 1]
  BY <1>1, <1>2, <1>3, HeadTailProperties
<1>5. \A i \in 1 .. Len(w) : Tail(<<x>> \o w)[i] = w[i]
  BY <1>1, <1>2, <1>4
<1>6. Tail(<<x>> \o w) = w
  BY <1>4, <1>5, SeqEqual
<1>7. received' # <<>>
  OBVIOUS
<1> QED
  BY <1>3, <1>6, <1>7 DEF Air

LEMMA WrongIsBit == ASSUME NEW x, NEW y PROVE Wrong(x, y) \in {0, 1}
BY DEF Wrong

LEMMA MisreadsBound == ASSUME NEW x PROVE Misreads(x) \in 0 .. 3
<1>1. Misread(1, x) \in {0, 1} /\ Misread(2, x) \in {0, 1} /\ Misread(3, x) \in {0, 1}
  BY DEF Misread, Wrong
<1> QED
  BY <1>1 DEF Misreads

\* The receiver shifts the right bit in at the end of a cell.
LEMMA GathersBit ==
  ASSUME RxTypes, NEW b \in Byte, Gathers(b), rx_state = "DATA", Maj = b[rx_bit + 1],
         rx_shift' = Append(Tail(rx_shift), Maj),
         \/ rx_bit = DATA_BITS - 1 /\ rx_state' = "STOP"
         \/ rx_bit < DATA_BITS - 1 /\ rx_bit' = rx_bit + 1 /\ rx_state' = "DATA"
  PROVE  Gathers(b)'
<1>1. rx_bit \in 0 .. DATA_BITS - 1 /\ rx_bit \in Nat /\ DATA_BITS \in Nat /\ DATA_BITS >= 1 /\ rx_shift \in Byte
  BY MidFacts DEF RxTypes
<1>2. Maj \in Bit
  BY DEF Maj, Bit
<1>3. /\ rx_shift' \in Byte /\ rx_shift'[DATA_BITS] = Maj
      /\ \A i \in 1 .. DATA_BITS - 1 : rx_shift'[i] = rx_shift[i + 1]
  BY <1>1, <1>2, ShiftsIn
<1>4. ASSUME NEW k \in 1 .. DATA_BITS, k <= rx_bit
      PROVE  rx_shift[(DATA_BITS - rx_bit) + k] = b[k]
  BY <1>4 DEF Gathers
<1>5. ASSUME NEW k \in 1 .. DATA_BITS, k <= rx_bit + 1
      PROVE  rx_shift'[((DATA_BITS - rx_bit) - 1) + k] = b[k]
  <2>1. CASE k = rx_bit + 1
    <3>1. ((DATA_BITS - rx_bit) - 1) + k = DATA_BITS
      BY <1>1, <2>1
    <3> QED
      BY <1>3, <2>1, <3>1
  <2>2. CASE k <= rx_bit
    <3>1. PICK i \in Int : i = ((DATA_BITS - rx_bit) - 1) + k
      BY <1>1
    <3>2. i \in 1 .. DATA_BITS - 1 /\ i + 1 = (DATA_BITS - rx_bit) + k
      BY <1>1, <2>2, <3>1
    <3>3. rx_shift'[i] = rx_shift[i + 1]
      BY <1>3, <3>2
    <3>4. rx_shift[(DATA_BITS - rx_bit) + k] = b[k]
      BY <1>4, <2>2
    <3> QED
      BY <3>1, <3>2, <3>3, <3>4
  <2>3. k = rx_bit + 1 \/ k <= rx_bit
    BY <1>1, <1>5
  <2> QED
    BY <2>1, <2>2, <2>3, Zenon
<1>6. CASE rx_bit = DATA_BITS - 1 /\ rx_state' = "STOP"
  <2>1. ASSUME NEW k \in 1 .. DATA_BITS PROVE rx_shift'[k] = b[k]
    <3>1. k <= rx_bit + 1 /\ ((DATA_BITS - rx_bit) - 1) + k = k
      BY <1>1, <1>6
    <3> QED
      BY <1>5, <3>1
  <2>2. rx_shift' = b
    <3>1. rx_shift' \in [1 .. DATA_BITS -> Bit] /\ b \in [1 .. DATA_BITS -> Bit]
      BY <1>3, Zenon DEF Byte
    <3>2. rx_shift' = [k \in 1 .. DATA_BITS |-> rx_shift'[k]] /\ b = [k \in 1 .. DATA_BITS |-> b[k]]
      BY <3>1, Zenon
    <3>3. [k \in 1 .. DATA_BITS |-> rx_shift'[k]] = [k \in 1 .. DATA_BITS |-> b[k]]
      BY <2>1, Zenon
    <3> QED
      BY <3>2, <3>3, Zenon
  <2> QED
    BY <1>6, <2>2 DEF Gathers
<1>7. CASE rx_bit < DATA_BITS - 1 /\ rx_bit' = rx_bit + 1 /\ rx_state' = "DATA"
  <2>1. ASSUME NEW k \in 1 .. DATA_BITS, k <= rx_bit' PROVE rx_shift'[(DATA_BITS - rx_bit') + k] = b[k]
    <3>1. k <= rx_bit + 1 /\ DATA_BITS - rx_bit' = (DATA_BITS - rx_bit) - 1
      BY <1>1, <1>7, <2>1
    <3> QED
      BY <1>5, <3>1
  <2> QED
    BY <1>7, <2>1 DEF Gathers
<1> QED
  BY <1>6, <1>7

LEMMA ReceivesOn ==
  ASSUME RxTypes, DriveTypes, Receiving, NEW rxd \in Bit, RxEdge(rxd), NEW b \in Byte, b = d_shift
  PROVE  \/ /\ InFrame' /\ RxClock' = RxClock + 1 /\ received' = <<>> /\ frame_err' = FALSE
            /\ Gathers(b)'
            /\ Misreads(Level(b, RxCell))'
                 <= Misreads(Level(b, RxCell)) + Wrong(sync[2], Level(b, CellBefore(2)))
         \/ /\ rx_state' = "IDLE" /\ received' = <<b>> /\ frame_err' = FALSE
            /\ RxCell = DATA_BITS + 1 /\ rx_cnt = MID + 2
<1> USE DEF RxEdge
<1>1. PICK c \in 0 .. DATA_BITS + 1 : c = RxCell
  <2>1. RxCell \in 0 .. DATA_BITS + 1
    BY MidFacts DEF RxTypes, RxCell
  <2> QED
    BY <2>1
<1>2. PICK x \in Bit : x = Level(b, c)
  BY FrameLevels
<1>3. InFrame /\ RxClock = Driven - 3 /\ Gathers(b) /\ d_cnt < CellLength /\ Disturbed <= 1
  BY DEF Receiving
<1>4. Misreads(x) <= 1
  <2>1. Disturbed = Wrong(sync[1], Level(d_shift, CellBefore(1)))
                      + Wrong(sync[2], Level(d_shift, CellBefore(2))) + Misreads(x)
    BY <1>1, <1>2, <1>3 DEF Disturbed
  <2>2. /\ Wrong(sync[1], Level(d_shift, CellBefore(1))) \in {0, 1}
        /\ Wrong(sync[2], Level(d_shift, CellBefore(2))) \in {0, 1}
    BY WrongIsBit
  <2> QED
    BY <1>3, <2>1, <2>2, MisreadsBound
<1>5. rx_cnt \in Nat /\ rx_cnt <= CLKS_PER_BIT - 1 /\ rx_bit \in 0 .. DATA_BITS - 1 /\ rx_bit \in Nat
  BY MidFacts DEF RxTypes
<1>6. rx_cnt >= MID + 2 => Maj = x
  BY <1>4, MajorityIsRight
<1>7. RxClock = Cells(c) + rx_cnt /\ Cells(c) \in Int /\ Cells(c + 1) = Cells(c) + CLKS_PER_BIT
  BY <1>1, CellsFacts DEF RxClock
<1>8. CASE Count /\ rx_state # "IDLE"
  <2>1. rx_cnt' = rx_cnt + 1 /\ rx_state' = rx_state /\ rx_bit' = rx_bit /\ rx_shift' = rx_shift
        /\ received' = <<>> /\ frame_err' = FALSE
    BY <1>8 DEF Count, Silent
  <2>2. RxCell' = c
    BY <1>1, <2>1 DEF RxCell
  <2>3. RxClock' = Cells(c) + rx_cnt'
    BY <2>2 DEF RxClock, Cells
  <2>4. RxClock' = RxClock + 1
    BY <1>5, <1>7, <2>1, <2>3
  <2>5. Misreads(x)' = Misreads(x) + (IF rx_cnt \in MID - 1 .. MID + 1 THEN Wrong(sync[2], x) ELSE 0)
    BY <2>1, ClockMisreads
  <2>6. rx_cnt \in MID - 1 .. MID + 1 => Wrong(sync[2], x) = Wrong(sync[2], Level(b, CellBefore(2)))
    BY <1>1, <1>2, <1>3, SamplesItsCell
  <2>7. Wrong(sync[2], Level(b, CellBefore(2))) \in {0, 1} /\ Misreads(x) \in 0 .. 3
    BY WrongIsBit, MisreadsBound
  <2>8. Misreads(x)' <= Misreads(x) + Wrong(sync[2], Level(b, CellBefore(2)))
    BY <2>5, <2>6, <2>7
  <2>9. Level(b, RxCell)' = x
    BY <1>2, <2>2 DEF Level
  <2>10. Misreads(Level(b, RxCell))' = Misreads(x)'
    BY <2>9 DEF Misreads, Misread
  <2>11. Misreads(Level(b, RxCell)) = Misreads(x)
    BY <1>1, <1>2
  <2>12. Gathers(b)'
    BY <1>3, <2>1 DEF Gathers
  <2>13. InFrame'
    BY <1>8, <2>1 DEF InFrame
  <2> QED
    BY <2>1, <2>4, <2>8, <2>10, <2>11, <2>12, <2>13
<1>9. ASSUME rx_cnt = CLKS_PER_BIT - 1, rx_cnt' = 0, RxCell' = c + 1, InFrame', Gathers(b)', Silent
      PROVE  /\ InFrame' /\ RxClock' = RxClock + 1 /\ received' = <<>> /\ frame_err' = FALSE
             /\ Gathers(b)'
             /\ Misreads(Level(b, RxCell))'
                  <= Misreads(Level(b, RxCell)) + Wrong(sync[2], Level(b, CellBefore(2)))
  <2>1. RxClock' = Cells(c + 1) + 0
    BY <1>9 DEF RxClock, Cells
  <2>2. RxClock' = RxClock + 1
    BY <1>7, <1>9, <2>1, MidFacts
  <2>3. Misreads(Level(b, RxCell))' = 0
    BY <1>9, MidFacts DEF Misreads, Misread, Taken
  <2>4. Wrong(sync[2], Level(b, CellBefore(2))) \in {0, 1} /\ Misreads(Level(b, RxCell)) \in 0 .. 3
    BY WrongIsBit, MisreadsBound
  <2> QED
    BY <1>9, <2>2, <2>3, <2>4 DEF Silent
<1>10. CASE RxStart /\ ~Count
  <2>1. rx_state = "START" /\ rx_cnt = CLKS_PER_BIT - 1 /\ rx_cnt' = 0 /\ Silent
        /\ rx_state' = (IF Maj = 1 THEN "IDLE" ELSE "DATA") /\ rx_bit' = rx_bit /\ rx_shift' = rx_shift
    BY <1>10 DEF RxStart, CellEnd
  <2>2. c = 0 /\ x = 0
    BY <1>1, <1>2, <2>1 DEF RxCell, Level
  <2>3. rx_state' = "DATA" /\ rx_bit' = 0
    BY <1>6, <2>1, <2>2, MidFacts DEF RxTypes
  <2>4. RxCell' = c + 1 /\ InFrame'
    BY <2>2, <2>3 DEF RxCell, InFrame
  <2>5. Gathers(b)'
    BY <2>3 DEF Gathers
  <2> QED
    BY <1>9, <2>1, <2>4, <2>5
<1>11. CASE RxData /\ ~Count
  <2>1. /\ rx_state = "DATA" /\ rx_cnt = CLKS_PER_BIT - 1 /\ rx_cnt' = 0 /\ Silent
        /\ rx_shift' = Append(Tail(rx_shift), Maj)
        /\ \/ rx_bit = DATA_BITS - 1 /\ rx_state' = "STOP" /\ rx_bit' = rx_bit
           \/ rx_bit < DATA_BITS - 1 /\ rx_bit' = rx_bit + 1 /\ rx_state' = "DATA"
    BY <1>11 DEF RxData, CellEnd
  <2>2. c = rx_bit + 1 /\ x = b[rx_bit + 1]
    BY <1>1, <1>2, <1>5, <2>1, MidFacts DEF RxCell, Level
  <2>3. Maj = b[rx_bit + 1]
    BY <1>6, <2>1, <2>2, MidFacts
  <2>4. Gathers(b)'
    BY <1>3, <2>1, <2>3, GathersBit
  <2>5. RxCell' = c + 1 /\ InFrame'
    BY <1>5, <2>1, <2>2, MidFacts DEF RxCell, InFrame
  <2> QED
    BY <1>9, <2>1, <2>4, <2>5
<1>12. CASE RxStop /\ ~Count
  <2>1. /\ rx_state = "STOP" /\ rx_cnt = MID + 2 /\ rx_state' = "IDLE"
        /\ received' = (IF Maj = 1 THEN <<rx_shift>> ELSE <<>>)
        /\ frame_err' = (Maj = 0)
    BY <1>12, Zenon DEF RxStop
  <2>2. c = DATA_BITS + 1 /\ x = 1
    BY <1>1, <1>2, <2>1, MidFacts DEF RxCell, Level
  <2>3. Maj = 1
    BY <1>5, <1>6, <2>1, <2>2
  <2>4. rx_shift = b
    BY <1>3, <2>1 DEF Gathers
  <2>5. frame_err' = FALSE
    <3>1. (Maj = 0) = FALSE
      BY <2>3
    <3> QED
      BY <2>1, <3>1, Zenon
  <2> QED
    BY <1>1, <2>1, <2>2, <2>3, <2>4, <2>5
<1>13. ~RxIdle /\ rx_state # "IDLE"
  BY <1>3 DEF RxIdle, InFrame
<1> QED
  BY <1>8, <1>10, <1>11, <1>12, <1>13

LineStep(rxd, new) == Drive(rxd, new) /\ RxEdge(rxd) /\ Score(new)

\* The bits of the synchronizer move on.
LEMMA SyncFacts ==
  ASSUME RxTypes, NEW rxd \in Bit, RxEdge(rxd)
  PROVE  /\ sync[1] \in {0, 1} /\ sync[2] \in {0, 1} /\ sync = <<sync[1], sync[2]>>
         /\ sync' = <<rxd, sync[1]>> /\ sync'[1] = rxd /\ sync'[2] = sync[1]
<1>1. sync \in Bit \X Bit
  BY DEF RxTypes
<1> QED
  BY <1>1 DEF RxEdge, Bit

\* What is in the stop bit is not disturbed.
LEMMA StopIsHigh ==
  ASSUME DriveTypes, NEW rxd \in Bit, NEW new, DriveBit(rxd, new), d_bit = DATA_BITS + 1
  PROVE  rxd = 1
<1>1. Wrong(rxd, Level(d_shift, d_bit)) = 0
  <2>1. ~(d_bit <= DATA_BITS)
    BY MidFacts
  <2> QED
    BY <2>1, DriverLevel
<1>2. Level(d_shift, d_bit) = 1
  BY MidFacts DEF Level
<1> QED
  BY <1>1, <1>2 DEF Wrong

\* The stop bit is long enough to be in the synchronizer and to be decided on.
LEMMA StopLasts ==
  ASSUME DriveTypes, d_bit = DATA_BITS + 1, Driven + 1 = Cells(DATA_BITS + 2) + Shift(DATA_BITS + 2)
  PROVE  d_cnt >= 2 /\ (Driven - 3) + 1 >= (Cells(DATA_BITS + 1) + MID) + 1
<1>1. DATA_BITS \in Int /\ DATA_BITS + 1 \in Int /\ (DATA_BITS + 1) + 1 = DATA_BITS + 2 /\ d_cnt \in Nat
  BY MidFacts DEF DriveTypes
<1>2. PICK e \in Int : e = Cells(DATA_BITS + 1) /\ Cells(DATA_BITS + 2) = e + CLKS_PER_BIT
  BY <1>1, CellsFacts
<1>3. PICK s \in Int : s = Shift(d_bit) /\ -DRIFT <= s /\ s <= DRIFT
  BY CellFacts, MidFacts
<1>4. PICK t \in Int : t = Shift(DATA_BITS + 2) /\ -DRIFT <= t /\ t <= DRIFT
  <2>1. d_bit + 1 = DATA_BITS + 2
    BY <1>1
  <2> QED
    BY <2>1, CellFacts, MidFacts
<1>5. Driven = (e + s) + d_cnt
  BY <1>2, <1>3 DEF Driven
<1>6. ((e + s) + d_cnt) + 1 = (e + CLKS_PER_BIT) + t
  BY <1>2, <1>4, <1>5
<1>7. d_cnt >= 2
  BY <1>1, <1>3, <1>4, <1>6, MidFacts
<1>8. (((e + s) + d_cnt) - 3) + 1 >= (e + MID) + 1
  BY <1>1, <1>3, <1>4, <1>6, MidFacts
<1> QED
  BY <1>2, <1>5, <1>7, <1>8

LEMMA CellOfState ==
  ASSUME NEW st \in {"START", "DATA", "STOP"}, NEW k \in 0 .. DATA_BITS - 1, NEW c,
         c = IF st = "START" THEN 0 ELSE IF st = "DATA" THEN k + 1 ELSE DATA_BITS + 1
  PROVE  c \in 0 .. DATA_BITS + 1 /\ (c = DATA_BITS + 1 <=> st = "STOP")
<1>1. DATA_BITS \in Nat /\ DATA_BITS >= 1 /\ k \in Nat /\ k <= DATA_BITS - 1
  BY MidFacts
<1>2. CASE st = "START"
  BY <1>1, <1>2
<1>3. CASE st = "DATA"
  BY <1>1, <1>3
<1>4. CASE st = "STOP"
  BY <1>1, <1>4
<1> QED
  BY <1>2, <1>3, <1>4

LEMMA ReceivingStep ==
  ASSUME RxTypes, DriveTypes, Receiving, NEW rxd \in Bit, NEW new \in {<<>>} \cup {<<b>> : b \in BYTES},
         LineStep(rxd, new), RxTypes', DriveTypes'
  PROVE  LineInv' /\ Honest'
<1>1. PICK b \in Byte : b = d_shift
  BY DEF DriveTypes
<1>2. /\ d_state = "shift" /\ d_cnt < CellLength /\ ~flushing /\ Air = <<b>>
      /\ InFrame /\ RxClock = Driven - 3 /\ Gathers(b)
      /\ Disturbed <= 1 /\ (Disturbed = 1 => flipped \/ d_bit > DATA_BITS)
      /\ d_bit > DATA_BITS => (d_cnt >= 1 => sync[1] = 1) /\ (d_cnt >= 2 => sync[2] = 1)
  BY <1>1 DEF Receiving
<1>3. Drive(rxd, new) /\ RxEdge(rxd) /\ Score(new)
  BY DEF LineStep
<1>4. /\ DriveBit(rxd, new) /\ new = <<>> /\ flushing' = flushing
      /\ d_state' \in {"shift", "idle"}
  BY <1>2, <1>3, DriverClock
<1>5. expected' = <<b>>
  <2>1. expected' = Air \o new
    BY <1>3, ScoreFacts
  <2>2. <<b>> \o <<>> = <<b>>
    OBVIOUS
  <2> QED
    BY <1>2, <1>4, <2>1, <2>2
<1>6. sync' = <<rxd, sync[1]>> /\ sync[1] \in {0, 1} /\ sync'[1] = rxd /\ sync'[2] = sync[1]
  BY <1>3, SyncFacts
<1>7. d_bit \in 0 .. DATA_BITS + 1 /\ d_bit \in Int /\ d_cnt \in Nat /\ DATA_BITS \in Nat
  BY CellFacts, MidFacts DEF DriveTypes
<1>8. d_bit > DATA_BITS <=> d_bit = DATA_BITS + 1
  BY <1>7
<1>9. d_bit > DATA_BITS => rxd = 1
  BY <1>4, <1>8, StopIsHigh
<1> DEFINE Going == /\ InFrame' /\ RxClock' = RxClock + 1 /\ received' = <<>> /\ frame_err' = FALSE
                    /\ Gathers(b)'
                    /\ Misreads(Level(b, RxCell))'
                         <= Misreads(Level(b, RxCell)) + Wrong(sync[2], Level(b, CellBefore(2)))
           Done  == /\ rx_state' = "IDLE" /\ received' = <<b>> /\ frame_err' = FALSE
                    /\ RxCell = DATA_BITS + 1 /\ rx_cnt = MID + 2
<1>10. Going \/ Done
  BY <1>1, <1>3, ReceivesOn
<1>11. CASE Going
  <2>1. /\ InFrame' /\ RxClock' = RxClock + 1 /\ received' = <<>> /\ frame_err' = FALSE /\ Gathers(b)'
        /\ Misreads(Level(b, RxCell))'
                         <= Misreads(Level(b, RxCell)) + Wrong(sync[2], Level(b, CellBefore(2)))
    BY <1>11
  <2> HIDE DEF Going, Done
  <2>2. Air' = <<b>>
    BY <1>5, <2>1, NothingReceived
  <2>3. Honest'
    BY <2>1 DEF Honest
  <2>4. PICK w1 \in {0, 1} : w1 = Wrong(sync[1], Level(b, CellBefore(1)))
    BY WrongIsBit
  <2>5. PICK w2 \in {0, 1} : w2 = Wrong(sync[2], Level(b, CellBefore(2)))
    BY WrongIsBit
  <2>6. PICK m \in 0 .. 3 : m = Misreads(Level(b, RxCell))
    BY MisreadsBound
  <2>7. Disturbed = w1 + w2 + m
    BY <1>1, <1>2, <2>4, <2>5, <2>6 DEF Disturbed
  <2>8. PICK w \in {0, 1} : w = Wrong(rxd, Level(b, d_bit))
    BY WrongIsBit
  <2>9. /\ w = 1 => ~flipped /\ d_bit <= DATA_BITS /\ flipped'
        /\ flipped /\ d_bit <= DATA_BITS => flipped'
    BY <1>1, <1>4, <2>8, DriverLevel
  <2>10. PICK m1 \in 0 .. 3 : m1 = Misreads(Level(b, RxCell))'
    <3>1. Misreads(Level(b, RxCell))' \in 0 .. 3
      <4>1. PICK x : x = Level(b, RxCell)'
        OBVIOUS
      <4>2. /\ Misread(1, x)' \in {0, 1} /\ Misread(2, x)' \in {0, 1} /\ Misread(3, x)' \in {0, 1}
        BY DEF Misread, Wrong
      <4>3. Misreads(Level(b, RxCell))' = Misread(1, x)' + Misread(2, x)' + Misread(3, x)'
        BY <4>1 DEF Misreads, Misread
      <4> QED
        BY <4>2, <4>3
    <3> QED
      BY <3>1
  <2>11. m1 <= m + w2
    BY <2>1, <2>5, <2>6, <2>10
  <2>12. w + w1 + m1 <= 1
    BY <1>2, <1>7, <2>7, <2>9, <2>11
  <2>13. CASE d_state' = "shift"
    <3>1. /\ d_shift' = b /\ d_cnt' < CellLength' /\ Driven' = Driven + 1 /\ d_bit' >= d_bit
          /\ CellBefore(1)' = d_bit /\ CellBefore(2)' = CellBefore(1)
          /\ (d_bit' = d_bit /\ d_cnt' = d_cnt + 1) \/ (d_bit' = d_bit + 1 /\ d_cnt' = 0)
      BY <1>1, <1>2, <1>3, <2>13, DriverClock
    <3>2. Disturbed' = w + w1 + m1
      <4>1. Wrong(sync[1], Level(d_shift, CellBefore(1)))' = w
        BY <1>6, <2>8, <3>1 DEF Level, Wrong
      <4>2. Wrong(sync[2], Level(d_shift, CellBefore(2)))' = w1
        BY <1>6, <2>4, <3>1 DEF Level, Wrong
      <4>3. Misreads(Level(d_shift, RxCell))' = m1
        BY <2>10, <3>1 DEF Level, Misreads, Misread
      <4> QED
        BY <2>1, <4>1, <4>2, <4>3 DEF Disturbed
    <3>3. Disturbed' <= 1 /\ (Disturbed' = 1 => flipped' \/ d_bit' > DATA_BITS)
      <4>1. CASE w = 1
        BY <2>9, <2>12, <3>2, <4>1
      <4>2. CASE w = 0 /\ flipped /\ d_bit <= DATA_BITS
        BY <2>9, <2>12, <3>2, <4>2
      <4>3. CASE d_bit > DATA_BITS
        <5>1. d_bit' > DATA_BITS
          BY <1>7, <3>1, <4>3
        <5> QED
          BY <2>12, <3>2, <5>1
      <4>4. CASE w = 0 /\ ~flipped /\ d_bit <= DATA_BITS
        <5>1. Disturbed = 0
          <6>1. w1 + w2 + m \in Nat /\ ~(d_bit > DATA_BITS)
            BY <1>7, <4>4
          <6> QED
            BY <1>2, <2>7, <4>4, <6>1
        <5>2. w1 + m1 = 0
          BY <2>7, <2>11, <5>1
        <5> QED
          BY <3>2, <4>4, <5>2
      <4> QED
        BY <1>7, <4>1, <4>2, <4>3, <4>4
    <3>4. d_bit' > DATA_BITS => (d_cnt' >= 1 => sync'[1] = 1) /\ (d_cnt' >= 2 => sync'[2] = 1)
      <4>1. CASE d_bit' = d_bit /\ d_cnt' = d_cnt + 1
        BY <1>2, <1>6, <1>7, <1>9, <4>1
      <4>2. CASE d_bit' = d_bit + 1 /\ d_cnt' = 0
        BY <4>2
      <4> QED
        BY <3>1, <4>1, <4>2
    <3>5. RxClock' = Driven' - 3
      <4>1. Driven \in Int
        BY DrivenIsInt
      <4> QED
        BY <1>2, <2>1, <3>1, <4>1
    <3>6. Gathers(d_shift)'
      BY <2>1, <3>1 DEF Gathers
    <3>7. Receiving'
      BY <1>2, <1>4, <2>1, <2>2, <2>13, <3>1, <3>3, <3>4, <3>5, <3>6 DEF Receiving
    <3> QED
      BY <2>3, <3>7 DEF LineInv
  <2>14. CASE d_state' = "idle"
    <3>1. d_bit = DATA_BITS + 1 /\ Driven + 1 = Cells(DATA_BITS + 2) + Shift(DATA_BITS + 2)
      BY <1>2, <1>3, <2>14, DriverClock
    <3>2. /\ Cells(DATA_BITS + 1) \in Int /\ Cells(DATA_BITS + 2) = Cells(DATA_BITS + 1) + CLKS_PER_BIT
          /\ Cells(DATA_BITS) \in Int /\ Cells(DATA_BITS + 1) = Cells(DATA_BITS) + CLKS_PER_BIT
      <4>1. DATA_BITS \in Int /\ DATA_BITS + 1 \in Int /\ (DATA_BITS + 1) + 1 = DATA_BITS + 2
        BY <1>7
      <4> QED
        BY <4>1, CellsFacts
    <3>3. Shift(DATA_BITS + 2) \in -DRIFT .. DRIFT
      <4>1. d_bit + 1 = DATA_BITS + 2
        BY <1>7, <3>1
      <4> QED
        BY <4>1, CellFacts
    <3>4. d_cnt >= 2 /\ (Driven - 3) + 1 >= (Cells(DATA_BITS + 1) + MID) + 1
      BY <3>1, StopLasts
    <3>5. sync' = <<1, 1>>
      BY <1>2, <1>6, <1>7, <1>9, <3>1, <3>4
    <3>6. RxClock' >= (Cells(DATA_BITS + 1) + MID) + 1
      <4>1. RxClock' = (Driven - 3) + 1
        BY <1>2, <2>1
      <4> QED
        BY <3>4, <4>1
    <3>7. rx_state' = "STOP" /\ rx_cnt' \in {MID + 1, MID + 2}
      <4>1. PICK c \in Int, n \in Int : c = RxCell' /\ n = rx_cnt'
        <5>1. rx_bit' \in Int /\ rx_cnt' \in Int
          BY MidFacts DEF RxTypes
        <5>2. RxCell' \in Int
          BY <5>1, MidFacts DEF RxCell
        <5> QED
          BY <5>1, <5>2
      <4>2. c \in 0 .. DATA_BITS + 1 /\ n \in 0 .. CLKS_PER_BIT - 1 /\ (c = DATA_BITS + 1 => rx_state' = "STOP")
            /\ (rx_state' = "STOP" => n <= MID + 2 /\ c = DATA_BITS + 1)
        <5>1. rx_state' \in {"START", "DATA", "STOP"} /\ rx_bit' \in 0 .. DATA_BITS - 1
          BY <2>1 DEF RxTypes, InFrame, States
        <5>2. n \in 0 .. CLKS_PER_BIT - 1 /\ (rx_state' = "STOP" => n <= MID + 2)
          BY <4>1 DEF RxTypes
        <5>3. c = IF rx_state' = "START" THEN 0 ELSE IF rx_state' = "DATA" THEN rx_bit' + 1 ELSE DATA_BITS + 1
          BY <4>1 DEF RxCell
        <5> QED
          BY <5>1, <5>2, <5>3, CellOfState
      <4>3. RxClock' = Cells(c) + n /\ Cells(c) \in Int
        BY <4>1, CellsFacts DEF RxClock, Cells
      <4>4. ~(c <= DATA_BITS)
        <5>1. c < DATA_BITS + 1 => Cells(c) + CLKS_PER_BIT <= Cells(DATA_BITS + 1)
          BY <1>7, <4>1, CellsFacts
        <5> QED
          BY <1>7, <3>2, <3>6, <4>2, <4>3, <5>1, MidFacts
      <4>5. c = DATA_BITS + 1
        BY <1>7, <4>2, <4>4
      <4> QED
        BY <3>2, <3>6, <4>1, <4>2, <4>3, <4>5, MidFacts
    <3>8. Misreads(1)' <= 1
      <4>1. Level(b, RxCell)' = 1
        BY <1>7, <3>7 DEF Level, RxCell
      <4>2. Misreads(1)' = m1
        BY <2>10, <4>1 DEF Misreads, Misread
      <4> QED
        BY <2>12, <4>2
    <3>9. Owed' = <<b>>
      BY <2>1, <3>7 DEF Owed, Gathers
    <3>10. Resting'
      BY <1>2, <1>4, <2>2, <2>14, <3>5, <3>7, <3>8, <3>9 DEF Resting, AtRest, Deciding
    <3> QED
      BY <2>3, <3>10 DEF LineInv
  <2> QED
    BY <1>4, <2>13, <2>14
<1>12. CASE Done
  <2>1. /\ rx_state' = "IDLE" /\ received' = <<b>> /\ frame_err' = FALSE
        /\ RxCell = DATA_BITS + 1 /\ rx_cnt = MID + 2
    BY <1>12
  <2> HIDE DEF Going, Done
  <2>2. Air' = <<>> /\ expected' # <<>> /\ received'[1] = expected'[1]
    <3>1. expected' = <<b>> \o <<>> /\ <<>> \in Seq(Byte)
      BY <1>5
    <3> QED
      BY <2>1, <3>1, OneReceived
  <2>3. Honest'
    BY <2>1, <2>2 DEF Honest
  <2>4. d_bit = DATA_BITS + 1 /\ d_cnt >= 2
    BY <1>2, <2>1, SamplesItsCell
  <2>5. sync' = <<1, 1>>
    BY <1>2, <1>6, <1>7, <1>9, <2>4
  <2>6. CASE d_state' = "shift"
    <3>1. d_cnt' < CellLength' /\ Driven' = Driven + 1 /\ d_bit' >= d_bit
      BY <1>2, <1>3, <2>6, DriverClock
    <3>2. Driven = (Cells(DATA_BITS + 1) + MID) + 5 /\ Cells(DATA_BITS + 1) \in Int
      <4>1. Cells(DATA_BITS + 1) \in Int
        BY <1>7, CellsFacts
      <4>2. Driven \in Int
        BY DrivenIsInt
      <4> QED
        BY <1>2, <2>1, <4>1, <4>2, MidFacts DEF RxClock
    <3>3. Driven' > (Cells(DATA_BITS + 1) + MID) + 5
      BY <3>1, <3>2, MidFacts
    <3>4. ((Cells(DATA_BITS + 1) + MID) + 5)' = (Cells(DATA_BITS + 1) + MID) + 5
      BY DEF Cells, MID
    <3>5. d_bit' > DATA_BITS
      <4>1. d_bit' \in Int
        BY DEF DriveTypes
      <4> QED
        BY <1>7, <2>4, <3>1, <4>1
    <3>6. Received'
      BY <1>2, <1>4, <2>1, <2>2, <2>5, <2>6, <3>1, <3>3, <3>5 DEF Received, Cells, MID
    <3> QED
      BY <2>3, <3>6 DEF LineInv
  <2>7. CASE d_state' = "idle"
    <3>1. Owed' = <<>>
      BY <2>1 DEF Owed
    <3>2. Resting'
      BY <1>2, <1>4, <2>1, <2>2, <2>5, <2>7, <3>1 DEF Resting, AtRest
    <3> QED
      BY <2>3, <3>2 DEF LineInv
  <2> QED
    BY <1>4, <2>6, <2>7
<1> QED
  BY <1>10, <1>11, <1>12

-----------------------------------------------------------------------------
(* Between the bytes. *)

\* A receiver at the end of a byte, on a high line, comes to rest and gives the byte.
LEMMA ComesToRest ==
  ASSUME RxTypes, DriveTypes, NEW rxd \in Bit, RxEdge(rxd), sync[2] = 1,
         AtRest \/ (rx_state = "STOP" /\ rx_cnt = MID + 1 /\ Misreads(1) <= 1),
         NEW w \in Seq(Byte), expected' = Owed \o w
  PROVE  /\ AtRest' /\ Air' = Owed' \o w /\ Honest'
         /\ AtRest => rx_state' = "IDLE" /\ Air' = w
<1> USE DEF RxEdge
<1>0. <<>> \o w = w /\ rx_shift \in Byte
  BY ConcatEmptySeq DEF RxTypes
<1>1. CASE rx_state = "IDLE"
  <2>1. rx_state' = "IDLE" /\ received' = <<>> /\ frame_err' = FALSE
    BY <1>1 DEF RxIdle, RxStart, RxData, RxStop, Silent
  <2>2. Owed = <<>> /\ Owed' = <<>>
    BY <1>1, <2>1 DEF Owed
  <2>3. Air' = w
    BY <1>0, <2>1, <2>2, NothingReceived
  <2> QED
    BY <1>0, <2>1, <2>2, <2>3 DEF AtRest, Honest
<1>2. CASE Deciding
  <2>1. rx_state = "STOP" /\ rx_cnt = MID + 2 /\ Misreads(1) <= 1
    BY <1>2 DEF Deciding
  <2>2. Maj = 1
    <3>1. 1 \in Bit /\ rx_cnt >= MID + 2
      BY <2>1, MidFacts DEF Bit
    <3> QED
      BY <2>1, <3>1, MajorityIsRight
  <2>3. RxStop /\ ~Count
    <3>1. RxStop
      BY <2>1 DEF RxIdle, RxStart, RxData
    <3>2. ~Count
      BY <2>1, <3>1, MidFacts DEF RxStop, Count
    <3> QED
      BY <3>1, <3>2
  <2>4. rx_state' = "IDLE" /\ received' = <<rx_shift>> /\ frame_err' = FALSE
    <3>1. (Maj = 0) = FALSE
      BY <2>2
    <3> QED
      BY <2>2, <2>3, <3>1, Zenon DEF RxStop
  <2>5. Owed = <<rx_shift>> /\ Owed' = <<>>
    BY <2>1, <2>4 DEF Owed
  <2>6. Air' = w /\ expected' # <<>> /\ received'[1] = expected'[1]
    BY <1>0, <2>4, <2>5, OneReceived
  <2> QED
    BY <1>0, <2>4, <2>5, <2>6 DEF AtRest, Honest
<1>3. CASE rx_state = "STOP" /\ rx_cnt = MID + 1 /\ Misreads(1) <= 1
  <2>1. RxStop
    BY <1>3 DEF RxIdle, RxStart, RxData
  <2>2. /\ rx_state' = "STOP" /\ rx_cnt' = rx_cnt + 1 /\ rx_shift' = rx_shift
        /\ received' = <<>> /\ frame_err' = FALSE
    BY <1>3, <2>1, MidFacts DEF RxStop, Count, Silent
  <2>3. rx_cnt' = MID + 2
    BY <1>3, <2>2, MidFacts
  <2>4. Misreads(1)' <= 1
    <3>1. Misreads(1)' = Misreads(1) + (IF rx_cnt \in MID - 1 .. MID + 1 THEN Wrong(sync[2], 1) ELSE 0)
      <4>1. 1 \in Bit
        BY DEF Bit
      <4> QED
        BY <2>2, <4>1, ClockMisreads
    <3>2. Wrong(sync[2], 1) = 0
      BY DEF Wrong
    <3> QED
      BY <1>3, <3>1, <3>2, MisreadsBound
  <2>5. Owed' = Owed
    BY <1>3, <2>2 DEF Owed
  <2>6. Air' = Owed' \o w
    BY <2>2, <2>5, NothingReceived
  <2>7. ~AtRest
    BY <1>3, MidFacts DEF AtRest, Deciding
  <2> QED
    BY <2>2, <2>3, <2>4, <2>6, <2>7 DEF AtRest, Deciding, Honest
<1> QED
  BY <1>1, <1>2, <1>3 DEF AtRest

LEMMA BreakFacts ==
  /\ BREAK \in Int /\ BREAK >= 8 * CLKS_PER_BIT
  /\ Cells(DATA_BITS + 1) \in Int /\ Cells(DATA_BITS + 1) + 6 * CLKS_PER_BIT <= BREAK
  /\ Cells(DATA_BITS + 1) >= CLKS_PER_BIT
<1>1. BREAK = Cells(DATA_BITS + 7)
  BY DEF BREAK, Cells
<1>2. DATA_BITS \in Int /\ CLKS_PER_BIT \in Nat /\ DATA_BITS >= 1
  BY MidFacts
<1>3. PICK n \in Int : n = DATA_BITS + 1 /\ n >= 2
  BY <1>2
<1>4. /\ Cells(n + 1) = Cells(n) + CLKS_PER_BIT /\ Cells((n + 1) + 1) = Cells(n + 1) + CLKS_PER_BIT
      /\ Cells(((n + 1) + 1) + 1) = Cells((n + 1) + 1) + CLKS_PER_BIT
  <2>1. n + 1 \in Int /\ (n + 1) + 1 \in Int
    OBVIOUS
  <2> QED
    BY <2>1, CellsFacts
<1>5. /\ Cells((n + 3) + 1) = Cells(n + 3) + CLKS_PER_BIT /\ Cells(((n + 3) + 1) + 1) = Cells((n + 3) + 1) + CLKS_PER_BIT
      /\ Cells((((n + 3) + 1) + 1) + 1) = Cells(((n + 3) + 1) + 1) + CLKS_PER_BIT
  <2>1. n + 3 \in Int /\ (n + 3) + 1 \in Int /\ ((n + 3) + 1) + 1 \in Int
    OBVIOUS
  <2> QED
    BY <2>1, CellsFacts
<1>6. ((n + 1) + 1) + 1 = n + 3 /\ (((n + 3) + 1) + 1) + 1 = DATA_BITS + 7
  BY <1>2, <1>3
<1>7. Cells(n) \in Int /\ Cells(n + 1) \in Int /\ Cells((n + 1) + 1) \in Int
      /\ Cells((n + 3) + 1) \in Int /\ Cells(((n + 3) + 1) + 1) \in Int
  <2>1. n + 1 \in Int /\ (n + 1) + 1 \in Int /\ (n + 3) + 1 \in Int /\ ((n + 3) + 1) + 1 \in Int
    OBVIOUS
  <2> QED
    BY <2>1, CellsFacts
<1>8. Cells(DATA_BITS + 7) = Cells(n) + 6 * CLKS_PER_BIT
  BY <1>2, <1>4, <1>5, <1>6, <1>7
<1>9. Cells(n) >= 2 * CLKS_PER_BIT
  <2>1. Cells(0) = 0 /\ 0 \in Int /\ 1 \in Int /\ Cells(1) \in Int
    BY CellsFacts
  <2>2. Cells(0) + CLKS_PER_BIT <= Cells(1)
    BY <2>1, CellsFacts
  <2>3. Cells(1) + CLKS_PER_BIT <= Cells(n)
    <3>1. 1 < n
      BY <1>3
    <3> QED
      BY <2>1, <3>1, CellsFacts
  <2> QED
    BY <1>2, <1>7, <2>1, <2>2, <2>3
<1> QED
  BY <1>1, <1>2, <1>3, <1>7, <1>8, <1>9

\* Whatever is driven next, the receiver waits for it.
LEMMA FromIdle ==
  ASSUME RxTypes', DriveTypes, d_state = "idle", NEW rxd \in Bit, NEW new \in {<<>>} \cup {<<b>> : b \in BYTES},
         Drive(rxd, new), sync' = <<rxd, 1>>, AtRest', Air' = Owed' \o new,
         DriveGap(rxd, new) => ~flushing
  PROVE  LineInv'
<1>1. Owed' \in Seq(Byte)
  <2>1. rx_shift' \in Byte
    BY DEF RxTypes
  <2>2. <<rx_shift'>> \in Seq(Byte)
    BY <2>1
  <2> QED
    BY <2>2 DEF Owed
<1>2. Owed' \o <<>> = Owed'
  BY <1>1, ConcatEmptySeq
<1>3. CASE DriveGap(rxd, new)
  <2>1. d_state' = "idle" /\ ~flushing' /\ rxd = 1 /\ new = <<>>
    BY <1>3 DEF DriveGap
  <2>2. Resting'
    BY <1>2, <2>1 DEF Resting
  <2> QED
    BY <2>2 DEF LineInv
<1>4. CASE DriveByte(rxd, new)
  <2>1. PICK b \in BYTES : new = <<b>> /\ d_shift' = b
    BY <1>4 DEF DriveByte
  <2>2. d_state' = "shift" /\ d_cnt' = 1 /\ d_bit' = 0 /\ flipped' = FALSE /\ flushing' = FALSE /\ rxd = 0
    BY <1>4 DEF DriveByte
  <2>3. Arriving'
    BY <2>1, <2>2 DEF Arriving
  <2> QED
    BY <2>3 DEF LineInv
<1>5. CASE DriveLow(rxd, new)
  <2>1. new = <<>> /\ rxd = 0 /\ d_cnt = 0
    BY <1>5 DEF DriveLow
  <2>2. sync' = <<0, 1>> /\ sync'[1] = 0 /\ sync'[2] = 1 /\ Air' = Owed'
    BY <1>2, <2>1
  <2>3. CASE d_state' = "pulse" /\ d_cnt' \in {n - 1 : n \in PULSES} /\ flushing' = FALSE
    <3>1. PICK n \in PULSES : d_cnt' = n - 1
      BY <2>3
    <3>2. n \in Nat /\ n <= MID + 1
      BY BenchAssumption, ToleranceAssumption
    <3>3. d_cnt' <= MID
      BY <3>1, <3>2, MidFacts
    <3>4. Pulsing'
      BY <2>2, <2>3, <3>3 DEF Pulsing, MID
    <3> QED
      BY <3>4 DEF LineInv
  <2>4. CASE d_state' = "break" /\ d_cnt' = BREAK - 1 /\ flushing' = TRUE
    <3>1. d_cnt' < BREAK /\ BREAK' = BREAK
      BY <2>4, BreakFacts DEF BREAK
    <3>2. Breaking'
      BY <2>2, <2>4, <3>1 DEF Breaking
    <3> QED
      BY <3>2 DEF LineInv
  <2> QED
    BY <1>5, <2>3, <2>4 DEF DriveLow
<1> QED
  BY <1>3, <1>4, <1>5 DEF Drive, DriveBit, DriveRelease

LEMMA NewIsSeq ==
  ASSUME NEW new \in {<<>>} \cup {<<b>> : b \in BYTES}
  PROVE  new \in Seq(Byte)
<1>1. CASE new = <<>>
  BY <1>1
<1>2. ASSUME NEW b \in BYTES, new = <<b>> PROVE new \in Seq(Byte)
  BY <1>2, BenchAssumption
<1> QED
  BY <1>1, <1>2

LEMMA RestingStep ==
  ASSUME RxTypes, DriveTypes, Resting, NEW rxd \in Bit, NEW new \in {<<>>} \cup {<<b>> : b \in BYTES},
         LineStep(rxd, new), RxTypes', DriveTypes'
  PROVE  LineInv' /\ Honest'
<1>1. Drive(rxd, new) /\ RxEdge(rxd) /\ Score(new)
  BY DEF LineStep
<1>2. /\ d_state = "idle" /\ ~flushing /\ sync = <<1, 1>> /\ Air = Owed
      /\ AtRest \/ (rx_state = "STOP" /\ rx_cnt = MID + 1 /\ Misreads(1) <= 1)
  BY DEF Resting
<1>3. expected' = Owed \o new
  BY <1>1, <1>2, ScoreFacts
<1>4. sync[2] = 1 /\ sync' = <<rxd, 1>>
  BY <1>1, <1>2, SyncFacts
<1>5. AtRest' /\ Air' = Owed' \o new /\ Honest'
  BY <1>1, <1>2, <1>3, <1>4, NewIsSeq, ComesToRest
<1> QED
  BY <1>1, <1>2, <1>4, <1>5, FromIdle

LEMMA ArrivingStep ==
  ASSUME RxTypes, DriveTypes, Arriving, NEW rxd \in Bit, NEW new \in {<<>>} \cup {<<b>> : b \in BYTES},
         LineStep(rxd, new), RxTypes', DriveTypes'
  PROVE  LineInv' /\ Honest'
<1>1. Drive(rxd, new) /\ RxEdge(rxd) /\ Score(new)
  BY DEF LineStep
<1>2. PICK b \in Byte : b = d_shift
  BY DEF DriveTypes
<1>3. d_state = "shift" /\ d_bit = 0 /\ ~flushing /\ Air = Owed \o <<b>> /\ d_cnt \in {1, 2}
  BY <1>2 DEF Arriving
<1>4. d_cnt + 1 < CellLength /\ d_cnt < CellLength
  BY <1>3, CellFacts
<1>5. /\ DriveBit(rxd, new) /\ new = <<>> /\ flushing' = flushing
      /\ d_state' = "shift" /\ d_bit' = 0 /\ d_shift' = b /\ d_cnt' = d_cnt + 1
      /\ d_cnt' < CellLength' /\ Driven' = Driven + 1
  <2>1. DriveBit(rxd, new) /\ new = <<>> /\ flushing' = flushing
    BY <1>1, <1>3, <1>4, DriverClock
  <2>2. DriveCell
    BY <2>1 DEF DriveBit
  <2>3. d_cnt + 1 # CellLength
    BY <1>3, <1>4, CellFacts
  <2>4. d_state' = "shift" /\ d_bit' = 0 /\ d_shift' = b /\ d_cnt' = d_cnt + 1
    BY <1>2, <1>3, <2>2, <2>3, Zenon DEF DriveCell
  <2> QED
    BY <1>1, <1>3, <1>4, <2>1, <2>4, DriverClock
<1>6. expected' = Owed \o <<b>>
  <2>1. Owed \o <<b>> \in Seq(Byte)
    <3>1. <<b>> \in Seq(Byte) /\ <<rx_shift>> \in Seq(Byte)
      BY DEF RxTypes
    <3>2. Owed \in Seq(Byte)
      BY <3>1 DEF Owed
    <3> QED
      BY <3>1, <3>2, ConcatProperties
  <2>2. expected' = Air \o new
    BY <1>1, ScoreFacts
  <2> QED
    BY <1>3, <1>5, <2>1, <2>2, ConcatEmptySeq
<1>7. sync' = <<rxd, sync[1]>> /\ sync[1] \in {0, 1} /\ sync'[1] = rxd /\ sync'[2] = sync[1]
  BY <1>1, SyncFacts
<1>8. Level(b, d_bit) = 0
  BY <1>3 DEF Level
<1>9. (rxd = 1 => ~flipped /\ flipped') /\ (flipped => flipped') /\ rxd \in {0, 1}
  <2>1. 0 <= DATA_BITS
    BY MidFacts
  <2>2. Wrong(rxd, 0) = 1 <=> rxd # 0
    BY DEF Wrong
  <2>3. /\ Wrong(rxd, 0) = 1 => ~flipped /\ flipped'
        /\ flipped /\ d_bit <= DATA_BITS => flipped'
    BY <1>2, <1>5, <1>8, DriverLevel
  <2> QED
    BY <1>3, <2>1, <2>2, <2>3 DEF Bit
<1>10. CASE d_cnt = 1
  <2>1. AtRest /\ sync = <<0, 1>> /\ ~flipped
    BY <1>10 DEF Arriving
  <2>2. sync[2] = 1 /\ sync[1] = 0
    BY <2>1
  <2>3. <<b>> \in Seq(Byte)
    OBVIOUS
  <2>4. rx_state' = "IDLE" /\ Air' = <<b>> /\ Honest'
    BY <1>1, <1>6, <2>1, <2>2, <2>3, ComesToRest
  <2>5. Owed' = <<>> /\ <<>> \o <<b>> = <<b>>
    BY <2>4 DEF Owed
  <2>6. Arriving'
    BY <1>3, <1>5, <1>7, <1>9, <1>10, <2>2, <2>4, <2>5 DEF Arriving
  <2> QED
    BY <2>4, <2>6 DEF LineInv
<1>11. CASE d_cnt = 2
  <2>1. rx_state = "IDLE" /\ sync[2] = 0 /\ (sync[1] = 1 => flipped)
    BY <1>11 DEF Arriving
  <2>2. rx_state' = "START" /\ rx_cnt' = 0 /\ received' = <<>> /\ frame_err' = FALSE
    BY <1>1, <2>1 DEF RxEdge, RxIdle, RxStart, RxData, RxStop, Silent
  <2>3. Owed = <<>> /\ <<>> \o <<b>> = <<b>>
    BY <2>1 DEF Owed
  <2>4. Air' = <<b>> /\ Honest'
    BY <1>6, <2>2, <2>3, NothingReceived DEF Honest
  <2>5. RxClock' = Driven' - 3
    <3>1. Driven = (0 + 0) + 2
      BY <1>3, <1>11, CellsFacts, CellFacts DEF Driven
    <3>2. RxCell' = 0
      BY <2>2 DEF RxCell
    <3>3. RxClock' = Cells(0) + 0
      BY <2>2, <3>2 DEF RxClock, Cells
    <3> QED
      BY <1>5, <3>1, <3>3, CellsFacts
  <2>6. Gathers(b)' /\ InFrame'
    BY <2>2 DEF Gathers, InFrame
  <2>7. Disturbed' = Wrong(rxd, 0) + Wrong(sync[1], 0) + 0
    <3>1. CellBefore(1)' = 0 /\ CellBefore(2)' = 0
      BY <1>5, <1>11 DEF CellBefore
    <3>2. Wrong(sync[1], Level(d_shift, CellBefore(1)))' = Wrong(rxd, 0)
      BY <1>7, <3>1 DEF Wrong, Level
    <3>3. Wrong(sync[2], Level(d_shift, CellBefore(2)))' = Wrong(sync[1], 0)
      BY <1>7, <3>1 DEF Wrong, Level
    <3>4. Misreads(Level(d_shift, RxCell))' = 0
      BY <2>2, MidFacts DEF Misreads, Misread, Taken
    <3> QED
      BY <2>6, <3>2, <3>3, <3>4 DEF Disturbed
  <2>8. Disturbed' <= 1 /\ (Disturbed' = 1 => flipped')
    <3>1. CASE rxd = 1
      <4>1. sync[1] = 0
        BY <1>7, <1>9, <2>1, <3>1
      <4>2. Wrong(rxd, 0) = 1 /\ Wrong(sync[1], 0) = 0
        BY <3>1, <4>1 DEF Wrong
      <4> QED
        BY <1>9, <2>7, <3>1, <4>2
    <3>2. CASE rxd = 0 /\ sync[1] = 1
      <4>1. Wrong(rxd, 0) = 0 /\ Wrong(sync[1], 0) = 1
        BY <3>2 DEF Wrong
      <4> QED
        BY <1>9, <2>1, <2>7, <3>2, <4>1
    <3>3. CASE rxd = 0 /\ sync[1] = 0
      <4>1. Wrong(rxd, 0) = 0 /\ Wrong(sync[1], 0) = 0
        BY <3>3 DEF Wrong
      <4> QED
        BY <2>7, <4>1
    <3> QED
      BY <1>7, <1>9, <3>1, <3>2, <3>3
  <2>9. ~(d_bit' > DATA_BITS)
    BY <1>5, MidFacts
  <2>10. Gathers(d_shift)'
    BY <1>5, <2>6 DEF Gathers
  <2>11. Receiving'
    BY <1>3, <1>5, <2>4, <2>5, <2>6, <2>8, <2>9, <2>10 DEF Receiving
  <2> QED
    BY <2>4, <2>11 DEF LineInv
<1> QED
  BY <1>3, <1>10, <1>11

\* An idle receiver sees nothing on a high line, and a start bit on a low one.
LEMMA IdleStep ==
  ASSUME RxTypes, DriveTypes, NEW rxd \in Bit, RxEdge(rxd), rx_state = "IDLE"
  PROVE  /\ received' = <<>> /\ frame_err' = FALSE /\ rx_cnt' = 0 /\ Honest'
         /\ sync[2] = 1 => rx_state' = "IDLE"
         /\ sync[2] = 0 => rx_state' = "START"
BY DEF RxEdge, RxIdle, RxStart, RxData, RxStop, Silent, Honest

LEMMA NoneDriven ==
  ASSUME DriveTypes, NEW new, Score(new), new = <<>>
  PROVE  expected' = Air
<1>1. expected' = Air \o new /\ Air \in Seq(Byte)
  BY ScoreFacts
<1> QED
  BY <1>1, ConcatEmptySeq

LEMMA ReceivedStep ==
  ASSUME RxTypes, DriveTypes, Received, NEW rxd \in Bit, NEW new \in {<<>>} \cup {<<b>> : b \in BYTES},
         LineStep(rxd, new), RxTypes', DriveTypes'
  PROVE  LineInv' /\ Honest'
<1>1. Drive(rxd, new) /\ RxEdge(rxd) /\ Score(new)
  BY DEF LineStep
<1>2. /\ d_state = "shift" /\ d_cnt < CellLength /\ ~flushing /\ Air = <<>>
      /\ rx_state = "IDLE" /\ sync = <<1, 1>> /\ d_bit > DATA_BITS
      /\ Driven > (Cells(DATA_BITS + 1) + MID) + 5
  BY DEF Received
<1>3. /\ DriveBit(rxd, new) /\ new = <<>> /\ flushing' = flushing
      /\ d_state' \in {"shift", "idle"}
      /\ d_state' = "shift" => d_cnt' < CellLength' /\ d_bit' >= d_bit /\ Driven' = Driven + 1
  BY <1>1, <1>2, DriverClock
<1>4. d_bit = DATA_BITS + 1 /\ d_bit \in Int
  BY <1>2, CellFacts, MidFacts
<1>5. rxd = 1
  BY <1>3, <1>4, StopIsHigh
<1>6. sync[2] = 1 /\ sync' = <<1, 1>>
  BY <1>1, <1>2, <1>5, SyncFacts
<1>7. rx_state' = "IDLE" /\ received' = <<>> /\ Honest'
  BY <1>1, <1>2, <1>6, IdleStep
<1>8. Air' = <<>>
  BY <1>1, <1>2, <1>3, <1>7, NoneDriven, NothingReceived
<1>9. CASE d_state' = "shift"
  <2>1. d_bit' > DATA_BITS
    <3>1. d_bit' \in Int
      BY DEF DriveTypes
    <3> QED
      BY <1>3, <1>4, <1>9, <3>1, MidFacts
  <2>2. Driven' > (Cells(DATA_BITS + 1) + MID) + 5
    <3>1. Driven \in Int
      BY DrivenIsInt
    <3>2. Cells(DATA_BITS + 1) \in Int
      BY <1>4, CellsFacts
    <3> QED
      BY <1>2, <1>3, <1>9, <3>1, <3>2, MidFacts
  <2>3. Received'
    BY <1>2, <1>3, <1>6, <1>7, <1>8, <1>9, <2>1, <2>2 DEF Received, Cells, MID
  <2> QED
    BY <1>7, <2>3 DEF LineInv
<1>10. CASE d_state' = "idle"
  <2>1. Owed' = <<>>
    BY <1>7 DEF Owed
  <2>2. Resting'
    BY <1>2, <1>3, <1>6, <1>7, <1>8, <1>10, <2>1 DEF Resting, AtRest
  <2> QED
    BY <1>7, <2>2 DEF LineInv
<1> QED
  BY <1>3, <1>9, <1>10

\* A clock of a pulse or a break, or the end of it.
LEMMA LowFacts ==
  ASSUME DriveTypes, d_state \in {"pulse", "break"}, NEW rxd, NEW new, Drive(rxd, new)
  PROVE  /\ new = <<>> /\ flushing' = flushing
         /\ \/ rxd = 0 /\ d_cnt > 0 /\ d_cnt' = d_cnt - 1 /\ d_state' = d_state
            \/ /\ rxd = 1 /\ d_cnt = 0 /\ d_state' = "idle"
               /\ d_cnt' = IF d_state = "pulse" THEN CLKS_PER_BIT ELSE BREAK
BY DEF Drive, DriveGap, DriveByte, DriveBit, DriveLow, DriveRelease

LEMMA PulsingStep ==
  ASSUME RxTypes, DriveTypes, Pulsing, NEW rxd \in Bit, NEW new \in {<<>>} \cup {<<b>> : b \in BYTES},
         LineStep(rxd, new), RxTypes', DriveTypes'
  PROVE  LineInv' /\ Honest'
<1>1. Drive(rxd, new) /\ RxEdge(rxd) /\ Score(new)
  BY DEF LineStep
<1>2. d_state = "pulse" /\ ~flushing /\ sync[1] = 0 /\ d_cnt \in Nat
  BY DEF Pulsing, DriveTypes
<1>3. /\ new = <<>> /\ flushing' = flushing
      /\ \/ rxd = 0 /\ d_cnt > 0 /\ d_cnt' = d_cnt - 1 /\ d_state' = "pulse"
         \/ rxd = 1 /\ d_cnt = 0 /\ d_cnt' = CLKS_PER_BIT /\ d_state' = "idle"
  BY <1>1, <1>2, LowFacts
<1>4. expected' = Air /\ Air \in Seq(Byte)
  BY <1>1, <1>3, NoneDriven, ScoreFacts
<1>5. sync'[1] = rxd /\ sync'[2] = 0
  BY <1>1, <1>2, SyncFacts
<1>6. CASE AtRest /\ sync[2] = 1 /\ d_cnt <= MID /\ Air = Owed
  <2>1. expected' = Owed \o <<>> /\ <<>> \in Seq(Byte)
    BY <1>4, <1>6, ConcatEmptySeq
  <2>2. rx_state' = "IDLE" /\ Air' = <<>> /\ Honest'
    BY <1>1, <1>6, <2>1, ComesToRest
  <2>3. CASE rxd = 0
    <3>1. d_cnt' <= MID - 1
      BY <1>2, <1>3, <1>6, <2>3, MidFacts
    <3>2. Pulsing'
      BY <1>2, <1>3, <1>5, <2>2, <2>3, <3>1 DEF Pulsing, MID
    <3> QED
      BY <2>2, <3>2 DEF LineInv
  <2>4. CASE rxd = 1
    <3>1. d_cnt' <= CLKS_PER_BIT /\ d_cnt' = CLKS_PER_BIT
      BY <1>3, <2>4, MidFacts
    <3>2. Pulsed'
      BY <1>2, <1>3, <1>5, <2>2, <2>4, <3>1 DEF Pulsed
    <3> QED
      BY <2>2, <3>2 DEF LineInv
  <2> QED
    BY <1>3, <2>3, <2>4
<1>7. CASE rx_state = "IDLE" /\ sync[2] = 0 /\ d_cnt <= MID - 1 /\ Air = <<>>
  <2>1. rx_state' = "START" /\ rx_cnt' = 0 /\ received' = <<>> /\ Honest'
    BY <1>1, <1>7, IdleStep
  <2>2. Air' = <<>>
    BY <1>4, <1>7, <2>1, NothingReceived
  <2>3. CASE rxd = 0
    <3>1. rx_cnt' + d_cnt' <= MID - 2
      BY <1>2, <1>3, <1>7, <2>1, <2>3, MidFacts
    <3>2. Pulsing'
      BY <1>2, <1>3, <1>5, <2>1, <2>2, <2>3, <3>1 DEF Pulsing, MID
    <3> QED
      BY <2>1, <3>2 DEF LineInv
  <2>4. CASE rxd = 1
    <3>1. /\ d_cnt' <= CLKS_PER_BIT /\ ~(d_cnt' < CLKS_PER_BIT)
          /\ rx_cnt' + d_cnt' \in CLKS_PER_BIT - 1 .. CLKS_PER_BIT + MID - 1
      BY <1>3, <2>1, <2>4, MidFacts
    <3>2. ~Taken(2)' /\ ~Taken(3)'
      BY <2>1, MidFacts DEF Taken
    <3>3. Pulsed'
      BY <1>2, <1>3, <1>5, <2>1, <2>2, <2>4, <3>1, <3>2 DEF Pulsed, MID
    <3> QED
      BY <2>1, <3>3 DEF LineInv
  <2> QED
    BY <1>3, <2>3, <2>4
<1>8. CASE rx_state = "START" /\ rx_cnt + d_cnt <= MID - 2 /\ Air = <<>>
  <2>1. rx_cnt \in Nat /\ rx_cnt <= MID - 2
    BY <1>2, <1>8, MidFacts DEF RxTypes
  <2>2. rx_state' = "START" /\ rx_cnt' = rx_cnt + 1 /\ received' = <<>> /\ frame_err' = FALSE
    <3>1. ~CellEnd(rx_cnt)
      BY <2>1, MidFacts DEF CellEnd
    <3> QED
      BY <1>1, <1>8, <3>1 DEF RxEdge, RxIdle, RxStart, RxData, RxStop, Count, Silent
  <2>3. Air' = <<>> /\ Honest'
    BY <1>4, <1>8, <2>2, NothingReceived DEF Honest
  <2>4. CASE rxd = 0
    <3>1. rx_cnt' + d_cnt' <= MID - 2
      BY <1>2, <1>3, <1>8, <2>1, <2>2, <2>4, MidFacts
    <3>2. Pulsing'
      BY <1>2, <1>3, <1>5, <2>2, <2>3, <2>4, <3>1 DEF Pulsing, MID
    <3> QED
      BY <2>3, <3>2 DEF LineInv
  <2>5. CASE rxd = 1
    <3>1. /\ d_cnt' <= CLKS_PER_BIT /\ ~(d_cnt' < CLKS_PER_BIT)
          /\ rx_cnt' + d_cnt' \in CLKS_PER_BIT - 1 .. CLKS_PER_BIT + MID - 1
      BY <1>3, <2>1, <2>2, <2>5, MidFacts
    <3>2. ~Taken(2)' /\ ~Taken(3)'
      BY <2>1, <2>2, MidFacts DEF Taken
    <3>3. Pulsed'
      BY <1>2, <1>3, <1>5, <2>2, <2>3, <2>5, <3>1, <3>2 DEF Pulsed, MID
    <3> QED
      BY <2>3, <3>3 DEF LineInv
  <2> QED
    BY <1>3, <2>4, <2>5
<1> QED
  BY <1>6, <1>7, <1>8 DEF Pulsing

LEMMA PulsedStep ==
  ASSUME RxTypes, DriveTypes, Pulsed, NEW rxd \in Bit, NEW new \in {<<>>} \cup {<<b>> : b \in BYTES},
         LineStep(rxd, new), RxTypes', DriveTypes'
  PROVE  LineInv' /\ Honest'
<1>1. Drive(rxd, new) /\ RxEdge(rxd) /\ Score(new)
  BY DEF LineStep
<1>2. d_state = "idle" /\ ~flushing /\ sync[1] = 1 /\ Air = <<>> /\ d_cnt <= CLKS_PER_BIT /\ d_cnt \in Nat
  BY DEF Pulsed, DriveTypes
<1>3. expected' = Air \o new
  BY <1>1, ScoreFacts
<1>4. sync' = <<rxd, 1>>
  BY <1>1, <1>2, SyncFacts
<1>5. d_cnt > 0 => /\ rxd = 1 /\ new = <<>> /\ d_cnt' = d_cnt - 1 /\ d_state' = "idle" /\ flushing' = flushing
  BY <1>1, <1>2 DEF Drive, DriveGap, DriveByte, DriveBit, DriveLow, DriveRelease
<1>6. d_cnt > 0 /\ received' = <<>> => Air' = <<>>
  <2>1. <<>> \o <<>> = <<>>
    OBVIOUS
  <2> QED
    BY <1>2, <1>3, <1>5, <2>1, NothingReceived
<1>7. CASE rx_state = "IDLE" /\ sync[2] = 0 /\ d_cnt = CLKS_PER_BIT
  <2>1. rx_state' = "START" /\ rx_cnt' = 0 /\ received' = <<>> /\ Honest'
    BY <1>1, <1>7, IdleStep
  <2>2. d_cnt > 0
    BY <1>7, MidFacts
  <2>3. /\ d_cnt' <= CLKS_PER_BIT
        /\ rx_cnt' + d_cnt' \in CLKS_PER_BIT - 1 .. CLKS_PER_BIT + MID - 1
    BY <1>5, <1>7, <2>1, <2>2, MidFacts
  <2>4. ~Taken(2)' /\ ~Taken(3)'
    BY <2>1, MidFacts DEF Taken
  <2>5. sync'[1] = 1 /\ sync'[2] = 1
    BY <1>4, <1>5, <2>2
  <2>6. Pulsed'
    BY <1>2, <1>5, <1>6, <2>1, <2>2, <2>3, <2>4, <2>5 DEF Pulsed, MID
  <2> QED
    BY <2>1, <2>6 DEF LineInv
<1>8. ASSUME rx_state = "START", rx_cnt + d_cnt \in CLKS_PER_BIT - 1 .. CLKS_PER_BIT + MID - 1,
             d_cnt < CLKS_PER_BIT => sync[2] = 1,
             Taken(2) => samp[2] = 1, Taken(3) => samp[3] = 1
      PROVE  LineInv' /\ Honest'
  <2>1. rx_cnt \in Nat /\ rx_cnt <= CLKS_PER_BIT - 1 /\ samp \in Bit \X Bit \X Bit /\ sync[2] \in Bit
    BY MidFacts DEF RxTypes
  <2>2. CASE ~CellEnd(rx_cnt)
    <3>1. rx_state' = "START" /\ rx_cnt' = rx_cnt + 1 /\ received' = <<>> /\ frame_err' = FALSE
      BY <1>1, <1>8, <2>2 DEF RxEdge, RxIdle, RxStart, RxData, RxStop, Count, Silent
    <3>2. rx_cnt < CLKS_PER_BIT - 1
      BY <2>1, <2>2, MidFacts DEF CellEnd
    <3>3. d_cnt > 0
      BY <1>2, <1>8, <2>1, <3>2, MidFacts
    <3>4. /\ d_cnt' <= CLKS_PER_BIT
          /\ rx_cnt' + d_cnt' \in CLKS_PER_BIT - 1 .. CLKS_PER_BIT + MID - 1
      BY <1>2, <1>5, <1>8, <2>1, <3>1, <3>3, MidFacts
    <3>5. \A k \in 1 .. 3 : samp'[k] = IF rx_cnt = (MID - 2) + k THEN sync[2] ELSE samp[k]
      BY <1>1, <2>1, SampleFacts DEF RxEdge
    <3>6. rx_cnt >= MID => sync[2] = 1
      BY <1>2, <1>8, <2>1, MidFacts
    <3>7. Taken(2)' => samp'[2] = 1
      <4>1. samp'[2] = IF rx_cnt = MID THEN sync[2] ELSE samp[2]
        BY <3>5, MidFacts
      <4>2. Taken(2)' => rx_cnt >= MID
        BY <2>1, <3>1, MidFacts DEF Taken, MID
      <4>3. rx_cnt > MID => Taken(2)
        BY <2>1, MidFacts DEF Taken
      <4> QED
        BY <1>8, <2>1, <3>6, <4>1, <4>2, <4>3, MidFacts
    <3>8. Taken(3)' => samp'[3] = 1
      <4>1. samp'[3] = IF rx_cnt = MID + 1 THEN sync[2] ELSE samp[3]
        BY <3>5, MidFacts
      <4>2. Taken(3)' => rx_cnt >= MID + 1
        BY <2>1, <3>1, MidFacts DEF Taken, MID
      <4>3. rx_cnt > MID + 1 => Taken(3)
        BY <2>1, MidFacts DEF Taken
      <4> QED
        BY <1>8, <2>1, <3>6, <4>1, <4>2, <4>3, MidFacts
    <3>9. sync'[1] = 1 /\ sync'[2] = 1
      BY <1>4, <1>5, <3>3
    <3>10. Honest'
      BY <3>1 DEF Honest
    <3>11. Pulsed'
      BY <1>2, <1>5, <1>6, <3>1, <3>3, <3>4, <3>7, <3>8, <3>9 DEF Pulsed, MID
    <3> QED
      BY <3>10, <3>11 DEF LineInv
  <2>3. CASE CellEnd(rx_cnt)
    <3>1. rx_cnt = CLKS_PER_BIT - 1 /\ rx_cnt > MID + 1
      BY <2>3, MidFacts DEF CellEnd
    <3>2. Maj = 1
      <4>1. samp[2] = 1 /\ samp[3] = 1 /\ samp[1] \in {0, 1}
        BY <1>8, <2>1, <3>1, MidFacts DEF Taken, Bit
      <4> QED
        BY <4>1 DEF Maj
    <3>3. rx_state' = "IDLE" /\ received' = <<>> /\ frame_err' = FALSE
      BY <1>1, <1>8, <2>3, <3>2 DEF RxEdge, RxIdle, RxStart, RxData, RxStop, Count, Silent
    <3>4. Honest' /\ AtRest' /\ Owed' = <<>>
      BY <3>3 DEF Honest, AtRest, Owed
    <3>5. Air' = Owed' \o new
      BY <1>2, <1>3, <3>3, <3>4, NothingReceived
    <3> QED
      BY <1>1, <1>2, <1>4, <3>4, <3>5, FromIdle
  <2> QED
    BY <2>2, <2>3
<1> QED
  BY <1>7, <1>8 DEF Pulsed

\* The longest the receiver can be busy.
LeftBounded ==
  /\ Left \in Int /\ Left >= 0 /\ Left <= (Cells(DATA_BITS + 1) + MID) + 3
  /\ Left = 0 <=> rx_state = "IDLE"

LEMMA LeftFacts == RxTypes => LeftBounded
<1> SUFFICES ASSUME RxTypes PROVE LeftBounded
  OBVIOUS
<1> USE DEF LeftBounded
<1>1. /\ rx_cnt \in Nat /\ rx_cnt <= CLKS_PER_BIT - 1 /\ rx_bit \in Nat /\ rx_bit <= DATA_BITS - 1
      /\ rx_state \in {"IDLE", "START", "DATA", "STOP"} /\ (rx_state = "STOP" => rx_cnt <= MID + 2)
  BY MidFacts DEF RxTypes, States
<1>2. Cells(DATA_BITS + 1) \in Int /\ Cells(DATA_BITS + 1) >= CLKS_PER_BIT
  BY BreakFacts
<1>3. CASE rx_state = "IDLE"
  BY <1>2, <1>3, MidFacts DEF Left
<1>4. CASE rx_state = "START"
  <2>1. Left = ((Cells(DATA_BITS + 1) + MID) + 3) - rx_cnt
    BY <1>4 DEF Left
  <2> QED
    BY <1>1, <1>2, <1>4, <2>1, MidFacts
<1>5. CASE rx_state = "DATA"
  <2>1. Left = ((Cells(DATA_BITS - rx_bit) + MID) + 3) - rx_cnt
    BY <1>5 DEF Left
  <2>2. PICK n \in Int : n = DATA_BITS - rx_bit /\ 0 < n /\ n < DATA_BITS + 1
    BY <1>1, MidFacts
  <2>3. /\ Cells(0) = 0 /\ Cells(0) + CLKS_PER_BIT <= Cells(n) /\ Cells(n) \in Int
        /\ Cells(n) + CLKS_PER_BIT <= Cells(DATA_BITS + 1)
    <3>1. 0 \in Int /\ DATA_BITS + 1 \in Int
      BY MidFacts
    <3> QED
      BY <2>2, <3>1, CellsFacts
  <2> QED
    BY <1>1, <1>2, <1>5, <2>1, <2>2, <2>3, MidFacts
<1>6. CASE rx_state = "STOP"
  <2>1. Left = (MID + 3) - rx_cnt
    BY <1>6 DEF Left
  <2> QED
    BY <1>1, <1>2, <1>6, <2>1, MidFacts
<1> QED
  BY <1>1, <1>3, <1>4, <1>5, <1>6

\* On a high line it finishes what it is at.
LEMMA LeftGoesDown ==
  ASSUME RxTypes, NEW rxd \in Bit, RxEdge(rxd), sync[2] = 1
  PROVE  Left' = 0 \/ Left' <= Left - 1
<1> USE DEF RxEdge
<1>1. /\ rx_cnt \in Nat /\ rx_cnt <= CLKS_PER_BIT - 1 /\ rx_bit \in Nat /\ rx_bit <= DATA_BITS - 1
      /\ (rx_state = "STOP" => rx_cnt <= MID + 2) /\ (rx_state = "START" => rx_bit = 0)
  BY MidFacts DEF RxTypes
<1>2. CASE rx_state' = "IDLE"
  BY <1>2 DEF Left
<1>3. CASE Count /\ rx_state # "IDLE"
  <2>1. rx_cnt' = rx_cnt + 1 /\ rx_state' = rx_state /\ rx_bit' = rx_bit
    BY <1>3 DEF Count
  <2>2. rx_state \in {"START", "DATA", "STOP"}
    BY <1>3 DEF RxTypes, States
  <2>3. PICK k \in Int : /\ k = IF rx_state = "START" THEN (Cells(DATA_BITS + 1) + MID) + 3
                                ELSE IF rx_state = "DATA" THEN (Cells(DATA_BITS - rx_bit) + MID) + 3
                                ELSE MID + 3
    <3>1. Cells(DATA_BITS + 1) \in Int /\ Cells(DATA_BITS - rx_bit) \in Int
      <4>1. DATA_BITS + 1 \in Int /\ DATA_BITS - rx_bit \in Int
        BY <1>1, MidFacts
      <4> QED
        BY <4>1, CellsFacts
    <3> QED
      BY <3>1, MidFacts
  <2>4. Left = k - rx_cnt
    BY <2>2, <2>3 DEF Left
  <2>5. Left' = k - rx_cnt'
    BY <2>1, <2>2, <2>3 DEF Left, Cells, MID
  <2> QED
    BY <1>1, <2>1, <2>4, <2>5
<1>4. CASE RxStart /\ ~Count /\ rx_state' = "DATA"
  <2>1. rx_state = "START" /\ rx_cnt = CLKS_PER_BIT - 1 /\ rx_cnt' = 0 /\ rx_bit' = 0
    BY <1>1, <1>4 DEF RxStart, CellEnd
  <2>2. Left = ((Cells(DATA_BITS + 1) + MID) + 3) - rx_cnt
    BY <2>1 DEF Left
  <2>3. Left' = ((Cells(DATA_BITS - 0) + MID) + 3) - 0
    BY <1>4, <2>1 DEF Left, Cells, MID
  <2>4. DATA_BITS - 0 = DATA_BITS /\ DATA_BITS \in Int
    BY MidFacts
  <2>5. Cells(DATA_BITS + 1) = Cells(DATA_BITS) + CLKS_PER_BIT /\ Cells(DATA_BITS) \in Int
    BY <2>4, CellsFacts
  <2> QED
    BY <2>1, <2>2, <2>3, <2>4, <2>5, MidFacts
<1>5. CASE RxData /\ ~Count
  <2>1. /\ rx_state = "DATA" /\ rx_cnt = CLKS_PER_BIT - 1 /\ rx_cnt' = 0
        /\ \/ rx_bit = DATA_BITS - 1 /\ rx_state' = "STOP"
           \/ rx_bit < DATA_BITS - 1 /\ rx_bit' = rx_bit + 1 /\ rx_state' = "DATA"
    BY <1>5 DEF RxData, CellEnd
  <2>2. Left = ((Cells(DATA_BITS - rx_bit) + MID) + 3) - rx_cnt
    BY <2>1 DEF Left
  <2>3. PICK n \in Int : n = (DATA_BITS - rx_bit) - 1 /\ n + 1 = DATA_BITS - rx_bit
    BY <1>1, MidFacts
  <2>4. Cells(n + 1) = Cells(n) + CLKS_PER_BIT /\ Cells(n) \in Int
    BY CellsFacts
  <2>5. CASE rx_bit = DATA_BITS - 1 /\ rx_state' = "STOP"
    <3>1. Left' = (MID + 3) - 0
      BY <2>1, <2>5 DEF Left, MID
    <3>2. n = 0
      BY <1>1, <2>3, <2>5, MidFacts
    <3>3. Cells(n) = 0
      BY <3>2, CellsFacts
    <3> QED
      BY <2>1, <2>2, <2>3, <2>4, <3>1, <3>3, MidFacts
  <2>6. CASE rx_bit < DATA_BITS - 1 /\ rx_bit' = rx_bit + 1 /\ rx_state' = "DATA"
    <3>1. Left' = ((Cells(DATA_BITS - rx_bit') + MID) + 3) - 0
      BY <2>1, <2>6 DEF Left, Cells, MID
    <3>2. DATA_BITS - rx_bit' = n
      BY <1>1, <2>3, <2>6, MidFacts
    <3> QED
      BY <2>1, <2>2, <2>3, <2>4, <3>1, <3>2, MidFacts
  <2> QED
    BY <2>1, <2>5, <2>6
<1>6. rx_state = "IDLE" => rx_state' = "IDLE"
  BY DEF RxIdle, RxStart, RxData, RxStop
<1>7. RxStop /\ ~Count => rx_state' = "IDLE"
  BY DEF RxStop
<1>8. RxStart /\ ~Count => rx_state' = "IDLE" \/ rx_state' = "DATA"
  BY DEF RxStart
<1> QED
  BY <1>2, <1>3, <1>4, <1>5, <1>6, <1>7, <1>8, Zenon DEF RxIdle

LEMMA BreakingStep ==
  ASSUME RxTypes, DriveTypes, Breaking, NEW rxd \in Bit, NEW new \in {<<>>} \cup {<<b>> : b \in BYTES},
         LineStep(rxd, new), RxTypes', DriveTypes'
  PROVE  LineInv' /\ Honest'
<1>1. Drive(rxd, new) /\ RxEdge(rxd) /\ Score(new)
  BY DEF LineStep
<1>2. d_state = "break" /\ flushing /\ d_cnt < BREAK /\ d_cnt \in Nat
  BY DEF Breaking, DriveTypes
<1>3. /\ new = <<>> /\ flushing' = flushing
      /\ \/ rxd = 0 /\ d_cnt > 0 /\ d_cnt' = d_cnt - 1 /\ d_state' = "break"
         \/ rxd = 1 /\ d_cnt = 0 /\ d_cnt' = BREAK /\ d_state' = "idle"
  <2>1. d_state \in {"pulse", "break"} /\ d_state # "pulse"
    BY <1>2
  <2>2. /\ new = <<>> /\ flushing' = flushing
        /\ \/ rxd = 0 /\ d_cnt > 0 /\ d_cnt' = d_cnt - 1 /\ d_state' = d_state
           \/ /\ rxd = 1 /\ d_cnt = 0 /\ d_state' = "idle"
              /\ d_cnt' = IF d_state = "pulse" THEN CLKS_PER_BIT ELSE BREAK
    BY <1>1, <2>1, LowFacts
  <2> QED
    BY <1>2, <2>1, <2>2
<1>4. flushing' /\ Honest'
  BY <1>2, <1>3 DEF Honest
<1>5. expected' = Air /\ Air \in Seq(Byte) /\ noticed' = (flushing' /\ ((noticed /\ flushing) \/ frame_err))
  BY <1>1, <1>3, NoneDriven, ScoreFacts
<1>6. BREAK' = BREAK /\ BREAK \in Int /\ BREAK >= 8 * CLKS_PER_BIT /\ CLKS_PER_BIT \in Nat /\ CLKS_PER_BIT >= 16
  BY BreakFacts, MidFacts DEF BREAK
<1>7. sync' = <<rxd, sync[1]>> /\ sync[1] \in {0, 1} /\ sync'[1] = rxd
  BY <1>1, SyncFacts
<1>8. CASE d_cnt = BREAK - 1 /\ AtRest /\ sync = <<0, 1>> /\ Air = Owed
  <2>1. expected' = Owed \o <<>> /\ <<>> \in Seq(Byte)
    BY <1>5, <1>8, ConcatEmptySeq
  <2>2. sync[2] = 1 /\ sync[1] = 0
    BY <1>8
  <2>3. rx_state' = "IDLE" /\ Air' = <<>>
    BY <1>1, <1>8, <2>1, <2>2, ComesToRest
  <2>4. rxd = 0 /\ d_cnt' = BREAK - 2 /\ d_state' = "break" /\ d_cnt' < BREAK
    BY <1>2, <1>3, <1>6, <1>8
  <2>5. sync' = <<0, 0>>
    BY <1>7, <2>2, <2>4
  <2>6. Breaking'
    BY <1>4, <1>6, <2>3, <2>4, <2>5 DEF Breaking
  <2> QED
    BY <1>4, <2>6 DEF LineInv
<1>9. CASE d_cnt = BREAK - 2 /\ rx_state = "IDLE" /\ sync = <<0, 0>> /\ Air = <<>>
  <2>1. sync[2] = 0 /\ sync[1] = 0
    BY <1>9
  <2>2. rx_state' = "START" /\ rx_cnt' = 0 /\ received' = <<>>
    BY <1>1, <1>9, <2>1, IdleStep
  <2>3. Air' = <<>>
    BY <1>5, <1>9, <2>2, NothingReceived
  <2>4. rxd = 0 /\ d_cnt' = BREAK - 3 /\ d_state' = "break" /\ d_cnt' < BREAK
    BY <1>2, <1>3, <1>6, <1>9
  <2>5. sync' = <<0, 0>>
    BY <1>7, <2>1, <2>4
  <2>6. InFrame' /\ RxClock' = (BREAK - d_cnt') - 3
    <3>1. RxClock' = Cells(0) + 0
      BY <2>2 DEF RxClock, RxCell, Cells
    <3> QED
      BY <1>6, <2>2, <2>4, <3>1, CellsFacts DEF InFrame
  <2>7. \A k \in 1 .. 3 : ~Taken(k)'
    BY <2>2, MidFacts DEF Taken
  <2>8. Breaking'
    BY <1>4, <1>6, <2>3, <2>4, <2>5, <2>6, <2>7 DEF Breaking
  <2> QED
    BY <1>4, <2>8 DEF LineInv
<1>10. CASE (noticed \/ frame_err) /\ Air = <<>>
  <2>1. noticed'
    BY <1>2, <1>4, <1>5, <1>10
  <2>2. Air' = <<>>
    BY <1>5, <1>10 DEF Air
  <2>3. CASE rxd = 0
    <3>1. d_cnt' < BREAK /\ d_state' = "break"
      BY <1>2, <1>3, <1>6, <2>3
    <3>2. Breaking'
      BY <1>4, <1>6, <2>1, <2>2, <3>1 DEF Breaking
    <3> QED
      BY <1>4, <3>2 DEF LineInv
  <2>4. CASE rxd = 1
    <3>1. Flushed'
      BY <1>3, <1>4, <1>6, <1>7, <2>1, <2>2, <2>4 DEF Flushed
    <3> QED
      BY <1>4, <3>1 DEF LineInv
  <2> QED
    BY <1>3, <2>3, <2>4
<1>11. ASSUME InFrame, RxClock = (BREAK - d_cnt) - 3, sync = <<0, 0>>, Air = <<>>,
              \A k \in 1 .. 3 : Taken(k) => samp[k] = 0
       PROVE  LineInv'
  <2>1. sync[2] = 0 /\ sync[1] = 0
    BY <1>11
  <2>2. PICK c \in 0 .. DATA_BITS + 1 : c = RxCell
    <3>1. RxCell \in 0 .. DATA_BITS + 1
      BY MidFacts DEF RxTypes, RxCell
    <3> QED
      BY <3>1
  <2>3. rx_cnt \in Nat /\ rx_cnt <= CLKS_PER_BIT - 1 /\ rx_bit \in 0 .. DATA_BITS - 1 /\ rx_bit \in Nat
        /\ samp \in Bit \X Bit \X Bit /\ sync[2] \in Bit
    BY MidFacts DEF RxTypes
  <2>4. /\ Cells(c) \in Int /\ Cells(c + 1) = Cells(c) + CLKS_PER_BIT
        /\ Cells(c) <= Cells(DATA_BITS + 1)
    <3>1. c \in Int /\ DATA_BITS + 1 \in Int /\ (c = DATA_BITS + 1 \/ c < DATA_BITS + 1)
      BY MidFacts
    <3>2. Cells(DATA_BITS + 1) \in Int /\ Cells(c) \in Int /\ Cells(c + 1) = Cells(c) + CLKS_PER_BIT
      BY <3>1, CellsFacts
    <3>3. c < DATA_BITS + 1 => Cells(c) + CLKS_PER_BIT <= Cells(DATA_BITS + 1)
      BY <3>1, CellsFacts
    <3> QED
      BY <1>6, <3>1, <3>2, <3>3
  <2>5. RxClock = Cells(c) + rx_cnt
    BY <2>2 DEF RxClock
  <2>6. d_cnt > 0 /\ rxd = 0 /\ d_cnt' = d_cnt - 1 /\ d_state' = "break" /\ d_cnt' < BREAK
    <3>1. Cells(DATA_BITS + 1) + 6 * CLKS_PER_BIT <= BREAK /\ Cells(DATA_BITS + 1) \in Int
      BY BreakFacts
    <3>2. d_cnt > 0
      BY <1>2, <1>6, <1>11, <2>3, <2>4, <2>5, <3>1
    <3> QED
      BY <1>2, <1>3, <1>6, <3>2
  <2>7. sync' = <<0, 0>>
    BY <1>7, <2>1, <2>6
  <2>8. rx_cnt >= MID + 2 => Maj = 0
    <3>1. ASSUME rx_cnt >= MID + 2 PROVE Maj = 0
      <4>1. Taken(1) /\ Taken(2) /\ Taken(3)
        BY <2>3, <3>1, MidFacts DEF Taken
      <4>2. samp[1] = 0 /\ samp[2] = 0 /\ samp[3] = 0
        BY <1>11, <4>1
      <4> QED
        BY <4>2 DEF Maj
    <3> QED
      BY <3>1
  <2>9. (received' = <<>> => Air' = <<>>) /\ ((BREAK - d_cnt') - 3 = RxClock + 1)
    <3>1. received' = <<>> => Air' = <<>>
      BY <1>5, <1>11, NothingReceived
    <3>2. (BREAK - d_cnt') - 3 = RxClock + 1
      BY <1>2, <1>6, <1>11, <2>6
    <3> QED
      BY <3>1, <3>2
  <2>10. CASE Count
    <3>1. /\ rx_cnt' = rx_cnt + 1 /\ rx_state' = rx_state /\ rx_bit' = rx_bit /\ received' = <<>>
      BY <2>10 DEF Count, Silent
    <3>2. RxCell' = c /\ InFrame'
      BY <1>11, <2>2, <3>1 DEF RxCell, InFrame
    <3>3. RxClock' = Cells(c) + (rx_cnt + 1)
      BY <3>1, <3>2 DEF RxClock, Cells
    <3>4. RxClock' = RxClock + 1
      BY <2>3, <2>4, <2>5, <3>3
    <3>5. \A k \in 1 .. 3 : samp'[k] = IF rx_cnt = (MID - 2) + k THEN sync[2] ELSE samp[k]
      BY <1>1, <2>3, SampleFacts DEF RxEdge
    <3>6. ASSUME NEW k \in 1 .. 3, Taken(k)' PROVE samp'[k] = 0
      <4>1. rx_cnt + 1 > (MID - 2) + k
        BY <3>1, <3>6 DEF Taken, MID
      <4>2. rx_cnt = (MID - 2) + k \/ Taken(k)
        BY <2>3, <4>1, MidFacts DEF Taken
      <4> QED
        BY <1>11, <2>1, <3>5, <4>2
    <3>7. Breaking'
      BY <1>4, <1>6, <2>6, <2>7, <2>9, <3>1, <3>2, <3>4, <3>6 DEF Breaking
    <3> QED
      BY <3>7 DEF LineInv
  <2>11. ASSUME rx_cnt = CLKS_PER_BIT - 1, rx_cnt' = 0, RxCell' = c + 1, InFrame', Silent
         PROVE  LineInv'
    <3>1. RxClock' = Cells(c + 1) + 0
      BY <2>11 DEF RxClock, Cells
    <3>2. RxClock' = RxClock + 1
      BY <1>6, <2>4, <2>5, <2>11, <3>1
    <3>3. \A k \in 1 .. 3 : ~Taken(k)'
      BY <2>11, MidFacts DEF Taken
    <3>4. received' = <<>>
      BY <2>11 DEF Silent
    <3>5. Breaking'
      BY <1>4, <1>6, <2>6, <2>7, <2>9, <2>11, <3>2, <3>3, <3>4 DEF Breaking
    <3> QED
      BY <3>5 DEF LineInv
  <2>12. CASE RxStart /\ ~Count
    <3>1. rx_state = "START" /\ rx_cnt = CLKS_PER_BIT - 1 /\ rx_cnt' = 0 /\ Silent
          /\ rx_state' = (IF Maj = 1 THEN "IDLE" ELSE "DATA") /\ rx_bit' = rx_bit
      BY <2>12 DEF RxStart, CellEnd
    <3>2. rx_state' = "DATA" /\ rx_bit' = 0
      BY <2>8, <3>1, MidFacts DEF RxTypes
    <3>3. RxCell' = c + 1 /\ InFrame'
      BY <2>2, <3>1, <3>2 DEF RxCell, InFrame
    <3> QED
      BY <2>11, <3>1, <3>3
  <2>13. CASE RxData /\ ~Count
    <3>1. /\ rx_state = "DATA" /\ rx_cnt = CLKS_PER_BIT - 1 /\ rx_cnt' = 0 /\ Silent
          /\ \/ rx_bit = DATA_BITS - 1 /\ rx_state' = "STOP" /\ rx_bit' = rx_bit
             \/ rx_bit < DATA_BITS - 1 /\ rx_bit' = rx_bit + 1 /\ rx_state' = "DATA"
      BY <2>13 DEF RxData, CellEnd
    <3>2. c = rx_bit + 1
      BY <2>2, <3>1 DEF RxCell
    <3>3. RxCell' = c + 1 /\ InFrame'
      BY <2>3, <3>1, <3>2, MidFacts DEF RxCell, InFrame
    <3> QED
      BY <2>11, <3>1, <3>3
  <2>14. CASE RxStop /\ ~Count
    <3>1. /\ rx_cnt = MID + 2
          /\ received' = (IF Maj = 1 THEN <<rx_shift>> ELSE <<>>)
          /\ frame_err' = (Maj = 0)
      BY <2>14, Zenon DEF RxStop
    <3>2. Maj = 0
      BY <2>3, <2>8, <3>1
    <3>3. received' = <<>>
      BY <3>1, <3>2
    <3>4. frame_err'
      <4>1. (Maj = 0) = TRUE
        BY <3>2
      <4> QED
        BY <3>1, <4>1, Zenon
    <3>5. Breaking'
      BY <1>4, <1>6, <2>6, <2>9, <3>3, <3>4 DEF Breaking
    <3> QED
      BY <3>5 DEF LineInv
  <2>15. ~RxIdle
    BY <1>11 DEF RxIdle, InFrame
  <2> QED
    BY <1>1, <2>10, <2>12, <2>13, <2>14, <2>15 DEF RxEdge
<1> QED
  BY <1>4, <1>8, <1>9, <1>10, <1>11 DEF Breaking

LEMMA FlushedStep ==
  ASSUME RxTypes, DriveTypes, Flushed, NEW rxd \in Bit, NEW new \in {<<>>} \cup {<<b>> : b \in BYTES},
         LineStep(rxd, new), RxTypes', DriveTypes'
  PROVE  LineInv' /\ Honest'
<1>1. Drive(rxd, new) /\ RxEdge(rxd) /\ Score(new)
  BY DEF LineStep
<1>2. /\ d_state = "idle" /\ flushing /\ sync[1] = 1 /\ Air = <<>> /\ (noticed \/ frame_err) /\ d_cnt \in Nat
      /\ d_cnt = BREAK \/ (d_cnt < BREAK /\ noticed /\ sync[2] = 1 /\ Left <= d_cnt)
  BY DEF Flushed, DriveTypes
<1>3. expected' = Air \o new /\ noticed' = (flushing' /\ ((noticed /\ flushing) \/ frame_err))
  BY <1>1, ScoreFacts
<1>4. sync' = <<rxd, 1>> /\ sync'[1] = rxd /\ sync'[2] = 1
  BY <1>1, <1>2, SyncFacts
<1>5. BREAK' = BREAK /\ BREAK \in Int /\ BREAK >= 8 * CLKS_PER_BIT /\ CLKS_PER_BIT \in Nat /\ CLKS_PER_BIT >= 16
  BY BreakFacts, MidFacts DEF BREAK
<1>6. CASE DriveGap(rxd, new)
  <2>0. LeftBounded /\ LeftBounded'
    BY LeftFacts, PTL
  <2>1. /\ rxd = 1 /\ new = <<>> /\ d_state' = "idle" /\ flushing'
        /\ d_cnt' = IF d_cnt > 0 THEN d_cnt - 1 ELSE 0
    BY <1>2, <1>6 DEF DriveGap
  <2>2. noticed' /\ Honest'
    BY <1>2, <1>3, <2>1 DEF Honest
  <2>3. Air' = <<>>
    <3>1. expected' = <<>>
      BY <1>1, <1>2, <2>1, NoneDriven
    <3> QED
      BY <3>1 DEF Air
  <2>4. Left' <= d_cnt'
    <3>0. Left' \in Int
      BY <2>0 DEF LeftBounded
    <3>1. CASE d_cnt = BREAK
      <4>1. Left' <= (Cells(DATA_BITS + 1) + MID) + 3
        BY <2>0 DEF LeftBounded, Cells, MID
      <4> QED
        BY <1>5, <2>1, <3>0, <3>1, <4>1, BreakFacts, MidFacts
    <3>2. CASE d_cnt < BREAK
      <4>1. sync[2] = 1 /\ Left <= d_cnt
        BY <1>2, <1>5, <3>2
      <4>2. Left' = 0 \/ Left' <= Left - 1
        BY <1>1, <4>1, LeftGoesDown
      <4>3. Left \in Int /\ Left >= 0 /\ (Left = 0 <=> rx_state = "IDLE")
        BY <2>0 DEF LeftBounded
      <4>4. Left = 0 => Left' = 0
        <5>1. rx_state = "IDLE" => rx_state' = "IDLE"
          BY <1>1, <4>1, IdleStep
        <5> QED
          BY <4>3, <5>1 DEF Left
      <4> QED
        BY <1>2, <2>1, <3>0, <4>1, <4>2, <4>3, <4>4
    <3> QED
      BY <1>2, <3>1, <3>2
  <2>5. d_cnt' < BREAK
    BY <1>2, <1>5, <2>1
  <2>6. Flushed'
    BY <1>4, <1>5, <2>1, <2>2, <2>3, <2>4, <2>5 DEF Flushed
  <2> QED
    BY <2>2, <2>6 DEF LineInv
<1>7. CASE ~DriveGap(rxd, new)
  <2>1. d_cnt = 0
    BY <1>1, <1>2, <1>7 DEF Drive, DriveByte, DriveBit, DriveLow, DriveRelease
  <2>2. rx_state = "IDLE" /\ sync[2] = 1
    <3>1. sync[2] = 1 /\ Left <= 0
      BY <1>2, <1>5, <2>1
    <3> QED
      BY <3>1, LeftFacts DEF LeftBounded
  <2>3. rx_state' = "IDLE" /\ received' = <<>> /\ Honest'
    BY <1>1, <2>2, IdleStep
  <2>4. AtRest' /\ Owed' = <<>>
    BY <2>3 DEF AtRest, Owed
  <2>5. Air' = Owed' \o new
    BY <1>2, <1>3, <2>3, <2>4, NothingReceived
  <2> QED
    BY <1>1, <1>2, <1>4, <1>7, <2>3, <2>4, <2>5, FromIdle
<1> QED
  BY <1>6, <1>7

LEMMA RxBenchKeepsLine == ASSUME RxInv, RxBench PROVE RxInv'
<1>1. RxTypes /\ DriveTypes /\ Honest /\ LineInv
  BY DEF RxInv
<1>2. PICK rxd \in Bit, new \in {<<>>} \cup {<<b>> : b \in BYTES} : LineStep(rxd, new)
  BY DEF RxBench, LineStep
<1>3. RxTypes' /\ DriveTypes'
  BY <1>1, <1>2, RxKeepsTypes, DriveKeepsTypes DEF LineStep
<1>4. LineInv' /\ Honest'
  <2>1. CASE Resting
    BY <1>1, <1>2, <1>3, <2>1, RestingStep
  <2>2. CASE Arriving
    BY <1>1, <1>2, <1>3, <2>2, ArrivingStep
  <2>3. CASE Receiving
    BY <1>1, <1>2, <1>3, <2>3, ReceivingStep
  <2>4. CASE Received
    BY <1>1, <1>2, <1>3, <2>4, ReceivedStep
  <2>5. CASE Pulsing
    BY <1>1, <1>2, <1>3, <2>5, PulsingStep
  <2>6. CASE Pulsed
    BY <1>1, <1>2, <1>3, <2>6, PulsedStep
  <2>7. CASE Breaking
    BY <1>1, <1>2, <1>3, <2>7, BreakingStep
  <2>8. CASE Flushed
    BY <1>1, <1>2, <1>3, <2>8, FlushedStep
  <2> QED
    BY <1>1, <2>1, <2>2, <2>3, <2>4, <2>5, <2>6, <2>7, <2>8 DEF LineInv
<1> QED
  BY <1>3, <1>4 DEF RxInv

LEMMA NextKeepsRx == ASSUME RxInv, [Next]_<<bench, fifoVars, benchVars>> PROVE RxInv'
<1>1. CASE Rx
  BY <1>1, RxBenchKeepsLine DEF Rx
<1>2. CASE Fifo \/ Tx \/ UNCHANGED <<bench, fifoVars, benchVars>>
  <2>1. UNCHANGED <<rxVars, driveVars, boardVars>>
    BY <1>2 DEF Fifo, Tx, TxBench, benchVars
  <2>2. /\ UNCHANGED <<sync, rx_state, rx_cnt, rx_bit, rx_shift, samp, received, frame_err>>
        /\ UNCHANGED <<d_state, d_cnt, d_bit, d_shift, drift, flipped>>
        /\ UNCHANGED <<expected, flushing, noticed>>
    BY <2>1 DEF rxVars, driveVars, boardVars
  <2>3. RxTypes' /\ DriveTypes' /\ Honest'
    BY <2>2 DEF RxInv, RxTypes, DriveTypes, Honest
  <2>4. /\ Air' = Air /\ Owed' = Owed /\ (AtRest' <=> AtRest) /\ Left' = Left /\ RxClock' = RxClock /\ Driven' = Driven
        /\ Misreads(1)' = Misreads(1) /\ (InFrame' <=> InFrame) /\ CellLength' = CellLength /\ Disturbed' = Disturbed
    <3>1. Air' = Air /\ Owed' = Owed /\ Left' = Left /\ RxClock' = RxClock /\ Driven' = Driven /\ CellLength' = CellLength
      BY <2>2 DEF Air, Owed, Left, RxClock, RxCell, Driven, Cells, Shift, CellLength, MID
    <3>2. Misreads(1)' = Misreads(1) /\ (InFrame' <=> InFrame) /\ Disturbed' = Disturbed
      BY <2>2 DEF Misreads, Misread, Taken, MID, Wrong, InFrame, Disturbed, Level, CellBefore, RxCell
    <3>3. AtRest' <=> AtRest
      BY <2>2, <3>2 DEF AtRest, Deciding, MID
    <3> QED
      BY <3>1, <3>2, <3>3
  <2>5. Resting => Resting'
    BY <2>2, <2>4 DEF Resting, MID
  <2>6. Arriving => Arriving'
    BY <2>2, <2>4 DEF Arriving
  <2>7. Receiving => Receiving'
    BY <2>2, <2>4 DEF Receiving, Gathers
  <2>8. Received => Received'
    BY <2>2, <2>4 DEF Received, Cells, MID
  <2>9. Pulsing => Pulsing'
    BY <2>2, <2>4 DEF Pulsing, MID
  <2>10. Pulsed => Pulsed'
    BY <2>2, <2>4 DEF Pulsed, Taken, MID
  <2>11. Breaking => Breaking'
    BY <2>2, <2>4 DEF Breaking, Taken, MID, BREAK
  <2>12. Flushed => Flushed'
    BY <2>2, <2>4 DEF Flushed, BREAK
  <2>13. LineInv'
    BY <2>5, <2>6, <2>7, <2>8, <2>9, <2>10, <2>11, <2>12 DEF RxInv, LineInv
  <2> QED
    BY <2>3, <2>13 DEF RxInv
<1> QED
  BY <1>1, <1>2 DEF Next

LEMMA InitRx == Init => RxInv
<1> SUFFICES ASSUME Init PROVE RxInv
  OBVIOUS
<1>1. /\ sync = <<1, 1>> /\ rx_state = "IDLE" /\ rx_cnt = 0 /\ rx_bit = 0
      /\ rx_shift = Zeros /\ samp = <<0, 0, 0>> /\ received = <<>> /\ frame_err = FALSE
      /\ d_state = "idle" /\ d_cnt = 0 /\ d_bit = 0 /\ d_shift = Zeros /\ drift = 0 /\ flipped = FALSE
      /\ expected = <<>> /\ flushing = FALSE /\ noticed = FALSE
  BY DEF Init, BenchInit, RxInit
<1>2. Zeros \in Byte
  BY DEF Zeros, Byte, Bit
<1>3. RxTypes
  <2>1. sync \in Bit \X Bit /\ samp \in Bit \X Bit \X Bit
    BY <1>1 DEF Bit
  <2>2. rx_state \in States /\ rx_cnt \in 0 .. CLKS_PER_BIT - 1 /\ rx_bit \in 0 .. DATA_BITS - 1
    BY <1>1, MidFacts DEF States
  <2>3. rx_shift \in Byte /\ received \in {<<>>} \cup {<<b>> : b \in Byte} /\ frame_err \in BOOLEAN
    BY <1>1, <1>2
  <2> QED
    BY <1>1, <2>1, <2>2, <2>3 DEF RxTypes
<1>4. DriveTypes
  <2>1. d_bit \in 0 .. FRAME_BITS - 1 /\ drift \in -DRIFT .. DRIFT /\ d_cnt \in Nat
    BY <1>1, MidFacts DEF FRAME_BITS
  <2>2. expected \in Seq(Byte) /\ d_shift \in Byte
    BY <1>1, <1>2
  <2>3. d_state \in {"idle", "shift", "pulse", "break"} /\ flipped \in BOOLEAN /\ flushing \in BOOLEAN /\ noticed \in BOOLEAN
    BY <1>1
  <2> QED
    BY <2>1, <2>2, <2>3 DEF DriveTypes
<1>5. Honest
  BY <1>1 DEF Honest
<1>6. LineInv
  BY <1>1 DEF LineInv, Resting, AtRest, Air, Owed
<1> QED
  BY <1>3, <1>4, <1>5, <1>6 DEF RxInv

\* uart_rx and the driver of tb_util.h: for every bit time of at least 16 clocks and
\* every width, a byte is received as it was driven, in order and once, however its
\* bits lie, with a sender whose clock runs off by as much as the samples leave room
\* for, a disturbed clock in each byte, short pulses and breaks on the line; a break is
\* noticed, and nothing else is taken for one.
THEOREM ReceivesAsDriven == Spec => []ReceivedAsDriven
<1>1. RxInv /\ TxInv => ReceivedAsDriven
  <2> SUFFICES ASSUME RxInv, TxInv PROVE ReceivedAsDriven
    OBVIOUS
  <2>1. RxTypes /\ DriveTypes /\ Honest /\ LineInv /\ TxTypes
    BY DEF RxInv, TxInv
  <2>2. BenchTypeOK
    BY <2>1 DEF BenchTypeOK, RxTypes, DriveTypes, TxTypes
  <2>3. BreaksAreNoticed
    <3>1. frame_err => flushing
      BY <2>1 DEF Honest
    <3>2. ASSUME flushing, d_state = "idle", d_cnt = 0 PROVE noticed
      <4>1. Flushed
        BY <2>1, <3>2 DEF LineInv, Resting, Arriving, Receiving, Received, Pulsing, Pulsed, Breaking
      <4>2. BREAK >= 8 * CLKS_PER_BIT /\ CLKS_PER_BIT \in Nat /\ CLKS_PER_BIT >= 16 /\ BREAK \in Int
        BY BreakFacts, MidFacts
      <4>3. d_cnt # BREAK
        BY <3>2, <4>2
      <4> QED
        BY <4>1, <4>3 DEF Flushed
    <3> QED
      BY <3>1, <3>2 DEF BreaksAreNoticed
  <2>4. ASSUME received # <<>>, ~flushing PROVE expected # <<>> /\ Head(received) = Head(expected)
    <3>1. expected # <<>> /\ received[1] = expected[1]
      BY <2>1, <2>4 DEF Honest
    <3>2. Head(expected) = expected[1]
      BY <2>1, <3>1 DEF DriveTypes
    <3>3. PICK b \in Byte : received = <<b>>
      BY <2>1, <2>4 DEF RxTypes
    <3>4. Head(received) = received[1]
      BY <3>3
    <3> QED
      BY <3>1, <3>2, <3>4
  <2> QED
    BY <2>2, <2>3, <2>4 DEF ReceivedAsDriven
<1> QED
  BY <1>1, InitTx, NextKeepsTx, InitRx, NextKeepsRx, PTL DEF Spec

-----------------------------------------------------------------------------
(* The FIFO. *)

USE DepthAssumption

FifoInv == FifoTypeOK /\ PointersAgree

LEMMA NextPtrInRange ==
  ASSUME NEW p \in 0 .. DEPTH - 1
  PROVE  NextPtr(p) \in 0 .. DEPTH - 1
BY DEF NextPtr

LEMMA InitEstablishesInv == FifoInit => FifoInv
<1> SUFFICES ASSUME FifoInit PROVE FifoInv
  OBVIOUS
<1>1. rd_valid \in BOOLEAN /\ overflow \in BOOLEAN
  BY Zenon DEF FifoInit, LevelInit
<1>2. level = 0 /\ wr_ptr = 0 /\ rd_ptr = 0
  BY DEF FifoInit, LevelInit
<1>3. FifoTypeOK
  BY <1>1, <1>2 DEF FifoInit, FifoTypeOK
<1>4. PointersAgree
  BY <1>2 DEF PointersAgree, SlotAt
<1> QED
  BY <1>3, <1>4 DEF FifoInv

LEMMA EdgeKeepsInv ==
  ASSUME FifoInv, NEW wr \in BOOLEAN, NEW rd \in BOOLEAN, NEW v \in VALUES, FifoEdge(wr, v, rd)
  PROVE  FifoInv'
<1> USE DEF FifoInv, FifoTypeOK
<1>1. LevelEdge(wr, rd) /\ StorageEdge(wr, v, rd)
  BY DEF FifoEdge
<1>2. level' \in 0 .. DEPTH
  BY <1>1 DEF LevelEdge, DoWr, DoRd, Full, Empty
<1>3. rd_valid' \in BOOLEAN /\ overflow' \in BOOLEAN
  BY <1>1 DEF LevelEdge, DoRd
<1>4. wr_ptr' \in 0 .. DEPTH - 1 /\ rd_ptr' \in 0 .. DEPTH - 1
  BY <1>1, NextPtrInRange DEF StorageEdge
<1>5. mem' \in [0 .. DEPTH - 1 -> VALUES] /\ rd_data' \in VALUES
  BY <1>1 DEF StorageEdge
<1>6. PointersAgree'
  <2> USE <1>1 DEF PointersAgree, SlotAt, NextPtr, LevelEdge, StorageEdge, Full, Empty
  <2>1. CASE DoWr(wr) /\ DoRd(rd)
    BY <2>1 DEF DoWr, DoRd
  <2>2. CASE DoWr(wr) /\ ~DoRd(rd)
    BY <2>2 DEF DoWr
  <2>3. CASE ~DoWr(wr) /\ DoRd(rd)
    BY <2>3 DEF DoRd
  <2>4. CASE ~DoWr(wr) /\ ~DoRd(rd)
    BY <2>4
  <2> QED
    BY <2>1, <2>2, <2>3, <2>4
<1> QED
  BY <1>2, <1>3, <1>4, <1>5, <1>6

LEMMA NextKeepsInv == FifoInv /\ [FifoNext]_fifoVars => FifoInv'
<1>1. CASE FifoNext
  BY <1>1, EdgeKeepsInv DEF FifoNext
<1>2. CASE UNCHANGED fifoVars
  BY <1>2 DEF fifoVars, levelVars, FifoInv, FifoTypeOK, PointersAgree, SlotAt
<1> QED
  BY <1>1, <1>2

\* The registers of a FIFO of any depth keep their ranges, and the level is the
\* distance of the pointers, or the depth when they meet in a full FIFO.
THEOREM LevelMatchesPointers == FifoSpec => [](FifoTypeOK /\ PointersAgree)
<1>1. FifoInv => FifoTypeOK /\ PointersAgree
  BY DEF FifoInv
<1> QED
  BY <1>1, InitEstablishesInv, NextKeepsInv, PTL DEF FifoSpec

-----------------------------------------------------------------------------
\* A function on 1 .. n is a sequence of length n.
WordsLaidOut ==
  /\ Words \in Seq(VALUES) /\ Len(Words) = level
  /\ \A i \in 1 .. level : Words[i] = mem[SlotAt(i - 1)]

LEMMA WordsIsSeq == FifoInv => WordsLaidOut
<1> SUFFICES ASSUME FifoInv PROVE WordsLaidOut
  OBVIOUS
<1>1. level \in Nat /\ level <= DEPTH
  BY DEF FifoInv, FifoTypeOK
<1>2. \A i \in 1 .. level : SlotAt(i - 1) \in 0 .. DEPTH - 1
  BY <1>1 DEF FifoInv, FifoTypeOK, SlotAt
<1>3. \A i \in 1 .. level : mem[SlotAt(i - 1)] \in VALUES
  BY <1>2 DEF FifoInv, FifoTypeOK
<1>4. Words \in [1 .. level -> VALUES]
  BY <1>3 DEF Words
<1> QED
  BY <1>1, <1>4 DEF Words, WordsLaidOut

\* The storage after an edge, seen from the new read pointer: what stays moves up by
\* one word if one was read, and a word taken in is the last.
LEMMA WordsAfterEdge ==
  ASSUME FifoInv, NEW wr \in BOOLEAN, NEW rd \in BOOLEAN, NEW v \in VALUES, FifoEdge(wr, v, rd)
  PROVE  \A i \in 1 .. level' :
           (mem[SlotAt(i - 1)])' =
              IF DoRd(rd) THEN IF i < level THEN mem[SlotAt(i)] ELSE v
                          ELSE IF i <= level THEN mem[SlotAt(i - 1)] ELSE v
<1> SUFFICES ASSUME NEW i \in 1 .. level'
             PROVE  (mem[SlotAt(i - 1)])' =
                       IF DoRd(rd) THEN IF i < level THEN mem[SlotAt(i)] ELSE v
                                   ELSE IF i <= level THEN mem[SlotAt(i - 1)] ELSE v
  OBVIOUS
<1> DEFINE kept == IF DoRd(rd) THEN i < level ELSE i <= level
           old  == IF DoRd(rd) THEN SlotAt(i) ELSE SlotAt(i - 1)
<1>1. LevelEdge(wr, rd) /\ StorageEdge(wr, v, rd)
  BY DEF FifoEdge
<1>2. level \in 0 .. DEPTH /\ rd_ptr \in 0 .. DEPTH - 1 /\ wr_ptr \in 0 .. DEPTH - 1
  BY DEF FifoInv, FifoTypeOK
<1>3. i \in 1 .. DEPTH
  BY <1>1, <1>2 DEF LevelEdge, DoWr, Full
<1>4. kept => SlotAt(i - 1)' = old /\ old \in 0 .. DEPTH - 1
  BY <1>1, <1>2, <1>3 DEF StorageEdge, NextPtr, SlotAt, DoRd, Empty
<1>5. kept /\ DoWr(wr) => old # wr_ptr
  BY <1>2, <1>3 DEF SlotAt, DoWr, DoRd, Full, Empty, FifoInv, PointersAgree
<1>6. kept => (mem[SlotAt(i - 1)])' = mem[old]
  <2>1. mem \in [0 .. DEPTH - 1 -> VALUES]
    BY DEF FifoInv, FifoTypeOK
  <2> HIDE DEF kept, old
  <2> QED
    BY <1>1, <1>4, <1>5, <2>1 DEF StorageEdge
<1>7. ~kept => DoWr(wr) /\ SlotAt(i - 1)' = wr_ptr
  <2>1. CASE DoRd(rd)
    BY <1>1, <1>2, <1>3, <2>1 DEF LevelEdge, StorageEdge, NextPtr, SlotAt, DoWr, DoRd, Full, Empty, FifoInv, PointersAgree
  <2>2. CASE ~DoRd(rd)
    BY <1>1, <1>2, <1>3, <2>2 DEF LevelEdge, StorageEdge, SlotAt, DoWr, Full, FifoInv, PointersAgree
  <2> QED
    BY <2>1, <2>2
<1>8. ~kept => (mem[SlotAt(i - 1)])' = v
  <2>1. mem \in [0 .. DEPTH - 1 -> VALUES]
    BY DEF FifoInv, FifoTypeOK
  <2> HIDE DEF kept
  <2> QED
    BY <1>1, <1>2, <1>7, <2>1 DEF StorageEdge
<1> QED
  BY <1>6, <1>8

\* Every edge of the FIFO is a cycle of the queue.
LEMMA EdgeIsCycle ==
  ASSUME FifoInv, NEW wr \in BOOLEAN, NEW rd \in BOOLEAN, NEW v \in VALUES, FifoEdge(wr, v, rd)
  PROVE  Queue!Cycle(IF wr THEN <<v>> ELSE <<>>, rd)
<1> DEFINE w     == IF wr THEN <<v>> ELSE <<>>
           left  == IF rd /\ Words # <<>> THEN Tail(Words) ELSE Words
           taken == IF Len(Words) < DEPTH THEN w ELSE <<>>
<1>1. LevelEdge(wr, rd) /\ StorageEdge(wr, v, rd)
  BY DEF FifoEdge
<1>2. level \in 0 .. DEPTH
  BY DEF FifoInv, FifoTypeOK
<1>3. /\ Words \in Seq(VALUES) /\ Len(Words) = level
      /\ \A i \in 1 .. level : Words[i] = mem[SlotAt(i - 1)]
  BY WordsIsSeq DEF WordsLaidOut
<1>4. /\ Words' \in Seq(VALUES) /\ Len(Words') = level'
      /\ \A i \in 1 .. level' : Words'[i] = (mem[SlotAt(i - 1)])'
  <2>1. FifoInv'
    BY EdgeKeepsInv
  <2>2. WordsLaidOut'
    BY <2>1, WordsIsSeq, PTL
  <2> QED
    BY <2>2 DEF WordsLaidOut
<1>5. Words # <<>> <=> level # 0
  BY <1>2, <1>3, EmptySeq
<1>6. /\ left \in Seq(VALUES)
      /\ Len(left) = IF DoRd(rd) THEN level - 1 ELSE level
      /\ \A i \in 1 .. Len(left) : left[i] = IF DoRd(rd) THEN mem[SlotAt(i)] ELSE mem[SlotAt(i - 1)]
  <2>1. CASE DoRd(rd)
    <3>1. rd /\ Words # <<>> /\ level # 0
      BY <2>1, <1>5 DEF DoRd, Empty
    <3>2. /\ Tail(Words) \in Seq(VALUES) /\ Len(Tail(Words)) = level - 1
          /\ \A i \in 1 .. level - 1 : Tail(Words)[i] = Words[i + 1]
      BY <1>3, <3>1, HeadTailProperties
    <3>3. \A i \in 1 .. level - 1 : Words[i + 1] = mem[SlotAt(i)]
      BY <1>2, <1>3
    <3> QED
      BY <2>1, <3>1, <3>2, <3>3
  <2>2. CASE ~DoRd(rd)
    BY <2>2, <1>3, <1>5 DEF DoRd, Empty
  <2> QED
    BY <2>1, <2>2
<1>7. /\ taken \in Seq(VALUES)
      /\ Len(taken) = IF DoWr(wr) THEN 1 ELSE 0
      /\ DoWr(wr) => taken[1] = v
  BY <1>2, <1>3 DEF DoWr, Full
<1>8. Words' = left \o taken
  <2> HIDE DEF left, taken
  <2>1. /\ left \o taken \in Seq(VALUES)
        /\ Len(left \o taken) = Len(left) + Len(taken)
        /\ \A i \in 1 .. Len(left) + Len(taken) :
             (left \o taken)[i] = IF i <= Len(left) THEN left[i] ELSE taken[i - Len(left)]
    BY <1>6, <1>7, ConcatProperties
  <2>2. level' = Len(left) + Len(taken)
    BY <1>1, <1>2, <1>6, <1>7 DEF LevelEdge, DoRd, Empty
  <2>3. \A i \in 1 .. level' : Words'[i] = (left \o taken)[i]
    <3> SUFFICES ASSUME NEW i \in 1 .. level' PROVE Words'[i] = (left \o taken)[i]
      OBVIOUS
    <3>1. Words'[i] = IF DoRd(rd) THEN IF i < level THEN mem[SlotAt(i)] ELSE v
                                  ELSE IF i <= level THEN mem[SlotAt(i - 1)] ELSE v
      BY <1>4, WordsAfterEdge
    <3>2. CASE i <= Len(left)
      BY <3>1, <3>2, <2>1, <2>2, <1>2, <1>6
    <3>3. CASE ~(i <= Len(left))
      <4>1. i = Len(left) + 1 /\ DoWr(wr)
        <5>1. Len(left) \in Nat
          BY <1>6, LenProperties
        <5>2. Len(taken) = IF DoWr(wr) THEN 1 ELSE 0
          BY <1>7
        <5> QED
          BY <3>3, <2>2, <5>1, <5>2
      <4>2. Words'[i] = v
        <5>1. Len(left) = IF DoRd(rd) THEN level - 1 ELSE level
          BY <1>6
        <5>2. i = Len(left) + 1
          BY <4>1
        <5> HIDE DEF left
        <5> QED
          BY <3>1, <1>2, <5>1, <5>2
      <4>3. (left \o taken)[i] = taken[1]
        <5>1. Len(left) \in Nat /\ Len(taken) = 1
          BY <1>6, <1>7, <4>1, LenProperties
        <5> HIDE DEF left, taken
        <5>2. i \in 1 .. Len(left) + Len(taken) /\ ~(i <= Len(left)) /\ i - Len(left) = 1
          BY <4>1, <5>1
        <5> QED
          BY <2>1, <5>2
      <4> QED
        BY <4>1, <4>2, <4>3, <1>7
    <3> QED
      BY <3>2, <3>3
  <2> QED
    BY <2>1, <2>2, <2>3, <1>4, SeqEqual
<1>9. (IF rd_valid THEN <<rd_data>> ELSE <<>>)' = IF rd /\ Words # <<>> THEN <<Head(Words)>> ELSE <<>>
  <2>1. rd_valid' = DoRd(rd) /\ (DoRd(rd) <=> rd /\ Words # <<>>)
    BY <1>1, <1>5 DEF LevelEdge, DoRd, Empty
  <2>2. DoRd(rd) => rd_data' = Head(Words)
    <3>1. rd_data' = mem[rd_ptr]
      BY <1>1 DEF StorageEdge
    <3>2. SlotAt(0) = rd_ptr
      BY DEF SlotAt, FifoInv, FifoTypeOK
    <3>3. DoRd(rd) => Words[1] = mem[SlotAt(0)]
      BY <1>2, <1>3 DEF DoRd, Empty
    <3>4. Head(Words) = Words[1]
      BY <1>3
    <3> QED
      BY <3>1, <3>2, <3>3, <3>4
  <2> QED
    BY <2>1, <2>2
<1>10. overflow' = (w # <<>> /\ Len(Words) = DEPTH)
  <2>1. overflow' = (wr /\ level = DEPTH)
    BY <1>1 DEF LevelEdge, Full
  <2>2. w # <<>> <=> wr
    OBVIOUS
  <2> QED
    BY <2>1, <2>2, <1>3
<1> QED
  BY <1>8, <1>9, <1>10 DEF Queue!Cycle, Queue!Offered

\* For every depth and word set, the FIFO with its pointers, wrap-around and separately
\* counted level is a bounded queue.
THEOREM FifoIsQueue == FifoSpec => ImplementsQueue
<1>1. FifoInit => Queue!Init
  <2> SUFFICES ASSUME FifoInit PROVE Queue!Init
    OBVIOUS
  <2>1. level = 0 /\ rd_valid = FALSE /\ overflow = FALSE
    BY DEF FifoInit, LevelInit
  <2>2. Words \in Seq(VALUES) /\ Len(Words) = 0
    BY <2>1, InitEstablishesInv, WordsIsSeq DEF WordsLaidOut
  <2>3. Words = <<>>
    BY <2>2, EmptySeq
  <2> QED
    BY <2>1, <2>3 DEF Queue!Init
<1>2. FifoInv /\ [FifoNext]_fifoVars => [Queue!Next]_Queue!queueVars
  <2>1. ASSUME FifoInv, FifoNext PROVE Queue!Next
    <3>1. PICK wr \in BOOLEAN, rd \in BOOLEAN, v \in VALUES : FifoEdge(wr, v, rd)
      BY <2>1 DEF FifoNext
    <3>2. Queue!Cycle(IF wr THEN <<v>> ELSE <<>>, rd)
      BY <2>1, <3>1, EdgeIsCycle
    <3>3. (IF wr THEN <<v>> ELSE <<>>) \in {<<>>} \cup {<<x>> : x \in VALUES}
      OBVIOUS
    <3> QED
      BY <3>2, <3>3 DEF Queue!Next
  <2>2. UNCHANGED fifoVars => UNCHANGED Queue!queueVars
    BY DEF fifoVars, levelVars, Queue!queueVars, Words, SlotAt
  <2> QED
    BY <2>1, <2>2
<1> QED
  BY <1>1, <1>2, InitEstablishesInv, NextKeepsInv, PTL DEF FifoSpec, ImplementsQueue, Queue!Spec

=============================================================================
