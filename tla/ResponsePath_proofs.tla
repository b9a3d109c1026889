------------------------- MODULE ResponsePath_proofs -------------------------
(***************************************************************************)
(* What TLAPS proves of the response path, for every size.                 *)
(*                                                                         *)
(* FlowInv and PumpInv are the two flow controls.  PathInv is what makes a *)
(* packet whole: how long it is and what it is made of in every state of   *)
(* the encoder (EncInv), which request the arbiter is serving (ArbInv,     *)
(* OneCommand, OneEvent), how far the copy of the statistics is ahead of   *)
(* the encoder (CopyInv), and whose payload has been written (LoadInv).    *)
(***************************************************************************)
EXTENDS ResponsePath, SequenceTheorems, TLAPS

\* The encoder's write is registered, so it lands a cycle after the level was
\* looked at: one that is on its way always finds two free entries.
FlowInv ==
  /\ level \in 0 .. DEPTH - 1
  /\ tx_en => level <= DEPTH - 2
  /\ ~overflow

\* A byte that arrives finds the transmitter idle, and the pump waiting for it.
PumpInv == rd_valid => tx_ready /\ inflight

-----------------------------------------------------------------------------
\* Every step of the path is an edge of its datapath.
LEMMA StepIsEdge ==
  ASSUME Next
  PROVE  \E detect \in Detections, stop \in BOOLEAN : Datapath(detect, stop)
<1>1. PICK stop \in BOOLEAN :
        \/ NoCommandCycle(stop)
        \/ \E type \in Types \ {"EVT"} : CommandCycle(type, FALSE, stop)
        \/ CommandCycle("ACK", TRUE, stop)
  BY DEF Next
<1>2. \E detect \in Detections : Datapath(detect, stop)
  BY <1>1 DEF NoCommandCycle, CommandCycle
<1> QED
  BY <1>2

\* The encoder never writes out of a cycle in which it saw almost full.
LEMMA WriteOnlyWithRoom ==
  ASSUME NEW valid, NEW req, NEW data, EncEdge(valid, req, data, AlmostFull), tx_en'
  PROVE  ~AlmostFull
BY DEF EncEdge, Idle, Stall, PayloadAddr, Settle, NoWrite

LEMMA InitEstablishesFlow == Init => FlowInv /\ PumpInv
<1> SUFFICES ASSUME Init PROVE FlowInv /\ PumpInv
  OBVIOUS
<1>1. level = 0 /\ ~overflow /\ ~rd_valid /\ ~tx_en
  BY Zenon DEF Init, LevelInit, EncInit
<1> QED
  BY <1>1, DepthAssumption, PathAssumption DEF FlowInv, PumpInv

LEMMA NextKeepsFlow == FlowInv /\ [Next]_vars => FlowInv'
<1> SUFFICES ASSUME FlowInv, [Next]_vars PROVE FlowInv'
  OBVIOUS
<1>1. CASE Next
  <2>1. PICK detect \in Detections, stop \in BOOLEAN : Datapath(detect, stop)
    BY <1>1, StepIsEdge
  <2>2. LevelEdge(tx_en, Pop)
    BY <2>1 DEF Datapath
  <2>3. tx_en' => ~AlmostFull
    BY <2>1, WriteOnlyWithRoom DEF Datapath
  <2>4. ~Full
    BY DepthAssumption DEF FlowInv, Full
  <2>5. level' \in 0 .. DEPTH - 1
    <3>1. CASE DoRd(Pop)
      BY <2>2, <2>4, <3>1, DepthAssumption DEF LevelEdge, FlowInv, DoWr, DoRd, Empty
    <3>2. CASE ~DoRd(Pop)
      BY <2>2, <2>4, <3>2, DepthAssumption DEF LevelEdge, FlowInv, DoWr
    <3> QED
      BY <3>1, <3>2
  <2>6. tx_en' => level' <= DEPTH - 2
    BY <2>2, <2>3, DepthAssumption, PathAssumption DEF LevelEdge, FlowInv, AlmostFull
  <2>7. ~overflow'
    BY <2>2, <2>4 DEF LevelEdge
  <2> QED
    BY <2>5, <2>6, <2>7 DEF FlowInv
<1>2. CASE UNCHANGED vars
  BY <1>2 DEF vars, levelVars, encVars, FlowInv
<1> QED
  BY <1>1, <1>2

LEMMA NextKeepsPump == PumpInv /\ [Next]_vars => PumpInv'
<1> SUFFICES ASSUME PumpInv, [Next]_vars PROVE PumpInv'
  OBVIOUS
<1>1. CASE Next
  <2>1. PICK detect \in Detections, stop \in BOOLEAN : Datapath(detect, stop)
    BY <1>1, StepIsEdge
  <2>2. rd_valid' = DoRd(Pop) /\ PumpEdge /\ TxEdge(stop)
    BY <2>1 DEF Datapath, LevelEdge
  <2>3. SUFFICES ASSUME Pop PROVE tx_ready' /\ inflight'
    BY <2>2 DEF PumpInv, DoRd
  <2>4. tx_ready /\ ~rd_valid
    BY <2>3 DEF Pop, PumpInv
  <2> QED
    BY <2>2, <2>3, <2>4 DEF PumpEdge, TxEdge
<1>2. CASE UNCHANGED vars
  BY <1>2 DEF vars, levelVars, pathVars, PumpInv
<1> QED
  BY <1>1, <1>2

-----------------------------------------------------------------------------
\* The assertion of kws_core.sv on the TX FIFO: no byte of a packet is refused,
\* however long the UART stalls and whatever the host and the smoother do.
THEOREM TxNeverOverflows == Spec => []NoTxOverflow
<1>1. FlowInv => NoTxOverflow
  BY DEF FlowInv, NoTxOverflow
<1> QED
  BY <1>1, InitEstablishesFlow, NextKeepsFlow, PTL DEF Spec

\* The comment on the pop pump: a popped byte always finds uart_tx idle.
THEOREM EveryPopIsTaken == Spec => []PoppedByteIsTaken
<1>1. PumpInv => PoppedByteIsTaken
  BY DEF PumpInv, PoppedByteIsTaken
<1> QED
  BY <1>1, InitEstablishesFlow, NextKeepsPump, PTL DEF Spec

-----------------------------------------------------------------------------
\* The bytes of a header or a payload, and those of a checksum.
Sources == {"none", "pl0", "pl1", "stat", "version", "event", "ACK", "ERROR", "STATS", "VERSION", "EVT"}
PlainBytes == [src : Sources, idx : Nat, id : Nat, sum : {<<>>}]
SumBytes == [src : {"crc"}, idx : {0, 1}, id : {0}, sum : Seq(PlainBytes)]
Bytes == PlainBytes \cup SumBytes

\* The checksum, with the byte that is being written.
Folded == IF tx_en /\ crc_en THEN Append(crc, tx_data) ELSE crc

\* The bytes of the packet before its checksum, and its payload.
Load == PayloadLen[desc.type]
Frame == HDR_BYTES + Load

InLoad == enc \in {"PL_ADDR", "PL_WAIT", "PL_PUSH"}

\* A packet is being sent, or has been sent in this cycle.
Active == enc # "IDLE" \/ pkt_done

-----------------------------------------------------------------------------
(* The encoder and what it wrote. *)

EncTypes ==
  /\ enc \in EncStates /\ hdr_idx \in 0 .. HDR_BYTES - 1 /\ desc.type \in Types /\ desc.id \in Nat
  /\ pl_cnt \in Nat /\ pl_cnt < Load /\ pl_idx \in Nat
  /\ tx_en \in BOOLEAN /\ crc_en \in BOOLEAN /\ pkt_done \in BOOLEAN

DataTypes ==
  /\ wrote \in Seq(Bytes) /\ crc \in Seq(PlainBytes)
  /\ tx_en => tx_data \in Bytes
  /\ tx_en /\ crc_en => tx_data \in PlainBytes

\* How much of the packet is in the TX FIFO or on its way to it.
Progress ==
  /\ pkt_done => enc = "IDLE"
  /\ ~Active => Len(Written) = 0
  /\ enc = "HDR" => Len(Written) = hdr_idx /\ pl_cnt = 0
  /\ InLoad => Len(Written) = HDR_BYTES + pl_cnt
  /\ enc \in {"CRC_WAIT", "CRC_L"} => Len(Written) = Frame
  /\ enc = "CRC_H" => Len(Written) = Frame + 1
  /\ pkt_done => Len(Written) = Frame + 2
  /\ enc \in {"PL_WAIT", "PL_PUSH"} => pl_idx = pl_cnt

\* The write of a checksum byte is not folded, nor one on its way when it is read.
Settled ==
  /\ enc = "CRC_L" => ~tx_en
  /\ enc = "CRC_H" \/ pkt_done => ~crc_en

\* W begins with the header of d; F is what the checksum of W covers; and what
\* there is of a payload in W is that of d.
HeaderOf(W, d) == \A i \in 1 .. HDR_BYTES : i <= Len(W) => W[i] = HeaderByte(d, i - 1)
CoveredBy(F, W) == \A i \in 1 .. Len(F) : F[i] = W[i + 1]
LoadOf(W, d) ==
  \A i \in 0 .. PayloadLen[d.type] - 1 :
    HDR_BYTES + i < Len(W) => W[HDR_BYTES + i + 1] = PayloadByte(d, i)

\* What the packet so far is made of.
Contents ==
  /\ Active => HeaderOf(Written, desc) /\ CoveredBy(Folded, Written)
  /\ enc \notin {"IDLE", "CRC_H"} =>
       Len(Folded) = IF Len(Written) = 0 THEN 0 ELSE Len(Written) - 1
  /\ enc = "CRC_H" \/ pkt_done =>
       Len(Folded) = Frame - 1 /\ Written[Frame + 1] = SumByte(0, Folded)
  /\ pkt_done => Written[Frame + 2] = SumByte(1, Folded)

EncInv == EncTypes /\ DataTypes /\ Progress /\ Settled /\ Contents

-----------------------------------------------------------------------------
(* The two that ask, and the arbiter. *)

\* The packet of a response is under way.
Responding == arb # "IDLE" /\ ~grant_evt

ReqTypes ==
  /\ arb \in {"IDLE", "REQ", "WAIT"} /\ grant_evt \in BOOLEAN
  /\ rsp_req \in BOOLEAN /\ rsp.type \in Types \ {"EVT"} /\ rsp.id \in 0 .. n_cmd
  /\ n_cmd \in Nat /\ n_evt \in Nat
  /\ pl0 = rsp.id /\ pl1 \in 0 .. n_cmd /\ (rsp.type = "ERROR" => pl1 = rsp.id)
  /\ evt_req \in BOOLEAN /\ evt \in 0 .. n_evt
  /\ last_rsp \in 0 .. n_cmd /\ last_evt \in 0 .. n_evt

ArbInv ==
  /\ arb = "WAIT" <=> Active
  /\ arb = "WAIT" => (desc.type = "EVT" <=> grant_evt)
  /\ arb = "WAIT" => IF grant_evt THEN desc.id <= n_evt ELSE desc.id <= n_cmd

\* To a host with one command in flight the response registers are those of the
\* newest command, until its packet has been sent.
OneCommand ==
  ~piped =>
    /\ rsp_req \/ Responding => open
    /\ open => rsp.id = n_cmd /\ last_rsp < n_cmd
    /\ arb = "WAIT" /\ ~grant_evt => desc = rsp /\ ~rsp_req
    /\ arb = "REQ" /\ ~grant_evt => rsp_req

\* The event in flight is the newest, and the queue still holds it.
OneEvent ==
  /\ evt_req => evt > last_evt
  /\ arb = "REQ" /\ grant_evt /\ ~spoiled => evt_req
  /\ arb = "WAIT" /\ grant_evt =>
       /\ evt_req => evt > desc.id
       /\ ~spoiled => desc.id > last_evt
       /\ ~spoiled /\ ~overlapped => evt = desc.id

-----------------------------------------------------------------------------
(* The snapshot of the statistics. *)

CopyTypes ==
  /\ snapshot \in BOOLEAN /\ copy_busy \in BOOLEAN
  /\ copy_idx \in 0 .. STATS_NUM - 1 /\ copy_id \in 0 .. n_cmd
  /\ snap_ram \in [0 .. STATS_NUM - 1 -> 0 .. n_cmd]
  /\ stats_rd.word \in Nat /\ stats_rd.id \in Nat

\* The copy runs while its response is awaited, and the encoder does not overtake it.
CopyInv ==
  ~piped =>
    /\ snapshot => rsp_req /\ ~Responding /\ ~copy_busy /\ rsp.type = "STATS"
    /\ copy_busy => (rsp_req \/ Responding) /\ rsp.type = "STATS" /\ copy_id = rsp.id
    /\ copy_busy => \A w \in 0 .. STATS_NUM - 1 : w < copy_idx => snap_ram[w] = rsp.id
    /\ ~copy_busy /\ ~snapshot /\ rsp.type = "STATS" =>
         \A w \in 0 .. STATS_NUM - 1 : snap_ram[w] = rsp.id
    /\ copy_busy /\ arb = "WAIT" /\ ~grant_evt =>
         /\ enc = "HDR" => copy_idx > hdr_idx
         /\ enc = "PL_ADDR" => copy_idx > HDR_BYTES
         /\ enc = "PL_WAIT" => copy_idx > HDR_BYTES + 1
         /\ enc \in {"HDR", "PL_ADDR", "PL_WAIT"} /\ pl_cnt = 0
    /\ enc = "PL_PUSH" /\ desc.type = "STATS" =>
         stats_rd = Word(pl_cnt \div WORD_BYTES, rsp.id)

-----------------------------------------------------------------------------
\* The payload so far is that of the request, unless it changed on the way.
Clean == IF desc.type = "EVT" THEN ~spoiled /\ ~overlapped ELSE ~piped

LoadInv == Active /\ Clean => LoadOf(Written, desc)

PathInv == EncInv /\ ReqTypes /\ ArbInv /\ OneCommand /\ OneEvent /\ CopyTypes /\ CopyInv /\ LoadInv

-----------------------------------------------------------------------------
(* The data. *)

LEMMA TypesAre == Types = {"ACK", "ERROR", "STATS", "VERSION", "EVT"}
BY DEF Types, PayloadLen

LEMMA ProductPositive == ASSUME NEW a \in Nat \ {0}, NEW b \in Nat \ {0} PROVE a * b \in Nat \ {0}
OBVIOUS

\* No packet has an empty payload.
LEMMA LoadPositive == \A t \in Types : PayloadLen[t] \in Nat /\ PayloadLen[t] > 0
<1> DEFINE words == STATS_NUM * WORD_BYTES
<1>1. words \in Nat \ {0}
  BY ProductPositive, SizeAssumption
<1>2. PayloadLen = [ACK |-> 1, ERROR |-> 2, STATS |-> words, VERSION |-> VERSION_LEN, EVT |-> EVT_LEN]
  BY DEF PayloadLen
<1>3. VERSION_LEN \in Nat \ {0} /\ EVT_LEN \in Nat \ {0}
  BY SizeAssumption
<1> HIDE DEF words
<1> QED
  BY <1>1, <1>2, <1>3, TypesAre

LEMMA HeaderSize == HDR_BYTES \in Nat /\ HDR_BYTES > 0
BY SizeAssumption

LEMMA PlainIsByte == ASSUME NEW b \in PlainBytes PROVE b \in Bytes
BY DEF Bytes

LEMMA HeaderIsPlain ==
  ASSUME NEW t \in Types, NEW r, r.type = t, r.id \in Nat, NEW i \in Nat
  PROVE  HeaderByte(r, i) \in PlainBytes
BY TypesAre DEF HeaderByte, Byte, PlainBytes, Sources

LEMMA SumIsByte ==
  ASSUME NEW half \in {0, 1}, NEW s \in Seq(PlainBytes)
  PROVE  SumByte(half, s) \in Bytes
BY DEF SumByte, SumBytes, Bytes

LEMMA AppendByte ==
  ASSUME NEW s \in Seq(Bytes), NEW b \in Bytes
  PROVE  /\ Append(s, b) \in Seq(Bytes)
         /\ Len(Append(s, b)) = Len(s) + 1
         /\ \A i \in 1 .. Len(s) : Append(s, b)[i] = s[i]
         /\ Append(s, b)[Len(s) + 1] = b
OBVIOUS

LEMMA AppendPlain ==
  ASSUME NEW s \in Seq(PlainBytes), NEW b \in PlainBytes
  PROVE  /\ Append(s, b) \in Seq(PlainBytes)
         /\ Len(Append(s, b)) = Len(s) + 1
         /\ \A i \in 1 .. Len(s) : Append(s, b)[i] = s[i]
         /\ Append(s, b)[Len(s) + 1] = b
OBVIOUS

-----------------------------------------------------------------------------
(* What an edge of the encoder does to the packet. *)

\* Nothing is written, or the byte b is, and is folded or not.
Quiet == ~tx_en' /\ Written' = Written /\ Folded' = Folded
Pushed(b, fold) ==
  /\ tx_en' /\ tx_data' = b /\ crc_en' = fold
  /\ Written' = Append(Written, b)
  /\ Folded' = IF fold THEN Append(Folded, b) ELSE Folded

EncMove(valid, req, data) ==
  \/ Idle(valid, req) /\ ~tx_en' /\ wrote' \in Seq(Bytes) /\ Written' = wrote' /\ Len(wrote') = 0 /\ Folded' = <<>>
  \/ Stall /\ Quiet
  \/ PayloadAddr /\ Quiet
  \/ Settle /\ Quiet
  \/ Header /\ Pushed(HeaderByte(desc, hdr_idx), hdr_idx # 0)
  \/ PayloadPush(data) /\ Pushed(data, TRUE)
  \/ enc = "CRC_L" /\ Checksum /\ Pushed(SumByte(0, crc), FALSE)
  \/ enc = "CRC_H" /\ Checksum /\ Pushed(SumByte(1, crc), FALSE)

LEMMA WrittenIsBytes ==
  ASSUME EncInv
  PROVE  Written \in Seq(Bytes) /\ Folded \in Seq(PlainBytes)
<1>1. wrote \in Seq(Bytes) /\ crc \in Seq(PlainBytes)
  BY DEF EncInv, DataTypes
<1>2. tx_en => Append(wrote, tx_data) \in Seq(Bytes)
  BY <1>1, AppendByte DEF EncInv, DataTypes
<1>3. tx_en /\ crc_en => Append(crc, tx_data) \in Seq(PlainBytes)
  BY <1>1, AppendPlain DEF EncInv, DataTypes
<1> QED
  BY <1>1, <1>2, <1>3, Zenon DEF Written, Folded

LEMMA EdgeMoves ==
  ASSUME FlowInv, FlowInv', EncInv, Record, NEW valid, NEW req, NEW data, NEW full,
         EncEdge(valid, req, data, full)
  PROVE  EncMove(valid, req, data) /\ (enc # "IDLE" => wrote' = Written /\ crc' = Folded)
<1>1. ~Full /\ ~Full'
  BY DepthAssumption DEF FlowInv, Full
<1>2. wrote' = IF pkt_done THEN <<>> ELSE Written
  BY DEF Record
<1>3. Written' = IF tx_en' THEN Append(wrote', tx_data') ELSE wrote'
  BY <1>1 DEF Written
<1>4. crc' = IF enc = "IDLE" THEN <<>> ELSE Folded
  BY DEF EncEdge, CrcEdge, Folded
<1>5. Folded' = IF tx_en' /\ crc_en' THEN Append(crc', tx_data') ELSE crc'
  BY DEF Folded
<1>6. enc # "IDLE" => ~pkt_done
  BY DEF EncInv, Progress
<1>7. enc # "IDLE" => wrote' = Written /\ crc' = Folded
  BY <1>2, <1>4, <1>6
<1>8. ASSUME enc # "IDLE", NoWrite PROVE Quiet
  BY <1>8, <1>7, <1>3, <1>5 DEF NoWrite, Quiet
<1>9. ASSUME enc # "IDLE", NEW b, NEW fold \in BOOLEAN, Write(b, fold) PROVE Pushed(b, fold)
  BY <1>9, <1>7, <1>3, <1>5 DEF Write, Pushed
<1>10. CASE Idle(valid, req)
  <2>1. enc = "IDLE" /\ ~tx_en'
    BY <1>10 DEF Idle, NoWrite
  <2>2. wrote' \in Seq(Bytes) /\ Len(wrote') = 0
    <3>1. CASE pkt_done
      BY <3>1, <1>2
    <3>2. CASE ~pkt_done
      <4>1. ~Active
        BY <2>1, <3>2 DEF Active
      <4>2. Written \in Seq(Bytes)
        BY WrittenIsBytes
      <4> QED
        BY <4>1, <4>2, <1>2, <3>2 DEF EncInv, Progress
    <3> QED
      BY <3>1, <3>2
  <2> QED
    BY <1>10, <2>1, <2>2, <1>3, <1>4, <1>5, <1>7 DEF EncMove
<1>11. CASE Stall
  BY <1>11, <1>8, <1>7 DEF Stall, EncMove
<1>12. CASE PayloadAddr
  BY <1>12, <1>8, <1>7 DEF PayloadAddr, EncMove
<1>13. CASE Settle
  BY <1>13, <1>8, <1>7 DEF Settle, EncMove
<1>14. CASE Header
  <2>1. enc # "IDLE" /\ Write(HeaderByte(desc, hdr_idx), hdr_idx # 0) /\ (hdr_idx # 0) \in BOOLEAN
    BY <1>14 DEF Header
  <2>2. Pushed(HeaderByte(desc, hdr_idx), hdr_idx # 0)
    BY <2>1, <1>9
  <2> QED
    BY <1>14, <2>2, <1>7 DEF EncMove
<1>15. CASE PayloadPush(data)
  <2>1. enc # "IDLE" /\ Write(data, TRUE)
    BY <1>15 DEF PayloadPush
  <2>2. Pushed(data, TRUE)
    BY <2>1, <1>9
  <2> QED
    BY <1>15, <2>2, <1>7 DEF EncMove
<1>16. CASE Checksum
  <2>1. CASE enc = "CRC_L"
    <3>1. enc # "IDLE" /\ Write(SumByte(0, crc), FALSE)
      BY <1>16, <2>1 DEF Checksum
    <3>2. Pushed(SumByte(0, crc), FALSE)
      BY <3>1, <1>9
    <3> QED
      BY <1>16, <2>1, <3>2, <1>7 DEF EncMove
  <2>2. CASE enc = "CRC_H"
    <3>1. enc # "IDLE" /\ Write(SumByte(1, crc), FALSE)
      BY <1>16, <2>2 DEF Checksum
    <3>2. Pushed(SumByte(1, crc), FALSE)
      BY <3>1, <1>9
    <3> QED
      BY <1>16, <2>2, <3>2, <1>7 DEF EncMove
  <2> QED
    BY <2>1, <2>2, <1>16 DEF Checksum
<1> QED
  BY <1>10, <1>11, <1>12, <1>13, <1>14, <1>15, <1>16 DEF EncEdge

-----------------------------------------------------------------------------
(* How a packet grows. *)

LEMMA HeaderGrows ==
  ASSUME NEW W \in Seq(Bytes), NEW b \in Bytes, NEW W2, W2 = Append(W, b), NEW d, HeaderOf(W, d),
         Len(W) < HDR_BYTES => b = HeaderByte(d, Len(W))
  PROVE  HeaderOf(W2, d)
<1> SUFFICES ASSUME NEW i \in 1 .. HDR_BYTES, i <= Len(W2) PROVE W2[i] = HeaderByte(d, i - 1)
  BY DEF HeaderOf
<1>1. Len(W2) = Len(W) + 1 /\ (\A j \in 1 .. Len(W) : W2[j] = W[j]) /\ W2[Len(W) + 1] = b
  BY AppendByte, Zenon
<1>2. Len(W) \in Nat /\ HDR_BYTES \in Nat
  BY HeaderSize
<1>3. CASE i <= Len(W)
  BY <1>1, <1>2, <1>3 DEF HeaderOf
<1>4. CASE i = Len(W) + 1
  <2>1. i - 1 = Len(W) /\ Len(W) < HDR_BYTES
    BY <1>4, <1>2
  <2> QED
    BY <2>1, <1>1, <1>4
<1> QED
  BY <1>1, <1>2, <1>3, <1>4

LEMMA LoadGrows ==
  ASSUME NEW W \in Seq(Bytes), NEW b \in Bytes, NEW W2, W2 = Append(W, b), NEW d, LoadOf(W, d),
         d.type \in Types,
         \A i \in 0 .. PayloadLen[d.type] - 1 : Len(W) = HDR_BYTES + i => b = PayloadByte(d, i)
  PROVE  LoadOf(W2, d)
<1> SUFFICES ASSUME NEW i \in 0 .. PayloadLen[d.type] - 1, HDR_BYTES + i < Len(W2)
             PROVE  W2[HDR_BYTES + i + 1] = PayloadByte(d, i)
  BY DEF LoadOf
<1>1. Len(W2) = Len(W) + 1 /\ (\A j \in 1 .. Len(W) : W2[j] = W[j]) /\ W2[Len(W) + 1] = b
  BY AppendByte, Zenon
<1>2. Len(W) \in Nat /\ HDR_BYTES \in Nat /\ PayloadLen[d.type] \in Nat
  BY HeaderSize, LoadPositive
<1>3. CASE HDR_BYTES + i < Len(W)
  <2>1. HDR_BYTES + i + 1 \in 1 .. Len(W)
    BY <1>2, <1>3
  <2>2. W[HDR_BYTES + i + 1] = PayloadByte(d, i)
    BY <1>3 DEF LoadOf
  <2> QED
    BY <1>1, <2>1, <2>2
<1>4. CASE Len(W) = HDR_BYTES + i
  BY <1>1, <1>4
<1> QED
  BY <1>1, <1>2, <1>3, <1>4

LEMMA CoverStays ==
  ASSUME NEW W \in Seq(Bytes), NEW b \in Bytes, NEW W2, W2 = Append(W, b),
         NEW F \in Seq(PlainBytes), CoveredBy(F, W), Len(F) < Len(W) \/ Len(F) = 0
  PROVE  CoveredBy(F, W2)
<1> SUFFICES ASSUME NEW i \in 1 .. Len(F) PROVE F[i] = W2[i + 1]
  BY DEF CoveredBy
<1>1. \A j \in 1 .. Len(W) : W2[j] = W[j]
  BY AppendByte, Zenon
<1>2. Len(W) \in Nat /\ Len(F) \in Nat
  OBVIOUS
<1>3. i + 1 \in 1 .. Len(W)
  BY <1>2
<1> QED
  BY <1>1, <1>3 DEF CoveredBy

LEMMA CoverGrows ==
  ASSUME NEW W \in Seq(Bytes), NEW b \in PlainBytes, NEW W2, W2 = Append(W, b),
         NEW F \in Seq(PlainBytes), NEW F2, F2 = Append(F, b), CoveredBy(F, W), Len(F) + 1 = Len(W)
  PROVE  CoveredBy(F2, W2)
<1> SUFFICES ASSUME NEW i \in 1 .. Len(F2) PROVE F2[i] = W2[i + 1]
  BY DEF CoveredBy
<1>1. b \in Bytes
  BY PlainIsByte
<1>2. (\A j \in 1 .. Len(W) : W2[j] = W[j]) /\ W2[Len(W) + 1] = b
  BY <1>1, AppendByte, Zenon
<1>3. Len(F2) = Len(F) + 1 /\ (\A j \in 1 .. Len(F) : F2[j] = F[j]) /\ F2[Len(F) + 1] = b
  BY AppendPlain, Zenon
<1>4. Len(W) \in Nat /\ Len(F) \in Nat
  OBVIOUS
<1>5. CASE i <= Len(F)
  <2>1. i \in 1 .. Len(F) /\ i + 1 \in 1 .. Len(W)
    BY <1>4, <1>5
  <2> QED
    BY <2>1, <1>2, <1>3 DEF CoveredBy
<1>6. CASE i = Len(F) + 1
  BY <1>6, <1>2, <1>3
<1> QED
  BY <1>3, <1>4, <1>5, <1>6

-----------------------------------------------------------------------------
(* The encoder keeps its invariant. *)

LEMMA EncTypesKept ==
  ASSUME EncInv, NEW valid, NEW req, NEW data, EncMove(valid, req, data),
         valid => req.type \in Types /\ req.id \in Nat
  PROVE  EncTypes'
<1>1. /\ enc \in EncStates /\ hdr_idx \in 0 .. HDR_BYTES - 1 /\ pl_cnt \in Nat /\ pl_cnt < PayloadLen[desc.type]
      /\ desc.type \in Types /\ desc.id \in Nat /\ crc_en \in BOOLEAN /\ pl_idx \in Nat
  BY DEF EncInv, EncTypes, Load
<1>2. HDR_BYTES \in Nat /\ HDR_BYTES > 0 /\ \A t \in Types : PayloadLen[t] \in Nat /\ PayloadLen[t] > 0
  BY HeaderSize, LoadPositive
<1>3. enc' \in EncStates /\ hdr_idx' \in 0 .. HDR_BYTES - 1
  <2>1. enc' \in EncStates
    BY <1>1 DEF EncMove, Idle, Stall, PayloadAddr, Settle, Header, PayloadPush, Checksum, EncStates
  <2>2. hdr_idx' = 0 \/ hdr_idx' = hdr_idx \/ (hdr_idx' = hdr_idx + 1 /\ hdr_idx < HDR_BYTES - 1)
    BY DEF EncMove, Idle, Stall, PayloadAddr, Settle, Header, PayloadPush, Checksum
  <2> QED
    BY <2>1, <2>2, <1>1, <1>2
<1>4. desc'.type \in Types /\ desc'.id \in Nat
  BY <1>1 DEF EncMove, Idle, Stall, PayloadAddr, Settle, Header, PayloadPush, Checksum
<1>5. pl_cnt' \in Nat /\ pl_cnt' < PayloadLen[desc'.type]
  <2>1. pl_cnt' = 0 \/ UNCHANGED <<pl_cnt, desc>> \/ (desc' = desc /\ pl_cnt' = pl_cnt + 1 /\ pl_cnt < PayloadLen[desc.type] - 1)
    BY DEF EncMove, Idle, Stall, PayloadAddr, Settle, Header, PayloadPush, Checksum
  <2> QED
    BY <2>1, <1>1, <1>2, <1>4
<1>6. tx_en' \in BOOLEAN /\ pkt_done' \in BOOLEAN
  BY DEF EncMove, Idle, Stall, PayloadAddr, Settle, Header, PayloadPush, Checksum, Quiet, Pushed, NoWrite
<1>7. crc_en' \in BOOLEAN
  BY <1>1 DEF EncMove, Idle, Stall, PayloadAddr, Settle, Pushed, NoWrite
<1>8. pl_idx' \in Nat
  BY <1>1 DEF EncMove, Idle, Stall, PayloadAddr, Settle, Header, PayloadPush, Checksum
<1> QED
  BY <1>3, <1>4, <1>5, <1>6, <1>7, <1>8 DEF EncTypes, Load

LEMMA DataKept ==
  ASSUME EncInv, Record, NEW valid, NEW req, NEW data, EncMove(valid, req, data), enc = "PL_PUSH" => data \in PlainBytes,
         enc # "IDLE" => wrote' = Written /\ crc' = Folded
  PROVE  DataTypes'
<1>1. wrote' \in Seq(Bytes)
  <2>1. CASE enc = "IDLE"
    BY <2>1 DEF EncMove, Stall, PayloadAddr, Settle, Header, PayloadPush
  <2> QED
    BY <2>1, WrittenIsBytes
<1>2. crc' \in Seq(PlainBytes)
  <2>1. CASE enc = "IDLE"
    <3>1. Folded' = <<>> /\ ~tx_en'
      BY <2>1 DEF EncMove, Idle, Stall, PayloadAddr, Settle, Header, PayloadPush
    <3> QED
      BY <3>1 DEF Folded
  <2> QED
    BY <2>1, WrittenIsBytes
<1>3. tx_en' => tx_data' \in Bytes /\ (crc_en' => tx_data' \in PlainBytes)
  <2>1. CASE enc = "IDLE" \/ Quiet
    BY <2>1 DEF EncMove, Quiet, Header, PayloadPush
  <2>2. CASE Pushed(HeaderByte(desc, hdr_idx), hdr_idx # 0)
    <3>1. HeaderByte(desc, hdr_idx) \in PlainBytes
      BY HeaderIsPlain, HeaderSize DEF EncInv, EncTypes
    <3> QED
      BY <3>1, <2>2, PlainIsByte DEF Pushed
  <2>3. CASE enc = "PL_PUSH" /\ Pushed(data, TRUE)
    BY <2>3, PlainIsByte DEF Pushed
  <2>4. CASE Pushed(SumByte(0, crc), FALSE) \/ Pushed(SumByte(1, crc), FALSE)
    <3>1. SumByte(0, crc) \in Bytes /\ SumByte(1, crc) \in Bytes
      BY SumIsByte DEF EncInv, DataTypes
    <3> QED
      BY <3>1, <2>4 DEF Pushed
  <2> QED
    BY <2>1, <2>2, <2>3, <2>4 DEF EncMove, Idle, PayloadPush
<1> QED
  BY <1>1, <1>2, <1>3 DEF DataTypes

\* How long the packet is after an edge.
LEMMA MoveLengths ==
  ASSUME EncInv, NEW valid, NEW req, NEW data, EncMove(valid, req, data), enc = "PL_PUSH" => data \in PlainBytes
  PROVE  /\ Len(Written) \in Nat /\ Len(Folded) \in Nat
         /\ enc = "IDLE" => Len(Written') = 0 /\ Len(Folded') = 0
         /\ Quiet => Len(Written') = Len(Written) /\ Len(Folded') = Len(Folded)
         /\ enc # "IDLE" /\ ~Quiet => Len(Written') = Len(Written) + 1
<1>1. Written \in Seq(Bytes) /\ Folded \in Seq(PlainBytes)
  BY WrittenIsBytes
<1>2. enc = "IDLE" => Len(Written') = 0 /\ Len(Folded') = 0
  BY DEF EncMove, Idle, Stall, PayloadAddr, Settle, Header, PayloadPush
<1>3. Len(Written) \in Nat /\ Len(Folded) \in Nat
  BY <1>1
<1>4. \A b \in Bytes : Len(Append(Written, b)) = Len(Written) + 1
  BY <1>1, AppendByte, Zenon
<1>5. HeaderByte(desc, hdr_idx) \in Bytes
  BY HeaderIsPlain, PlainIsByte, HeaderSize DEF EncInv, EncTypes
<1>6. SumByte(0, crc) \in Bytes /\ SumByte(1, crc) \in Bytes
  BY SumIsByte DEF EncInv, DataTypes
<1>7. enc = "PL_PUSH" => data \in Bytes
  BY PlainIsByte
<1>8. enc # "IDLE" /\ ~Quiet => Len(Written') = Len(Written) + 1
  BY <1>4, <1>5, <1>6, <1>7, Zenon DEF EncMove, Idle, Pushed, PayloadPush
<1> QED
  BY <1>2, <1>3, <1>8 DEF Quiet

LEMMA ProgressKept ==
  ASSUME EncInv, NEW valid, NEW req, NEW data, EncMove(valid, req, data), enc = "PL_PUSH" => data \in PlainBytes
  PROVE  Progress'
<1> DEFINE n == Len(Written)
           m == Len(Written')
           k == PayloadLen[desc.type]
<1>1. n \in Nat /\ (enc = "IDLE" => m = 0) /\ (Quiet => m = n) /\ (enc # "IDLE" /\ ~Quiet => m = n + 1)
  BY MoveLengths
<1>2. /\ enc = "HDR" => n = hdr_idx /\ pl_cnt = 0
      /\ enc \in {"PL_ADDR", "PL_WAIT", "PL_PUSH"} => n = HDR_BYTES + pl_cnt
      /\ enc \in {"CRC_WAIT", "CRC_L"} => n = HDR_BYTES + k
      /\ enc = "CRC_H" => n = HDR_BYTES + k + 1
      /\ enc \in {"PL_WAIT", "PL_PUSH"} => pl_idx = pl_cnt
      /\ enc # "IDLE" => ~pkt_done
  BY DEF EncInv, Progress, InLoad, Frame, Load
<1>3. /\ enc \in EncStates /\ hdr_idx \in 0 .. HDR_BYTES - 1 /\ pl_cnt \in Nat /\ pl_cnt < k /\ k \in Nat /\ k > 0
      /\ HDR_BYTES \in Nat /\ HDR_BYTES > 0
  BY HeaderSize, LoadPositive DEF EncInv, EncTypes, Load
<1> DEFINE k2 == PayloadLen[desc'.type]
           Goal ==
             /\ pkt_done' => enc' = "IDLE" /\ m = HDR_BYTES + k2 + 2
             /\ enc' = "IDLE" /\ ~pkt_done' => m = 0
             /\ enc' = "HDR" => m = hdr_idx' /\ pl_cnt' = 0
             /\ enc' \in {"PL_ADDR", "PL_WAIT", "PL_PUSH"} => m = HDR_BYTES + pl_cnt'
             /\ enc' \in {"CRC_WAIT", "CRC_L"} => m = HDR_BYTES + k2
             /\ enc' = "CRC_H" => m = HDR_BYTES + k2 + 1
             /\ enc' \in {"PL_WAIT", "PL_PUSH"} => pl_idx' = pl_cnt'
<1>4. UNCHANGED desc => k2 = k
  OBVIOUS
<1>5. \A b, f : Pushed(b, f) => ~Quiet
  BY DEF Pushed, Quiet
<1> SUFFICES Goal
  BY DEF Progress, InLoad, Frame, Load, Active
<1> HIDE DEF n, m, k, k2
<1>6. CASE Idle(valid, req)
  BY <1>6, <1>1 DEF Idle
<1>7. CASE Stall /\ Quiet
  <2>1. /\ enc \in {"HDR", "PL_PUSH", "CRC_L", "CRC_H"} /\ UNCHANGED <<enc, hdr_idx, pl_cnt, desc, pl_idx>>
        /\ ~pkt_done' /\ m = n /\ k2 = k
    BY <1>7, <1>1, <1>4 DEF Stall
  <2> QED
    BY <2>1, <1>2, <1>3
<1>8. CASE PayloadAddr /\ Quiet
  <2>1. enc = "PL_ADDR" /\ enc' = "PL_WAIT" /\ pl_idx' = pl_cnt /\ pl_cnt' = pl_cnt /\ ~pkt_done' /\ m = n
    BY <1>8, <1>1 DEF PayloadAddr
  <2>2. m = HDR_BYTES + pl_cnt' /\ pl_idx' = pl_cnt'
    BY <2>1, <1>2
  <2> QED
    BY <2>1, <2>2
<1>9. CASE Settle /\ Quiet
  <2>1. /\ (enc = "PL_WAIT" /\ enc' = "PL_PUSH") \/ (enc = "CRC_WAIT" /\ enc' = "CRC_L")
        /\ pl_idx' = pl_idx /\ pl_cnt' = pl_cnt /\ ~pkt_done' /\ m = n /\ k2 = k
    BY <1>9, <1>1, <1>4 DEF Settle
  <2> QED
    BY <2>1, <1>2, <1>3
<1>10. CASE Header /\ Pushed(HeaderByte(desc, hdr_idx), hdr_idx # 0)
  <2>1. enc = "HDR" /\ m = n + 1 /\ pl_cnt' = pl_cnt /\ k2 = k /\ ~pkt_done'
    BY <1>10, <1>5, <1>1, <1>4 DEF Header
  <2>2. (hdr_idx = HDR_BYTES - 1 /\ enc' = "PL_ADDR") \/ (enc' = "HDR" /\ hdr_idx' = hdr_idx + 1)
    BY <1>10, <1>3 DEF Header, k
  <2>3. n = hdr_idx /\ pl_cnt = 0
    BY <2>1, <1>2
  <2>4. CASE hdr_idx = HDR_BYTES - 1 /\ enc' = "PL_ADDR"
    <3>1. m = HDR_BYTES + pl_cnt'
      BY <2>1, <2>3, <2>4, <1>3
    <3> QED
      BY <3>1, <2>1, <2>4
  <2>5. CASE enc' = "HDR" /\ hdr_idx' = hdr_idx + 1
    BY <2>1, <2>3, <2>5
  <2> QED
    BY <2>2, <2>4, <2>5
<1>11. CASE PayloadPush(data) /\ Pushed(data, TRUE)
  <2>1. enc = "PL_PUSH" /\ m = n + 1 /\ k2 = k /\ ~pkt_done'
    BY <1>11, <1>5, <1>1, <1>4 DEF PayloadPush
  <2>2. (pl_cnt = k - 1 /\ enc' = "CRC_WAIT") \/ (enc' = "PL_ADDR" /\ pl_cnt' = pl_cnt + 1)
    BY <1>11 DEF PayloadPush, k
  <2> QED
    BY <2>1, <2>2, <1>2, <1>3
<1>12. CASE enc = "CRC_L" /\ Checksum /\ Pushed(SumByte(0, crc), FALSE)
  <2>1. enc' = "CRC_H" /\ m = n + 1 /\ k2 = k /\ ~pkt_done'
    BY <1>12, <1>5, <1>1, <1>4 DEF Checksum
  <2> QED
    BY <2>1, <1>12, <1>2, <1>3
<1>13. CASE enc = "CRC_H" /\ Checksum /\ Pushed(SumByte(1, crc), FALSE)
  <2>1. enc' = "IDLE" /\ m = n + 1 /\ k2 = k /\ pkt_done'
    BY <1>13, <1>5, <1>1, <1>4 DEF Checksum
  <2> QED
    BY <2>1, <1>13, <1>2, <1>3
<1> QED
  BY <1>6, <1>7, <1>8, <1>9, <1>10, <1>11, <1>12, <1>13 DEF EncMove

LEMMA SettledKept ==
  ASSUME EncInv, NEW valid, NEW req, NEW data, EncMove(valid, req, data)
  PROVE  Settled'
<1>1. /\ enc = "CRC_L" => ~tx_en
      /\ enc = "CRC_H" \/ pkt_done => ~crc_en
  BY DEF EncInv, Settled
<1>2. enc' = "CRC_L" => ~tx_en'
  BY DEF EncMove, Idle, Stall, PayloadAddr, Settle, Header, PayloadPush, Checksum, Quiet
<1>3. enc' = "CRC_H" \/ pkt_done' => ~crc_en'
  BY <1>1 DEF EncMove, Idle, Stall, PayloadAddr, Settle, Header, PayloadPush, Checksum, Quiet, Pushed, NoWrite
<1> QED
  BY <1>2, <1>3 DEF Settled

LEMMA ContentsKept ==
  ASSUME EncInv, NEW valid, NEW req, NEW data, EncMove(valid, req, data), enc = "PL_PUSH" => data \in PlainBytes
  PROVE  Contents'
<1> DEFINE W == Written
           F == Folded
           W2 == Written'
           F2 == Folded'
           k == PayloadLen[desc.type]
<1>1. W \in Seq(Bytes) /\ F \in Seq(PlainBytes) /\ Len(W) \in Nat /\ Len(F) \in Nat
  BY WrittenIsBytes
<1>2. enc # "IDLE" => HeaderOf(W, desc) /\ CoveredBy(F, W)
  BY DEF EncInv, Contents, Active
<1>3. /\ enc \notin {"IDLE", "CRC_H"} => Len(F) = IF Len(W) = 0 THEN 0 ELSE Len(W) - 1
      /\ enc = "CRC_H" => Len(F) = (HDR_BYTES + k) - 1 /\ W[HDR_BYTES + k + 1] = SumByte(0, F)
  BY DEF EncInv, Contents, Frame, Load
<1>4. /\ enc = "HDR" => Len(W) = hdr_idx
      /\ enc = "PL_PUSH" => Len(W) = HDR_BYTES + pl_cnt
      /\ enc = "CRC_L" => Len(W) = HDR_BYTES + k
      /\ enc = "CRC_H" => Len(W) = HDR_BYTES + k + 1
  BY DEF EncInv, Progress, InLoad, Frame, Load
<1>5. /\ hdr_idx \in 0 .. HDR_BYTES - 1 /\ pl_cnt \in Nat /\ k \in Nat /\ k > 0 /\ HDR_BYTES \in Nat /\ HDR_BYTES > 0
      /\ desc.type \in Types /\ desc.id \in Nat
  BY HeaderSize, LoadPositive DEF EncInv, EncTypes
<1>6. enc = "CRC_L" \/ enc = "CRC_H" => F = crc
  BY DEF EncInv, Settled, Folded
<1> DEFINE k2 == PayloadLen[desc'.type]
<1> SUFFICES
      /\ enc' # "IDLE" \/ pkt_done' => HeaderOf(W2, desc') /\ CoveredBy(F2, W2)
      /\ enc' \notin {"IDLE", "CRC_H"} => Len(F2) = IF Len(W2) = 0 THEN 0 ELSE Len(W2) - 1
      /\ enc' = "CRC_H" \/ pkt_done' => Len(F2) = (HDR_BYTES + k2) - 1 /\ W2[HDR_BYTES + k2 + 1] = SumByte(0, F2)
      /\ pkt_done' => W2[HDR_BYTES + k2 + 2] = SumByte(1, F2)
  BY DEF Contents, Active, Frame, Load
<1>7. UNCHANGED desc => k2 = k
  OBVIOUS
<1> HIDE DEF W, F, W2, F2, k, k2
<1>8. CASE enc = "IDLE"
  <2>1. Len(W2) = 0 /\ Len(F2) = 0 /\ enc' \in {"IDLE", "HDR"} /\ ~pkt_done'
    BY <1>8 DEF EncMove, Idle, Stall, PayloadAddr, Settle, Header, PayloadPush, W2, F2
  <2>2. HeaderOf(W2, desc')
    BY <2>1, <1>5 DEF HeaderOf
  <2>3. CoveredBy(F2, W2)
    BY <2>1 DEF CoveredBy
  <2> QED
    BY <2>1, <2>2, <2>3
<1>9. CASE enc # "IDLE" /\ Quiet
  <2>1. W2 = W /\ F2 = F
    BY <1>9 DEF Quiet, W, W2, F, F2
  <2>2. desc' = desc /\ ~pkt_done' /\ (enc' = "CRC_H" <=> enc = "CRC_H")
    BY <1>9 DEF EncMove, Idle, Stall, PayloadAddr, Settle, Quiet, Pushed
  <2>3. k2 = k
    BY <2>2, <1>7
  <2> QED
    BY <2>1, <2>2, <2>3, <1>9, <1>2, <1>3
<1>10. CASE Header /\ Pushed(HeaderByte(desc, hdr_idx), hdr_idx # 0)
  <2> DEFINE b == HeaderByte(desc, hdr_idx)
  <2>1. b \in PlainBytes /\ b \in Bytes
    BY <1>5, HeaderIsPlain, PlainIsByte
  <2>2. enc = "HDR" /\ enc' \in {"HDR", "PL_ADDR"} /\ desc' = desc /\ ~pkt_done'
    BY <1>10, <1>5 DEF Header, k
  <2>3. W2 = Append(W, b) /\ F2 = IF hdr_idx # 0 THEN Append(F, b) ELSE F
    BY <1>10 DEF Pushed, W, W2, F, F2
  <2>4. Len(W) = hdr_idx /\ HeaderOf(W, desc) /\ CoveredBy(F, W) /\ b = HeaderByte(desc, Len(W))
    BY <2>2, <1>2, <1>4
  <2>5. Len(F) = IF hdr_idx = 0 THEN 0 ELSE hdr_idx - 1
    BY <2>2, <2>4, <1>3
  <2> HIDE DEF b
  <2>6. HeaderOf(W2, desc)
    BY <1>1, <2>1, <2>3, <2>4, HeaderGrows
  <2>7. Len(W2) = hdr_idx + 1
    <3>1. Len(Append(W, b)) = Len(W) + 1
      BY <1>1, <2>1, AppendByte
    <3> QED
      BY <3>1, <2>3, <2>4
  <2>8. CoveredBy(F2, W2) /\ Len(F2) = hdr_idx
    <3>1. CASE hdr_idx = 0
      <4>1. F2 = F /\ Len(F) = 0
        BY <3>1, <2>3, <2>5
      <4>2. CoveredBy(F2, W2)
        BY <4>1 DEF CoveredBy
      <4> QED
        BY <4>1, <4>2, <3>1
    <3>2. CASE hdr_idx # 0
      <4>1. F2 = Append(F, b) /\ Len(F) + 1 = Len(W)
        BY <3>2, <2>3, <2>4, <2>5, <1>5
      <4>2. CoveredBy(F2, W2)
        BY <4>1, <1>1, <2>1, <2>3, <2>4, CoverGrows
      <4>3. Len(F2) = Len(F) + 1
        BY <4>1, <1>1, <2>1, AppendPlain
      <4> QED
        BY <4>1, <4>2, <4>3, <2>4
    <3> QED
      BY <3>1, <3>2
  <2>9. Len(F2) = IF Len(W2) = 0 THEN 0 ELSE Len(W2) - 1
    BY <2>7, <2>8, <1>5
  <2> QED
    BY <2>2, <2>6, <2>8, <2>9
<1>11. CASE PayloadPush(data) /\ Pushed(data, TRUE)
  <2>2. enc = "PL_PUSH" /\ enc' \in {"CRC_WAIT", "PL_ADDR"} /\ desc' = desc /\ ~pkt_done'
    BY <1>11 DEF PayloadPush
  <2>1. data \in PlainBytes /\ data \in Bytes
    BY <2>2, PlainIsByte
  <2>3. W2 = Append(W, data) /\ F2 = Append(F, data)
    BY <1>11 DEF Pushed, W, W2, F, F2
  <2>4. Len(W) = HDR_BYTES + pl_cnt /\ HeaderOf(W, desc) /\ CoveredBy(F, W)
    BY <2>2, <1>2, <1>4
  <2>5. Len(W) > 0 /\ ~(Len(W) < HDR_BYTES)
    BY <2>4, <1>5
  <2>6. Len(F) + 1 = Len(W)
    BY <2>2, <2>5, <1>3, <1>1
  <2>7. HeaderOf(W2, desc)
    BY <1>1, <2>1, <2>3, <2>4, <2>5, HeaderGrows
  <2>8. CoveredBy(F2, W2)
    BY <1>1, <2>1, <2>3, <2>4, <2>6, CoverGrows
  <2>9. Len(W2) = Len(W) + 1 /\ Len(F2) = Len(F) + 1
    BY <1>1, <2>1, <2>3, AppendByte, AppendPlain, Zenon
  <2>10. Len(F2) = IF Len(W2) = 0 THEN 0 ELSE Len(W2) - 1
    BY <2>9, <2>6, <1>1
  <2> QED
    BY <2>2, <2>7, <2>8, <2>10
<1>12. CASE enc = "CRC_L" /\ Checksum /\ Pushed(SumByte(0, crc), FALSE)
  <2> DEFINE b == SumByte(0, F)
  <2>1. F = crc /\ b \in Bytes
    BY <1>12, <1>6, <1>1, SumIsByte
  <2>2. enc' = "CRC_H" /\ desc' = desc /\ ~pkt_done' /\ k2 = k
    BY <1>12, <1>7 DEF Checksum
  <2>3. W2 = Append(W, b) /\ F2 = F
    BY <1>12, <2>1 DEF Pushed, W, W2, F, F2
  <2>4. Len(W) = HDR_BYTES + k /\ HeaderOf(W, desc) /\ CoveredBy(F, W)
    BY <1>12, <1>2, <1>4
  <2>5. ~(Len(W) < HDR_BYTES) /\ Len(F) = (HDR_BYTES + k) - 1 /\ Len(F) < Len(W)
    BY <1>12, <2>4, <1>3, <1>5
  <2> HIDE DEF b
  <2>6. HeaderOf(W2, desc)
    BY <1>1, <2>1, <2>3, <2>4, <2>5, HeaderGrows
  <2>7. CoveredBy(F2, W2)
    BY <1>1, <2>1, <2>3, <2>4, <2>5, CoverStays
  <2>8. W2[Len(W) + 1] = b
    BY <1>1, <2>1, <2>3, AppendByte, Zenon
  <2>9. W2[HDR_BYTES + k2 + 1] = b
    BY <2>8, <2>4, <2>2
  <2>10. b = SumByte(0, F2)
    BY <2>3 DEF b
  <2> QED
    BY <2>2, <2>3, <2>5, <2>6, <2>7, <2>9, <2>10
<1>13. CASE enc = "CRC_H" /\ Checksum /\ Pushed(SumByte(1, crc), FALSE)
  <2> DEFINE b == SumByte(1, F)
  <2>1. F = crc /\ b \in Bytes
    BY <1>13, <1>6, <1>1, SumIsByte
  <2>2. enc' = "IDLE" /\ desc' = desc /\ k2 = k
    BY <1>13, <1>7 DEF Checksum
  <2>3. W2 = Append(W, b) /\ F2 = F
    BY <1>13, <2>1 DEF Pushed, W, W2, F, F2
  <2>4. Len(W) = HDR_BYTES + k + 1 /\ HeaderOf(W, desc) /\ CoveredBy(F, W) /\ W[HDR_BYTES + k + 1] = SumByte(0, F)
    BY <1>13, <1>2, <1>3, <1>4
  <2>5. ~(Len(W) < HDR_BYTES) /\ Len(F) = (HDR_BYTES + k) - 1 /\ Len(F) < Len(W) /\ HDR_BYTES + k + 1 \in 1 .. Len(W)
    BY <1>13, <2>4, <1>3, <1>5
  <2> HIDE DEF b
  <2>6. HeaderOf(W2, desc)
    BY <1>1, <2>1, <2>3, <2>4, <2>5, HeaderGrows
  <2>7. CoveredBy(F2, W2)
    BY <1>1, <2>1, <2>3, <2>4, <2>5, CoverStays
  <2>8. W2[Len(W) + 1] = b /\ \A j \in 1 .. Len(W) : W2[j] = W[j]
    BY <1>1, <2>1, <2>3, AppendByte, Zenon
  <2>9. Len(W) + 1 = HDR_BYTES + k + 2
    BY <2>4, <1>5
  <2>10. W2[HDR_BYTES + k2 + 2] = b /\ W2[HDR_BYTES + k2 + 1] = SumByte(0, F2)
    BY <2>8, <2>9, <2>2, <2>3, <2>4, <2>5, Zenon
  <2>11. b = SumByte(1, F2)
    BY <2>3 DEF b
  <2> QED
    BY <2>2, <2>3, <2>5, <2>6, <2>7, <2>10, <2>11
<1> QED
  BY <1>8, <1>9, <1>10, <1>11, <1>12, <1>13 DEF EncMove, Idle, Stall, PayloadAddr, Settle

\* An edge of the encoder keeps all that.
LEMMA EncKept ==
  ASSUME FlowInv, FlowInv', EncInv, Record, NEW valid, NEW req, NEW data, NEW full,
         EncEdge(valid, req, data, full),
         valid => req.type \in Types /\ req.id \in Nat, enc = "PL_PUSH" => data \in PlainBytes
  PROVE  EncInv'
<1>1. EncMove(valid, req, data) /\ (enc # "IDLE" => wrote' = Written /\ crc' = Folded)
  BY EdgeMoves
<1>2. EncTypes'
  BY <1>1, EncTypesKept
<1>3. DataTypes'
  BY <1>1, DataKept
<1>4. Progress' /\ Settled' /\ Contents'
  BY <1>1, ProgressKept, SettledKept, ContentsKept
<1> QED
  BY <1>2, <1>3, <1>4 DEF EncInv

-----------------------------------------------------------------------------
(* The requests and the arbiter. *)

\* What the host does in a cycle.
HostQuiet ==
  /\ NoCommandEdge(RspAck)
  /\ open' = (open /\ ~(pkt_done /\ desc.type # "EVT" /\ desc.id = n_cmd))
  /\ UNCHANGED <<n_cmd, piped>>
HostSends(type) ==
  /\ \E clear \in BOOLEAN : CommandEdge(Request(type, n_cmd + 1), clear)
  /\ open' = TRUE /\ n_cmd' = n_cmd + 1 /\ piped' = (piped \/ open)

Edge(detect, stop) ==
  /\ detect = 0 \/ detect = n_evt + 1
  /\ Datapath(detect, stop) /\ Record
  /\ HostQuiet \/ \E type \in Types \ {"EVT"} : HostSends(type)

LEMMA NextIsEdge == ASSUME Next PROVE \E detect, stop : Edge(detect, stop)
<1>1. PICK stop \in BOOLEAN :
        \/ NoCommandCycle(stop)
        \/ \E type \in Types \ {"EVT"} : CommandCycle(type, FALSE, stop)
        \/ CommandCycle("ACK", TRUE, stop)
  BY DEF Next
<1>2. \A d \in Detections : d = 0 \/ d = n_evt + 1
  BY DEF Detections
<1>3. CASE NoCommandCycle(stop)
  BY <1>3, <1>2 DEF NoCommandCycle, Edge, HostQuiet
<1>4. ASSUME NEW type \in Types \ {"EVT"}, NEW clear \in BOOLEAN, CommandCycle(type, clear, stop)
      PROVE  \E detect, s : Edge(detect, s)
  BY <1>4, <1>2 DEF CommandCycle, Edge, HostSends
<1>5. "ACK" \in Types \ {"EVT"}
  BY TypesAre
<1> QED
  BY <1>1, <1>3, <1>4, <1>5

\* A request the encoder takes, and a byte it writes.
LEMMA RequestIsSound ==
  ASSUME ReqTypes
  PROVE  LET req == IF grant_evt THEN Request("EVT", evt) ELSE rsp
         IN  req.type \in Types /\ req.id \in Nat
<1>1. rsp.type \in Types /\ rsp.id \in Nat /\ evt \in Nat /\ "EVT" \in Types
  BY TypesAre DEF ReqTypes
<1> QED
  BY <1>1 DEF Request

LEMMA ByteOffset ==
  ASSUME NEW w \in Nat, NEW i \in Nat, NEW b \in Nat \ {0}
  PROVE  w * b + (i % b) \in Nat
<1>1. w * b \in Nat
  OBVIOUS
<1>2. i % b \in Nat
  OBVIOUS
<1> QED
  BY <1>1, <1>2

LEMMA ByteIsPlain ==
  ASSUME NEW src \in Sources, NEW i \in Nat, NEW id \in Nat
  PROVE  Byte(src, i, id) \in PlainBytes
BY DEF Byte, PlainBytes

LEMMA PayloadIsPlain ==
  ASSUME EncTypes, ReqTypes, CopyTypes
  PROVE  (IF grant_evt THEN EvtByte(pl_idx) ELSE RspByte(pl_idx)) \in PlainBytes
<1>1. pl_idx \in Nat /\ evt \in Nat /\ pl0 \in Nat /\ pl1 \in Nat
  BY DEF EncTypes, ReqTypes
<1>2. stats_rd.word * WORD_BYTES + (pl_idx % WORD_BYTES) \in Nat /\ stats_rd.id \in Nat
  BY <1>1, ByteOffset, SizeAssumption DEF CopyTypes
<1>3. {"event", "stat", "version", "pl0", "pl1"} \subseteq Sources
  BY DEF Sources
<1>4. EvtByte(pl_idx) \in PlainBytes
  BY <1>1, <1>3, ByteIsPlain DEF EvtByte
<1>5. Byte("stat", stats_rd.word * WORD_BYTES + (pl_idx % WORD_BYTES), stats_rd.id) \in PlainBytes
  BY <1>2, <1>3, ByteIsPlain
<1>6. /\ Byte("version", pl_idx, 0) \in PlainBytes
      /\ Byte("pl0", 0, pl0) \in PlainBytes /\ Byte("pl1", 0, pl1) \in PlainBytes
  BY <1>1, <1>3, ByteIsPlain
<1>7. RspByte(pl_idx) \in PlainBytes
  BY <1>5, <1>6, Zenon DEF RspByte
<1> QED
  BY <1>4, <1>7

\* What the encoder does, as the arbiter sees it.
LEMMA EncoderAnswers ==
  ASSUME Progress, NEW valid, NEW req, NEW data, NEW full, EncEdge(valid, req, data, full)
  PROVE  /\ enc = "IDLE" /\ valid => enc' = "HDR" /\ hdr_idx' = 0 /\ pl_cnt' = 0 /\ desc' = req /\ ~pkt_done'
         /\ enc = "IDLE" /\ ~valid => enc' = "IDLE" /\ desc' = desc /\ ~pkt_done'
         /\ enc # "IDLE" => desc' = desc /\ ~pkt_done /\ (enc' # "IDLE" \/ pkt_done')
<1>1. pkt_done => enc = "IDLE"
  BY DEF Progress
<1>2. enc = "IDLE" => Idle(valid, req)
  BY DEF EncEdge, Stall, Header, PayloadPush, Checksum, PayloadAddr, Settle
<1>3. enc # "IDLE" => desc' = desc /\ (enc' # "IDLE" \/ pkt_done')
  BY DEF EncEdge, Idle, Stall, Header, PayloadPush, Checksum, PayloadAddr, Settle
<1> QED
  BY <1>1, <1>2, <1>3 DEF Idle

LEMMA ArbKept ==
  ASSUME EncTypes, Progress, ReqTypes, ArbInv, NEW detect, NEW stop, Edge(detect, stop)
  PROVE  ArbInv'
<1>1. /\ arb = "REQ" => enc = "IDLE" /\ ~pkt_done
      /\ arb = "IDLE" => enc = "IDLE" /\ ~pkt_done
      /\ arb = "WAIT" => enc # "IDLE" \/ pkt_done
      /\ pkt_done => enc = "IDLE"
  BY DEF ArbInv, Active, Progress
<1>2. /\ enc = "IDLE" /\ arb = "REQ" =>
           enc' = "HDR" /\ desc' = (IF grant_evt THEN Request("EVT", evt) ELSE rsp) /\ ~pkt_done'
      /\ enc = "IDLE" /\ arb # "REQ" => enc' = "IDLE" /\ desc' = desc /\ ~pkt_done'
      /\ enc # "IDLE" => desc' = desc /\ ~pkt_done /\ (enc' # "IDLE" \/ pkt_done')
  BY EncoderAnswers, Zenon DEF Edge, Datapath
<1>3. /\ arb \in {"IDLE", "REQ", "WAIT"}
      /\ arb = "IDLE" => arb' \in {"IDLE", "REQ"}
      /\ arb = "REQ" => arb' = "WAIT" /\ grant_evt' = grant_evt
      /\ arb = "WAIT" => arb' = (IF pkt_done THEN "IDLE" ELSE "WAIT") /\ grant_evt' = grant_evt
  BY <1>1 DEF Edge, Datapath, ArbEdge, EncReady, ReqTypes
<1>4. n_evt' \in Nat /\ n_evt <= n_evt' /\ n_cmd' \in Nat /\ n_cmd <= n_cmd' /\ n_evt \in Nat /\ n_cmd \in Nat
  BY DEF Edge, Datapath, HostQuiet, HostSends, ReqTypes
<1>5. arb' = "WAIT" <=> enc' # "IDLE" \/ pkt_done'
  BY <1>1, <1>2, <1>3
<1>6. ASSUME arb' = "WAIT"
      PROVE  /\ desc'.type = "EVT" <=> grant_evt'
             /\ IF grant_evt' THEN desc'.id <= n_evt' ELSE desc'.id <= n_cmd'
  <2>1. CASE arb = "REQ"
    <3>1. desc' = (IF grant_evt THEN Request("EVT", evt) ELSE rsp) /\ grant_evt' = grant_evt
      BY <2>1, <1>1, <1>2, <1>3
    <3>2. rsp.type # "EVT" /\ rsp.id \in 0 .. n_cmd /\ evt \in 0 .. n_evt
      BY DEF ReqTypes
    <3>3. CASE grant_evt
      <4>1. desc'.type = "EVT" /\ desc'.id = evt
        BY <3>1, <3>3 DEF Request
      <4> QED
        BY <3>1, <3>2, <3>3, <4>1, <1>4
    <3>4. CASE ~grant_evt
      BY <3>1, <3>2, <3>4, <1>4
    <3> QED
      BY <3>3, <3>4
  <2>2. CASE arb = "WAIT"
    <3>1. desc' = desc /\ grant_evt' = grant_evt
      BY <2>2, <1>6, <1>1, <1>2, <1>3
    <3>2. (desc.type = "EVT" <=> grant_evt) /\ IF grant_evt THEN desc.id <= n_evt ELSE desc.id <= n_cmd
      BY <2>2 DEF ArbInv
    <3>3. desc.id \in Nat
      BY DEF EncTypes
    <3> QED
      BY <3>1, <3>2, <3>3, <1>4
  <2> QED
    BY <2>1, <2>2, <1>3, <1>6
<1> QED
  BY <1>5, <1>6 DEF ArbInv, Active

\* How the arbiter moves, and what it acknowledges.
LEMMA ArbMoves ==
  ASSUME EncTypes, Progress, ReqTypes, ArbInv, NEW detect, NEW stop, Edge(detect, stop)
  PROVE  /\ arb = "IDLE" /\ (evt_req \/ rsp_req) => arb' = "REQ" /\ grant_evt' = evt_req
         /\ arb = "IDLE" /\ ~evt_req /\ ~rsp_req => arb' = "IDLE" /\ grant_evt' = grant_evt
         /\ arb = "REQ" => arb' = "WAIT" /\ grant_evt' = grant_evt /\ ~pkt_done
                           /\ desc' = (IF grant_evt THEN Request("EVT", evt) ELSE rsp)
                           /\ enc' = "HDR" /\ hdr_idx' = 0 /\ pl_cnt' = 0
         /\ arb = "WAIT" => grant_evt' = grant_evt
         /\ arb = "WAIT" /\ pkt_done => arb' = "IDLE"
         /\ arb = "WAIT" /\ ~pkt_done => arb' = "WAIT" /\ desc' = desc
         /\ pkt_done => arb = "WAIT" /\ enc = "IDLE"
         /\ RspAck <=> arb = "REQ" /\ ~grant_evt
         /\ EvtAck <=> arb = "REQ" /\ grant_evt
<1>1. /\ arb = "REQ" => enc = "IDLE" /\ ~pkt_done
      /\ arb = "WAIT" /\ ~pkt_done => enc # "IDLE"
      /\ pkt_done => enc = "IDLE" /\ arb = "WAIT"
  BY DEF ArbInv, Active, Progress
<1>2. /\ enc = "IDLE" /\ arb = "REQ" => enc' = "HDR" /\ hdr_idx' = 0 /\ pl_cnt' = 0 /\
                                        desc' = (IF grant_evt THEN Request("EVT", evt) ELSE rsp)
      /\ enc # "IDLE" => desc' = desc
  BY EncoderAnswers, Zenon DEF Edge, Datapath
<1>3. ArbEdge
  BY DEF Edge, Datapath
<1>4. (RspAck <=> arb = "REQ" /\ ~grant_evt) /\ (EvtAck <=> arb = "REQ" /\ grant_evt)
  BY <1>1 DEF RspAck, EvtAck, Accept, EncReady
<1> QED
  BY <1>1, <1>2, <1>3, <1>4 DEF ArbEdge, EncReady

\* The serial number of a packet that has been sent.
LEMMA SentIsOld ==
  ASSUME EncTypes, Progress, ReqTypes, ArbInv, Record
  PROVE  /\ last_rsp' = last_rsp \/ (ResponseDone /\ ~grant_evt /\ arb = "WAIT" /\ last_rsp' = desc.id /\ desc.id \in 0 .. n_cmd)
         /\ last_evt' = last_evt \/ (EventDone /\ grant_evt /\ arb = "WAIT" /\ last_evt' = desc.id /\ desc.id \in 0 .. n_evt)
         /\ pkt_done /\ ~grant_evt => ResponseDone
<1>1. pkt_done => arb = "WAIT" /\ (desc.type = "EVT" <=> grant_evt) /\ IF grant_evt THEN desc.id <= n_evt ELSE desc.id <= n_cmd
  BY DEF ArbInv, Active
<1>2. desc.id \in Nat /\ n_cmd \in Nat /\ n_evt \in Nat
  BY DEF EncTypes, ReqTypes
<1>3. last_rsp' = last_rsp \/ (ResponseDone /\ last_rsp' = desc.id)
  BY DEF Record, ResponseDone
<1>4. last_evt' = last_evt \/ (EventDone /\ last_evt' = desc.id)
  BY DEF Record, EventDone
<1> QED
  BY <1>1, <1>2, <1>3, <1>4 DEF ResponseDone, EventDone

LEMMA ReqKept ==
  ASSUME EncTypes, Progress, ReqTypes, ArbInv, NEW detect, NEW stop, Edge(detect, stop)
  PROVE  ReqTypes'
<1>1. n_cmd \in Nat /\ n_evt \in Nat
  BY DEF ReqTypes
<1>2. /\ n_cmd' \in Nat /\ n_cmd <= n_cmd'
      /\ n_evt' \in Nat /\ n_evt <= n_evt' /\ detect \in 0 .. n_evt'
  BY <1>1 DEF Edge, Datapath, HostQuiet, HostSends
<1>3. arb' \in {"IDLE", "REQ", "WAIT"} /\ grant_evt' \in BOOLEAN
  BY ArbMoves DEF ReqTypes
<1>4. /\ rsp_req' \in BOOLEAN /\ rsp'.type \in Types \ {"EVT"} /\ rsp'.id \in 0 .. n_cmd'
      /\ pl0' = rsp'.id /\ pl1' \in 0 .. n_cmd' /\ (rsp'.type = "ERROR" => pl1' = rsp'.id)
  <2>1. CASE HostQuiet
    <3>1. /\ rsp_req' = (rsp_req /\ ~RspAck) /\ rsp' = rsp /\ pl0' = pl0 /\ pl1' = pl1
          /\ n_cmd' = n_cmd
      BY <2>1 DEF HostQuiet, NoCommandEdge
    <3> QED
      BY <3>1 DEF ReqTypes
  <2>2. ASSUME NEW type \in Types \ {"EVT"}, HostSends(type)
        PROVE  /\ rsp_req' \in BOOLEAN /\ rsp'.type \in Types \ {"EVT"} /\ rsp'.id \in 0 .. n_cmd'
               /\ pl0' = rsp'.id /\ pl1' \in 0 .. n_cmd' /\ (rsp'.type = "ERROR" => pl1' = rsp'.id)
    <3>1. /\ rsp_req' = TRUE /\ rsp'.type = type /\ rsp'.id = n_cmd + 1 /\ pl0' = n_cmd + 1
          /\ pl1' = IF type = "ERROR" THEN n_cmd + 1 ELSE pl1
          /\ n_cmd' = n_cmd + 1
      BY <2>2 DEF HostSends, CommandEdge, Request
    <3>2. pl1 \in 0 .. n_cmd
      BY DEF ReqTypes
    <3> QED
      BY <3>1, <3>2, <1>1
  <2> QED
    BY <2>1, <2>2 DEF Edge
<1>5. evt_req' \in BOOLEAN /\ evt' \in 0 .. n_evt'
  <2>1. EvtEdge(EngineReset, detect, EvtAck)
    BY DEF Edge, Datapath
  <2>2. evt \in 0 .. n_evt
    BY DEF ReqTypes
  <2>3. evt' = 0 \/ evt' = detect \/ evt' = evt
    BY <2>1 DEF EvtEdge
  <2>4. evt_req' \in BOOLEAN
    BY <2>1 DEF EvtEdge
  <2> QED
    BY <2>2, <2>3, <2>4, <1>1, <1>2
<1>6. last_rsp' \in 0 .. n_cmd' /\ last_evt' \in 0 .. n_evt'
  <2>1. last_rsp' \in 0 .. n_cmd /\ last_evt' \in 0 .. n_evt
    BY SentIsOld DEF Edge, ReqTypes
  <2> QED
    BY <2>1, <1>1, <1>2
<1> QED
  BY <1>2, <1>3, <1>4, <1>5, <1>6 DEF ReqTypes

LEMMA CommandKept ==
  ASSUME EncTypes, Progress, ReqTypes, ArbInv, OneCommand, NEW detect, NEW stop, Edge(detect, stop)
  PROVE  OneCommand'
<1> SUFFICES ASSUME ~piped'
             PROVE  /\ rsp_req' \/ (arb' # "IDLE" /\ ~grant_evt') => open'
                    /\ open' => rsp'.id = n_cmd' /\ last_rsp' < n_cmd'
                    /\ arb' = "WAIT" /\ ~grant_evt' => desc' = rsp' /\ ~rsp_req'
                    /\ arb' = "REQ" /\ ~grant_evt' => rsp_req'
  BY DEF OneCommand, Responding
<1>1. ~piped
  BY DEF Edge, HostQuiet, HostSends
<1>2. /\ rsp_req \/ (arb # "IDLE" /\ ~grant_evt) => open
      /\ open => rsp.id = n_cmd /\ last_rsp < n_cmd
      /\ arb = "WAIT" /\ ~grant_evt => desc = rsp /\ ~rsp_req
      /\ arb = "REQ" /\ ~grant_evt => rsp_req
  BY <1>1 DEF OneCommand, Responding
<1>3. n_cmd \in Nat /\ last_rsp \in 0 .. n_cmd /\ rsp.id \in 0 .. n_cmd /\ arb \in {"IDLE", "REQ", "WAIT"}
  BY DEF ReqTypes
<1>4. CASE HostQuiet
  <2>1. /\ rsp_req' <=> rsp_req /\ ~(arb = "REQ" /\ ~grant_evt)
        /\ rsp' = rsp /\ n_cmd' = n_cmd
        /\ open' <=> open /\ ~(ResponseDone /\ desc.id = n_cmd)
    BY <1>4, ArbMoves DEF HostQuiet, NoCommandEdge, ResponseDone
  <2>2. ResponseDone => arb = "WAIT" /\ ~grant_evt /\ arb' = "IDLE" /\ desc.id = rsp.id
    <3>1. ResponseDone => arb = "WAIT" /\ arb' = "IDLE"
      BY ArbMoves DEF ResponseDone
    <3>2. ResponseDone => ~grant_evt
      BY <3>1 DEF ArbInv, ResponseDone
    <3> QED
      BY <3>1, <3>2, <1>2
  <2>3. last_rsp' = last_rsp \/ (ResponseDone /\ last_rsp' = desc.id)
    BY SentIsOld DEF Edge
  <2>4. open' => rsp'.id = n_cmd' /\ last_rsp' < n_cmd'
    BY <2>1, <2>2, <2>3, <1>2
  <2>5. /\ arb' = "WAIT" /\ ~grant_evt' => ~grant_evt /\ (arb = "REQ" \/ (arb = "WAIT" /\ desc' = desc))
        /\ arb = "REQ" /\ ~grant_evt => desc' = rsp
        /\ arb' = "REQ" /\ ~grant_evt' => arb = "IDLE" /\ rsp_req
        /\ arb' # "IDLE" /\ ~grant_evt' => rsp_req \/ (arb # "IDLE" /\ ~grant_evt)
    BY ArbMoves, <1>3
  <2>6. rsp_req' \/ (arb' # "IDLE" /\ ~grant_evt') => open'
    BY <2>1, <2>2, <2>5, <1>2
  <2>7. arb' = "WAIT" /\ ~grant_evt' => desc' = rsp' /\ ~rsp_req'
    BY <2>1, <2>5, <1>2
  <2>8. arb' = "REQ" /\ ~grant_evt' => rsp_req'
    BY <2>1, <2>5
  <2> QED
    BY <2>4, <2>6, <2>7, <2>8
<1>5. ASSUME NEW type \in Types \ {"EVT"}, HostSends(type)
      PROVE  /\ open' /\ rsp_req' /\ rsp'.id = n_cmd' /\ last_rsp' < n_cmd'
             /\ ~(arb' = "WAIT" /\ ~grant_evt')
  <2>1. open' /\ rsp_req' /\ rsp'.id = n_cmd + 1 /\ n_cmd' = n_cmd + 1 /\ ~open
    BY <1>5 DEF HostSends, CommandEdge, Request
  <2>2. last_rsp' \in 0 .. n_cmd
    BY SentIsOld, <1>3 DEF Edge
  <2>3. ~(arb' = "WAIT" /\ ~grant_evt')
    BY <2>1, <1>2, <1>3, ArbMoves
  <2> QED
    BY <2>1, <2>2, <2>3, <1>3
<1> QED
  BY <1>4, <1>5, Zenon DEF Edge

LEMMA EventKept ==
  ASSUME EncTypes, Progress, ReqTypes, ArbInv, OneEvent, NEW detect, NEW stop, Edge(detect, stop)
  PROVE  OneEvent'
<1>1. n_evt \in Nat /\ evt \in 0 .. n_evt /\ last_evt \in 0 .. n_evt /\ desc.id \in Nat
  BY DEF ReqTypes, EncTypes
<1>2. EvtEdge(EngineReset, detect, EvtAck) /\ (detect = 0 \/ detect = n_evt + 1)
  BY DEF Edge, Datapath
<1>3. last_evt' = last_evt \/ (arb = "WAIT" /\ grant_evt /\ pkt_done /\ last_evt' = desc.id /\ desc.id \in 0 .. n_evt)
  BY SentIsOld DEF Edge, EventDone
<1>4. arb = "WAIT" /\ grant_evt =>
        /\ evt_req => evt > desc.id
        /\ ~spoiled => desc.id > last_evt
        /\ ~spoiled /\ ~overlapped => evt = desc.id
        /\ desc.id <= n_evt
  BY DEF OneEvent, ArbInv
<1>5. /\ evt_req' => (evt' = evt /\ evt_req) \/ (evt' = n_evt + 1 /\ ~evt_req)
      /\ evt_req' => ~EvtAck
  BY <1>2, <1>1 DEF EvtEdge
<1>6. evt_req' => evt' > last_evt'
  BY <1>1, <1>3, <1>4, <1>5 DEF OneEvent
<1>7. ~spoiled' /\ arb' # "IDLE" => ~spoiled /\ ~EngineReset
  BY DEF Edge, Record
<1>8. ASSUME arb' = "REQ", grant_evt', ~spoiled' PROVE evt_req'
  <2>1. arb = "IDLE" /\ evt_req /\ ~EvtAck
    BY <1>8, ArbMoves DEF ReqTypes
  <2> QED
    BY <2>1, <1>7, <1>8, <1>2 DEF EvtEdge
<1>9. ASSUME arb' = "WAIT", grant_evt'
      PROVE  /\ evt_req' => evt' > desc'.id
             /\ ~spoiled' => desc'.id > last_evt'
             /\ ~spoiled' /\ ~overlapped' => evt' = desc'.id
  <2>1. CASE arb = "REQ"
    <3>1. grant_evt /\ EvtAck /\ desc' = Request("EVT", evt) /\ last_evt' = last_evt
      BY <2>1, <1>9, <1>3, ArbMoves
    <3>2. ~evt_req' /\ desc'.id = evt
      BY <3>1, <1>5 DEF Request
    <3>3. ASSUME ~spoiled' PROVE evt_req /\ evt > last_evt /\ evt' = evt
      <4>1. evt_req /\ ~EngineReset
        BY <3>1, <3>3, <2>1, <1>7, <1>9 DEF OneEvent
      <4> QED
        BY <4>1, <1>2 DEF OneEvent, EvtEdge
    <3> QED
      BY <3>1, <3>2, <3>3
  <2>2. CASE arb = "WAIT"
    <3>1. grant_evt /\ ~pkt_done /\ desc' = desc /\ last_evt' = last_evt
      BY <2>2, <1>9, <1>3, ArbMoves
    <3>2. evt_req' => evt' > desc.id
      BY <3>1, <2>2, <1>1, <1>4, <1>5
    <3>3. ASSUME ~spoiled', ~overlapped' PROVE evt' = evt /\ ~spoiled /\ ~overlapped
      <4>1. ~spoiled /\ ~EngineReset
        BY <3>3, <1>7, <1>9
      <4>2. EventPending
        BY <3>1, <2>2 DEF EventPending
      <4>3. ~overlapped /\ detect = 0
        BY <4>2, <3>3 DEF Edge, Datapath
      <4> QED
        BY <4>1, <4>3, <1>2 DEF EvtEdge
    <3>4. ~spoiled' => ~spoiled
      BY <1>7, <1>9
    <3> QED
      BY <3>1, <3>2, <3>3, <3>4, <2>2, <1>4
  <2>3. arb \in {"IDLE", "REQ", "WAIT"} /\ (arb = "IDLE" => arb' # "WAIT")
    BY ArbMoves DEF ReqTypes
  <2> QED
    BY <2>1, <2>2, <2>3, <1>9
<1> QED
  BY <1>6, <1>8, <1>9 DEF OneEvent

-----------------------------------------------------------------------------
(* The snapshot is ready when it is sent. *)

LEMMA WordInRange == ASSUME NEW i \in Nat PROVE WordOf(i) \in 0 .. STATS_NUM - 1
<1>1. ASSUME NEW q \in Nat, NEW s \in Nat \ {0} PROVE q % s \in 0 .. s - 1
  OBVIOUS
<1>2. ASSUME NEW b \in Nat \ {0} PROVE i \div b \in Nat
  OBVIOUS
<1>3. WORD_BYTES \in Nat \ {0} /\ STATS_NUM \in Nat \ {0}
  BY SizeAssumption
<1>4. i \div WORD_BYTES \in Nat
  BY <1>2, <1>3
<1> QED
  BY <1>1, <1>3, <1>4 DEF WordOf

\* The payload of a statistics packet ends with the last word.
LEMMA WordWraps ==
  ASSUME NEW i \in Nat, i < PayloadLen["STATS"]
  PROVE  WordOf(i) = i \div WORD_BYTES
<1>1. ASSUME NEW s \in Nat \ {0}, NEW b \in Nat \ {0}, i < s * b PROVE i \div b \in 0 .. s - 1
  <2>1. PICK q \in Nat : q = i \div b /\ q * b <= i
    OBVIOUS
  <2>2. ASSUME NEW d \in Nat PROVE s * b <= (s + d) * b
    <3>1. (s + d) * b = s * b + d * b /\ d * b \in Nat /\ s * b \in Nat
      OBVIOUS
    <3> QED
      BY <3>1
  <2>3. q < s
    <3>1. SUFFICES ASSUME s <= q PROVE FALSE
      BY <2>1
    <3>2. q - s \in Nat /\ s + (q - s) = q
      BY <2>1, <3>1
    <3>3. s * b <= q * b
      BY <2>2, <3>2, Zenon
    <3>4. q * b \in Nat /\ s * b \in Nat
      BY <2>1
    <3> QED
      BY <3>3, <3>4, <2>1, <1>1
  <2> QED
    BY <2>1, <2>3
<1>2. ASSUME NEW s \in Nat \ {0}, NEW q \in 0 .. s - 1 PROVE q % s = q
  OBVIOUS
<1>3. WORD_BYTES \in Nat \ {0} /\ STATS_NUM \in Nat \ {0}
  BY SizeAssumption
<1>4. PayloadLen["STATS"] = STATS_NUM * WORD_BYTES
  BY DEF PayloadLen
<1>5. i \div WORD_BYTES \in 0 .. STATS_NUM - 1
  BY <1>1, <1>3, <1>4
<1> QED
  BY <1>2, <1>3, <1>5 DEF WordOf

\* A byte of a word, and its place in the payload.
LEMMA BytePlace ==
  ASSUME NEW i \in Nat
  PROVE  (i \div WORD_BYTES) * WORD_BYTES + (i % WORD_BYTES) = i
<1>1. ASSUME NEW b \in Nat \ {0} PROVE (i \div b) * b + (i % b) = i
  OBVIOUS
<1> QED
  BY <1>1, SizeAssumption

LEMMA CopyTypesKept ==
  ASSUME EncTypes, ReqTypes, CopyTypes, NEW detect, NEW stop, Edge(detect, stop)
  PROVE  CopyTypes'
<1>1. STATS_NUM \in Nat \ {0} /\ n_cmd \in Nat /\ rsp.id \in 0 .. n_cmd
  BY SizeAssumption DEF ReqTypes
<1>2. n_cmd' \in Nat /\ n_cmd <= n_cmd' /\ 0 .. n_cmd \subseteq 0 .. n_cmd'
  BY <1>1 DEF Edge, HostQuiet, HostSends
<1>3. CopyEdge
  BY DEF Edge, Datapath, SnapEdge
<1>4. snapshot' \in BOOLEAN /\ copy_busy' \in BOOLEAN
  BY <1>3 DEF Edge, HostQuiet, HostSends, CommandEdge, NoCommandEdge, CopyEdge, CopyTypes
<1>5. copy_idx' \in 0 .. STATS_NUM - 1
  <2>1. ASSUME NEW s \in Nat \ {0}, NEW i \in 0 .. s - 1 PROVE (i + 1) % s \in 0 .. s - 1
    OBVIOUS
  <2>2. copy_idx' = 0 \/ copy_idx' = (copy_idx + 1) % STATS_NUM \/ copy_idx' = copy_idx
    BY <1>3 DEF CopyEdge
  <2>3. copy_idx \in 0 .. STATS_NUM - 1
    BY DEF CopyTypes
  <2>4. (copy_idx + 1) % STATS_NUM \in 0 .. STATS_NUM - 1
    BY <2>1, <2>3, <1>1
  <2> QED
    BY <2>2, <2>3, <2>4, <1>1
<1>6. copy_id' \in 0 .. n_cmd'
  <2>1. copy_id' = rsp.id \/ copy_id' = copy_id
    BY <1>3 DEF CopyEdge
  <2> QED
    BY <2>1, <1>1, <1>2 DEF CopyTypes
<1>7. snap_ram' \in [0 .. STATS_NUM - 1 -> 0 .. n_cmd']
  <2> DEFINE I == 0 .. STATS_NUM - 1
             R == 0 .. n_cmd
             Q == 0 .. n_cmd'
  <2>1. snap_ram \in [I -> R] /\ copy_idx \in I /\ copy_id \in R /\ R \subseteq Q
    BY <1>2 DEF CopyTypes
  <2>2. snap_ram' = IF copy_busy THEN [snap_ram EXCEPT ![copy_idx] = copy_id] ELSE snap_ram
    BY DEF Edge, Datapath, SnapEdge
  <2> HIDE DEF I, R, Q
  <2>3. snap_ram' \in [I -> Q]
    BY <2>1, <2>2
  <2> QED
    BY <2>3 DEF I, Q
<1>8. stats_rd'.word \in Nat /\ stats_rd'.id \in Nat
  <2>1. pl_idx \in Nat
    BY DEF EncTypes
  <2>2. WordOf(pl_idx) \in 0 .. STATS_NUM - 1
    BY <2>1, WordInRange
  <2>3. snap_ram[WordOf(pl_idx)] \in Nat /\ WordOf(pl_idx) \in Nat
    BY <2>2, <1>1 DEF CopyTypes
  <2>4. stats_rd' = Word(WordOf(pl_idx), snap_ram[WordOf(pl_idx)])
    BY DEF Edge, Datapath, SnapEdge
  <2> QED
    BY <2>3, <2>4 DEF Word
<1> QED
  BY <1>4, <1>5, <1>6, <1>7, <1>8 DEF CopyTypes

\* What the copy adds to the snapshot.
LEMMA CopyMoves ==
  ASSUME CopyTypes, CopyEdge, NEW pl, SnapEdge(pl)
  PROVE  /\ copy_busy /\ ~snapshot /\ copy_idx # STATS_NUM - 1 => copy_busy' /\ copy_idx' = copy_idx + 1
         /\ copy_busy /\ ~snapshot /\ copy_idx = STATS_NUM - 1 => ~copy_busy'
         /\ \A w \in 0 .. STATS_NUM - 1 :
              snap_ram'[w] = IF copy_busy /\ w = copy_idx THEN copy_id ELSE snap_ram[w]
<1>1. STATS_NUM \in Nat \ {0} /\ copy_idx \in 0 .. STATS_NUM - 1
  BY SizeAssumption DEF CopyTypes
<1>2. ASSUME NEW s \in Nat \ {0}, NEW i \in 0 .. s - 1, i # s - 1 PROVE (i + 1) % s = i + 1
  <2>1. ASSUME NEW j \in 0 .. s - 1 PROVE j % s = j
    OBVIOUS
  <2>2. i + 1 \in 0 .. s - 1
    BY <1>2
  <2> QED
    BY <2>1, <2>2
<1>3. copy_idx # STATS_NUM - 1 => (copy_idx + 1) % STATS_NUM = copy_idx + 1
  BY <1>1, <1>2
<1>4. ASSUME NEW w \in 0 .. STATS_NUM - 1
      PROVE  snap_ram'[w] = IF copy_busy /\ w = copy_idx THEN copy_id ELSE snap_ram[w]
  <2>1. snap_ram' = IF copy_busy THEN [snap_ram EXCEPT ![copy_idx] = copy_id] ELSE snap_ram
    BY DEF SnapEdge
  <2> DEFINE I == 0 .. STATS_NUM - 1
             R == 0 .. n_cmd
  <2>2. snap_ram \in [I -> R] /\ w \in I
    BY DEF CopyTypes
  <2> HIDE DEF I, R
  <2> QED
    BY <2>1, <2>2
<1> QED
  BY <1>3, <1>4 DEF CopyEdge

LEMMA CopyKept ==
  ASSUME EncTypes, Progress, ReqTypes, ArbInv, OneCommand, CopyTypes, CopyInv, NEW detect, NEW stop, Edge(detect, stop)
  PROVE  CopyInv'
<1> SUFFICES ASSUME ~piped' PROVE CopyInv'
  BY DEF CopyInv
<1>1. ~piped
  BY DEF Edge, HostQuiet, HostSends
<1> DEFINE All(r, k) == \A w \in 0 .. STATS_NUM - 1 : w < k => r[w] = rsp.id
           Own == arb = "WAIT" /\ ~grant_evt
<1>2. /\ snapshot => rsp_req /\ ~Responding /\ ~copy_busy /\ rsp.type = "STATS"
      /\ copy_busy => (rsp_req \/ Responding) /\ rsp.type = "STATS" /\ copy_id = rsp.id
      /\ copy_busy => All(snap_ram, copy_idx)
      /\ ~copy_busy /\ ~snapshot /\ rsp.type = "STATS" => \A w \in 0 .. STATS_NUM - 1 : snap_ram[w] = rsp.id
      /\ copy_busy /\ Own =>
           /\ enc = "HDR" => copy_idx > hdr_idx
           /\ enc = "PL_ADDR" => copy_idx > HDR_BYTES
           /\ enc = "PL_WAIT" => copy_idx > HDR_BYTES + 1
           /\ enc \in {"HDR", "PL_ADDR", "PL_WAIT"} /\ pl_cnt = 0
      /\ enc = "PL_PUSH" /\ desc.type = "STATS" => stats_rd = Word(pl_cnt \div WORD_BYTES, rsp.id)
  BY <1>1, Zenon DEF CopyInv
<1>3. /\ rsp_req \/ Responding => open
      /\ Own => desc = rsp /\ ~rsp_req /\ open /\ Responding
  BY <1>1 DEF OneCommand, Responding
<1>4. CopyEdge /\ SnapEdge(pl_idx) /\ snap_ram \in [0 .. STATS_NUM - 1 -> 0 .. n_cmd] /\ arb \in {"IDLE", "REQ", "WAIT"}
  BY DEF Edge, Datapath, SnapEdge, CopyTypes, ReqTypes
<1>5. /\ copy_busy /\ ~snapshot /\ copy_idx # STATS_NUM - 1 => copy_busy' /\ copy_idx' = copy_idx + 1
      /\ copy_busy /\ ~snapshot /\ copy_idx = STATS_NUM - 1 => ~copy_busy'
      /\ \A w \in 0 .. STATS_NUM - 1 :
           snap_ram'[w] = IF copy_busy /\ w = copy_idx THEN copy_id ELSE snap_ram[w]
      /\ snapshot => copy_busy' /\ copy_idx' = 0 /\ copy_id' = rsp.id
      /\ ~snapshot => copy_id' = copy_id
      /\ ~snapshot /\ ~copy_busy => ~copy_busy'
  <2>1. /\ copy_busy /\ ~snapshot /\ copy_idx # STATS_NUM - 1 => copy_busy' /\ copy_idx' = copy_idx + 1
        /\ copy_busy /\ ~snapshot /\ copy_idx = STATS_NUM - 1 => ~copy_busy'
        /\ \A w \in 0 .. STATS_NUM - 1 :
             snap_ram'[w] = IF copy_busy /\ w = copy_idx THEN copy_id ELSE snap_ram[w]
    BY <1>4, CopyMoves, Zenon
  <2>2. /\ snapshot => copy_busy' /\ copy_idx' = 0 /\ copy_id' = rsp.id
        /\ ~snapshot => copy_id' = copy_id
        /\ ~snapshot /\ ~copy_busy => ~copy_busy'
    BY <1>4 DEF CopyEdge
  <2> QED
    BY <2>1, <2>2, Zenon
<1>6. HostQuiet => /\ rsp_req' <=> rsp_req /\ ~(arb = "REQ" /\ ~grant_evt)
                   /\ ~snapshot' /\ rsp' = rsp
  BY ArbMoves DEF HostQuiet, NoCommandEdge
<1>7. ASSUME ~HostQuiet
      PROVE  ~open /\ ~rsp_req /\ ~Responding /\ ~snapshot /\ ~copy_busy /\ rsp_req' /\ (snapshot' <=> rsp'.type = "STATS")
  <2>1. PICK type : HostSends(type)
    BY <1>7 DEF Edge
  <2>2. ~open /\ rsp_req' /\ (snapshot' <=> rsp'.type = "STATS")
    BY <2>1 DEF HostSends, CommandEdge
  <2> QED
    BY <2>2, <1>2, <1>3
<1>8. /\ Responding' => Responding \/ (arb = "IDLE" /\ rsp_req)
      /\ arb = "REQ" /\ ~grant_evt => Responding'
      /\ Own /\ ~pkt_done => Responding'
      /\ arb' = "WAIT" /\ ~grant_evt' => (arb = "REQ" /\ ~grant_evt) \/ (Own /\ ~pkt_done)
      /\ pkt_done => enc = "IDLE"
  BY <1>4, ArbMoves DEF Responding
<1>9. snapshot' => rsp_req' /\ ~Responding' /\ ~copy_busy' /\ rsp'.type = "STATS"
  BY <1>5, <1>6, <1>7, <1>8
<1>10. copy_busy' => HostQuiet /\ (snapshot \/ (copy_busy /\ copy_idx # STATS_NUM - 1))
  BY <1>5, <1>7
<1>11. copy_busy' => (rsp_req' \/ Responding') /\ rsp'.type = "STATS" /\ copy_id' = rsp'.id
  <2> SUFFICES ASSUME copy_busy' PROVE (rsp_req' \/ Responding') /\ rsp'.type = "STATS" /\ copy_id' = rsp'.id
    OBVIOUS
  <2>1. HostQuiet /\ rsp' = rsp /\ rsp.type = "STATS" /\ copy_id' = rsp.id
    BY <1>2, <1>5, <1>6, <1>10
  <2>2. CASE rsp_req
    BY <2>1, <2>2, <1>6, <1>8
  <2>3. CASE Responding /\ copy_busy
    <3>1. (arb = "REQ" /\ ~grant_evt) \/ Own
      BY <2>3, <1>4 DEF Responding
    <3>2. Own => ~pkt_done
      BY <2>3, <1>2, <1>8
    <3> QED
      BY <2>1, <3>1, <3>2, <1>8
  <2> QED
    BY <2>1, <2>2, <2>3, <1>2, <1>10
<1>12. copy_busy' => \A w \in 0 .. STATS_NUM - 1 : w < copy_idx' => snap_ram'[w] = rsp'.id
  <2> SUFFICES ASSUME copy_busy', NEW w \in 0 .. STATS_NUM - 1, w < copy_idx' PROVE snap_ram'[w] = rsp'.id
    OBVIOUS
  <2>1. rsp' = rsp /\ STATS_NUM \in Nat \ {0} /\ copy_idx \in 0 .. STATS_NUM - 1
    BY <1>6, <1>10, SizeAssumption DEF CopyTypes
  <2>2. copy_busy /\ ~snapshot /\ copy_idx' = copy_idx + 1
    BY <1>2, <1>5, <1>10, <2>1
  <2>3. w = copy_idx \/ w < copy_idx
    BY <2>1, <2>2
  <2>4. copy_id = rsp.id /\ (w < copy_idx => snap_ram[w] = rsp.id)
    BY <2>2, <1>2
  <2>5. snap_ram'[w] = IF w = copy_idx THEN copy_id ELSE snap_ram[w]
    BY <2>2, <1>5
  <2> QED
    BY <2>1, <2>3, <2>4, <2>5
<1>13. ~copy_busy' /\ ~snapshot' /\ rsp'.type = "STATS" => \A w \in 0 .. STATS_NUM - 1 : snap_ram'[w] = rsp'.id
  <2> SUFFICES ASSUME ~copy_busy', ~snapshot', rsp'.type = "STATS", NEW w \in 0 .. STATS_NUM - 1
               PROVE  snap_ram'[w] = rsp'.id
    OBVIOUS
  <2>1. rsp' = rsp /\ ~snapshot
    BY <1>5, <1>6, <1>7
  <2>2. snap_ram'[w] = IF copy_busy /\ w = copy_idx THEN copy_id ELSE snap_ram[w]
    BY <1>5
  <2>3. CASE copy_busy
    <3>1. copy_idx = STATS_NUM - 1 /\ copy_id = rsp.id
      BY <2>1, <2>3, <1>2, <1>5
    <3>2. w = copy_idx \/ w < copy_idx
      BY <3>1, SizeAssumption
    <3> QED
      BY <2>1, <2>2, <2>3, <3>1, <3>2, <1>2
  <2>4. CASE ~copy_busy
    BY <2>1, <2>2, <2>4, <1>2
  <2> QED
    BY <2>3, <2>4
<1>14. EncEdge(arb = "REQ", IF grant_evt THEN Request("EVT", evt) ELSE rsp,
               IF grant_evt THEN EvtByte(pl_idx) ELSE RspByte(pl_idx), AlmostFull)
  BY DEF Edge, Datapath
<1>15. copy_busy' /\ arb' = "WAIT" /\ ~grant_evt' =>
         /\ enc' = "HDR" => copy_idx' > hdr_idx'
         /\ enc' = "PL_ADDR" => copy_idx' > HDR_BYTES
         /\ enc' = "PL_WAIT" => copy_idx' > HDR_BYTES + 1
         /\ enc' \in {"HDR", "PL_ADDR", "PL_WAIT"} /\ pl_cnt' = 0
  <2> SUFFICES ASSUME copy_busy', arb' = "WAIT", ~grant_evt'
               PROVE  /\ enc' = "HDR" => copy_idx' > hdr_idx'
                      /\ enc' = "PL_ADDR" => copy_idx' > HDR_BYTES
                      /\ enc' = "PL_WAIT" => copy_idx' > HDR_BYTES + 1
                      /\ enc' \in {"HDR", "PL_ADDR", "PL_WAIT"} /\ pl_cnt' = 0
    OBVIOUS
  <2>1. Responding
    BY <1>8 DEF Responding
  <2>2. copy_busy /\ ~snapshot /\ copy_idx # STATS_NUM - 1 /\ copy_idx' = copy_idx + 1
    BY <2>1, <1>2, <1>5, <1>10
  <2>3. /\ copy_idx \in Nat /\ hdr_idx \in 0 .. HDR_BYTES - 1 /\ HDR_BYTES \in Nat
        /\ copy_idx < STATS_NUM - 1 /\ STATS_NUM \in Nat \ {0} /\ STATS_NUM <= HDR_BYTES + 3
    BY <2>2, SizeAssumption, SnapshotAssumption DEF CopyTypes, EncTypes
  <2>4. CASE arb = "REQ"
    <3>1. enc' = "HDR" /\ hdr_idx' = 0 /\ pl_cnt' = 0
      BY <2>4, ArbMoves
    <3> QED
      BY <3>1, <2>2, <2>3
  <2>5. CASE Own /\ enc = "HDR"
    <3>1. Stall \/ Header
      BY <2>5, <1>14 DEF EncEdge, Idle, PayloadAddr, Settle, PayloadPush, Checksum
    <3>2. copy_idx > hdr_idx /\ pl_cnt = 0 /\ pl_cnt' = pl_cnt
      BY <2>2, <2>5, <3>1, <1>2 DEF Stall, Header
    <3>3. CASE enc' = "HDR" /\ (hdr_idx' = hdr_idx \/ hdr_idx' = hdr_idx + 1)
      BY <3>2, <3>3, <2>2, <2>3
    <3>4. CASE enc' = "PL_ADDR" /\ hdr_idx = HDR_BYTES - 1
      BY <3>2, <3>4, <2>2, <2>3
    <3>5. PayloadLen[desc.type] # 0
      BY LoadPositive DEF EncTypes
    <3> QED
      BY <3>1, <3>3, <3>4, <3>5, <2>5 DEF Stall, Header
  <2>6. CASE Own /\ enc = "PL_ADDR"
    <3>1. enc' = "PL_WAIT" /\ pl_cnt' = pl_cnt
      BY <2>6, <1>14 DEF EncEdge, Idle, Stall, Header, PayloadAddr, Settle, PayloadPush, Checksum
    <3>2. copy_idx > HDR_BYTES /\ pl_cnt = 0
      BY <2>2, <2>6, <1>2
    <3>3. copy_idx' > HDR_BYTES + 1
      BY <3>2, <2>2, <2>3
    <3> QED
      BY <3>1, <3>2, <3>3
  <2>7. CASE Own /\ enc = "PL_WAIT"
    <3>1. copy_idx > HDR_BYTES + 1
      BY <2>2, <2>7, <1>2
    <3> QED
      BY <3>1, <2>3
  <2>8. Own => enc \in {"HDR", "PL_ADDR", "PL_WAIT"}
    BY <2>2, <1>2
  <2> QED
    BY <2>4, <2>5, <2>6, <2>7, <2>8, <1>8
<1>16. enc' = "PL_PUSH" /\ desc'.type = "STATS" => stats_rd' = Word(pl_cnt' \div WORD_BYTES, rsp'.id)
  <2> SUFFICES ASSUME enc' = "PL_PUSH", desc'.type = "STATS"
               PROVE  stats_rd' = Word(pl_cnt' \div WORD_BYTES, rsp'.id)
    OBVIOUS
  <2>1. enc \in {"PL_WAIT", "PL_PUSH"} /\ pl_cnt' = pl_cnt /\ desc' = desc
    BY <1>14 DEF EncEdge, Idle, Stall, Header, PayloadAddr, Settle, PayloadPush, Checksum
  <2>2. Own /\ pl_idx = pl_cnt
    BY <2>1 DEF ArbInv, Active, Progress
  <2>3. HostQuiet /\ rsp' = rsp /\ desc = rsp /\ rsp.type = "STATS" /\ ~snapshot
    BY <2>1, <2>2, <1>2, <1>3, <1>6, <1>7
  <2>4. pl_cnt \in Nat /\ pl_cnt < PayloadLen["STATS"]
    BY <2>3 DEF EncTypes, Load
  <2>5. WordOf(pl_idx) = pl_cnt \div WORD_BYTES /\ WordOf(pl_idx) \in 0 .. STATS_NUM - 1
    BY <2>2, <2>4, WordWraps, WordInRange
  <2>6. stats_rd' = Word(WordOf(pl_idx), snap_ram[WordOf(pl_idx)])
    BY <1>4 DEF SnapEdge
  <2>7. snap_ram[WordOf(pl_idx)] = rsp.id
    <3>1. CASE copy_busy
      <4>1. enc = "PL_WAIT" /\ pl_cnt = 0 /\ copy_idx > HDR_BYTES + 1
        BY <3>1, <2>1, <2>2, <1>2
      <4>2. WordOf(pl_idx) = 0
        <5>1. ASSUME NEW b \in Nat \ {0} PROVE 0 \div b = 0
          OBVIOUS
        <5> QED
          BY <5>1, <4>1, <2>5, SizeAssumption
      <4>3. 0 < copy_idx
        BY <4>1, HeaderSize DEF CopyTypes
      <4> QED
        BY <4>2, <4>3, <3>1, <2>5, <1>2
    <3>2. CASE ~copy_busy
      BY <3>2, <2>3, <2>5, <1>2
    <3> QED
      BY <3>1, <3>2
  <2> QED
    BY <2>1, <2>3, <2>5, <2>6, <2>7
<1> QED
  BY <1>9, <1>11, <1>12, <1>13, <1>15, <1>16 DEF CopyInv

-----------------------------------------------------------------------------
(* The payload is that of the request. *)

\* The byte the encoder samples is the one the request stands for.
LEMMA PushedByte ==
  ASSUME EncTypes, Progress, ReqTypes, ArbInv, OneCommand, OneEvent, CopyInv, enc = "PL_PUSH", Clean
  PROVE  (IF grant_evt THEN EvtByte(pl_idx) ELSE RspByte(pl_idx)) = PayloadByte(desc, pl_cnt)
<1>1. arb = "WAIT" /\ pl_idx = pl_cnt /\ pl_cnt \in Nat /\ (desc.type = "EVT" <=> grant_evt)
  BY DEF ArbInv, Active, Progress, EncTypes
<1>2. CASE grant_evt
  <2>1. evt = desc.id /\ desc.type = "EVT"
    BY <1>1, <1>2 DEF OneEvent, Clean
  <2> QED
    BY <1>1, <1>2, <2>1 DEF EvtByte, PayloadByte
<1>3. CASE ~grant_evt
  <2>1. desc = rsp /\ ~piped /\ desc.type \in {"ACK", "ERROR", "STATS", "VERSION"}
    BY <1>1, <1>3, TypesAre DEF OneCommand, Clean, ReqTypes
  <2>2. pl0 = desc.id /\ (desc.type = "ERROR" => pl1 = desc.id)
    BY <2>1 DEF ReqTypes
  <2>3. CASE desc.type = "STATS"
    <3>1. stats_rd = Word(pl_cnt \div WORD_BYTES, desc.id)
      BY <2>1, <2>3 DEF CopyInv
    <3>2. stats_rd.word = pl_cnt \div WORD_BYTES /\ stats_rd.id = desc.id
      BY <3>1 DEF Word
    <3>3. stats_rd.word * WORD_BYTES + (pl_idx % WORD_BYTES) = pl_cnt
      BY <1>1, <3>2, BytePlace, Zenon
    <3>4. RspByte(pl_idx) = Byte("stat", stats_rd.word * WORD_BYTES + (pl_idx % WORD_BYTES), stats_rd.id)
      BY <2>1, <2>3, Zenon DEF RspByte
    <3>5. PayloadByte(desc, pl_cnt) = Byte("stat", pl_cnt, desc.id)
      BY <2>3 DEF PayloadByte
    <3> QED
      BY <1>3, <3>2, <3>3, <3>4, <3>5, Zenon
  <2>4. CASE desc.type = "VERSION"
    BY <1>1, <1>3, <2>1, <2>4 DEF RspByte, PayloadByte
  <2>5. CASE desc.type = "ERROR"
    BY <1>1, <1>3, <2>1, <2>2, <2>5 DEF RspByte, PayloadByte
  <2>6. CASE desc.type = "ACK"
    BY <1>1, <1>3, <2>1, <2>2, <2>6 DEF RspByte, PayloadByte
  <2> QED
    BY <2>1, <2>3, <2>4, <2>5, <2>6
<1> QED
  BY <1>2, <1>3

\* A packet that is clean was so before.
LEMMA StaysClean ==
  ASSUME EncTypes, Progress, ReqTypes, ArbInv, NEW detect, NEW stop, Edge(detect, stop), enc # "IDLE", Clean'
  PROVE  Clean
<1>1. arb = "WAIT" /\ ~pkt_done
  BY DEF ArbInv, Active, Progress
<1>2. arb' = "WAIT" /\ desc' = desc
  BY <1>1, ArbMoves
<1>3. (~spoiled' => ~spoiled) /\ (~overlapped' => ~overlapped) /\ (~piped' => ~piped)
  <2>1. ~spoiled' => ~spoiled
    BY <1>2 DEF Edge, Record
  <2>2. ~overlapped' => ~overlapped
    BY DEF Edge, Datapath
  <2>3. ~piped' => ~piped
    BY DEF Edge, HostQuiet, HostSends
  <2> QED
    BY <2>1, <2>2, <2>3
<1> QED
  BY <1>2, <1>3 DEF Clean

LEMMA LoadKept ==
  ASSUME FlowInv, FlowInv', EncInv, ReqTypes, ArbInv, OneCommand, OneEvent, CopyTypes, CopyInv, LoadInv,
         NEW detect, NEW stop, Edge(detect, stop)
  PROVE  LoadInv'
<1> DEFINE req == IF grant_evt THEN Request("EVT", evt) ELSE rsp
           data == IF grant_evt THEN EvtByte(pl_idx) ELSE RspByte(pl_idx)
           W == Written
           W2 == Written'
<1>1. EncTypes /\ Progress
  BY DEF EncInv
<1>2. EncEdge(arb = "REQ", req, data, AlmostFull) /\ Record
  BY DEF Edge, Datapath
<1>3. EncMove(arb = "REQ", req, data)
  BY <1>2, EdgeMoves, Zenon
<1>4. data \in PlainBytes
  BY <1>1, PayloadIsPlain
<1>5. enc = "PL_PUSH" /\ Clean => data = PayloadByte(desc, pl_cnt)
  BY <1>1, PushedByte
<1> HIDE DEF data, req
<1>6. enc # "IDLE" /\ Clean' => Clean /\ LoadOf(W, desc)
  BY <1>1, StaysClean DEF LoadInv, Active
<1>7. SUFFICES ASSUME Clean', Active' PROVE LoadOf(W2, desc')
  BY DEF LoadInv
<1>8. W \in Seq(Bytes)
  BY WrittenIsBytes
<1>9. /\ enc = "HDR" => Len(W) = hdr_idx
      /\ enc = "PL_PUSH" => Len(W) = HDR_BYTES + pl_cnt
      /\ enc = "CRC_L" => Len(W) = HDR_BYTES + PayloadLen[desc.type]
      /\ enc = "CRC_H" => Len(W) = HDR_BYTES + PayloadLen[desc.type] + 1
  BY <1>1 DEF Progress, InLoad, Frame, Load
<1>10. /\ hdr_idx \in 0 .. HDR_BYTES - 1 /\ HDR_BYTES \in Nat /\ pl_cnt \in Nat /\ PayloadLen[desc.type] \in Nat
       /\ desc.type \in Types /\ desc.id \in Nat
  BY <1>1, HeaderSize, LoadPositive DEF EncTypes
<1> HIDE DEF W, W2
<1>11. CASE enc = "IDLE"
  <2>1. Len(W2) = 0
    BY <1>3, <1>11 DEF EncMove, Stall, PayloadAddr, Settle, Header, PayloadPush, W2
  <2>2. \A i : i \in 0 .. PayloadLen[desc'.type] - 1 => ~(HDR_BYTES + i < Len(W2))
    BY <2>1, <1>10
  <2> QED
    BY <2>2 DEF LoadOf
<1>12. ASSUME NEW b \in Bytes, NEW fold, enc # "IDLE", Pushed(b, fold), desc' = desc,
              \A i \in 0 .. PayloadLen[desc.type] - 1 : Len(W) = HDR_BYTES + i => b = PayloadByte(desc, i)
       PROVE  LoadOf(W2, desc')
  <2>1. W2 = Append(W, b)
    BY <1>12 DEF Pushed, W, W2
  <2>2. LoadOf(W, desc)
    BY <1>12, <1>6, <1>7
  <2>3. LoadOf(W2, desc)
    BY <1>12, <2>1, <2>2, <1>8, <1>10, LoadGrows
  <2> QED
    BY <2>3, <1>12
<1>13. CASE enc # "IDLE" /\ Quiet
  <2>1. W2 = W /\ desc' = desc
    BY <1>3, <1>13 DEF EncMove, Idle, Stall, PayloadAddr, Settle, Quiet, Pushed, W, W2
  <2> QED
    BY <2>1, <1>13, <1>6, <1>7
<1>14. CASE Header /\ Pushed(HeaderByte(desc, hdr_idx), hdr_idx # 0)
  <2>1. enc = "HDR" /\ desc' = desc
    BY <1>14 DEF Header
  <2>2. HeaderByte(desc, hdr_idx) \in Bytes
    BY <1>10, HeaderIsPlain, PlainIsByte
  <2>3. \A i \in 0 .. PayloadLen[desc.type] - 1 : Len(W) # HDR_BYTES + i
    BY <2>1, <1>9, <1>10
  <2> QED
    BY <1>12, <1>14, <2>1, <2>2, <2>3
<1>15. CASE PayloadPush(data) /\ Pushed(data, TRUE)
  <2>1. enc = "PL_PUSH" /\ desc' = desc
    BY <1>15 DEF PayloadPush
  <2>2. data \in Bytes /\ data = PayloadByte(desc, pl_cnt)
    BY <2>1, <1>4, <1>5, <1>6, <1>7, PlainIsByte
  <2>3. \A i \in 0 .. PayloadLen[desc.type] - 1 : Len(W) = HDR_BYTES + i => i = pl_cnt
    BY <2>1, <1>9, <1>10
  <2> QED
    BY <1>12, <1>15, <2>1, <2>2, <2>3
<1>16. ASSUME NEW half \in {0, 1}, Checksum, Pushed(SumByte(half, crc), FALSE), enc = "CRC_L" \/ enc = "CRC_H"
       PROVE  LoadOf(W2, desc')
  <2>1. desc' = desc
    BY <1>16 DEF Checksum
  <2>2. SumByte(half, crc) \in Bytes
    BY SumIsByte DEF EncInv, DataTypes
  <2>3. \A i \in 0 .. PayloadLen[desc.type] - 1 : Len(W) # HDR_BYTES + i
    BY <1>16, <1>9, <1>10
  <2> QED
    BY <1>12, <1>16, <2>1, <2>2, <2>3
<1>17. \/ enc = "IDLE"
       \/ enc # "IDLE" /\ Quiet
       \/ Header /\ Pushed(HeaderByte(desc, hdr_idx), hdr_idx # 0)
       \/ PayloadPush(data) /\ Pushed(data, TRUE)
       \/ Checksum /\ Pushed(SumByte(0, crc), FALSE) /\ enc = "CRC_L"
       \/ Checksum /\ Pushed(SumByte(1, crc), FALSE) /\ enc = "CRC_H"
  BY <1>3 DEF EncMove, Idle
<1> QED
  BY <1>17, <1>11, <1>13, <1>14, <1>15, <1>16

-----------------------------------------------------------------------------
(* The invariant of the path. *)

LEMMA InitEstablishesPath == Init => PathInv
<1> SUFFICES ASSUME Init PROVE PathInv
  OBVIOUS
<1>1. /\ enc = "IDLE" /\ hdr_idx = 0 /\ pl_cnt = 0 /\ desc = NoRequest /\ pl_idx = 0
      /\ crc_en = FALSE /\ crc = <<>> /\ tx_en = FALSE /\ pkt_done = FALSE /\ wrote = <<>>
  BY DEF Init, EncInit
<1>2. desc.type = "ACK" /\ desc.id = 0 /\ "ACK" \in Types \ {"EVT"}
  BY <1>1, TypesAre DEF NoRequest, Request
<1>3. HDR_BYTES \in Nat /\ HDR_BYTES > 0 /\ PayloadLen["ACK"] = 1 /\ STATS_NUM \in Nat \ {0}
  BY SizeAssumption DEF PayloadLen
<1>4. ~Active
  BY <1>1 DEF Active
<1>5. Len(Written) = 0
  BY <1>1 DEF Written
<1>6. EncTypes
  <2>1. tx_en \in BOOLEAN /\ crc_en \in BOOLEAN /\ pkt_done \in BOOLEAN /\ enc \in EncStates
    BY <1>1 DEF EncStates
  <2>2. Load = 1 /\ hdr_idx \in 0 .. HDR_BYTES - 1 /\ pl_cnt \in Nat /\ pl_idx \in Nat /\ desc.id \in Nat /\ pl_cnt < Load
    BY <1>1, <1>2, <1>3 DEF Load
  <2>3. desc.type \in Types
    BY <1>2
  <2> QED
    BY <2>1, <2>2, <2>3 DEF EncTypes
<1>7. DataTypes
  BY <1>1 DEF DataTypes
<1>8. Progress /\ Settled /\ Contents
  BY <1>1, <1>4, <1>5 DEF Progress, Settled, Contents, InLoad
<1>9. /\ arb = "IDLE" /\ grant_evt = FALSE /\ rsp_req = FALSE /\ rsp = NoRequest /\ pl0 = 0 /\ pl1 = 0
      /\ n_cmd = 0 /\ n_evt = 0 /\ evt_req = FALSE /\ evt = 0 /\ last_rsp = 0 /\ last_evt = 0 /\ open = FALSE
      /\ snapshot = FALSE /\ copy_busy = FALSE /\ copy_idx = 0 /\ copy_id = 0
      /\ snap_ram = [w \in 0 .. STATS_NUM - 1 |-> 0] /\ stats_rd = Word(0, 0)
  BY DEF Init, RegsInit, EvtInit
<1>10. rsp.type = "ACK" /\ rsp.id = 0 /\ stats_rd.word = 0 /\ stats_rd.id = 0
  BY <1>9 DEF NoRequest, Request, Word
<1>11. ReqTypes
  <2>1. grant_evt \in BOOLEAN /\ rsp_req \in BOOLEAN /\ evt_req \in BOOLEAN /\ arb \in {"IDLE", "REQ", "WAIT"}
    BY <1>9
  <2>2. /\ n_cmd \in Nat /\ n_evt \in Nat /\ rsp.id \in 0 .. n_cmd /\ pl0 = rsp.id /\ pl1 \in 0 .. n_cmd
        /\ pl1 = rsp.id /\ evt \in 0 .. n_evt /\ last_rsp \in 0 .. n_cmd /\ last_evt \in 0 .. n_evt
    BY <1>9, <1>10
  <2>3. rsp.type \in Types \ {"EVT"}
    BY <1>2, <1>10
  <2> QED
    BY <2>1, <2>2, <2>3 DEF ReqTypes
<1>12. ArbInv /\ OneCommand /\ OneEvent
  BY <1>4, <1>9 DEF ArbInv, OneCommand, OneEvent, Responding
<1>13. CopyTypes
  <2>1. snapshot \in BOOLEAN /\ copy_busy \in BOOLEAN
    BY <1>9
  <2>2. /\ copy_idx \in 0 .. STATS_NUM - 1 /\ copy_id \in 0 .. n_cmd /\ 0 \in 0 .. n_cmd
        /\ stats_rd.word \in Nat /\ stats_rd.id \in Nat
    BY <1>3, <1>9, <1>10
  <2> DEFINE I == 0 .. STATS_NUM - 1
             R == 0 .. n_cmd
  <2>3. snap_ram = [w \in I |-> 0] /\ 0 \in R
    BY <1>9, <2>2
  <2> HIDE DEF I, R
  <2>4. snap_ram \in [I -> R]
    BY <2>3
  <2> QED
    BY <2>1, <2>2, <2>4 DEF CopyTypes, I, R
<1>14. CopyInv
  BY <1>1, <1>9, <1>10 DEF CopyInv
<1> QED
  BY <1>4, <1>6, <1>7, <1>8, <1>11, <1>12, <1>13, <1>14 DEF PathInv, EncInv, LoadInv

LEMMA StutterKeepsPath == PathInv /\ UNCHANGED vars => PathInv'
<1> SUFFICES ASSUME PathInv, UNCHANGED vars PROVE PathInv'
  OBVIOUS
<1>1. /\ UNCHANGED <<enc, hdr_idx, pl_cnt, desc, pl_idx, crc_en, crc, tx_en, tx_data, pkt_done, level, wrote>>
      /\ UNCHANGED <<arb, grant_evt, rsp_req, rsp, pl0, pl1, n_cmd, n_evt, evt_req, evt, last_rsp, last_evt, open>>
      /\ UNCHANGED <<snapshot, copy_busy, copy_idx, copy_id, snap_ram, stats_rd, piped, spoiled, overlapped>>
  BY DEF vars, evtVars, regsVars, snapVars, encVars, levelVars, pathVars, histVars
<1>2. Written' = Written /\ Folded' = Folded /\ (Active' <=> Active) /\ (Clean' <=> Clean) /\ (Responding' <=> Responding)
  BY <1>1 DEF Written, Full, Folded, Active, Clean, Responding
<1>3. EncInv'
  BY <1>1, <1>2 DEF PathInv, EncInv, EncTypes, DataTypes, Progress, Settled, Contents, Load, Frame, InLoad
<1>4. ReqTypes' /\ ArbInv' /\ OneCommand' /\ OneEvent' /\ CopyTypes' /\ CopyInv'
  BY <1>1, <1>2 DEF PathInv, ReqTypes, ArbInv, OneCommand, OneEvent, CopyTypes, CopyInv
<1>5. LoadInv'
  BY <1>1, <1>2 DEF PathInv, LoadInv
<1> QED
  BY <1>3, <1>4, <1>5 DEF PathInv

LEMMA NextKeepsPath == FlowInv /\ FlowInv' /\ PathInv /\ [Next]_vars => PathInv'
<1> SUFFICES ASSUME FlowInv, FlowInv', PathInv, [Next]_vars PROVE PathInv'
  OBVIOUS
<1>1. CASE Next
  <2>1. PICK detect, stop : Edge(detect, stop)
    BY <1>1, NextIsEdge
  <2>2. /\ EncInv /\ ReqTypes /\ ArbInv /\ OneCommand /\ OneEvent /\ CopyTypes /\ CopyInv /\ LoadInv
        /\ EncTypes /\ Progress
    BY DEF PathInv, EncInv
  <2>3. EncInv'
    <3> DEFINE req == IF grant_evt THEN Request("EVT", evt) ELSE rsp
               data == IF grant_evt THEN EvtByte(pl_idx) ELSE RspByte(pl_idx)
    <3>1. EncEdge(arb = "REQ", req, data, AlmostFull) /\ Record
      BY <2>1 DEF Edge, Datapath
    <3>2. req.type \in Types /\ req.id \in Nat /\ data \in PlainBytes
      BY <2>2, RequestIsSound, PayloadIsPlain
    <3> HIDE DEF req, data
    <3> QED
      BY <2>2, <3>1, <3>2, EncKept
  <2>4. ReqTypes' /\ ArbInv' /\ OneCommand' /\ OneEvent'
    BY <2>1, <2>2, ReqKept, ArbKept, CommandKept, EventKept
  <2>5. CopyTypes' /\ CopyInv'
    BY <2>1, <2>2, CopyTypesKept, CopyKept
  <2>6. LoadInv'
    BY <2>1, <2>2, LoadKept
  <2> QED
    BY <2>3, <2>4, <2>5, <2>6 DEF PathInv
<1>2. CASE UNCHANGED vars
  BY <1>2, StutterKeepsPath
<1> QED
  BY <1>1, <1>2

\* The two together are an invariant of every environment: a host that pipelines its
\* commands, events that overlap and clears in the middle of a packet are among them.
THEOREM PathInvariant == Spec => [](FlowInv /\ PathInv)
<1>1. Init => FlowInv /\ PathInv
  BY InitEstablishesFlow, InitEstablishesPath
<1>2. FlowInv /\ PathInv /\ [Next]_vars => (FlowInv /\ PathInv)'
  BY NextKeepsFlow, NextKeepsPath
<1> QED
  BY <1>1, <1>2, PTL DEF Spec

-----------------------------------------------------------------------------
(* What the invariant says of a packet that has been sent. *)

LEMMA ConcatBytes ==
  ASSUME NEW s \in Seq(Bytes), NEW t \in Seq(Bytes)
  PROVE  /\ s \o t \in Seq(Bytes)
         /\ Len(s \o t) = Len(s) + Len(t)
         /\ \A i \in 1 .. Len(s) : (s \o t)[i] = s[i]
         /\ \A i \in 1 .. Len(t) : (s \o t)[Len(s) + i] = t[i]
OBVIOUS

LEMMA SameBytes ==
  ASSUME NEW s \in Seq(Bytes), NEW t \in Seq(Bytes), Len(s) = Len(t), \A i \in 1 .. Len(s) : s[i] = t[i]
  PROVE  s = t
BY SeqEqual

LEMMA BytesFromTo ==
  ASSUME NEW s \in Seq(Bytes), NEW n \in Nat, 0 < n, n <= Len(s)
  PROVE  /\ SubSeq(s, 2, n) \in Seq(Bytes)
         /\ Len(SubSeq(s, 2, n)) = n - 1
         /\ \A i \in 1 .. n - 1 : SubSeq(s, 2, n)[i] = s[i + 1]
OBVIOUS

LEMMA TailOfBytes ==
  ASSUME NEW s \in Seq(Bytes), Len(s) > 0
  PROVE  /\ Tail(s) \in Seq(Bytes) /\ Len(Tail(s)) = Len(s) - 1
         /\ \A i \in 1 .. Len(s) - 1 : Tail(s)[i] = s[i + 1]
OBVIOUS

LEMMA PlainsAreBytes == ASSUME NEW s \in Seq(PlainBytes) PROVE s \in Seq(Bytes)
<1>1. \A i \in 1 .. Len(s) : s[i] \in Bytes
  BY PlainIsByte
<1>2. Len(s) \in Nat /\ s = [i \in 1 .. Len(s) |-> s[i]]
  OBVIOUS
<1> QED
  BY <1>1, <1>2

LEMMA BytesOfLength ==
  ASSUME NEW n \in Nat, NEW f, f = [i \in 1 .. n |-> f[i]], \A i \in 1 .. n : f[i] \in Bytes
  PROVE  f \in Seq(Bytes) /\ Len(f) = n
OBVIOUS

\* What is known of a packet once its last byte is on its way.
LEMMA SentPacket ==
  ASSUME EncInv, pkt_done
  PROVE  /\ Written \in Seq(Bytes) /\ Len(Written) = HDR_BYTES + PayloadLen[desc.type] + 2
         /\ \A i \in 1 .. HDR_BYTES : Written[i] = HeaderByte(desc, i - 1)
         /\ Folded \in Seq(Bytes) /\ Len(Folded) = (HDR_BYTES + PayloadLen[desc.type]) - 1
         /\ \A i \in 1 .. Len(Folded) : Folded[i] = Written[i + 1]
         /\ Written[HDR_BYTES + PayloadLen[desc.type] + 1] = SumByte(0, Folded)
         /\ Written[HDR_BYTES + PayloadLen[desc.type] + 2] = SumByte(1, Folded)
         /\ Folded \in Seq(PlainBytes)
<1>1. Written \in Seq(Bytes) /\ Folded \in Seq(PlainBytes) /\ Folded \in Seq(Bytes)
  BY WrittenIsBytes, PlainsAreBytes
<1>2. Len(Written) = HDR_BYTES + PayloadLen[desc.type] + 2
  BY DEF EncInv, Progress, Frame, Load
<1>3. /\ Len(Folded) = (HDR_BYTES + PayloadLen[desc.type]) - 1
      /\ Written[HDR_BYTES + PayloadLen[desc.type] + 1] = SumByte(0, Folded)
      /\ Written[HDR_BYTES + PayloadLen[desc.type] + 2] = SumByte(1, Folded)
  BY DEF EncInv, Contents, Frame, Load
<1>4. HeaderOf(Written, desc) /\ CoveredBy(Folded, Written)
  BY DEF EncInv, Contents, Active
<1>5. \A i \in 1 .. HDR_BYTES : i <= Len(Written)
  <2>1. HDR_BYTES \in Nat /\ PayloadLen[desc.type] \in Nat
    BY HeaderSize, LoadPositive DEF EncInv, EncTypes
  <2> QED
    BY <2>1, <1>2
<1>6. \A i \in 1 .. HDR_BYTES : Written[i] = HeaderByte(desc, i - 1)
  BY <1>4, <1>5 DEF HeaderOf
<1> QED
  BY <1>1, <1>2, <1>3, <1>4, <1>6, Zenon DEF CoveredBy

\* The checksum of a packet that has been sent covers what it should.
LEMMA SentIsFramed == ASSUME EncInv, pkt_done PROVE Framed
<1> DEFINE n == HDR_BYTES + PayloadLen[desc.type]
           W == Written
           F == Folded
           body == SubSeq(W, 2, n)
<1>1. /\ W \in Seq(Bytes) /\ Len(W) = n + 2
      /\ \A i \in 1 .. HDR_BYTES : W[i] = HeaderByte(desc, i - 1)
      /\ F \in Seq(Bytes) /\ Len(F) = n - 1
      /\ \A i \in 1 .. Len(F) : F[i] = W[i + 1]
      /\ W[n + 1] = SumByte(0, F) /\ W[n + 2] = SumByte(1, F)
  BY SentPacket
<1>2. n \in Nat /\ 0 < n
  BY HeaderSize, LoadPositive DEF EncInv, EncTypes
<1> HIDE DEF n, W, F
<1>3. n <= Len(W)
  BY <1>1, <1>2
<1>4. body \in Seq(Bytes) /\ Len(body) = n - 1 /\ \A i \in 1 .. n - 1 : body[i] = W[i + 1]
  BY <1>1, <1>2, <1>3, BytesFromTo
<1>5. F = body
  <2>1. Len(F) = Len(body) /\ \A i \in 1 .. Len(F) : F[i] = body[i]
    BY <1>1, <1>4
  <2> HIDE DEF body
  <2> QED
    BY <2>1, <1>1, <1>4, SameBytes
<1> USE DEF n, W
<1> QED
  BY <1>1, <1>5, Zenon DEF Framed

LEMMA PayloadPlain ==
  ASSUME NEW r, r.type \in Types, r.id \in Nat, NEW i \in Nat
  PROVE  PayloadByte(r, i) \in PlainBytes
<1>1. {"event", "stat", "version", "pl0", "pl1"} \subseteq Sources
  BY DEF Sources
<1>2. /\ Byte("version", i, 0) \in PlainBytes /\ Byte("event", i, r.id) \in PlainBytes
      /\ Byte("pl0", 0, r.id) \in PlainBytes /\ Byte("pl1", 0, r.id) \in PlainBytes
      /\ Byte("stat", i, r.id) \in PlainBytes
  BY <1>1, ByteIsPlain
<1>3. r.type \in {"ACK", "ERROR", "STATS", "VERSION", "EVT"}
  BY TypesAre
<1> QED
  BY <1>2, <1>3 DEF PayloadByte

\* A clean packet that has been sent is that of its request.
LEMMA SentIsWhole == ASSUME EncInv, LoadInv, pkt_done, Clean PROVE Written = Packet(desc)
<1> DEFINE h == HDR_BYTES
           k == PayloadLen[desc.type]
           W == Written
           F == Folded
           header == [i \in 1 .. HDR_BYTES |-> HeaderByte(desc, i - 1)]
           payload == [i \in 1 .. PayloadLen[desc.type] |-> PayloadByte(desc, i - 1)]
           body == Tail(header) \o payload
           sums == <<SumByte(0, F), SumByte(1, F)>>
<1>1. /\ W \in Seq(Bytes) /\ Len(W) = h + k + 2
      /\ \A i \in 1 .. h : W[i] = HeaderByte(desc, i - 1)
      /\ F \in Seq(Bytes) /\ Len(F) = (h + k) - 1
      /\ \A i \in 1 .. Len(F) : F[i] = W[i + 1]
      /\ W[h + k + 1] = SumByte(0, F) /\ W[h + k + 2] = SumByte(1, F)
  BY SentPacket
<1>2. h \in Nat /\ h > 0 /\ k \in Nat /\ k > 0
  BY HeaderSize, LoadPositive DEF EncInv, EncTypes
<1>3. \A i \in 0 .. k - 1 : h + i < Len(W) => W[h + i + 1] = PayloadByte(desc, i)
  BY DEF LoadInv, Active, LoadOf
<1>4. header \in Seq(Bytes) /\ Len(header) = h /\ \A i \in 1 .. h : header[i] = W[i]
  <2>1. \A i \in 1 .. h : header[i] = HeaderByte(desc, i - 1)
    OBVIOUS
  <2>2. ASSUME NEW i \in 1 .. h PROVE header[i] \in Bytes
    <3>1. i - 1 \in Nat
      BY <1>2
    <3> QED
      BY <2>1, <3>1, HeaderIsPlain, PlainIsByte DEF EncInv, EncTypes
  <2>3. header = [i \in 1 .. h |-> header[i]]
    OBVIOUS
  <2> HIDE DEF header, h, W
  <2>4. header \in Seq(Bytes) /\ Len(header) = h
    BY <2>2, <2>3, <1>2, BytesOfLength
  <2> QED
    BY <2>1, <2>4, <1>1, Zenon
<1>5. payload \in Seq(Bytes) /\ Len(payload) = k /\ \A i \in 1 .. k : payload[i] = W[h + i]
  <2>1. \A i \in 1 .. k : payload[i] = PayloadByte(desc, i - 1)
    OBVIOUS
  <2>2. ASSUME NEW i \in 1 .. k PROVE payload[i] \in Bytes
    <3>1. i - 1 \in Nat
      BY <1>2
    <3> QED
      BY <2>1, <3>1, PayloadPlain, PlainIsByte DEF EncInv, EncTypes
  <2>3. payload = [i \in 1 .. k |-> payload[i]]
    OBVIOUS
  <2> HIDE DEF payload, h, k, W
  <2>4. payload \in Seq(Bytes) /\ Len(payload) = k
    BY <2>2, <2>3, <1>2, BytesOfLength
  <2>5. ASSUME NEW i \in 1 .. k PROVE payload[i] = W[h + i]
    <3>1. i - 1 \in 0 .. k - 1 /\ h + (i - 1) < Len(W) /\ h + (i - 1) + 1 = h + i
      BY <1>1, <1>2
    <3>2. W[h + (i - 1) + 1] = PayloadByte(desc, i - 1)
      BY <3>1, <1>3
    <3> QED
      BY <2>1, <3>1, <3>2, Zenon
  <2> QED
    BY <2>4, <2>5
<1>6. F \in Seq(PlainBytes) /\ sums \in Seq(Bytes) /\ Len(sums) = 2 /\ sums[1] = SumByte(0, F) /\ sums[2] = SumByte(1, F)
  <2>1. F \in Seq(PlainBytes)
    BY SentPacket
  <2> HIDE DEF F
  <2>2. SumByte(0, F) \in Bytes /\ SumByte(1, F) \in Bytes
    BY <2>1, SumIsByte
  <2> QED
    BY <2>1, <2>2
<1> HIDE DEF header, payload, sums, h, k, W, F
<1>7. F = body
  <2>1. /\ Tail(header) \in Seq(Bytes) /\ Len(Tail(header)) = h - 1
        /\ \A i \in 1 .. h - 1 : Tail(header)[i] = header[i + 1]
    BY <1>2, <1>4, TailOfBytes
  <2> DEFINE th == Tail(header)
  <2> HIDE DEF th
  <2>2. /\ th \in Seq(Bytes) /\ Len(th) = h - 1
        /\ \A i \in 1 .. h - 1 : th[i] = header[i + 1]
    BY <2>1 DEF th
  <2>3. /\ th \o payload \in Seq(Bytes) /\ Len(th \o payload) = Len(th) + Len(payload)
        /\ \A i \in 1 .. Len(th) : (th \o payload)[i] = th[i]
        /\ \A i \in 1 .. Len(payload) : (th \o payload)[Len(th) + i] = payload[i]
    BY <2>2, <1>5, ConcatBytes, Zenon
  <2> DEFINE bd == th \o payload
  <2> HIDE DEF bd
  <2>4. /\ bd \in Seq(Bytes) /\ Len(bd) = (h - 1) + k
        /\ \A i \in 1 .. h - 1 : bd[i] = th[i]
        /\ \A i \in 1 .. k : bd[(h - 1) + i] = payload[i]
    BY <2>2, <2>3, <1>5, Zenon DEF bd
  <2>5. Len(F) = Len(bd)
    BY <2>4, <1>1, <1>2
  <2>6. ASSUME NEW i \in 1 .. Len(F) PROVE F[i] = bd[i]
    <3>1. F[i] = W[i + 1]
      BY <1>1
    <3>2. CASE i <= h - 1
      <4>1. i \in 1 .. h - 1 /\ i + 1 \in 1 .. h
        BY <3>2, <1>2
      <4> QED
        BY <4>1, <3>1, <2>4, <2>2, <1>4, Zenon
    <3>3. CASE ~(i <= h - 1)
      <4>1. PICK j \in 1 .. k : i = (h - 1) + j /\ i + 1 = h + j
        <5>1. i - (h - 1) \in 1 .. k /\ i = (h - 1) + (i - (h - 1)) /\ i + 1 = h + (i - (h - 1))
          BY <3>3, <1>1, <1>2
        <5> QED
          BY <5>1
      <4> QED
        BY <4>1, <3>1, <2>4, <1>5, Zenon
    <3> QED
      BY <3>2, <3>3
  <2>7. F = bd
    BY <2>4, <2>5, <2>6, <1>1, SameBytes
  <2> QED
    BY <2>7 DEF bd, th
<1>8. /\ header \o payload \in Seq(Bytes) /\ Len(header \o payload) = h + k
      /\ \A i \in 1 .. h : (header \o payload)[i] = header[i]
      /\ \A i \in 1 .. k : (header \o payload)[h + i] = payload[i]
  BY <1>4, <1>5, ConcatBytes, Zenon
<1> DEFINE hp == header \o payload
<1> HIDE DEF hp
<1>9. /\ hp \in Seq(Bytes) /\ Len(hp) = h + k
      /\ \A i \in 1 .. h : hp[i] = header[i]
      /\ \A i \in 1 .. k : hp[h + i] = payload[i]
  BY <1>8 DEF hp
<1>10. /\ hp \o sums \in Seq(Bytes) /\ Len(hp \o sums) = Len(hp) + Len(sums)
       /\ \A i \in 1 .. Len(hp) : (hp \o sums)[i] = hp[i]
       /\ \A i \in 1 .. Len(sums) : (hp \o sums)[Len(hp) + i] = sums[i]
  BY <1>6, <1>9, ConcatBytes, Zenon
<1> DEFINE P == hp \o sums
<1> HIDE DEF P
<1>11. /\ P \in Seq(Bytes) /\ Len(P) = (h + k) + 2
       /\ \A i \in 1 .. h + k : P[i] = hp[i]
       /\ \A i \in 1 .. 2 : P[(h + k) + i] = sums[i]
  BY <1>6, <1>9, <1>10, Zenon DEF P
<1>12. Len(W) = Len(P)
  BY <1>1, <1>11
<1>13. ASSUME NEW i \in 1 .. Len(W) PROVE W[i] = P[i]
  <2>1. CASE i <= h
    <3>1. i \in 1 .. h /\ i \in 1 .. h + k
      BY <2>1, <1>2
    <3> QED
      BY <3>1, <1>4, <1>9, <1>11, Zenon
  <2>2. CASE h < i /\ i <= h + k
    <3>1. PICK j \in 1 .. k : i = h + j
      <4>1. i - h \in 1 .. k /\ i = h + (i - h)
        BY <2>2, <1>2
      <4> QED
        BY <4>1
    <3>2. i \in 1 .. h + k
      BY <2>2, <1>2
    <3> QED
      BY <3>1, <3>2, <1>5, <1>9, <1>11, Zenon
  <2>3. CASE i = h + k + 1
    <3>1. P[(h + k) + 1] = sums[1]
      BY <1>11
    <3> QED
      BY <2>3, <3>1, <1>1, <1>6
  <2>4. CASE i = h + k + 2
    <3>1. P[(h + k) + 2] = sums[2]
      BY <1>11
    <3> QED
      BY <2>4, <3>1, <1>1, <1>6
  <2>5. i <= h \/ (h < i /\ i <= h + k) \/ i = h + k + 1 \/ i = h + k + 2
    BY <1>1, <1>2
  <2> QED
    BY <2>1, <2>2, <2>3, <2>4, <2>5
<1>14. W = P
  BY <1>1, <1>11, <1>12, <1>13, SameBytes
<1>15. Packet(desc) = (header \o payload) \o <<SumByte(0, body), SumByte(1, body)>>
  BY DEF Packet, header, payload
<1> HIDE DEF body
<1> QED
  BY <1>14, <1>15, <1>7, Zenon DEF P, hp, sums, W

\* What the host reads is what the core had to say: every packet that leaves is
\* framed and summed as its header says; a response is that of one command from
\* its first byte to the last word of its snapshot; an event is one detection.
THEOREM PacketsAreWhole == Spec => []PacketsWhole
<1>1. FlowInv /\ PathInv => PacketsWhole
  <2> SUFFICES ASSUME FlowInv, PathInv PROVE PacketsWhole
    OBVIOUS
  <2>1. /\ EncInv /\ EncTypes /\ ReqTypes /\ ArbInv /\ OneCommand /\ OneEvent /\ CopyTypes /\ CopyInv /\ LoadInv
    BY DEF PathInv, EncInv
  <2>2. pkt_done => arb = "WAIT" /\ (desc.type = "EVT" <=> grant_evt)
    BY <2>1 DEF ArbInv, Active
  <2>3. TypeOK
    <3>1. level \in 0 .. DEPTH
      BY DepthAssumption DEF FlowInv
    <3>2. pl_cnt \in 0 .. PayloadLen[desc.type] /\ pl0 \in 0 .. n_cmd
      BY <2>1, LoadPositive DEF EncTypes, ReqTypes, Load
    <3> QED
      BY <2>1, <3>1, <3>2 DEF TypeOK, EncTypes, ReqTypes, CopyTypes
  <2>4. ResponseWhole
    BY <2>1, SentIsWhole DEF ResponseWhole, ResponseDone, Clean
  <2>5. EventWhole
    <3> SUFFICES ASSUME EventDone, ~spoiled, ~overlapped PROVE Written = Packet(desc) /\ desc.id > last_evt
      BY DEF EventWhole
    <3>1. Written = Packet(desc)
      BY <2>1, SentIsWhole DEF EventDone, Clean
    <3>2. desc.id > last_evt
      BY <2>1, <2>2 DEF EventDone, OneEvent
    <3> QED
      BY <3>1, <3>2
  <2>6. Framed
    <3>1. CASE pkt_done
      BY <2>1, <3>1, SentIsFramed
    <3>2. CASE ~pkt_done
      BY <3>2 DEF Framed
    <3> QED
      BY <3>1, <3>2
  <2>7. SnapshotReady
    <3>1. enc = "PL_PUSH" /\ desc.type = "STATS" => arb = "WAIT" /\ ~grant_evt
      BY <2>1 DEF ArbInv, Active
    <3> QED
      BY <2>1, <3>1 DEF SnapshotReady, CopyInv
  <2> QED
    BY <2>3, <2>4, <2>5, <2>6, <2>7 DEF PacketsWhole
<1> QED
  BY <1>1, PathInvariant, PTL

\* A host with one command in flight gets the responses in the order of its
\* commands, and none twice.
THEOREM ResponsesInOrder == Spec => []AnsweredInOrder
<1>1. FlowInv /\ PathInv => AnsweredInOrder
  <2> SUFFICES ASSUME PathInv, ResponseDone, ~piped PROVE desc.id > last_rsp
    BY DEF AnsweredInOrder
  <2>1. arb = "WAIT" /\ ~grant_evt
    BY DEF PathInv, ArbInv, Active, ResponseDone
  <2>2. desc = rsp /\ open /\ rsp.id = n_cmd /\ last_rsp < n_cmd
    BY <2>1 DEF PathInv, OneCommand, Responding
  <2> QED
    BY <2>2 DEF PathInv, ReqTypes
<1> QED
  BY <1>1, PathInvariant, PTL

=============================================================================
