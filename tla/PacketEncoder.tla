---------------------------- MODULE PacketEncoder ----------------------------
(***************************************************************************)
(* rtl/packet_encoder.sv: the packet framer, one step per clock edge.      *)
(* desc stands for type_q, len_q, ts_q and fn_q, latched together; crc for *)
(* the register of crc16.sv by the bytes folded into it.                   *)
(*                                                                         *)
(* A request is its packet type and a serial number that stands for all    *)
(* its data; serial 0 is a cleared register.  A byte of a packet says      *)
(* where it was read from (src, idx) and of which request (id); a checksum *)
(* byte carries what the checksum was computed over instead.               *)
(***************************************************************************)
EXTENDS Naturals, Sequences

CONSTANTS
  HDR_BYTES,    \* header bytes, SOF included             (13)
  STATS_NUM,    \* words of the statistics snapshot       (16)
  WORD_BYTES,   \* bytes of a word                        (4)
  VERSION_LEN,  \* payload of RSP_VERSION                 (12)
  EVT_LEN       \* payload of EVT_KEYWORD                 (8)

\* SnapshotAssumption: the copy of one word a cycle ends as the encoder samples
\* its first payload byte, three cycles after the last header byte.
ASSUME SizeAssumption ==
  /\ HDR_BYTES \in Nat \ {0} /\ STATS_NUM \in Nat \ {0} /\ WORD_BYTES \in Nat \ {0}
  /\ VERSION_LEN \in Nat \ {0} /\ EVT_LEN \in Nat \ {0}
  /\ VERSION_LEN <= STATS_NUM * WORD_BYTES /\ EVT_LEN <= STATS_NUM * WORD_BYTES
  /\ 2 <= STATS_NUM * WORD_BYTES
ASSUME SnapshotAssumption == STATS_NUM <= HDR_BYTES + 3

PayloadLen ==
  [ACK |-> 1, ERROR |-> 2, STATS |-> STATS_NUM * WORD_BYTES,
   VERSION |-> VERSION_LEN, EVT |-> EVT_LEN]

Types == DOMAIN PayloadLen

Request(type, id) == [type |-> type, id |-> id]
NoRequest == Request("ACK", 0)

Byte(src, idx, id) == [src |-> src, idx |-> idx, id |-> id, sum |-> <<>>]
SumByte(half, body) == [src |-> "crc", idx |-> half, id |-> 0, sum |-> body]

HeaderByte(r, i) == Byte(r.type, i, r.id)

-----------------------------------------------------------------------------
VARIABLES
  enc,             \* state_q
  hdr_idx, pl_cnt, \* bytes of the header and of the payload sent
  desc,            \* the packet being sent
  pl_idx,          \* pl_idx_o: the payload byte asked for
  crc_en, crc,     \* fold the byte being written; the running checksum
  tx_en, tx_data,  \* tx_wr_en_o, tx_wr_data_o
  pkt_done         \* pkt_done_o

encVars == <<enc, hdr_idx, pl_cnt, desc, pl_idx, crc_en, crc, tx_en, tx_data, pkt_done>>

EncStates == {"IDLE", "HDR", "PL_ADDR", "PL_WAIT", "PL_PUSH", "CRC_WAIT", "CRC_L", "CRC_H"}

NoByte == Byte("none", 0, 0)

EncInit ==
  /\ enc = "IDLE" /\ hdr_idx = 0 /\ pl_cnt = 0 /\ desc = NoRequest /\ pl_idx = 0
  /\ crc_en = FALSE /\ crc = <<>>
  /\ tx_en = FALSE /\ tx_data = NoByte /\ pkt_done = FALSE

EncReady == enc = "IDLE"

\* The byte written in this cycle goes into the checksum in this cycle.
CrcEdge ==
  crc' = IF enc = "IDLE" THEN <<>> ELSE IF tx_en /\ crc_en THEN Append(crc, tx_data) ELSE crc

\* The data bus is read under its strobe only.
Write(b, fold) == tx_en' = TRUE /\ tx_data' = b /\ crc_en' = fold
NoWrite == tx_en' = FALSE /\ tx_data' = NoByte /\ UNCHANGED crc_en

Idle(valid, req) ==
  /\ enc = "IDLE"
  /\ hdr_idx' = 0 /\ pl_cnt' = 0
  /\ IF valid THEN desc' = req /\ enc' = "HDR" ELSE UNCHANGED <<desc, enc>>
  /\ NoWrite /\ pkt_done' = FALSE /\ UNCHANGED pl_idx

\* No room in the TX FIFO: the pushing states wait.
Stall ==
  /\ enc \in {"HDR", "PL_PUSH", "CRC_L", "CRC_H"}
  /\ NoWrite /\ pkt_done' = FALSE
  /\ UNCHANGED <<enc, hdr_idx, pl_cnt, desc, pl_idx>>

Header ==
  /\ enc = "HDR"
  /\ Write(HeaderByte(desc, hdr_idx), hdr_idx # 0)
  /\ \/ /\ hdr_idx = HDR_BYTES - 1
        /\ enc' = IF PayloadLen[desc.type] = 0 THEN "CRC_WAIT" ELSE "PL_ADDR"
        /\ UNCHANGED hdr_idx
     \/ hdr_idx < HDR_BYTES - 1 /\ hdr_idx' = hdr_idx + 1 /\ UNCHANGED enc
  /\ pkt_done' = FALSE /\ UNCHANGED <<pl_cnt, desc, pl_idx>>

\* Mutant: the byte is sampled a cycle after its index was presented.
PayloadAddrEager ==
  /\ enc = "PL_ADDR"
  /\ pl_idx' = pl_cnt /\ enc' = "PL_PUSH"
  /\ NoWrite /\ pkt_done' = FALSE /\ UNCHANGED <<hdr_idx, pl_cnt, desc>>

PayloadAddr ==
  /\ enc = "PL_ADDR"
  /\ pl_idx' = pl_cnt /\ enc' = "PL_WAIT"
  /\ NoWrite /\ pkt_done' = FALSE /\ UNCHANGED <<hdr_idx, pl_cnt, desc>>

\* One cycle for the payload to arrive, and for the last fold to settle.
Settle ==
  /\ \/ enc = "PL_WAIT" /\ enc' = "PL_PUSH"
     \/ enc = "CRC_WAIT" /\ enc' = "CRC_L"
  /\ NoWrite /\ pkt_done' = FALSE /\ UNCHANGED <<hdr_idx, pl_cnt, desc, pl_idx>>

PayloadPush(data) ==
  /\ enc = "PL_PUSH"
  /\ Write(data, TRUE)
  /\ \/ pl_cnt = PayloadLen[desc.type] - 1 /\ enc' = "CRC_WAIT" /\ UNCHANGED pl_cnt
     \/ pl_cnt < PayloadLen[desc.type] - 1 /\ enc' = "PL_ADDR" /\ pl_cnt' = pl_cnt + 1
  /\ pkt_done' = FALSE /\ UNCHANGED <<hdr_idx, desc, pl_idx>>

Checksum ==
  /\ \/ enc = "CRC_L" /\ Write(SumByte(0, crc), FALSE) /\ enc' = "CRC_H" /\ pkt_done' = FALSE
     \/ enc = "CRC_H" /\ Write(SumByte(1, crc), FALSE) /\ enc' = "IDLE" /\ pkt_done' = TRUE
  /\ UNCHANGED <<hdr_idx, pl_cnt, desc, pl_idx>>

\* valid and req: the request port; data: the payload port; full: tx_full_i.
EncEdge(valid, req, data, full) ==
  /\ CrcEdge
  /\ \/ Idle(valid, req)
     \/ full /\ Stall
     \/ ~full /\ (Header \/ PayloadPush(data) \/ Checksum)
     \/ PayloadAddr \/ Settle

=============================================================================
