----------------------------- MODULE Requesters -----------------------------
(***************************************************************************)
(* The two that ask for the packet encoder.                                *)
(*                                                                         *)
(* rtl/keyword_detector.sv: the one-deep queue of detections.  evt is the  *)
(* serial number of the detection in class_q, conf_q, votes_q, latency_q,  *)
(* the frame number and the timestamp, which are all latched together.     *)
(*                                                                         *)
(* The response half of rtl/register_file.sv and the snapshot bank of      *)
(* rtl/statistics_counters.sv it serves.  rsp stands for rsp_type_o,       *)
(* rsp_len_o, rsp_timestamp_o and rsp_frame_o, latched together; a payload *)
(* register holds the serial number of the request that wrote it, a word   *)
(* of the snapshot that of the READ_STATS whose copy wrote it.             *)
(***************************************************************************)
EXTENDS PacketEncoder

VARIABLES evt_req, evt, evt_drop

evtVars == <<evt_req, evt, evt_drop>>

EvtInit == evt_req = FALSE /\ evt = 0 /\ evt_drop = FALSE

\* detect is the serial number of a detection strobed in this cycle, or 0.
EvtEdge(reset, detect, ack) ==
  \/ reset /\ evt_req' = FALSE /\ evt' = 0 /\ evt_drop' = FALSE
  \/ /\ ~reset
     /\ evt' = IF detect # 0 /\ ~evt_req THEN detect ELSE evt
     /\ evt_req' = (~ack /\ (evt_req \/ detect # 0))
     /\ evt_drop' = (detect # 0 /\ evt_req)

EvtByte(i) == Byte("event", i, evt)

-----------------------------------------------------------------------------
(* The response registers and the snapshot. *)

VARIABLES
  rsp_req, rsp,          \* the pending response
  pl0, pl1,              \* pl0_q, pl1_q
  clr_stream,            \* soft_clear_o or stream_clear_o
  snapshot,              \* snapshot_o
  copy_busy, copy_idx,   \* copy_busy_q, copy_idx_q
  copy_id,               \* history: the READ_STATS being copied
  snap_ram,              \* the snapshot
  stats_rd               \* rd_data_o: the word read in the last cycle

snapVars == <<copy_busy, copy_idx, copy_id, snap_ram, stats_rd>>
regsVars == <<rsp_req, rsp, pl0, pl1, clr_stream, snapshot, snapVars>>

Word(i, id) == [word |-> i, id |-> id]

RegsInit ==
  /\ rsp_req = FALSE /\ rsp = NoRequest /\ pl0 = 0 /\ pl1 = 0
  /\ clr_stream = FALSE /\ snapshot = FALSE
  /\ copy_busy = FALSE /\ copy_idx = 0 /\ copy_id = 0
  /\ snap_ram = [w \in 0 .. STATS_NUM - 1 |-> 0]
  /\ stats_rd = Word(0, 0)

\* A command or a decoder error strobed in this cycle: its response type, its
\* serial number, and whether it is a RESET or a START.
CommandEdge(r, clear) ==
  /\ rsp_req' = TRUE
  /\ rsp' = r
  /\ pl0' = r.id
  /\ pl1' = IF r.type = "ERROR" THEN r.id ELSE pl1
  /\ clr_stream' = clear
  /\ snapshot' = (r.type = "STATS")

\* Mutant: a response is requested until the next command.
NoCommandEdgeUnacked(ack) ==
  /\ clr_stream' = FALSE /\ snapshot' = FALSE
  /\ UNCHANGED <<rsp_req, rsp, pl0, pl1>>

NoCommandEdge(ack) ==
  /\ rsp_req' = (rsp_req /\ ~ack)
  /\ clr_stream' = FALSE /\ snapshot' = FALSE
  /\ UNCHANGED <<rsp, pl0, pl1>>

CopyEdge ==
  \/ snapshot /\ copy_idx' = 0 /\ copy_busy' = TRUE /\ copy_id' = rsp.id
  \/ /\ ~snapshot /\ copy_busy
     /\ copy_idx' = (copy_idx + 1) % STATS_NUM
     /\ copy_busy' = (copy_idx # STATS_NUM - 1)
     /\ UNCHANGED copy_id
  \/ ~snapshot /\ ~copy_busy /\ UNCHANGED <<copy_busy, copy_idx, copy_id>>

\* The word of a payload index; the index port is as wide as the snapshot.
WordOf(i) == (i \div WORD_BYTES) % STATS_NUM

SnapEdge(i) ==
  /\ CopyEdge
  /\ snap_ram' = IF copy_busy THEN [snap_ram EXCEPT ![copy_idx] = copy_id] ELSE snap_ram
  /\ stats_rd' = Word(WordOf(i), snap_ram[WordOf(i)])

\* The payload byte server: combinational on the live response type, and for
\* the statistics on the word read a cycle before.
RspByte(i) ==
  CASE rsp.type = "STATS"   -> Byte("stat", stats_rd.word * WORD_BYTES + (i % WORD_BYTES), stats_rd.id)
    [] rsp.type = "VERSION" -> Byte("version", i, 0)
    [] rsp.type = "ERROR"   -> IF i = 0 THEN Byte("pl0", 0, pl0) ELSE Byte("pl1", 0, pl1)
    [] OTHER                -> Byte("pl0", 0, pl0)

=============================================================================
