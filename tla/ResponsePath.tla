---------------------------- MODULE ResponsePath ----------------------------
(***************************************************************************)
(* The FPGA-to-host path of rtl/kws_core.sv, one step per clock edge: the  *)
(* event queue and the response registers, the arbiter that gives one of   *)
(* them the packet encoder, the TX FIFO and the pump that feeds uart_tx.   *)
(* The inputs of a cycle are a command (or a decoder error), a detection,  *)
(* and whether uart_tx ends its stop bit.                                  *)
(*                                                                         *)
(* As delivered the host sends a command only after the previous response, *)
(* and a detection comes only once the event before it is in the TX FIFO.  *)
(* Other environments are allowed for a bounded number of commands, and    *)
(* remembered in piped and overlapped.                                     *)
(***************************************************************************)
EXTENDS Requesters, PacketEncoder, FifoLevel

CONSTANTS
  MAX_PIPELINED, \* bound: commands in a behaviour with one before its time
  MAX_COMMANDS,  \* bound: commands in one behaviour
  MAX_EVENTS     \* bound: detections in one behaviour

ASSUME PathAssumption ==
  /\ MAX_PIPELINED \in Nat /\ MAX_COMMANDS \in Nat /\ MAX_EVENTS \in Nat
  /\ DEPTH > 2

VARIABLES
  clr_pulse,    \* clr_pulse_q: the registered engine reset
  arb,          \* arb_q
  grant_evt,    \* grant_evt_q
  inflight,     \* txp_inflight_q
  tx_ready,     \* uart_tx is idle
  cmd_q,        \* environment: a command in the previous cycle
  \* History, read by no code.
  n_cmd, n_evt, \* commands and detections so far: their serial numbers
  open,         \* a command waits for the end of its response
  piped,        \* a command came before the response to the one before it
  overlapped,   \* a detection came before its predecessor's event was sent
  wrote,        \* the packet so far, as the TX FIFO took it
  spoiled,      \* a clear fell into the packet being sent
  last_rsp, last_evt  \* serial numbers of the last packets completed

pathVars == <<clr_pulse, arb, grant_evt, inflight, tx_ready, cmd_q>>
histVars == <<n_cmd, n_evt, open, piped, overlapped, wrote, spoiled, last_rsp, last_evt>>
vars == <<evtVars, regsVars, encVars, levelVars, pathVars, histVars>>

Init ==
  /\ EvtInit /\ RegsInit /\ EncInit /\ LevelInit
  /\ clr_pulse = FALSE /\ arb = "IDLE" /\ grant_evt = FALSE
  /\ inflight = FALSE /\ tx_ready = TRUE /\ cmd_q = FALSE
  /\ n_cmd = 0 /\ n_evt = 0 /\ open = FALSE
  /\ piped = FALSE /\ overlapped = FALSE /\ wrote = <<>> /\ spoiled = FALSE
  /\ last_rsp = 0 /\ last_evt = 0

-----------------------------------------------------------------------------
(* Wires. *)

\* Mutant: the encoder sees full when the FIFO is.
AlmostFullLate == level >= DEPTH

\* txf_afull: a write is on its way when the level is read.
AlmostFull == level >= DEPTH - 2

\* The encoder accepts in A_REQ when it is idle; the owner is acknowledged.
Accept == arb = "REQ" /\ EncReady
EvtAck == Accept /\ grant_evt

\* Mutant: the response is acknowledged with whatever is accepted.
RspAckAny == Accept

RspAck == Accept /\ ~grant_evt

\* Mutant: the pump pops whenever the UART is ready.
PopUnpaced == ~Empty /\ tx_ready

\* txf_rd_en
Pop == ~Empty /\ tx_ready /\ ~inflight

\* rst_eng_n is low for the cycle after clr_stream: an edge that raises the
\* pulse clears what it resets, and so does the next.
EngineReset == clr_stream \/ clr_pulse

-----------------------------------------------------------------------------
(* Registers. *)

ArbEdge ==
  \/ /\ arb = "IDLE" /\ (evt_req \/ rsp_req)
     /\ arb' = "REQ" /\ grant_evt' = evt_req
  \/ /\ arb = "IDLE" /\ ~evt_req /\ ~rsp_req /\ UNCHANGED <<arb, grant_evt>>
  \/ /\ arb = "REQ"
     /\ arb' = IF EncReady THEN "WAIT" ELSE "REQ"
     /\ UNCHANGED grant_evt
  \/ /\ arb = "WAIT"
     /\ arb' = IF pkt_done THEN "IDLE" ELSE "WAIT"
     /\ UNCHANGED grant_evt

PumpEdge ==
  inflight' = IF Pop THEN TRUE ELSE IF rd_valid THEN FALSE ELSE inflight

\* uart_tx: a byte sets it busy until the stop bit has been sent.
TxEdge(stop) ==
  tx_ready' = IF tx_ready THEN ~rd_valid ELSE stop

\* An event is latched or on its way to the TX FIFO.
EventPending == evt_req \/ (arb # "IDLE" /\ grant_evt)

\* Everything one clock edge does but execute a command: a detection (its
\* serial number, or 0) and the end of a stop bit.
Datapath(detect, stop) ==
  /\ EvtEdge(EngineReset, detect, EvtAck)
  /\ SnapEdge(pl_idx)
  /\ clr_pulse' = clr_stream
  /\ ArbEdge
  /\ EncEdge(arb = "REQ",
             IF grant_evt THEN Request("EVT", evt) ELSE rsp,
             IF grant_evt THEN EvtByte(pl_idx) ELSE RspByte(pl_idx),
             AlmostFull)
  /\ LevelEdge(tx_en, Pop)
  /\ PumpEdge
  /\ TxEdge(stop)
  /\ n_evt' = IF detect = 0 THEN n_evt ELSE detect
  /\ overlapped' = (overlapped \/ (detect # 0 /\ EventPending))

\* The packet the TX FIFO holds the beginning of.
Written == IF tx_en /\ ~Full THEN Append(wrote, tx_data) ELSE wrote

Record ==
  /\ wrote' = IF pkt_done THEN <<>> ELSE Written
  /\ spoiled' = (arb' # "IDLE" /\ (spoiled \/ EngineReset))
  /\ last_rsp' = IF pkt_done /\ desc.type # "EVT" THEN desc.id ELSE last_rsp
  /\ last_evt' = IF pkt_done /\ desc.type = "EVT" /\ desc.id # 0 THEN desc.id ELSE last_evt

-----------------------------------------------------------------------------
\* The smoother is on the engine reset, so no detection comes out of it then.
Detections ==
  IF n_evt < MAX_EVENTS /\ ~clr_pulse THEN {0, n_evt + 1} ELSE {0}

NoCommandCycle(stop) ==
  /\ \E detect \in Detections : Datapath(detect, stop)
  /\ NoCommandEdge(RspAck)
  /\ Record
  /\ open' = (open /\ ~(pkt_done /\ desc.type # "EVT" /\ desc.id = n_cmd))
  /\ cmd_q' = FALSE /\ UNCHANGED <<n_cmd, piped>>

CommandCycle(type, clear, stop) ==
  /\ piped' = (piped \/ open)
  /\ n_cmd < IF piped' \/ overlapped THEN MAX_PIPELINED ELSE MAX_COMMANDS
  /\ ~cmd_q
  /\ \E detect \in Detections : Datapath(detect, stop)
  /\ CommandEdge(Request(type, n_cmd + 1), clear)
  /\ Record
  /\ open' = TRUE /\ cmd_q' = TRUE /\ n_cmd' = n_cmd + 1

Next ==
  \E stop \in BOOLEAN :
    \/ NoCommandCycle(stop)
    \/ \E type \in Types \ {"EVT"} : CommandCycle(type, FALSE, stop)
    \/ CommandCycle("ACK", TRUE, stop)

Spec == Init /\ [][Next]_vars

\* The clock runs and uart_tx, a counter of bit times, ends every byte.
FairSpec == Spec /\ WF_vars(NoCommandCycle(TRUE))

-----------------------------------------------------------------------------
(* What must hold.                                                         *)

\* The registers keep their ranges.
TypeOK ==
  /\ evt_req \in BOOLEAN /\ evt \in 0 .. n_evt
  /\ rsp_req \in BOOLEAN /\ rsp.type \in Types \ {"EVT"} /\ rsp.id \in 0 .. n_cmd
  /\ pl0 \in 0 .. n_cmd /\ pl1 \in 0 .. n_cmd
  /\ copy_idx \in 0 .. STATS_NUM - 1
  /\ snap_ram \in [0 .. STATS_NUM - 1 -> 0 .. n_cmd]
  /\ enc \in EncStates /\ hdr_idx \in 0 .. HDR_BYTES - 1
  /\ desc.type \in Types /\ pl_cnt \in 0 .. PayloadLen[desc.type]
  /\ level \in 0 .. DEPTH
  /\ arb \in {"IDLE", "REQ", "WAIT"}

\* The payload a request stands for, and its whole packet.
PayloadByte(r, i) ==
  CASE r.type = "ACK"     -> Byte("pl0", 0, r.id)
    [] r.type = "ERROR"   -> IF i = 0 THEN Byte("pl0", 0, r.id) ELSE Byte("pl1", 0, r.id)
    [] r.type = "STATS"   -> Byte("stat", i, r.id)
    [] r.type = "VERSION" -> Byte("version", i, 0)
    [] r.type = "EVT"     -> Byte("event", i, r.id)

Packet(r) ==
  LET header  == [i \in 1 .. HDR_BYTES |-> HeaderByte(r, i - 1)]
      payload == [i \in 1 .. PayloadLen[r.type] |-> PayloadByte(r, i - 1)]
      body    == Tail(header) \o payload
  IN  header \o payload \o <<SumByte(0, body), SumByte(1, body)>>

Completes(r) == pkt_done /\ desc = r
ResponseDone == pkt_done /\ desc.type # "EVT"
EventDone == pkt_done /\ desc.type = "EVT"

\* To a host that keeps one command in flight, a response on the wire is that of
\* one command from its first byte to its checksum: type, echo, error detail, and
\* every word of one snapshot.
ResponseWhole == ResponseDone /\ ~piped => Written = Packet(desc)

\* An event on the wire is one detection, header and payload, unless a START or
\* RESET fell into its transmission; and a detection is sent at most once.  This
\* needs detections as far apart as the debounce of the smoother keeps them.
EventWhole ==
  EventDone /\ ~spoiled /\ ~overlapped => Written = Packet(desc) /\ desc.id > last_evt

\* Whatever the host and the smoother do, bytes in the TX FIFO make packets: the
\* length is that of the header's type, and the checksum covers all of it.
Framed ==
  pkt_done =>
    LET n == HDR_BYTES + PayloadLen[desc.type]
        body == SubSeq(Written, 2, n)
    IN  /\ Len(Written) = n + 2
        /\ \A i \in 1 .. HDR_BYTES : Written[i] = HeaderByte(desc, i - 1)
        /\ Written[n + 1] = SumByte(0, body) /\ Written[n + 2] = SumByte(1, body)

\* To such a host responses come in the order of the commands, and none twice.
AnsweredInOrder == ResponseDone /\ ~piped => desc.id > last_rsp

\* The assertion of kws_core.sv: the encoder's late view of the level never
\* overruns the TX FIFO.
NoTxOverflow == ~overflow

\* The comment on the pop pump: uart_tx is idle when a popped byte arrives, so
\* no byte is popped into a busy transmitter and lost.
PoppedByteIsTaken == rd_valid => tx_ready

\* The comment of statistics_counters.sv: the copy has ended when the encoder
\* samples a statistics byte, and (its assertion) it is never started twice.
SnapshotReady ==
  ~piped =>
    /\ enc = "PL_PUSH" /\ desc.type = "STATS" => ~copy_busy
    /\ ~(snapshot /\ copy_busy)

\* What the host reads is what the core had to say: whole packets, each of one
\* response or one detection.
PacketsWhole == TypeOK /\ ResponseWhole /\ EventWhole /\ Framed /\ SnapshotReady

\* Every command is answered, however the UART, events and clears interleave.
CommandAnswered == open ~> (~open \/ piped)

\* keyword_detector.sv: the queue "holds an EVT_KEYWORD request toward the packet
\* encoder until granted"; a grant finds the request it was given for.
GrantedEventIsHeld == EvtAck => evt_req

=============================================================================
