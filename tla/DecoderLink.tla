----------------------------- MODULE DecoderLink -----------------------------
(***************************************************************************)
(* The packet decoder at the end of a serial line.  A sender builds        *)
(* packets with kws_pkt_build (or, like tb/tb_decoder.cpp, patches one);   *)
(* the line delivers their bytes in order, loses or garbles some, and may  *)
(* deliver noise between packets or fall silent at any point.  Every step  *)
(* is a clock edge of the decoder.                                         *)
(***************************************************************************)
EXTENDS PacketDecoder

CONSTANTS
  PACKETS,      \* what a sender may send: [ver, type, payload]
  VALUES,       \* what a garbled byte or noise may read as
  MAX_PACKETS,  \* bound: packets sent in one behaviour; their numbers fit a byte
  MAX_FAULTS    \* bound: bytes lost, garbled or added in one behaviour

ASSUME LinkAssumption ==
  /\ PACKETS \subseteq [ver : 0 .. 255, type : 0 .. 255, payload : Seq(0 .. 255)]
  /\ VALUES \subseteq 0 .. 255
  /\ \A p \in PACKETS : Len(p.payload) <= MAX_PAYLOAD
  /\ MAX_PACKETS \in 0 .. 255 /\ MAX_FAULTS \in Nat

VARIABLES
  line,         \* bytes of the packet in flight
  slot,         \* the ring slot under speculative write, per coefficient
  \* History, read by no code.
  log,          \* packets sent; the frame number of a packet is its index
  faults,       \* faults so far
  intact,       \* the packet in flight met a hunting decoder and no fault
  expect,       \* the packet completed by the last edge, if it was intact
  quiet,        \* edges since the last byte, as far as TIMEOUT_CYCLES
  last          \* index of the newest packet dispatched before out

linkVars == <<line, slot, log, faults, intact, expect, quiet, last>>
vars == <<decVars, linkVars>>

EmptySlot == [i \in 0 .. NUM_MFCC - 1 |-> 0]
Nothing == NoOutcome

Init ==
  /\ DecInit
  /\ line = <<>> /\ slot = EmptySlot
  /\ log = <<>> /\ faults = 0 /\ intact = FALSE
  /\ expect = Nothing /\ quiet = TIMEOUT_CYCLES /\ last = 0

\* What a receiver owes a packet that reaches it whole.
Verdict(p) ==
  Outcome(IF p.ver # VERSION THEN "bad_version"
          ELSE IF ~LengthValid(p.type, Len(p.payload)) THEN "bad_length"
          ELSE IF p.type = DATA_FEATURE THEN "commit"
          ELSE IF p.type \in COMMANDS THEN "cmd"
          ELSE "unknown_type",
          p.type, Field(p.fn))

Dispatched == out.kind \in {"commit", "cmd", "bad_version", "bad_length", "unknown_type"}

\* The feature memory takes a strobe one edge after the decoder raised it; a
\* commit moves the pointer on, to a slot whose contents are stale.
SlotEdge ==
  slot' = IF out.kind = "commit" THEN EmptySlot
          ELSE IF wr.en THEN [slot EXCEPT ![wr.idx] = wr.data]
          ELSE slot

Remember == last' = IF Dispatched THEN out.fn[1] ELSE last

Desynced == out'.kind = "proto_err"

-----------------------------------------------------------------------------
Silence == quiet' = IF quiet < TIMEOUT_CYCLES THEN quiet + 1 ELSE quiet

\* An edge without a byte; a packet whose decoder times out is not intact.
Quiet ==
  /\ IdleEdge /\ SlotEdge /\ Remember /\ Silence
  /\ expect' = Nothing

Wait ==
  /\ Quiet
  /\ intact' = (intact /\ ~Desynced)
  /\ UNCHANGED <<line, log, faults>>

Send(p) ==
  LET packet == [ver |-> p.ver, type |-> p.type, payload |-> p.payload, fn |-> Len(log) + 1]
  IN  /\ line = <<>>
      /\ Len(log) < MAX_PACKETS
      /\ line' = Wire(packet)
      /\ log' = Append(log, packet)
      /\ intact' = TRUE
      /\ Quiet
      /\ UNCHANGED faults

Fault == faults < MAX_FAULTS /\ faults' = faults + 1

Lose ==
  /\ Fault
  /\ line # <<>>
  /\ line' = Tail(line)
  /\ intact' = FALSE
  /\ Quiet
  /\ UNCHANGED log

Garble(v) ==
  /\ Fault
  /\ line # <<>> /\ Head(line) # PlainByte(v)
  /\ line' = [line EXCEPT ![1] = PlainByte(v)]
  /\ intact' = FALSE
  /\ Quiet
  /\ UNCHANGED log

\* The first byte of a packet counts for it only if the decoder hunts for it.
AtFirstByte == Len(line) = Len(Wire(log[Len(log)]))

Deliver ==
  /\ line # <<>>
  /\ ByteEdge(Head(line)) /\ SlotEdge /\ Remember
  /\ line' = Tail(line)
  /\ intact' = (intact /\ (AtFirstByte => state = "HUNT"))
  /\ expect' = IF line' = <<>> /\ intact' THEN Verdict(log[Len(log)]) ELSE Nothing
  /\ quiet' = 0
  /\ UNCHANGED <<log, faults>>

Noise(v) ==
  /\ Fault
  /\ line = <<>>
  /\ ByteEdge(PlainByte(v)) /\ SlotEdge /\ Remember
  /\ expect' = Nothing /\ quiet' = 0
  /\ UNCHANGED <<line, log, intact>>

Next ==
  \/ Wait
  \/ \E p \in PACKETS : Send(p)
  \/ Lose
  \/ \E v \in VALUES : Garble(v) \/ Noise(v)
  \/ Deliver

Spec == Init /\ [][Next]_vars

-----------------------------------------------------------------------------
(* What must hold.                                                         *)

\* The registers of the decoder and of the link keep their ranges.
TypeOK ==
  /\ state \in States
  /\ type_q \in Nat /\ len_q \in Nat /\ pl_idx \in 0 .. MAX_PAYLOAD
  /\ mb_cnt \in 0 .. FIELD_BYTES - 1
  /\ fn_q \in [1 .. FIELD_BYTES -> Nat]
  /\ ver_err \in BOOLEAN /\ len_err \in BOOLEAN
  /\ to_cnt \in 0 .. TIMEOUT_CYCLES - 1
  /\ wr.en \in BOOLEAN
  /\ slot \in [0 .. NUM_MFCC - 1 -> Nat]
  /\ quiet \in 0 .. TIMEOUT_CYCLES
  /\ last \in 0 .. Len(log)

\* Whatever the line does, a dispatch is that of one packet the sender sent:
\* the right verdict, in the order sent, and never twice.  No mixture of two
\* packets commits a frame or runs a command.
Authentic ==
  /\ TypeOK
  /\ Dispatched => \E n \in last + 1 .. Len(log) : out = Verdict(log[n])

\* When a frame is committed, the slot it is committed from holds exactly its
\* payload: bytes that an aborted packet left there are all overwritten.
CommittedWhole ==
  out.kind = "commit" =>
    \E n \in 1 .. Len(log) :
      /\ out.fn = Field(n)
      /\ \A i \in 0 .. NUM_MFCC - 1 : slot[i] = log[n].payload[i + 1]

\* A packet that meets a hunting decoder and no fault is dispatched on its last
\* byte, with its own verdict, whatever broken packets went before it.
IntactDispatched == expect # Nothing => out = expect

\* Once the line has been silent for the timeout the decoder hunts, so the
\* first packet after a pause is always received.
HuntsAfterSilence == quiet >= TIMEOUT_CYCLES => state = "HUNT"

\* The assertion of packet_decoder.sv: a speculative write stays in its slot,
\* even for a feature packet of the wrong length.
IndexInRange == wr.en => wr.idx < NUM_MFCC

=============================================================================
