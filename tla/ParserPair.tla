----------------------------- MODULE ParserPair -----------------------------
(***************************************************************************)
(* The packet decoder of the FPGA and the parser of the host on one and    *)
(* the same faulty byte stream: how far "the parser is a deliberate mirror *)
(* of rtl/packet_decoder.sv" carries.                                      *)
(***************************************************************************)
EXTENDS DecoderLink, HostParser

VARIABLE
  split         \* history: the two have parted ways since both last hunted

pairVars == <<vars, hostVars, split>>

PairInit == Init /\ HostInit /\ split = FALSE

\* The two rules that differ: a foreign version byte, which only the host
\* gives up at, and the timeout, which only the decoder has.
BadVersion == state = "VER" /\ ver_err'
Timeout == Desynced

SplitEdge(parting) ==
  split' = /\ split \/ parting
           /\ ~(state' = "HUNT" /\ p_state' = "HUNT")

PairDeliver == Deliver /\ Feed(Head(line)) /\ SplitEdge(BadVersion)
PairNoise == \E v \in VALUES : Noise(v) /\ Feed(PlainByte(v)) /\ SplitEdge(BadVersion)
PairSilent ==
  /\ \/ Wait \/ Lose
     \/ \E p \in PACKETS : Send(p)
     \/ \E v \in VALUES : Garble(v)
  /\ NotFed /\ SplitEdge(Timeout)

PairNext == PairDeliver \/ PairNoise \/ PairSilent

PairSpec == PairInit /\ [][PairNext]_pairVars

-----------------------------------------------------------------------------
\* Until a foreign version byte or a timeout parts them, the two parsers stand at
\* the same byte of the same packet and accept the same packets, through lost and
\* garbled bytes, noise, bad lengths and bad checksums.
LockStep ==
  [][~split => /\ (p_ret' <=> Dispatched')
               /\ split' \/ p_state' = state']_pairVars

-----------------------------------------------------------------------------
(* Values for TLC.  Small byte values stand for the real codes: 1 is the       *)
(* version and a command type, 2 the feature type, 3 the start of frame, which *)
(* is also a legal payload byte; 0 is an unknown type.                         *)

Packet(ver, type, payload) == [ver |-> ver, type |-> type, payload |-> payload]

\* Well-formed packets, and one for each semantic error.
MCPackets ==
  { Packet(1, 1, <<>>),      \* a command
    Packet(1, 2, <<1, 3>>),  \* a feature whose payload holds the SOF code
    Packet(1, 2, <<3>>),     \* a feature that is too short
    Packet(1, 2, <<1, 1, 3>>), \* and one that is too long
    Packet(1, 0, <<>>),      \* an unknown type
    Packet(2, 1, <<>>) }     \* another version

MCCommands == {1}
MCValues == 0 .. 3

=============================================================================
