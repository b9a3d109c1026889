------------------------------- MODULE Packets -------------------------------
(***************************************************************************)
(* The wire format shared by rtl/kws_pkg.sv and host/src/protocol.c:       *)
(*                                                                         *)
(*   SOF VER TYPE LEN_L LEN_H TS.. FN.. PAYLOAD.. CRC_L CRC_H              *)
(*                                                                         *)
(* The CRC is ideal: a pair of bytes is the checksum of one body only, the *)
(* sequence of bytes it was computed over.  A byte on the wire is a record *)
(* of the value a parser reads and, for the two bytes of a checksum, the   *)
(* half and the body it stands for.                                        *)
(***************************************************************************)
EXTENDS Naturals, Sequences

CONSTANTS
  SOF, VERSION,   \* PROTO_SOF, PROTO_VERSION
  DATA_FEATURE,   \* PKT_DATA_FEATURE
  COMMANDS,       \* the PKT_CMD_* types
  NUM_MFCC,       \* payload bytes of a feature packet              (40)
  MAX_PAYLOAD,    \* largest LEN a packet may have                  (64)
  FIELD_BYTES     \* bytes of TIMESTAMP and of FRAME_NUM             (4)

ASSUME ProtocolAssumption ==
  /\ SOF \in 0 .. 255 /\ VERSION \in 0 .. 255 /\ DATA_FEATURE \in 0 .. 255
  /\ COMMANDS \subseteq 0 .. 255 /\ DATA_FEATURE \notin COMMANDS
  /\ NUM_MFCC \in Nat \ {0} /\ MAX_PAYLOAD \in Nat /\ NUM_MFCC <= MAX_PAYLOAD
  /\ MAX_PAYLOAD < 256
  /\ FIELD_BYTES \in Nat \ {0}

PlainByte(v) == [val |-> v, sum |-> <<>>]
SumByte(half, body) == [val |-> 0, sum |-> <<half, body>>]

ChecksumOk(lo, hi, body) == lo.sum = <<"lo", body>> /\ hi.sum = <<"hi", body>>

\* A multi-byte header field, least significant byte first.
Field(n) == [i \in 1 .. FIELD_BYTES |-> IF i = 1 THEN n ELSE 0]

\* kws_pkt_build: the bytes the checksum covers, and the whole packet.
Body(p) ==
  <<p.ver, p.type, Len(p.payload) % 256, Len(p.payload) \div 256>>
    \o Field(0) \o Field(p.fn) \o p.payload

Wire(p) ==
  LET body == Body(p)
  IN  <<PlainByte(SOF)>> \o [i \in 1 .. Len(body) |-> PlainByte(body[i])]
        \o <<SumByte("lo", body), SumByte("hi", body)>>

LengthValid(type, len) ==
  /\ type = DATA_FEATURE => len = NUM_MFCC
  /\ type \in COMMANDS => len = 0

\* What a receiver reports of a packet with a good checksum.
Outcome(kind, type, fn) == [kind |-> kind, type |-> type, fn |-> fn]

=============================================================================
