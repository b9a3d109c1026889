---------------------------- MODULE PacketDecoder ----------------------------
(***************************************************************************)
(* rtl/packet_decoder.sv: the byte-stream parser of the host-to-FPGA link, *)
(* one step per clock edge.  ByteEdge(b) is an edge on which the FIFO      *)
(* delivers a byte, IdleEdge one on which it does not.                     *)
(*                                                                         *)
(* crc stands for the register of crc16.sv by the sequence of bytes folded *)
(* into it.  The timestamp, which nothing here depends on, and the pacing  *)
(* of the byte pump are left out.  pl_idx is 6 bits wide in the code; FN   *)
(* rewinds it and MAX_PAYLOAD fits it, so it never wraps while it is used. *)
(***************************************************************************)
EXTENDS Packets

CONSTANT TIMEOUT_CYCLES

ASSUME TimeoutAssumption == TIMEOUT_CYCLES \in Nat \ {0}

VARIABLES
  state,                \* state_q
  type_q, len_q, fn_q,  \* header fields
  mb_cnt,               \* byte of a multi-byte field
  pl_idx,               \* payload byte
  crc_lo, crc,          \* first checksum byte, running checksum
  ver_err, len_err,     \* semantic errors noted in this packet
  to_cnt,               \* inter-byte timer
  wr,                   \* feat_wr_en_o, feat_wr_idx_o, feat_wr_data_o
  out                   \* the dispatch strobe raised by the last edge

hdrVars == <<type_q, len_q, fn_q, mb_cnt, pl_idx>>
errVars == <<ver_err, len_err>>
decVars == <<state, hdrVars, crc_lo, crc, errVars, to_cnt, wr, out>>

States == {"HUNT", "VER", "TYPE", "LEN_L", "LEN_H", "TS", "FN", "PAYLOAD", "CRC_L", "CRC_H"}

\* The index and the data of a write, and the fields of a dispatch, are read
\* under their strobe only.
NoOutcome == Outcome("none", 0, Field(0))
NoWrite == [en |-> FALSE, idx |-> 0, data |-> 0]

DecInit ==
  /\ state = "HUNT"
  /\ type_q = 0 /\ len_q = 0 /\ fn_q = Field(0) /\ mb_cnt = 0 /\ pl_idx = 0
  /\ crc_lo = PlainByte(0) /\ crc = <<>>
  /\ ver_err = FALSE /\ len_err = FALSE
  /\ to_cnt = 0
  /\ wr = NoWrite /\ out = NoOutcome

\* Every strobe is low unless the state's action raises it.
Silent == wr' = NoWrite /\ out' = NoOutcome

\* crc16 folds every byte from VER to the last of the payload.
Fold(b) == crc' = Append(crc, b.val)

-----------------------------------------------------------------------------
(* One action per state, on a byte b. *)

\* Mutant: the errors of the last packet stick.
HuntKeepsErrors(b) ==
  /\ state = "HUNT"
  /\ IF b.val = SOF THEN state' = "VER" /\ crc' = <<>> ELSE UNCHANGED <<state, crc>>
  /\ Silent
  /\ UNCHANGED <<hdrVars, errVars, crc_lo>>

Hunt(b) ==
  /\ state = "HUNT"
  /\ IF b.val = SOF
       THEN state' = "VER" /\ crc' = <<>> /\ ver_err' = FALSE /\ len_err' = FALSE
       ELSE UNCHANGED <<state, crc, errVars>>
  /\ Silent
  /\ UNCHANGED <<hdrVars, crc_lo>>

TakeVer(b) ==
  /\ state = "VER"
  /\ state' = "TYPE"
  /\ ver_err' = (ver_err \/ b.val # VERSION)
  /\ Fold(b) /\ Silent
  /\ UNCHANGED <<hdrVars, len_err, crc_lo>>

TakeType(b) ==
  /\ state = "TYPE"
  /\ state' = "LEN_L"
  /\ type_q' = b.val
  /\ Fold(b) /\ Silent
  /\ UNCHANGED <<len_q, fn_q, mb_cnt, pl_idx, errVars, crc_lo>>

TakeLenL(b) ==
  /\ state = "LEN_L"
  /\ state' = "LEN_H"
  /\ len_q' = ((len_q \div 256) * 256) + b.val
  /\ Fold(b) /\ Silent
  /\ UNCHANGED <<type_q, fn_q, mb_cnt, pl_idx, errVars, crc_lo>>

\* A length beyond the bound is not trusted: back to hunting.
TakeLenH(b) ==
  LET len == (b.val * 256) + (len_q % 256)
  IN  /\ state = "LEN_H"
      /\ len_q' = len
      /\ mb_cnt' = 0
      /\ wr' = NoWrite
      /\ IF len > MAX_PAYLOAD
           THEN state' = "HUNT" /\ out' = Outcome("proto_err", 0, Field(0))
           ELSE state' = "TS" /\ out' = NoOutcome
      /\ Fold(b)
      /\ UNCHANGED <<type_q, fn_q, pl_idx, errVars, crc_lo>>

LastOfField == mb_cnt = FIELD_BYTES - 1
NextOfField == IF LastOfField THEN 0 ELSE mb_cnt + 1

TakeTs(b) ==
  /\ state = "TS"
  /\ state' = IF LastOfField THEN "FN" ELSE "TS"
  /\ mb_cnt' = NextOfField
  /\ Fold(b) /\ Silent
  /\ UNCHANGED <<type_q, len_q, fn_q, pl_idx, errVars, crc_lo>>

\* Mutant: the payload index is not rewound.
TakeFnKeepsIndex(b) ==
  /\ state = "FN"
  /\ fn_q' = [fn_q EXCEPT ![mb_cnt + 1] = b.val]
  /\ mb_cnt' = NextOfField
  /\ \/ /\ LastOfField
        /\ len_err' = (len_err \/ ~LengthValid(type_q, len_q))
        /\ state' = IF len_q = 0 THEN "CRC_L" ELSE "PAYLOAD"
     \/ /\ ~LastOfField
        /\ UNCHANGED <<len_err, state>>
  /\ Fold(b) /\ Silent
  /\ UNCHANGED <<type_q, len_q, pl_idx, ver_err, crc_lo>>

TakeFn(b) ==
  /\ state = "FN"
  /\ fn_q' = [fn_q EXCEPT ![mb_cnt + 1] = b.val]
  /\ mb_cnt' = NextOfField
  /\ \/ /\ LastOfField
        /\ pl_idx' = 0
        /\ len_err' = (len_err \/ ~LengthValid(type_q, len_q))
        /\ state' = IF len_q = 0 THEN "CRC_L" ELSE "PAYLOAD"
     \/ /\ ~LastOfField
        /\ UNCHANGED <<pl_idx, len_err, state>>
  /\ Fold(b) /\ Silent
  /\ UNCHANGED <<type_q, len_q, ver_err, crc_lo>>

\* Mutants: speculate on any feature packet; stop one byte early.
SpeculateAnyLength == type_q = DATA_FEATURE /\ ~ver_err
SpeculateShort ==
  /\ type_q = DATA_FEATURE /\ LengthValid(type_q, len_q) /\ ~ver_err
  /\ pl_idx + 1 < len_q

\* Only the payload of a well-formed feature packet goes to the feature buffer.
Speculate == type_q = DATA_FEATURE /\ LengthValid(type_q, len_q) /\ ~ver_err

TakePayload(b) ==
  /\ state = "PAYLOAD"
  /\ wr' = IF Speculate THEN [en |-> TRUE, idx |-> pl_idx, data |-> b.val] ELSE NoWrite
  /\ pl_idx' = pl_idx + 1
  /\ state' = IF pl_idx + 1 = len_q THEN "CRC_L" ELSE "PAYLOAD"
  /\ Fold(b)
  /\ out' = NoOutcome
  /\ UNCHANGED <<type_q, len_q, fn_q, mb_cnt, errVars, crc_lo>>

TakeCrcL(b) ==
  /\ state = "CRC_L"
  /\ state' = "CRC_H"
  /\ crc_lo' = b
  /\ Silent
  /\ UNCHANGED <<hdrVars, errVars, crc>>

\* What a packet with a good checksum is dispatched as.
Dispatch ==
  IF ver_err THEN "bad_version"
  ELSE IF len_err THEN "bad_length"
  ELSE IF type_q = DATA_FEATURE THEN "commit"
  ELSE IF type_q \in COMMANDS THEN "cmd"
  ELSE "unknown_type"

TakeCrcH(b) ==
  /\ state = "CRC_H"
  /\ state' = "HUNT"
  /\ wr' = NoWrite
  /\ out' = IF ChecksumOk(crc_lo, b, crc) THEN Outcome(Dispatch, type_q, fn_q)
                                          ELSE Outcome("crc_err", 0, Field(0))
  /\ UNCHANGED <<hdrVars, errVars, crc_lo, crc>>

ByteEdge(b) ==
  /\ to_cnt' = 0
  /\ \/ Hunt(b) \/ TakeVer(b) \/ TakeType(b) \/ TakeLenL(b) \/ TakeLenH(b)
     \/ TakeTs(b) \/ TakeFn(b) \/ TakePayload(b) \/ TakeCrcL(b) \/ TakeCrcH(b)

-----------------------------------------------------------------------------
(* No byte: the timer of a packet in progress. *)

\* Mutant: the comparison is one too late.
TimedOutLate == to_cnt = TIMEOUT_CYCLES

TimedOut == to_cnt = TIMEOUT_CYCLES - 1

IdleEdge ==
  /\ \/ /\ state = "HUNT"
        /\ out' = NoOutcome
        /\ UNCHANGED <<state, to_cnt>>
     \/ /\ state # "HUNT" /\ TimedOut
        /\ state' = "HUNT" /\ to_cnt' = 0
        /\ out' = Outcome("proto_err", 0, Field(0))
     \/ /\ state # "HUNT" /\ ~TimedOut
        /\ to_cnt' = to_cnt + 1
        /\ out' = NoOutcome
        /\ UNCHANGED state
  /\ wr' = NoWrite
  /\ UNCHANGED <<hdrVars, errVars, crc_lo, crc>>

=============================================================================
