----------------------------- MODULE HostParser -----------------------------
(***************************************************************************)
(* kws_parser_feed of host/src/protocol.c, which its header calls a mirror *)
(* of the packet decoder.  Feed(b) is one call.  What the packet holds is  *)
(* what p_crc was computed over, so type, timestamp, frame number and      *)
(* payload are not kept a second time.                                     *)
(***************************************************************************)
EXTENDS Packets

VARIABLES
  p_state, p_len, p_idx,
  p_crc_lo, p_crc,
  p_ret                   \* the call returned 1: a packet is complete

hostVars == <<p_state, p_len, p_idx, p_crc_lo, p_crc, p_ret>>

\* kws_parser_init
HostInit ==
  /\ p_state = "HUNT" /\ p_len = 0 /\ p_idx = 0
  /\ p_crc_lo = PlainByte(0) /\ p_crc = <<>> /\ p_ret = FALSE

-----------------------------------------------------------------------------
(* One case of the switch each. *)

Go(next) == p_state' = next /\ p_ret' = FALSE

FoldHost(b) == p_crc' = Append(p_crc, b.val)

FeedHunt(b) ==
  /\ p_state = "HUNT"
  /\ IF b.val = SOF THEN Go("VER") /\ p_crc' = <<>>
                    ELSE Go("HUNT") /\ UNCHANGED p_crc
  /\ UNCHANGED <<p_len, p_idx, p_crc_lo>>

FeedVer(b) ==
  /\ p_state = "VER"
  /\ Go(IF b.val # VERSION THEN "HUNT" ELSE "TYPE")
  /\ FoldHost(b)
  /\ UNCHANGED <<p_len, p_idx, p_crc_lo>>

FeedType(b) ==
  /\ p_state = "TYPE"
  /\ Go("LEN_L")
  /\ FoldHost(b)
  /\ UNCHANGED <<p_len, p_idx, p_crc_lo>>

FeedLenL(b) ==
  /\ p_state = "LEN_L"
  /\ Go("LEN_H")
  /\ p_len' = b.val
  /\ FoldHost(b)
  /\ UNCHANGED <<p_idx, p_crc_lo>>

\* Mutant: the largest legal length is refused.
FeedLenHStrict(b) ==
  /\ p_state = "LEN_H"
  /\ p_len' = p_len + (b.val * 256)
  /\ \/ p_len' >= MAX_PAYLOAD /\ Go("HUNT") /\ UNCHANGED p_idx
     \/ p_len' < MAX_PAYLOAD /\ Go("TS") /\ p_idx' = 0
  /\ FoldHost(b)
  /\ UNCHANGED p_crc_lo

FeedLenH(b) ==
  /\ p_state = "LEN_H"
  /\ p_len' = p_len + (b.val * 256)
  /\ \/ p_len' > MAX_PAYLOAD /\ Go("HUNT") /\ UNCHANGED p_idx
     \/ p_len' <= MAX_PAYLOAD /\ Go("TS") /\ p_idx' = 0
  /\ FoldHost(b)
  /\ UNCHANGED p_crc_lo

FeedTs(b) ==
  /\ p_state = "TS"
  /\ IF p_idx + 1 = FIELD_BYTES THEN p_idx' = 0 /\ Go("FN")
                                ELSE p_idx' = p_idx + 1 /\ Go("TS")
  /\ FoldHost(b)
  /\ UNCHANGED <<p_len, p_crc_lo>>

FeedFn(b) ==
  /\ p_state = "FN"
  /\ IF p_idx + 1 = FIELD_BYTES
       THEN p_idx' = 0 /\ Go(IF p_len = 0 THEN "CRC_L" ELSE "PAYLOAD")
       ELSE p_idx' = p_idx + 1 /\ Go("FN")
  /\ FoldHost(b)
  /\ UNCHANGED <<p_len, p_crc_lo>>

FeedPayload(b) ==
  /\ p_state = "PAYLOAD"
  /\ p_idx' = p_idx + 1
  /\ Go(IF p_idx' = p_len THEN "CRC_L" ELSE "PAYLOAD")
  /\ FoldHost(b)
  /\ UNCHANGED <<p_len, p_crc_lo>>

FeedCrcL(b) ==
  /\ p_state = "CRC_L"
  /\ Go("CRC_H")
  /\ p_crc_lo' = b
  /\ UNCHANGED <<p_len, p_idx, p_crc>>

FeedCrcH(b) ==
  /\ p_state = "CRC_H"
  /\ p_state' = "HUNT"
  /\ p_ret' = ChecksumOk(p_crc_lo, b, p_crc)
  /\ UNCHANGED <<p_len, p_idx, p_crc_lo, p_crc>>

Feed(b) ==
  \/ FeedHunt(b) \/ FeedVer(b) \/ FeedType(b) \/ FeedLenL(b) \/ FeedLenH(b)
  \/ FeedTs(b) \/ FeedFn(b) \/ FeedPayload(b) \/ FeedCrcL(b) \/ FeedCrcH(b)

\* No call.
NotFed == p_ret' = FALSE /\ UNCHANGED <<p_state, p_len, p_idx, p_crc_lo, p_crc>>

=============================================================================
