------------------------- MODULE DecoderLink_proofs -------------------------
(***************************************************************************)
(* What TLAPS proves of DecoderLink, and of the two parsers of ParserPair, *)
(* for every packet set, noise value, timeout, payload bound, field width  *)
(* and any number of faults: what is dispatched is one packet that was     *)
(* sent, whole and in order; an intact packet is dispatched; a silent line *)
(* ends every packet; and the host's parser mirrors the decoder.           *)
(*                                                                         *)
(* The argument: the registers of the decoder are functions of the bytes   *)
(* folded into its checksum (Position, Noted), so a good checksum, which   *)
(* names the whole body, makes them those of one packet (NotedVerdict).    *)
(***************************************************************************)
EXTENDS ParserPair, SequenceTheorems, TLAPS

USE ProtocolAssumption

Sums == {<<>>} \cup ({"lo", "hi"} \X Seq(Nat))
SentPacket == [ver : 0 .. 255, type : 0 .. 255, payload : Seq(0 .. 255), fn : Nat]
Byte == [val : Nat, sum : Sums]

\* The header bytes that a checksum covers.
HEADER == 4 + FIELD_BYTES + FIELD_BYTES

InPayload == state \in {"PAYLOAD", "CRC_L", "CRC_H"}

\* Where the decoder is in a packet, by the bytes that it has folded.
Position ==
  /\ state = "VER" => Len(crc) = 0
  /\ state = "TYPE" => Len(crc) = 1
  /\ state = "LEN_L" => Len(crc) = 2
  /\ state = "LEN_H" => Len(crc) = 3
  /\ state = "TS" => Len(crc) = 4 + mb_cnt
  /\ state = "FN" => Len(crc) = 4 + FIELD_BYTES + mb_cnt
  /\ state = "PAYLOAD" => Len(crc) = HEADER + pl_idx /\ pl_idx < len_q
  /\ state \in {"CRC_L", "CRC_H"} => Len(crc) = HEADER + len_q

\* What it has noted of the packet, by the same bytes.
Noted ==
  /\ state = "VER" => ~ver_err
  /\ state \notin {"HUNT", "VER"} => (ver_err <=> crc[1] # VERSION)
  /\ state \notin {"HUNT", "VER", "TYPE"} => type_q = crc[2]
  /\ state = "LEN_H" => len_q % 256 = crc[3] % 256
  /\ state \in {"TS", "FN"} \/ InPayload =>
       len_q = (crc[4] * 256) + (crc[3] % 256) /\ len_q <= MAX_PAYLOAD
  /\ state \in {"VER", "TYPE", "LEN_L", "LEN_H", "TS", "FN"} => ~len_err
  /\ InPayload => (len_err <=> ~LengthValid(type_q, len_q))
  /\ \A i \in 1 .. FIELD_BYTES :
       InPayload \/ (state = "FN" /\ i <= mb_cnt) => fn_q[i] = crc[4 + FIELD_BYTES + i]

\* The ranges of its registers.
CountersOK ==
  /\ type_q \in Nat /\ len_q \in Nat /\ pl_idx \in 0 .. MAX_PAYLOAD
  /\ mb_cnt \in 0 .. FIELD_BYTES - 1

DataOK ==
  /\ fn_q \in [1 .. FIELD_BYTES -> Nat] /\ crc \in Seq(Nat)
  /\ wr.en => wr.idx \in 0 .. NUM_MFCC - 1 /\ wr.data \in Nat

FlagsOK ==
  state \in States /\ ver_err \in BOOLEAN /\ len_err \in BOOLEAN /\ wr.en \in BOOLEAN

DecoderTypeOK == CountersOK /\ DataOK /\ FlagsOK

\* A strobe is raised only on the way back to hunting, a write only in the payload.
StrobesEnd ==
  /\ out.kind # "none" => state = "HUNT"
  /\ wr.en => state \in {"PAYLOAD", "CRC_L"}

DecInv == DecoderTypeOK /\ Position /\ Noted /\ StrobesEnd

\* The slot as it will be when the write on its way has landed.
Landed(i) == IF wr.en /\ wr.idx = i THEN wr.data ELSE slot[i]

SlotInv ==
  /\ slot \in [0 .. NUM_MFCC - 1 -> Nat]
  /\ InPayload /\ Speculate =>
       \A i \in 0 .. NUM_MFCC - 1 : HEADER + i < Len(crc) => Landed(i) = crc[HEADER + i + 1]

\* The packet on the line, its number, its checksum.
Current == log[Len(log)]

LogOK ==
  /\ log \in Seq(SentPacket)
  /\ \A n \in 1 .. Len(log) : log[n].fn = n /\ Len(log[n].payload) <= MAX_PAYLOAD

\* What is on the line are bytes.
LineOK == line \in Seq(Byte) /\ LogOK

\* A checksum byte on the line is of the packet in flight, its second half last.
SumsInv ==
  /\ line # <<>> => log # <<>>
  /\ \A i \in 1 .. Len(line) :
       line[i].sum = <<>> \/ (line[i].sum[2] = Body(Current) /\ (line[i].sum[1] = "hi" => i = Len(line)))

\* What is dispatched was sent, after whatever was dispatched before it, and not
\* while its bytes are still on the line.
OrderInv ==
  /\ last \in 0 .. Len(log)
  /\ line # <<>> => last < Len(log) /\ (Dispatched => out.fn[1] < Len(log))
  /\ Dispatched => \E n \in last + 1 .. Len(log) : out = Verdict(log[n])

\* How many bytes of the current packet have left the line.
Taken == Len(Wire(Current)) - Len(line)

\* The decoder after the first k bytes of a packet with this body.
InStepWith(body, k) ==
  /\ k <= Len(body) + 1 =>
       state \notin {"HUNT", "CRC_H"} /\ Len(crc) = k - 1 /\ \A i \in 1 .. k - 1 : crc[i] = body[i]
  /\ k = Len(body) + 2 => state = "CRC_H" /\ crc = body /\ crc_lo = SumByte("lo", body)

\* A packet that met no fault has the decoder in step with it.
IntactInv ==
  intact /\ line # <<>> =>
    /\ Taken >= 0
    /\ \A i \in 1 .. Len(line) : line[i] = Wire(Current)[Taken + i]
    /\ Taken > 0 => InStepWith(Body(Current), Taken)

-----------------------------------------------------------------------------
(* The decoder's own steps. *)

LEMMA FoldAppends ==
  ASSUME crc \in Seq(Nat), NEW b, b.val \in Nat, Fold(b)
  PROVE  /\ crc' \in Seq(Nat) /\ Len(crc) \in Nat /\ Len(crc') = Len(crc) + 1
         /\ \A i \in 1 .. Len(crc) : crc'[i] = crc[i]
         /\ crc'[Len(crc) + 1] = b.val
BY AppendProperties, LenProperties DEF Fold

LEMMA HuntKeeps ==
  ASSUME DecInv, NEW b, b.val \in Nat, Hunt(b)
  PROVE  DecInv'
<1> USE DEF DecInv, Hunt, Silent, NoOutcome, NoWrite, Outcome, hdrVars, errVars, InPayload
<1>1. DecoderTypeOK'
  <2>1. CountersOK'
    BY DEF DecoderTypeOK, CountersOK
  <2>2. crc' \in Seq(Nat)
    <3>1. crc' = <<>> \/ crc' = crc
      OBVIOUS
    <3>2. crc \in Seq(Nat)
      BY DEF DecoderTypeOK, DataOK
    <3>3. <<>> \in Seq(Nat)
      OBVIOUS
    <3> HIDE DEF Hunt
    <3> QED
      BY <3>1, <3>2, <3>3
  <2>3. DataOK'
    BY <2>2 DEF DecoderTypeOK, DataOK
  <2>4. FlagsOK'
    BY DEF DecoderTypeOK, FlagsOK, States
  <2> QED
    BY <2>1, <2>3, <2>4 DEF DecoderTypeOK
<1>2. Position'
  BY DEF Position
<1>3. Noted'
  BY DEF Noted, LengthValid
<1>4. StrobesEnd'
  BY DEF StrobesEnd
<1> QED
  BY <1>1, <1>2, <1>3, <1>4

LEMMA HeaderKeeps ==
  ASSUME DecInv, NEW b, b.val \in Nat, TakeVer(b) \/ TakeType(b)
  PROVE  DecInv'
<1> USE DEF DecInv, Silent, NoOutcome, NoWrite, Outcome, hdrVars, errVars, InPayload
<1>1. CASE TakeVer(b)
  <2>1. Fold(b) /\ Len(crc) = 0
    BY <1>1 DEF TakeVer, Position
  <2>2. crc' \in Seq(Nat) /\ Len(crc') = 1 /\ crc'[1] = b.val
    BY <2>1, FoldAppends DEF DecoderTypeOK, DataOK
  <2>3. DecoderTypeOK'
    BY <1>1, <2>2 DEF DecoderTypeOK, CountersOK, DataOK, FlagsOK, States, TakeVer
  <2>4. Position' /\ StrobesEnd'
    BY <1>1, <2>2 DEF Position, StrobesEnd, TakeVer
  <2>5. Noted'
    BY <1>1, <2>2 DEF Noted, TakeVer
  <2> QED
    BY <2>3, <2>4, <2>5
<1>2. CASE TakeType(b)
  <2>1. Fold(b) /\ Len(crc) = 1
    BY <1>2 DEF TakeType, Position
  <2>2. crc' \in Seq(Nat) /\ Len(crc') = 2 /\ crc'[1] = crc[1] /\ crc'[2] = b.val
    BY <2>1, FoldAppends DEF DecoderTypeOK, DataOK
  <2>3. DecoderTypeOK'
    BY <1>2, <2>2 DEF DecoderTypeOK, CountersOK, DataOK, FlagsOK, States, TakeType
  <2>4. Position' /\ StrobesEnd'
    BY <1>2, <2>2 DEF Position, StrobesEnd, TakeType
  <2>5. Noted'
    BY <1>2, <2>2 DEF Noted, TakeType
  <2> QED
    BY <2>3, <2>4, <2>5
<1> QED
  BY <1>1, <1>2

LEMMA LengthKeeps ==
  ASSUME DecInv, NEW b, b.val \in Nat, TakeLenL(b) \/ TakeLenH(b)
  PROVE  DecInv'
<1> USE DEF DecInv, Silent, NoOutcome, NoWrite, Outcome, hdrVars, errVars, InPayload
<1>1. CASE TakeLenL(b)
  <2>1. Fold(b) /\ Len(crc) = 2
    BY <1>1 DEF TakeLenL, Position
  <2>2. crc' \in Seq(Nat) /\ Len(crc') = 3 /\ crc'[1] = crc[1] /\ crc'[2] = crc[2] /\ crc'[3] = b.val
    BY <2>1, FoldAppends DEF DecoderTypeOK, DataOK
  <2>3. len_q' \in Nat /\ len_q' % 256 = b.val % 256
    <3>1. len_q \in Nat
      BY DEF DecoderTypeOK, CountersOK
    <3>2. len_q' = ((len_q \div 256) * 256) + b.val
      BY <1>1 DEF TakeLenL
    <3> QED
      BY <3>1, <3>2
  <2>4. DecoderTypeOK'
    BY <1>1, <2>2, <2>3 DEF DecoderTypeOK, CountersOK, DataOK, FlagsOK, States, TakeLenL
  <2>5. Position' /\ StrobesEnd'
    BY <1>1, <2>2 DEF Position, StrobesEnd, TakeLenL
  <2>6. Noted'
    BY <1>1, <2>2, <2>3 DEF Noted, TakeLenL
  <2> QED
    BY <2>4, <2>5, <2>6
<1>2. CASE TakeLenH(b)
  <2>1. Fold(b) /\ Len(crc) = 3
    BY <1>2 DEF TakeLenH, Position
  <2>2. /\ crc' \in Seq(Nat) /\ Len(crc') = 4
        /\ crc'[1] = crc[1] /\ crc'[2] = crc[2] /\ crc'[3] = crc[3] /\ crc'[4] = b.val
    BY <2>1, FoldAppends DEF DecoderTypeOK, DataOK
  <2>3. len_q' \in Nat /\ len_q' = (crc'[4] * 256) + (crc'[3] % 256)
    <3>1. len_q \in Nat /\ len_q % 256 = crc[3] % 256
      BY <1>2 DEF DecoderTypeOK, CountersOK, Noted, TakeLenH
    <3>2. len_q' = (b.val * 256) + (len_q % 256)
      BY <1>2 DEF TakeLenH
    <3>3. len_q % 256 \in Nat
      BY <3>1
    <3> QED
      BY <2>2, <3>1, <3>2, <3>3
  <2>4. DecoderTypeOK'
    <3>1. CountersOK'
      BY <1>2, <2>3 DEF DecoderTypeOK, CountersOK, TakeLenH
    <3>2. DataOK'
      BY <1>2, <2>2 DEF DecoderTypeOK, DataOK, TakeLenH
    <3>3. FlagsOK'
      BY <1>2 DEF DecoderTypeOK, FlagsOK, States, TakeLenH
    <3> QED
      BY <3>1, <3>2, <3>3 DEF DecoderTypeOK
  <2>5. Position' /\ StrobesEnd'
    BY <1>2, <2>2 DEF Position, StrobesEnd, TakeLenH
  <2>6. state' = "TS" => len_q' <= MAX_PAYLOAD
    BY <1>2, <2>3 DEF TakeLenH
  <2>7. Noted'
    BY <1>2, <2>2, <2>3, <2>6 DEF Noted, TakeLenH
  <2> QED
    BY <2>4, <2>5, <2>7
<1> QED
  BY <1>1, <1>2

LEMMA FieldsKeep ==
  ASSUME DecInv, NEW b, b.val \in Nat, TakeTs(b) \/ TakeFn(b)
  PROVE  DecInv'
<1> USE DEF DecInv, Silent, NoOutcome, NoWrite, Outcome, hdrVars, errVars, InPayload, LastOfField, NextOfField
<1>1. Fold(b) /\ Len(crc) >= 4
  BY DEF TakeTs, TakeFn, Position, DecoderTypeOK, CountersOK
<1>2. /\ crc' \in Seq(Nat) /\ Len(crc) \in Nat /\ Len(crc') = Len(crc) + 1
      /\ \A i \in 1 .. Len(crc) : crc'[i] = crc[i]
      /\ crc'[Len(crc) + 1] = b.val
  BY <1>1, FoldAppends DEF DecoderTypeOK, DataOK
<1>3. crc'[1] = crc[1] /\ crc'[2] = crc[2] /\ crc'[3] = crc[3] /\ crc'[4] = crc[4]
  BY <1>1, <1>2
<1>4. CASE TakeTs(b)
  <2>1. DecoderTypeOK'
    BY <1>4, <1>2 DEF DecoderTypeOK, CountersOK, DataOK, FlagsOK, States, TakeTs
  <2>2. Position' /\ StrobesEnd'
    BY <1>4, <1>2 DEF Position, StrobesEnd, TakeTs, DecoderTypeOK, CountersOK
  <2>3. Noted'
    BY <1>4, <1>3 DEF Noted, TakeTs
  <2> QED
    BY <2>1, <2>2, <2>3
<1>5. CASE TakeFn(b)
  <2>1. DecoderTypeOK'
    <3>1. CountersOK'
      BY <1>5 DEF DecoderTypeOK, CountersOK, TakeFn
    <3>2. DataOK'
      <4>1. fn_q' \in [1 .. FIELD_BYTES -> Nat]
        <5>1. fn_q' = [fn_q EXCEPT ![mb_cnt + 1] = b.val]
          BY <1>5 DEF TakeFn
        <5>2. fn_q \in [1 .. FIELD_BYTES -> Nat]
          BY DEF DecoderTypeOK, DataOK
        <5> QED
          BY <5>1, <5>2
      <4>2. ~wr'.en
        BY <1>5 DEF TakeFn
      <4> QED
        BY <1>2, <4>1, <4>2 DEF DataOK
    <3>3. FlagsOK'
      BY <1>5 DEF DecoderTypeOK, FlagsOK, States, TakeFn
    <3> QED
      BY <3>1, <3>2, <3>3 DEF DecoderTypeOK
  <2>2. Position'
    <3>1. /\ mb_cnt \in 0 .. FIELD_BYTES - 1 /\ len_q \in Nat /\ Len(crc) \in Nat
          /\ Len(crc') = 4 + FIELD_BYTES + mb_cnt + 1
      BY <1>5, <1>2 DEF TakeFn, Position, DecoderTypeOK, CountersOK
    <3>2. CASE LastOfField
      BY <1>5, <3>1, <3>2 DEF TakeFn, Position, HEADER
    <3>3. CASE ~LastOfField
      BY <1>5, <3>1, <3>3 DEF TakeFn, Position
    <3> QED
      BY <3>2, <3>3
  <2>3. StrobesEnd'
    BY <1>5 DEF StrobesEnd, TakeFn
  <2>4. \A i \in 1 .. FIELD_BYTES :
          InPayload' \/ (state' = "FN" /\ i <= mb_cnt') => fn_q'[i] = crc'[4 + FIELD_BYTES + i]
    <3>1. state = "FN" /\ fn_q' = [fn_q EXCEPT ![mb_cnt + 1] = b.val] /\ mb_cnt \in 0 .. FIELD_BYTES - 1
      BY <1>5 DEF TakeFn, DecoderTypeOK, CountersOK
    <3>2. Len(crc) = 4 + FIELD_BYTES + mb_cnt
      BY <3>1 DEF Position
    <3>3. ASSUME NEW i \in 1 .. FIELD_BYTES, i <= mb_cnt + 1
          PROVE  fn_q'[i] = crc'[4 + FIELD_BYTES + i]
      <4>1. CASE i = mb_cnt + 1
        BY <3>1, <3>2, <4>1, <1>2 DEF DecoderTypeOK, DataOK
      <4>2. CASE i <= mb_cnt
        <5>1. fn_q'[i] = fn_q[i]
          BY <3>1, <4>2 DEF DecoderTypeOK, DataOK
        <5>2. fn_q[i] = crc[4 + FIELD_BYTES + i]
          BY <3>1, <4>2 DEF Noted
        <5>3. crc'[4 + FIELD_BYTES + i] = crc[4 + FIELD_BYTES + i]
          BY <3>1, <3>2, <4>2, <1>2
        <5> QED
          BY <5>1, <5>2, <5>3
      <4> QED
        BY <3>1, <3>3, <4>1, <4>2
    <3>4. ASSUME NEW i \in 1 .. FIELD_BYTES, InPayload' \/ (state' = "FN" /\ i <= mb_cnt')
          PROVE  i <= mb_cnt + 1
      BY <1>5, <3>1, <3>4 DEF TakeFn
    <3> QED
      BY <3>3, <3>4
  <2>5. Noted'
    <3>1. /\ state = "FN" /\ state' \in {"FN", "PAYLOAD", "CRC_L"} /\ ver_err' = ver_err
          /\ type_q' = type_q /\ len_q' = len_q
      BY <1>5 DEF TakeFn
    <3>2. state' = "FN" => ~len_err'
      BY <1>5 DEF TakeFn, Noted
    <3>3. InPayload' => (len_err' <=> ~LengthValid(type_q, len_q))
      BY <1>5 DEF TakeFn, Noted
    <3> QED
      BY <3>1, <3>2, <3>3, <1>3, <2>4 DEF Noted, LengthValid
  <2> QED
    BY <2>1, <2>2, <2>3, <2>5
<1> QED
  BY <1>4, <1>5

LEMMA PayloadKeeps ==
  ASSUME DecInv, NEW b, b.val \in Nat, TakePayload(b)
  PROVE  DecInv'
<1> USE DEF DecInv, InPayload
<1>1. /\ state = "PAYLOAD" /\ pl_idx' = pl_idx + 1
      /\ state' = IF pl_idx + 1 = len_q THEN "CRC_L" ELSE "PAYLOAD"
      /\ type_q' = type_q /\ len_q' = len_q /\ fn_q' = fn_q /\ mb_cnt' = mb_cnt
      /\ ver_err' = ver_err /\ len_err' = len_err
      /\ Fold(b) /\ out'.kind = "none"
  BY DEF TakePayload, errVars, NoOutcome, Outcome
<1>2. /\ Len(crc) = HEADER + pl_idx /\ pl_idx \in Nat /\ len_q \in Nat /\ pl_idx < len_q
      /\ len_q <= MAX_PAYLOAD /\ HEADER >= 4 + FIELD_BYTES + FIELD_BYTES /\ HEADER \in Nat
  BY <1>1 DEF Position, Noted, HEADER, DecoderTypeOK, CountersOK
<1>3. /\ crc' \in Seq(Nat) /\ Len(crc) \in Nat /\ Len(crc') = Len(crc) + 1
      /\ \A i \in 1 .. Len(crc) : crc'[i] = crc[i]
  BY <1>1, FoldAppends DEF DecoderTypeOK, DataOK
<1>4. wr'.en \in BOOLEAN /\ (wr'.en => wr'.idx = pl_idx /\ wr'.data = b.val /\ Speculate)
  <2>1. CASE Speculate
    BY <2>1 DEF TakePayload
  <2>2. CASE ~Speculate
    BY <2>2 DEF TakePayload, NoWrite
  <2> QED
    BY <2>1, <2>2
<1>5. DecoderTypeOK'
  <2>1. CountersOK'
    BY <1>1, <1>2 DEF DecoderTypeOK, CountersOK
  <2>2. wr'.en => wr'.idx \in 0 .. NUM_MFCC - 1 /\ wr'.data \in Nat
    BY <1>2, <1>4 DEF Speculate, LengthValid
  <2>3. DataOK'
    BY <1>1, <1>3, <2>2 DEF DecoderTypeOK, DataOK
  <2>4. FlagsOK'
    BY <1>1, <1>4 DEF DecoderTypeOK, FlagsOK, States
  <2> QED
    BY <2>1, <2>3, <2>4 DEF DecoderTypeOK
<1>6. Position'
  BY <1>1, <1>2, <1>3 DEF Position, HEADER
<1>7. Noted'
  <2>1. \A i \in 1 .. FIELD_BYTES : crc'[4 + FIELD_BYTES + i] = crc[4 + FIELD_BYTES + i]
    <3> SUFFICES ASSUME NEW i \in 1 .. FIELD_BYTES
                 PROVE  crc'[4 + FIELD_BYTES + i] = crc[4 + FIELD_BYTES + i]
      OBVIOUS
    <3>1. 4 + FIELD_BYTES + i \in 1 .. Len(crc)
      BY <1>2
    <3> QED
      BY <1>3, <3>1
  <2>2. crc'[1] = crc[1] /\ crc'[2] = crc[2] /\ crc'[3] = crc[3] /\ crc'[4] = crc[4]
    <3>1. 1 \in 1 .. Len(crc) /\ 2 \in 1 .. Len(crc) /\ 3 \in 1 .. Len(crc) /\ 4 \in 1 .. Len(crc)
      BY <1>2
    <3> QED
      BY <1>3, <3>1
  <2> QED
    BY <1>1, <1>2, <2>1, <2>2 DEF Noted, LengthValid
<1>8. StrobesEnd'
  BY <1>1 DEF StrobesEnd
<1> QED
  BY <1>5, <1>6, <1>7, <1>8

LEMMA ChecksumKeeps ==
  ASSUME DecInv, NEW b, TakeCrcL(b) \/ TakeCrcH(b)
  PROVE  DecInv'
<1> USE DEF DecInv, Silent, NoOutcome, NoWrite, Outcome, hdrVars, errVars, InPayload
<1>1. DecoderTypeOK'
  <2>1. CountersOK' /\ DataOK'
    BY DEF DecoderTypeOK, CountersOK, DataOK, TakeCrcL, TakeCrcH
  <2>2. CASE TakeCrcL(b)
    BY <2>1, <2>2 DEF DecoderTypeOK, FlagsOK, States, TakeCrcL
  <2>3. CASE TakeCrcH(b)
    BY <2>1, <2>3 DEF DecoderTypeOK, FlagsOK, States, TakeCrcH
  <2> QED
    BY <2>2, <2>3
<1>2. Position' /\ StrobesEnd'
  BY DEF Position, StrobesEnd, TakeCrcL, TakeCrcH
<1>3. Noted'
  BY DEF Noted, TakeCrcL, TakeCrcH, LengthValid
<1> QED
  BY <1>1, <1>2, <1>3

LEMMA ByteKeepsDecoder ==
  ASSUME DecInv, NEW b, b.val \in Nat, ByteEdge(b)
  PROVE  DecInv'
BY HuntKeeps, HeaderKeeps, LengthKeeps, FieldsKeep, PayloadKeeps, ChecksumKeeps DEF ByteEdge

LEMMA IdleKeepsDecoder ==
  ASSUME DecInv, IdleEdge
  PROVE  DecInv'
<1> USE DEF DecInv, IdleEdge, NoOutcome, NoWrite, Outcome, hdrVars, errVars, InPayload
<1>1. DecoderTypeOK'
  BY DEF DecoderTypeOK, CountersOK, DataOK, FlagsOK, States
<1>2. Position'
  BY DEF Position
<1>3. Noted'
  BY DEF Noted, LengthValid
<1>4. StrobesEnd'
  BY DEF StrobesEnd
<1> QED
  BY <1>1, <1>2, <1>3, <1>4

-----------------------------------------------------------------------------
(* The wire format. *)

\* What stands where in two sequences put together.
LEMMA ConcatNats ==
  ASSUME NEW s \in Seq(Nat), NEW t \in Seq(Nat)
  PROVE  /\ s \o t \in Seq(Nat) /\ Len(s) \in Nat /\ Len(t) \in Nat
         /\ Len(s \o t) = Len(s) + Len(t)
         /\ \A i \in 1 .. Len(s) : (s \o t)[i] = s[i]
         /\ \A i \in 1 .. Len(t) : (s \o t)[Len(s) + i] = t[i]
OBVIOUS

LEMMA ConcatBytes ==
  ASSUME NEW s \in Seq(Byte), NEW t \in Seq(Byte)
  PROVE  /\ s \o t \in Seq(Byte) /\ Len(s) \in Nat /\ Len(t) \in Nat
         /\ Len(s \o t) = Len(s) + Len(t)
         /\ \A i \in 1 .. Len(s) : (s \o t)[i] = s[i]
         /\ \A i \in 1 .. Len(t) : (s \o t)[Len(s) + i] = t[i]
OBVIOUS

\* The first four bytes of a body.
LEMMA FourNats ==
  ASSUME NEW w \in Nat, NEW x \in Nat, NEW y \in Nat, NEW z \in Nat, NEW front, front = <<w, x, y, z>>
  PROVE  /\ front \in Seq(Nat) /\ Len(front) = 4
         /\ front[1] = w /\ front[2] = x /\ front[3] = y /\ front[4] = z
OBVIOUS

LEMMA SentTypes ==
  ASSUME NEW p \in SentPacket
  PROVE  /\ p.payload \in Seq(Nat) /\ Len(p.payload) \in Nat
         /\ p.fn \in Nat /\ p.ver \in Nat /\ p.type \in Nat
<1>1. p.payload \in Seq(0 .. 255) /\ p.fn \in Nat /\ p.ver \in 0 .. 255 /\ p.type \in 0 .. 255
  BY Zenon DEF SentPacket
<1>2. 0 .. 255 \subseteq Nat
  OBVIOUS
<1>3. p.payload \in Seq(Nat)
  BY <1>1, <1>2, SeqMonotonic
<1> QED
  BY <1>1, <1>2, <1>3, LenProperties, Zenon

\* A checksum covers the header without SOF, and the payload.
LEMMA BodyShape ==
  ASSUME NEW p \in SentPacket
  PROVE  /\ Body(p) \in Seq(Nat) /\ Len(p.payload) \in Nat
         /\ Len(Body(p)) = HEADER + Len(p.payload)
         /\ Body(p)[1] = p.ver /\ Body(p)[2] = p.type
         /\ Body(p)[3] = Len(p.payload) % 256 /\ Body(p)[4] = Len(p.payload) \div 256
         /\ \A i \in 1 .. FIELD_BYTES : Body(p)[4 + FIELD_BYTES + i] = Field(p.fn)[i]
         /\ \A i \in 1 .. Len(p.payload) : Body(p)[HEADER + i] = p.payload[i]
<1>1. /\ FIELD_BYTES \in Nat /\ 4 \in Nat /\ 4 + FIELD_BYTES \in Nat
      /\ (4 + FIELD_BYTES) + FIELD_BYTES = HEADER /\ HEADER \in Nat
      /\ 1 \in 1 .. 4 /\ 2 \in 1 .. 4 /\ 3 \in 1 .. 4 /\ 4 \in 1 .. 4
  BY DEF HEADER
<1> DEFINE lo == Len(p.payload) % 256
           hi == Len(p.payload) \div 256
           front == <<p.ver, p.type, lo, hi>>
           ts == Field(0)
           fn == Field(p.fn)
           load == p.payload
           a == front \o ts
           h == a \o fn
           body == h \o load
<1>2. Body(p) = body
  BY Zenon DEF Body
<1>3. load \in Seq(Nat) /\ Len(load) \in Nat
  BY SentTypes, Zenon
<1>4. front \in Seq(Nat) /\ Len(front) = 4 /\ front[1] = p.ver /\ front[2] = p.type /\ front[3] = lo /\ front[4] = hi
  <2>1. p.ver \in Nat /\ p.type \in Nat
    BY SentTypes, Zenon
  <2>2. lo \in Nat /\ hi \in Nat
    <3> HIDE DEF load
    <3>1. \A n \in Nat : n % 256 \in Nat /\ n \div 256 \in Nat
      OBVIOUS
    <3> QED
      BY <1>3, <3>1, Zenon DEF load
  <2>3. front = <<p.ver, p.type, lo, hi>>
    BY Zenon
  <2> HIDE DEF lo, hi, front
  <2> QED
    BY <2>1, <2>2, <2>3, FourNats
<1>5. ts \in Seq(Nat) /\ fn \in Seq(Nat) /\ Len(ts) = FIELD_BYTES /\ Len(fn) = FIELD_BYTES
  <2>1. \A n \in Nat : Field(n) \in Seq(Nat) /\ Len(Field(n)) = FIELD_BYTES
    BY DEF Field
  <2> QED
    BY <2>1, SentTypes
<1> HIDE DEF front, ts, fn, load
<1>6. /\ a \in Seq(Nat) /\ Len(a) = 4 + FIELD_BYTES
      /\ \A i \in 1 .. 4 : a[i] = front[i]
  <2>1. /\ a \in Seq(Nat) /\ Len(a) = Len(front) + Len(ts)
        /\ \A i \in 1 .. Len(front) : a[i] = front[i]
    BY <1>4, <1>5, ConcatNats, Zenon
  <2> QED
    BY <1>4, <1>5, <2>1, Zenon
<1> HIDE DEF a
<1>7. /\ h \in Seq(Nat) /\ Len(h) = HEADER
      /\ \A i \in 1 .. 4 + FIELD_BYTES : h[i] = a[i]
      /\ \A i \in 1 .. FIELD_BYTES : h[(4 + FIELD_BYTES) + i] = fn[i]
  <2>1. /\ h \in Seq(Nat) /\ Len(h) = Len(a) + Len(fn)
        /\ \A i \in 1 .. Len(a) : h[i] = a[i]
        /\ \A i \in 1 .. Len(fn) : h[Len(a) + i] = fn[i]
    BY <1>5, <1>6, ConcatNats, Zenon
  <2> QED
    BY <1>1, <1>5, <1>6, <2>1, Zenon
<1> HIDE DEF h
<1>8. /\ body \in Seq(Nat) /\ Len(body) = HEADER + Len(load)
      /\ \A i \in 1 .. HEADER : body[i] = h[i]
      /\ \A i \in 1 .. Len(load) : body[HEADER + i] = load[i]
  <2>1. /\ body \in Seq(Nat) /\ Len(body) = Len(h) + Len(load)
        /\ \A i \in 1 .. Len(h) : body[i] = h[i]
        /\ \A i \in 1 .. Len(load) : body[Len(h) + i] = load[i]
    BY <1>3, <1>7, ConcatNats, Zenon
  <2> QED
    BY <1>7, <2>1, Zenon
<1> HIDE DEF body
<1>9. ASSUME NEW i \in 1 .. 4 PROVE body[i] = front[i]
  <2>1. i \in 1 .. 4 + FIELD_BYTES
    BY <1>1
  <2>2. i \in 1 .. HEADER
    BY <1>1, <2>1
  <2> QED
    BY <1>6, <1>7, <1>8, <2>1, <2>2, Zenon
<1>10. ASSUME NEW i \in 1 .. FIELD_BYTES PROVE body[4 + FIELD_BYTES + i] = fn[i]
  <2>1. (4 + FIELD_BYTES) + i \in 1 .. HEADER
    BY <1>1
  <2> QED
    BY <1>7, <1>8, <2>1, Zenon
<1>11. body[1] = p.ver /\ body[2] = p.type /\ body[3] = lo /\ body[4] = hi
  BY <1>1, <1>4, <1>9, Zenon
<1> HIDE DEF lo, hi
<1> QED
  BY <1>2, <1>3, <1>8, <1>10, <1>11, Zenon DEF lo, hi, fn, load

\* A packet is SOF, the body and the two bytes of its checksum.
LEMMA WireShape ==
  ASSUME NEW p \in SentPacket
  PROVE  /\ Wire(p) \in Seq(Byte) /\ Len(Wire(p)) = Len(Body(p)) + 3
         /\ Wire(p)[1] = PlainByte(SOF)
         /\ \A i \in 1 .. Len(Body(p)) : Wire(p)[i + 1] = PlainByte(Body(p)[i])
         /\ Wire(p)[Len(Body(p)) + 2] = SumByte("lo", Body(p))
         /\ Wire(p)[Len(Body(p)) + 3] = SumByte("hi", Body(p))
<1> DEFINE body == Body(p)
           n == Len(body)
           start == <<PlainByte(SOF)>>
           plain == [i \in 1 .. n |-> PlainByte(body[i])]
           sum == <<SumByte("lo", body), SumByte("hi", body)>>
           w == start \o plain
           wire == w \o sum
<1>1. Wire(p) = wire
  BY Zenon DEF Wire
<1>2. body \in Seq(Nat) /\ n \in Nat
  BY BodyShape, LenProperties, Zenon
<1> HIDE DEF body
<1>3. start \in Seq(Byte) /\ Len(start) = 1 /\ start[1] = PlainByte(SOF)
  <2>1. PlainByte(SOF) \in Byte
    BY DEF PlainByte, Byte, Sums
  <2> QED
    BY <2>1
<1>4. plain \in Seq(Byte) /\ Len(plain) = n /\ \A i \in 1 .. n : plain[i] = PlainByte(body[i])
  <2>1. \A i \in 1 .. n : PlainByte(body[i]) \in Byte
    BY <1>2, ElementOfSeq DEF PlainByte, Byte, Sums
  <2>2. plain \in Seq(Byte)
    BY <1>2, <2>1, IsASeq
  <2>3. Len(plain) = n
    <3> HIDE DEF n
    <3> QED
      BY <1>2
  <2> QED
    BY <2>2, <2>3
<1>5. sum \in Seq(Byte) /\ Len(sum) = 2 /\ sum[1] = SumByte("lo", body) /\ sum[2] = SumByte("hi", body)
  <2>1. \A half \in {"lo", "hi"} : SumByte(half, body) \in Byte
    BY <1>2 DEF SumByte, Byte, Sums
  <2> QED
    BY <2>1
<1> HIDE DEF n, start, plain, sum
<1>6. w \in Seq(Byte) /\ Len(w) = 1 + n /\ w[1] = start[1] /\ \A i \in 1 .. n : w[1 + i] = plain[i]
  <2>1. /\ w \in Seq(Byte) /\ Len(w) = Len(start) + Len(plain)
        /\ \A i \in 1 .. Len(start) : w[i] = start[i]
        /\ \A i \in 1 .. Len(plain) : w[Len(start) + i] = plain[i]
    BY <1>3, <1>4, ConcatBytes, Zenon
  <2>2. 1 \in 1 .. 1
    OBVIOUS
  <2> QED
    BY <1>3, <1>4, <2>1, <2>2, Zenon
<1> HIDE DEF w
<1>7. /\ wire \in Seq(Byte) /\ Len(wire) = (1 + n) + 2
      /\ \A i \in 1 .. 1 + n : wire[i] = w[i]
      /\ \A i \in 1 .. 2 : wire[(1 + n) + i] = sum[i]
  <2>1. /\ wire \in Seq(Byte) /\ Len(wire) = Len(w) + Len(sum)
        /\ \A i \in 1 .. Len(w) : wire[i] = w[i]
        /\ \A i \in 1 .. Len(sum) : wire[Len(w) + i] = sum[i]
    BY <1>5, <1>6, ConcatBytes, Zenon
  <2> QED
    BY <1>5, <1>6, <2>1, Zenon
<1> HIDE DEF wire
<1>8. wire[1] = PlainByte(SOF)
  <2>1. 1 \in 1 .. 1 + n
    BY <1>2
  <2> QED
    BY <1>3, <1>6, <1>7, <2>1, Zenon
<1>9. wire[n + 2] = SumByte("lo", body) /\ wire[n + 3] = SumByte("hi", body)
  <2>1. 1 \in 1 .. 2 /\ 2 \in 1 .. 2 /\ (1 + n) + 1 = n + 2 /\ (1 + n) + 2 = n + 3
    BY <1>2
  <2> QED
    BY <1>5, <1>7, <2>1, Zenon
<1>10. ASSUME NEW i \in 1 .. n PROVE wire[i + 1] = PlainByte(body[i])
  <2>1. 1 + i \in 1 .. 1 + n /\ 1 + i = i + 1
    BY <1>2
  <2> QED
    BY <1>4, <1>6, <1>7, <2>1, Zenon
<1>11. Len(wire) = n + 3
  BY <1>2, <1>7
<1> QED
  BY <1>1, <1>7, <1>8, <1>9, <1>10, <1>11, Zenon DEF n, body

-----------------------------------------------------------------------------
(* The slot under speculative write. *)

\* A write on its way lands on every edge inside a packet.
LEMMA WriteLands ==
  ASSUME DecInv, slot \in [0 .. NUM_MFCC - 1 -> Nat], SlotEdge
  PROVE  /\ slot' \in [0 .. NUM_MFCC - 1 -> Nat]
         /\ state # "HUNT" => \A i \in 0 .. NUM_MFCC - 1 : slot'[i] = Landed(i)
<1>1. (wr.en => wr.idx \in 0 .. NUM_MFCC - 1 /\ wr.data \in Nat) /\ (state # "HUNT" => out.kind # "commit")
  BY DEF DecInv, DecoderTypeOK, DataOK, StrobesEnd
<1>2. CASE out.kind = "commit"
  BY <1>1, <1>2 DEF SlotEdge, EmptySlot
<1>3. CASE out.kind # "commit" /\ wr.en
  BY <1>1, <1>3 DEF SlotEdge, Landed
<1>4. CASE out.kind # "commit" /\ ~wr.en
  BY <1>4 DEF SlotEdge, Landed
<1> QED
  BY <1>2, <1>3, <1>4

LEMMA ByteKeepsSlot ==
  ASSUME DecInv, SlotInv, NEW b, b.val \in Nat, ByteEdge(b), SlotEdge
  PROVE  SlotInv'
<1>1. /\ slot' \in [0 .. NUM_MFCC - 1 -> Nat]
      /\ state # "HUNT" => \A i \in 0 .. NUM_MFCC - 1 : slot'[i] = Landed(i)
  BY WriteLands DEF SlotInv
<1>2. Position' /\ CountersOK' /\ Position /\ CountersOK /\ crc \in Seq(Nat)
  BY ByteKeepsDecoder DEF DecInv, DecoderTypeOK, DataOK
<1> DEFINE Holds(i) == HEADER + i < Len(crc) => Landed(i) = crc[HEADER + i + 1]
<1>3. SUFFICES ASSUME InPayload', Speculate', NEW i \in 0 .. NUM_MFCC - 1
               PROVE  Holds(i)'
  BY <1>1 DEF SlotInv, HEADER
<1>4. HEADER \in Nat
  BY DEF HEADER
<1>5. CASE TakeFn(b)
  <2>1. Len(crc') = HEADER
    <3>1. Fold(b) /\ state = "FN" /\ mb_cnt = FIELD_BYTES - 1
      BY <1>3, <1>5 DEF TakeFn, InPayload, LastOfField
    <3>2. Len(crc') = Len(crc) + 1
      BY <1>2, <3>1, FoldAppends
    <3> QED
      BY <1>2, <3>1, <3>2 DEF Position, HEADER
  <2> QED
    BY <1>3, <1>4, <2>1 DEF HEADER
<1>6. CASE TakePayload(b)
  <2>1. /\ state = "PAYLOAD" /\ pl_idx' = pl_idx + 1 /\ Fold(b)
        /\ type_q' = type_q /\ len_q' = len_q /\ ver_err' = ver_err
        /\ wr' = IF Speculate THEN [en |-> TRUE, idx |-> pl_idx, data |-> b.val] ELSE NoWrite
    BY <1>6 DEF TakePayload, errVars
  <2>2. Speculate
    BY <1>3, <2>1 DEF Speculate
  <2>3. wr' = [en |-> TRUE, idx |-> pl_idx, data |-> b.val]
    BY <2>1, <2>2
  <2>4. /\ Len(crc) \in Nat /\ Len(crc') = Len(crc) + 1 /\ crc'[Len(crc) + 1] = b.val
        /\ \A j \in 1 .. Len(crc) : crc'[j] = crc[j]
    BY <1>2, <2>1, FoldAppends
  <2>5. Len(crc) = HEADER + pl_idx /\ pl_idx \in Nat
    BY <1>2, <2>1 DEF Position, CountersOK
  <2>6. Landed(i)' = IF pl_idx = i THEN b.val ELSE slot'[i]
    BY <2>3 DEF Landed
  <2>7. CASE i = pl_idx
    BY <2>4, <2>5, <2>6, <2>7 DEF HEADER
  <2>8. CASE i < pl_idx
    <3>1. Landed(i)' = Landed(i)
      BY <1>1, <2>1, <2>6, <2>8
    <3>2. HEADER + i < Len(crc) /\ HEADER + i + 1 \in 1 .. Len(crc)
      BY <1>4, <2>5, <2>8
    <3>3. Landed(i) = crc[HEADER + i + 1]
      BY <2>1, <2>2, <3>2 DEF SlotInv, InPayload
    <3>4. crc'[HEADER + i + 1] = crc[HEADER + i + 1]
      BY <2>4, <3>2
    <3> QED
      BY <3>1, <3>3, <3>4 DEF HEADER
  <2>9. CASE i > pl_idx
    BY <1>4, <2>4, <2>5, <2>9 DEF HEADER
  <2> QED
    BY <2>5, <2>7, <2>8, <2>9
<1>7. CASE TakeCrcL(b)
  <2>1. /\ state = "CRC_L" /\ wr' = NoWrite /\ crc' = crc
        /\ type_q' = type_q /\ len_q' = len_q /\ ver_err' = ver_err
    BY <1>7 DEF TakeCrcL, Silent, hdrVars, errVars
  <2>2. InPayload /\ Speculate
    BY <1>3, <2>1 DEF InPayload, Speculate
  <2>3. Landed(i)' = Landed(i)
    BY <1>1, <2>1 DEF Landed, NoWrite
  <2>4. Holds(i)
    BY <2>2 DEF SlotInv
  <2> QED
    BY <2>1, <2>3, <2>4 DEF HEADER
<1>8. CASE Hunt(b) \/ TakeVer(b) \/ TakeType(b) \/ TakeLenL(b) \/ TakeLenH(b) \/ TakeTs(b) \/ TakeCrcH(b)
  BY <1>3, <1>8 DEF Hunt, TakeVer, TakeType, TakeLenL, TakeLenH, TakeTs, TakeCrcH, InPayload
<1> QED
  BY <1>5, <1>6, <1>7, <1>8 DEF ByteEdge

LEMMA IdleKeepsSlot ==
  ASSUME DecInv, SlotInv, IdleEdge, SlotEdge
  PROVE  SlotInv'
<1>1. /\ slot' \in [0 .. NUM_MFCC - 1 -> Nat]
      /\ state # "HUNT" => \A i \in 0 .. NUM_MFCC - 1 : slot'[i] = Landed(i)
  BY WriteLands DEF SlotInv
<1>2. /\ wr' = NoWrite /\ crc' = crc /\ type_q' = type_q /\ len_q' = len_q /\ ver_err' = ver_err
      /\ state' \in {"HUNT", state}
  BY DEF IdleEdge, hdrVars, errVars
<1>3. SUFFICES ASSUME InPayload', Speculate', NEW i \in 0 .. NUM_MFCC - 1
               PROVE  (HEADER + i < Len(crc) => Landed(i) = crc[HEADER + i + 1])'
  BY <1>1 DEF SlotInv, HEADER
<1>4. InPayload /\ Speculate
  BY <1>2, <1>3 DEF InPayload, Speculate
<1>5. Landed(i)' = Landed(i)
  BY <1>1, <1>2, <1>4 DEF Landed, NoWrite, InPayload
<1>6. HEADER + i < Len(crc) => Landed(i) = crc[HEADER + i + 1]
  BY <1>4 DEF SlotInv
<1> QED
  BY <1>2, <1>5, <1>6 DEF HEADER

-----------------------------------------------------------------------------
(* A dispatch. *)

\* Registers noted from exactly the body of p give the verdict on p.
LEMMA NotedVerdict ==
  ASSUME DecInv, state = "CRC_H", NEW p \in SentPacket, crc = Body(p)
  PROVE  Outcome(Dispatch, type_q, fn_q) = Verdict(p) /\ len_q = Len(p.payload)
<1>1. /\ Len(p.payload) \in Nat /\ Len(crc) = HEADER + Len(p.payload)
      /\ crc[1] = p.ver /\ crc[2] = p.type
      /\ \A i \in 1 .. FIELD_BYTES : crc[4 + FIELD_BYTES + i] = Field(p.fn)[i]
  <2> DEFINE body == Body(p)
  <2>1. /\ Len(p.payload) \in Nat /\ Len(body) = HEADER + Len(p.payload)
        /\ body[1] = p.ver /\ body[2] = p.type
        /\ \A i \in 1 .. FIELD_BYTES : body[4 + FIELD_BYTES + i] = Field(p.fn)[i]
    BY BodyShape, Zenon
  <2>2. crc = body
    OBVIOUS
  <2> HIDE DEF body
  <2> QED
    BY <2>1, <2>2, Zenon
<1>2. /\ Len(crc) = HEADER + len_q /\ (ver_err <=> crc[1] # VERSION) /\ type_q = crc[2]
      /\ (len_err <=> ~LengthValid(type_q, len_q))
      /\ \A i \in 1 .. FIELD_BYTES : fn_q[i] = crc[4 + FIELD_BYTES + i]
  BY DEF DecInv, Position, Noted, InPayload
<1>3. len_q = Len(p.payload)
  <2>1. len_q \in Nat /\ HEADER \in Nat
    BY DEF DecInv, DecoderTypeOK, CountersOK, HEADER
  <2> QED
    BY <1>1, <1>2, <2>1
<1>4. fn_q = Field(p.fn)
  <2>1. fn_q \in [1 .. FIELD_BYTES -> Nat] /\ Field(p.fn) = [i \in 1 .. FIELD_BYTES |-> Field(p.fn)[i]]
    BY DEF DecInv, DecoderTypeOK, DataOK, Field
  <2>2. \A i \in 1 .. FIELD_BYTES : fn_q[i] = Field(p.fn)[i]
    BY <1>1, <1>2, Zenon
  <2> QED
    BY <2>1, <2>2
<1>5. (ver_err <=> p.ver # VERSION) /\ type_q = p.type /\ (len_err <=> ~LengthValid(p.type, Len(p.payload)))
  BY <1>1, <1>2, <1>3, Zenon
<1> HIDE DEF LengthValid
<1> QED
  BY <1>3, <1>4, <1>5 DEF Dispatch, Verdict

\* Only the last byte of a packet dispatches, and then that packet.
LEMMA DispatchIsCurrent ==
  ASSUME DecInv, LineOK, SumsInv, ByteEdge(Head(line)), line # <<>>, Dispatched'
  PROVE  /\ Len(line) = 1 /\ state = "CRC_H" /\ crc = Body(Current)
         /\ Current \in SentPacket /\ Current.fn = Len(log) /\ Len(log) \in Nat \ {0}
         /\ out' = Verdict(Current)
<1> DEFINE b == Head(line)
<1>1. TakeCrcH(b)
  BY DEF ByteEdge, Hunt, TakeVer, TakeType, TakeLenL, TakeLenH, TakeTs, TakeFn, TakePayload, TakeCrcL,
         Silent, NoOutcome, Outcome, Dispatched
<1>2. state = "CRC_H" /\ b.sum = <<"hi", crc>> /\ out' = Outcome(Dispatch, type_q, fn_q)
  BY <1>1 DEF TakeCrcH, ChecksumOk, Dispatched, Outcome
<1>3. Len(log) \in Nat \ {0} /\ Current \in SentPacket /\ Current.fn = Len(log)
  <2>1. log # <<>> /\ log \in Seq(SentPacket) /\ \A n \in 1 .. Len(log) : log[n].fn = n
    BY DEF SumsInv, LineOK, LogOK
  <2>2. Len(log) \in Nat \ {0}
    BY <2>1, EmptySeq
  <2>3. Len(log) \in 1 .. Len(log)
    BY <2>2
  <2> QED
    BY <2>1, <2>2, <2>3, ElementOfSeq DEF Current
<1>4. b.sum # <<>> /\ b.sum[1] = "hi" /\ b.sum[2] = crc
  BY <1>2
<1>5. Len(line) \in Nat \ {0} /\ b = line[1]
  BY EmptySeq DEF LineOK
<1>6. b.sum[2] = Body(Current) /\ 1 = Len(line)
  <2>1. 1 \in 1 .. Len(line)
    BY <1>5
  <2> QED
    BY <1>4, <1>5, <2>1, Zenon DEF SumsInv
<1> QED
  BY <1>2, <1>3, <1>4, <1>6, NotedVerdict

\* The slot that a committed frame is taken from.
LEMMA CommitIsWhole ==
  ASSUME DecInv, SlotInv, SlotEdge, state = "CRC_H", NEW p \in SentPacket, crc = Body(p),
         Verdict(p).kind = "commit"
  PROVE  \A i \in 0 .. NUM_MFCC - 1 : slot'[i] = p.payload[i + 1]
<1>1. /\ \A i \in 1 .. Len(p.payload) : crc[HEADER + i] = p.payload[i]
      /\ Len(crc) = HEADER + Len(p.payload) /\ Len(p.payload) \in Nat
      /\ crc[1] = p.ver /\ crc[2] = p.type
  <2> DEFINE body == Body(p)
  <2>1. /\ \A i \in 1 .. Len(p.payload) : body[HEADER + i] = p.payload[i]
        /\ Len(body) = HEADER + Len(p.payload) /\ Len(p.payload) \in Nat
        /\ body[1] = p.ver /\ body[2] = p.type
    BY BodyShape, Zenon
  <2>2. crc = body
    OBVIOUS
  <2> HIDE DEF body
  <2> QED
    BY <2>1, <2>2, Zenon
<1>2. p.ver = VERSION /\ p.type = DATA_FEATURE /\ Len(p.payload) = NUM_MFCC
  BY DEF Verdict, Outcome, LengthValid
<1>3. (ver_err <=> crc[1] # VERSION) /\ type_q = crc[2] /\ len_q = Len(p.payload)
  BY NotedVerdict DEF DecInv, Noted
<1>4. InPayload /\ Speculate
  BY <1>1, <1>2, <1>3 DEF InPayload, Speculate, LengthValid
<1>5. ASSUME NEW i \in 0 .. NUM_MFCC - 1 PROVE slot'[i] = p.payload[i + 1]
  <2>1. slot'[i] = Landed(i)
    BY WriteLands DEF SlotInv
  <2>2. HEADER + i < Len(crc) /\ HEADER + i + 1 = HEADER + (i + 1) /\ i + 1 \in 1 .. Len(p.payload)
    BY <1>1, <1>2 DEF HEADER
  <2>3. Landed(i) = crc[HEADER + (i + 1)]
    BY <1>4, <2>2 DEF SlotInv
  <2> QED
    BY <1>1, <2>1, <2>2, <2>3, Zenon
<1> QED
  BY <1>5

-----------------------------------------------------------------------------
(* A packet that meets no fault keeps the decoder in step. *)

LEMMA Rejoined ==
  ASSUME NEW n \in Nat, NEW hi, NEW lo, hi = n \div 256, lo % 256 = (n % 256) % 256
  PROVE  (hi * 256) + (lo % 256) = n
OBVIOUS

LEMMA RejoinedByte ==
  ASSUME NEW n \in Nat, NEW b, b.val = n \div 256, len_q % 256 = (n % 256) % 256
  PROVE  (b.val * 256) + (len_q % 256) = n
OBVIOUS

\* As long as the folded bytes are those of p, the length is p's.
LEMMA LengthInStep ==
  ASSUME DecInv, NEW p \in SentPacket, NEW k \in Nat, k >= 4, Len(crc) = k,
         \A i \in 1 .. k : crc[i] = Body(p)[i],
         state \in {"TS", "FN"} \/ InPayload
  PROVE  len_q = Len(p.payload)
<1> DEFINE n == Len(p.payload)
<1>1. n \in Nat /\ Body(p)[3] = n % 256 /\ Body(p)[4] = n \div 256
  BY BodyShape, Zenon
<1>2. len_q = (crc[4] * 256) + (crc[3] % 256)
  BY DEF DecInv, Noted
<1>3. crc[3] = Body(p)[3] /\ crc[4] = Body(p)[4]
  <2>1. 3 \in 1 .. k /\ 4 \in 1 .. k
    OBVIOUS
  <2> QED
    BY <2>1, Zenon
<1> HIDE DEF n
<1>4. crc[4] = n \div 256 /\ crc[3] % 256 = (n % 256) % 256
  BY <1>1, <1>3, Zenon
<1>5. len_q = n
  BY <1>1, <1>2, <1>4, Rejoined
<1> QED
  BY <1>5 DEF n

\* A byte of the body, on a decoder in step with the bytes before it.
LEMMA BodyByteInStep ==
  ASSUME DecInv, NEW p \in SentPacket, NEW n, n = Len(p.payload), n <= MAX_PAYLOAD,
         NEW body, body = Body(p), NEW k \in 1 .. Len(body), InStepWith(body, k),
         NEW b, b.val = body[k], ByteEdge(b)
  PROVE  InStepWith(body, k + 1)'
<1>0. body \in Seq(Nat) /\ body[3] = n % 256 /\ body[4] = n \div 256
  BY BodyShape, Zenon
<1>1. n \in Nat /\ Len(body) = HEADER + n
  BY BodyShape, Zenon
<1>2. HEADER \in Nat /\ HEADER >= 6
  BY DEF HEADER
<1>3. k \in Nat /\ 1 <= k /\ k <= HEADER + n /\ Len(body) \in Nat /\ k <= Len(body)
  BY <1>1, <1>2
<1>4. b.val \in Nat
  BY <1>0, ElementOfSeq
<1>5. /\ state \notin {"HUNT", "CRC_H"} /\ Len(crc) = k - 1
      /\ \A i \in 1 .. k - 1 : crc[i] = body[i]
  BY <1>1, <1>2, <1>3 DEF InStepWith
<1>6. /\ crc \in Seq(Nat) /\ state \in States /\ Position /\ Noted /\ CountersOK
  BY DEF DecInv, DecoderTypeOK, DataOK, FlagsOK
<1>7. state \in {"TS", "FN"} \/ InPayload => len_q = n /\ k > 4
  <2> SUFFICES ASSUME state \in {"TS", "FN"} \/ InPayload PROVE len_q = n /\ k > 4
    OBVIOUS
  <2>1. Len(crc) >= 4
    BY <1>2, <1>6 DEF Position, CountersOK, InPayload
  <2>2. k - 1 \in Nat /\ k - 1 <= Len(body)
    BY <1>1, <1>2, <1>3
  <2> QED
    BY <1>3, <1>5, <2>1, <2>2, LengthInStep
<1>8. state # "CRC_L"
  BY <1>1, <1>2, <1>3, <1>5, <1>6, <1>7 DEF Position, InPayload
<1>9. Fold(b)
  BY <1>5, <1>8 DEF ByteEdge, Hunt, TakeVer, TakeType, TakeLenL, TakeLenH, TakeTs, TakeFn, TakePayload,
                    TakeCrcL, TakeCrcH
<1>10. /\ Len(crc') = k
       /\ \A i \in 1 .. k : crc'[i] = body[i]
  <2>1. /\ Len(crc') = Len(crc) + 1 /\ crc'[Len(crc) + 1] = b.val
        /\ \A i \in 1 .. Len(crc) : crc'[i] = crc[i]
    BY <1>4, <1>6, <1>9, FoldAppends
  <2>2. Len(crc') = k /\ crc'[k] = b.val /\ \A i \in 1 .. k - 1 : crc'[i] = crc[i]
    BY <1>3, <1>5, <2>1
  <2>3. ASSUME NEW i \in 1 .. k PROVE crc'[i] = body[i]
    <3>1. i = k \/ i \in 1 .. k - 1
      BY <1>3
    <3> QED
      BY <1>5, <2>2, <3>1, Zenon
  <2> QED
    BY <2>2, <2>3
<1>11. state' \notin {"HUNT", "CRC_H"}
  <2>1. CASE TakeLenH(b)
    <3>1. len_q % 256 = crc[3] % 256
      BY <1>6, <2>1 DEF Noted, TakeLenH
    <3>2. k = 4
      <4>1. Len(crc) = 3
        BY <1>6, <2>1 DEF Position, TakeLenH
      <4>2. k - 1 = 3
        BY <1>5, <4>1, Zenon
      <4> QED
        BY <1>3, <4>2
    <3>3. b.val = n \div 256 /\ crc[3] = n % 256
      <4>1. 3 \in 1 .. k - 1
        BY <3>2
      <4> QED
        BY <1>0, <1>5, <3>2, <4>1, Zenon
    <3>4. (b.val * 256) + (len_q % 256) = n
      <4>1. len_q % 256 = (n % 256) % 256
        BY <3>1, <3>3, Zenon
      <4>2. b.val = n \div 256
        BY <3>3, Zenon
      <4> QED
        BY <1>1, <4>1, <4>2, RejoinedByte, Zenon
    <3> QED
      BY <1>1, <2>1, <3>4 DEF TakeLenH
  <2>2. CASE ~TakeLenH(b)
    BY <1>5, <1>8, <2>2 DEF ByteEdge, Hunt, TakeVer, TakeType, TakeLenL, TakeTs, TakeFn, TakePayload,
                            TakeCrcL, TakeCrcH
  <2> QED
    BY <2>1, <2>2
<1>12. k + 1 <= Len(body) + 1 /\ k + 1 # Len(body) + 2 /\ (k + 1) - 1 = k
  BY <1>3
<1> QED
  BY <1>10, <1>11, <1>12 DEF InStepWith

\* Before the payload the decoder has folded less than a header.
LEMMA BeforePayload ==
  ASSUME NEW m \in 0 .. FIELD_BYTES - 1,
         NEW len, len \in 0 .. 3 \/ len = 4 + m \/ len = 4 + FIELD_BYTES + m
  PROVE  len < HEADER
BY DEF HEADER

\* The first byte of the checksum, on a decoder in step with the whole body.
LEMMA SumByteInStep ==
  ASSUME DecInv, NEW p \in SentPacket, NEW body, body = Body(p),
         InStepWith(body, Len(body) + 1), ByteEdge(SumByte("lo", body))
  PROVE  InStepWith(body, Len(body) + 2)'
<1> DEFINE n == Len(p.payload)
<1>0. body \in Seq(Nat)
  BY BodyShape, Zenon
<1>1. n \in Nat /\ Len(body) = HEADER + n
  BY BodyShape, Zenon
<1>2. HEADER \in Nat /\ HEADER >= 6
  BY DEF HEADER
<1>3. /\ state \notin {"HUNT", "CRC_H"} /\ Len(crc) = Len(body)
      /\ \A i \in 1 .. Len(body) : crc[i] = body[i]
  BY <1>1, <1>2 DEF InStepWith
<1>4. /\ crc \in Seq(Nat) /\ state \in States /\ Position /\ Noted /\ CountersOK
  BY DEF DecInv, DecoderTypeOK, DataOK, FlagsOK
<1>5. state \in {"TS", "FN"} \/ InPayload => len_q = n
  <2> HIDE DEF n
  <2>1. Len(body) \in Nat /\ Len(crc) >= 4
    BY <1>1, <1>2, <1>3
  <2> QED
    BY <1>3, <2>1, LengthInStep DEF n
<1>6. crc = body
  BY <1>0, <1>3, <1>4, SeqEqual
<1> HIDE DEF n
<1>7. state = "CRC_L"
  <2>1. ASSUME state \in {"VER", "TYPE", "LEN_L", "LEN_H", "TS", "FN"} PROVE Len(crc) < HEADER
    <3>1. mb_cnt \in 0 .. FIELD_BYTES - 1
      BY <1>4 DEF CountersOK
    <3>2. Len(crc) \in 0 .. 3 \/ Len(crc) = 4 + mb_cnt \/ Len(crc) = 4 + FIELD_BYTES + mb_cnt
      BY <1>4, <2>1 DEF Position
    <3> QED
      BY <3>1, <3>2, BeforePayload, Zenon
  <2>2. Len(crc) >= HEADER
    BY <1>1, <1>2, <1>3
  <2>3. ASSUME state = "PAYLOAD" PROVE FALSE
    <3>1. Len(crc) = HEADER + pl_idx /\ pl_idx < n /\ pl_idx \in Nat
      BY <1>4, <1>5, <2>3 DEF Position, CountersOK, InPayload
    <3> QED
      BY <1>1, <1>2, <1>3, <3>1
  <2>4. Len(crc) < HEADER => ~(Len(crc) >= HEADER)
    BY <1>1, <1>2, <1>3
  <2> QED
    BY <1>3, <1>4, <2>1, <2>2, <2>3, <2>4, Zenon DEF States
<1>8. TakeCrcL(SumByte("lo", body))
  BY <1>7 DEF ByteEdge, Hunt, TakeVer, TakeType, TakeLenL, TakeLenH, TakeTs, TakeFn, TakePayload, TakeCrcH
<1>9. state' = "CRC_H" /\ crc' = body /\ crc_lo' = SumByte("lo", body)
  BY <1>6, <1>8 DEF TakeCrcL
<1>10. ~(Len(body) + 2 <= Len(body) + 1)
  BY <1>1, <1>2
<1> QED
  BY <1>9, <1>10 DEF InStepWith

-----------------------------------------------------------------------------
(* The line. *)

\* The line after a byte has left it.
LEMMA TailShape ==
  ASSUME LineOK, line # <<>>, line' = Tail(line)
  PROVE  /\ Len(line) \in Nat \ {0} /\ Head(line) = line[1] /\ Head(line) \in Byte
         /\ line' \in Seq(Byte) /\ Len(line') = Len(line) - 1
         /\ \A i \in 1 .. Len(line') : i + 1 \in 1 .. Len(line) /\ line'[i] = line[i + 1]
<1>1. line \in Seq(Byte)
  BY DEF LineOK
<1>2. Len(line) \in Nat \ {0} /\ Head(line) = line[1]
  BY <1>1, EmptySeq
<1>3. /\ Head(line) \in Byte /\ line' \in Seq(Byte) /\ Len(line') = Len(line) - 1
      /\ \A i \in 1 .. Len(line') : line'[i] = line[i + 1]
  BY <1>1, HeadTailProperties
<1>4. \A i \in 1 .. Len(line') : i + 1 \in 1 .. Len(line)
  BY <1>2, <1>3
<1> QED
  BY <1>2, <1>3, <1>4

\* What the sender adds to the log and puts on the line.
LEMMA SendShape ==
  ASSUME LineOK, NEW p \in PACKETS, Send(p)
  PROVE  /\ log' \in Seq(SentPacket) /\ Len(log) \in Nat /\ Len(log') = Len(log) + 1
         /\ \A n \in 1 .. Len(log) : log'[n] = log[n]
         /\ Current' \in SentPacket /\ Current'.fn = Len(log) + 1 /\ Len(Current'.payload) <= MAX_PAYLOAD
         /\ line = <<>> /\ line' = Wire(Current')
<1> DEFINE packet == [ver |-> p.ver, type |-> p.type, payload |-> p.payload, fn |-> Len(log) + 1]
<1>1. log \in Seq(SentPacket) /\ Len(log) \in Nat
  BY LenProperties DEF LineOK, LogOK
<1>2. packet \in SentPacket
  <2>1. p \in [ver : 0 .. 255, type : 0 .. 255, payload : Seq(0 .. 255)]
    BY LinkAssumption
  <2>2. p.ver \in 0 .. 255 /\ p.type \in 0 .. 255 /\ p.payload \in Seq(0 .. 255)
    BY <2>1, Zenon
  <2>3. Len(log) + 1 \in Nat
    BY <1>1
  <2> QED
    BY <2>2, <2>3, Zenon DEF SentPacket
<1>3. Len(packet.payload) <= MAX_PAYLOAD /\ packet.fn = Len(log) + 1
  BY LinkAssumption
<1>4. line = <<>> /\ log' = Append(log, packet) /\ line' = Wire(packet)
  BY DEF Send
<1> HIDE DEF packet
<1>5. /\ log' \in Seq(SentPacket) /\ Len(log') = Len(log) + 1 /\ log'[Len(log) + 1] = packet
      /\ \A n \in 1 .. Len(log) : log'[n] = log[n]
  BY <1>1, <1>2, <1>4, AppendProperties
<1>6. Current' = packet
  BY <1>5, Zenon DEF Current
<1> QED
  BY <1>1, <1>2, <1>3, <1>4, <1>5, <1>6, Zenon

LEMMA NextKeepsLine ==
  ASSUME LineOK, [Next]_vars
  PROVE  LineOK'
<1>1. CASE UNCHANGED <<line, log>>
  BY <1>1 DEF LineOK, LogOK
<1>2. ASSUME NEW p \in PACKETS, Send(p) PROVE LineOK'
  <2>1. line' \in Seq(Byte)
    BY <1>2, SendShape, WireShape
  <2>2. log' \in Seq(SentPacket) /\ Len(log) \in Nat /\ Len(log') = Len(log) + 1
    BY <1>2, SendShape
  <2>3. ASSUME NEW n \in 1 .. Len(log') PROVE log'[n].fn = n /\ Len(log'[n].payload) <= MAX_PAYLOAD
    <3>1. n = Len(log) + 1 \/ n \in 1 .. Len(log)
      BY <2>2
    <3>2. CASE n = Len(log) + 1
      BY <1>2, <2>2, <3>2, SendShape, Zenon DEF Current
    <3>3. CASE n \in 1 .. Len(log)
      BY <1>2, <3>3, SendShape, Zenon DEF LineOK, LogOK
    <3> QED
      BY <3>1, <3>2, <3>3
  <2> QED
    BY <2>1, <2>2, <2>3 DEF LineOK, LogOK
<1>3. CASE Lose \/ Deliver
  BY <1>3, TailShape DEF Lose, Deliver, LineOK, LogOK
<1>4. ASSUME NEW v \in VALUES, Garble(v) PROVE LineOK'
  <2>1. PlainByte(v) \in Byte
    <3>1. v \in Nat
      BY LinkAssumption
    <3> QED
      BY <3>1 DEF PlainByte, Byte, Sums
  <2>2. 1 \in 1 .. Len(line)
    BY <1>4, EmptySeq DEF Garble, LineOK
  <2> QED
    BY <1>4, <2>1, <2>2, ExceptSeq DEF Garble, LineOK, LogOK
<1> QED
  BY <1>1, <1>2, <1>3, <1>4 DEF Next, Wait, Noise, vars, linkVars

\* Every checksum byte on the line is of the packet in flight.
LEMMA NextKeepsSums ==
  ASSUME LineOK, SumsInv, [Next]_vars
  PROVE  SumsInv'
<1>1. CASE UNCHANGED <<line, log>>
  BY <1>1 DEF SumsInv, Current
<1>2. ASSUME NEW p \in PACKETS, Send(p) PROVE SumsInv'
  <2>1. PICK q \in SentPacket : q = Current'
    BY <1>2, SendShape, Zenon
  <2> DEFINE body == Body(q)
  <2>2. /\ line' = Wire(q)
        /\ Len(line') = Len(body) + 3
        /\ \A i \in 1 .. Len(body) : line'[i + 1] = PlainByte(body[i])
        /\ line'[1] = PlainByte(SOF)
        /\ line'[Len(body) + 2] = SumByte("lo", body) /\ line'[Len(body) + 3] = SumByte("hi", body)
    BY <1>2, <2>1, SendShape, WireShape, Zenon
  <2>3. Len(body) \in Nat
    BY BodyShape, LenProperties
  <2>4. log' # <<>>
    <3>1. Len(log') = Len(log) + 1 /\ Len(log) \in Nat /\ log' \in Seq(SentPacket)
      BY <1>2, SendShape
    <3> QED
      BY <3>1, EmptySeq
  <2> HIDE DEF body
  <2>5. ASSUME NEW i \in 1 .. Len(line')
        PROVE  line'[i].sum = <<>> \/ (line'[i].sum[2] = body /\ (line'[i].sum[1] = "hi" => i = Len(line')))
    <3>1. i = 1 \/ i - 1 \in 1 .. Len(body) \/ i = Len(body) + 2 \/ i = Len(line')
      BY <2>2, <2>3
    <3>2. CASE i = 1
      BY <2>2, <3>2 DEF PlainByte
    <3>3. CASE i - 1 \in 1 .. Len(body)
      <4>1. (i - 1) + 1 = i
        OBVIOUS
      <4>2. line'[i] = PlainByte(body[i - 1])
        BY <2>2, <3>3, <4>1
      <4> QED
        BY <4>2 DEF PlainByte
    <3>4. CASE i = Len(body) + 2
      <4>1. line'[i] = SumByte("lo", body)
        BY <2>2, <3>4
      <4> QED
        BY <4>1 DEF SumByte
    <3>5. CASE i = Len(line')
      <4>1. line'[i] = SumByte("hi", body)
        BY <2>2, <3>5
      <4> QED
        BY <3>5, <4>1 DEF SumByte
    <3> QED
      BY <3>1, <3>2, <3>3, <3>4, <3>5
  <2> QED
    BY <2>1, <2>4, <2>5 DEF SumsInv, body
<1>3. CASE Lose \/ Deliver
  <2>1. /\ line # <<>> /\ log' = log
        /\ Len(line) \in Nat \ {0} /\ Len(line') = Len(line) - 1
        /\ \A i \in 1 .. Len(line') : i + 1 \in 1 .. Len(line) /\ line'[i] = line[i + 1]
    BY <1>3, TailShape DEF Lose, Deliver
  <2>2. ASSUME NEW i \in 1 .. Len(line')
        PROVE  line'[i].sum = <<>> \/ (line'[i].sum[2] = Body(Current) /\ (line'[i].sum[1] = "hi" => i = Len(line')))
    <3>1. i + 1 \in 1 .. Len(line) /\ line'[i] = line[i + 1]
      BY <2>1
    <3>2. i + 1 = Len(line) => i = Len(line')
      BY <2>1
    <3> QED
      BY <3>1, <3>2, Zenon DEF SumsInv
  <2> QED
    BY <2>1, <2>2 DEF SumsInv, Current
<1>4. ASSUME NEW v \in VALUES, Garble(v) PROVE SumsInv'
  <2>1. line # <<>> /\ log' = log /\ line' = [line EXCEPT ![1] = PlainByte(v)] /\ line \in Seq(Byte)
    BY <1>4 DEF Garble, LineOK
  <2>2. /\ Len(line') = Len(line)
        /\ \A i \in 1 .. Len(line) : line'[i] = IF i = 1 THEN PlainByte(v) ELSE line[i]
    BY <2>1
  <2>3. PlainByte(v).sum = <<>>
    BY DEF PlainByte
  <2> QED
    BY <2>1, <2>2, <2>3, Zenon DEF SumsInv, Current
<1> QED
  BY <1>1, <1>2, <1>3, <1>4 DEF Next, Wait, Noise, vars, linkVars

LEMMA QuietIsSilent ==
  ASSUME IdleEdge
  PROVE  ~Dispatched'
BY DEF IdleEdge, Dispatched, NoOutcome, Outcome

LEMMA PlainNeverDispatches ==
  ASSUME NEW v, ByteEdge(PlainByte(v))
  PROVE  ~Dispatched'
<1>1. ~ChecksumOk(crc_lo, PlainByte(v), crc)
  BY DEF ChecksumOk, PlainByte
<1> QED
  BY <1>1 DEF ByteEdge, Hunt, TakeVer, TakeType, TakeLenL, TakeLenH, TakeTs, TakeFn, TakePayload, TakeCrcL,
              TakeCrcH, Silent, NoOutcome, Outcome, Dispatched

\* The packet just dispatched is the newest one dispatched.
LEMMA LastMovesUp ==
  ASSUME LineOK, OrderInv, Remember
  PROVE  last' \in last .. Len(log) /\ (line # <<>> => last' < Len(log)) /\ Len(log) \in Nat
<1>1. Len(log) \in Nat
  BY LenProperties DEF LineOK, LogOK
<1>2. CASE ~Dispatched
  BY <1>1, <1>2 DEF Remember, OrderInv
<1>3. CASE Dispatched
  <2>1. PICK n \in last + 1 .. Len(log) : out = Verdict(log[n])
    BY <1>3 DEF OrderInv
  <2>2. last \in 0 .. Len(log)
    BY DEF OrderInv
  <2>3. n \in 1 .. Len(log) /\ n \in last .. Len(log)
    BY <1>1, <2>2
  <2>4. log[n].fn = n
    BY <2>3 DEF LineOK, LogOK
  <2>5. out.fn = Field(n)
    BY <2>1, <2>4 DEF Verdict, Outcome
  <2>6. out.fn[1] = n
    <3>1. 1 \in 1 .. FIELD_BYTES
      OBVIOUS
    <3> QED
      BY <2>5, <3>1 DEF Field
  <2>7. last' = n
    BY <1>3, <2>6 DEF Remember
  <2>8. line # <<>> => n < Len(log)
    BY <1>3, <2>6 DEF OrderInv
  <2> QED
    BY <1>1, <2>3, <2>7, <2>8
<1> QED
  BY <1>2, <1>3

LEMMA NextKeepsOrder ==
  ASSUME DecInv, LineOK, SumsInv, OrderInv, [Next]_vars
  PROVE  OrderInv'
<1>1. CASE UNCHANGED vars
  BY <1>1 DEF vars, decVars, linkVars, OrderInv, Dispatched
<1>2. CASE ~Dispatched' /\ Remember /\ log' = log /\ (line' # <<>> => line # <<>>)
  <2>1. last' \in last .. Len(log) /\ (line # <<>> => last' < Len(log)) /\ Len(log) \in Nat
    BY <1>2, LastMovesUp
  <2>2. last \in 0 .. Len(log)
    BY DEF OrderInv
  <2>3. last' \in 0 .. Len(log')
    BY <1>2, <2>1, <2>2
  <2> QED
    BY <1>2, <2>1, <2>3 DEF OrderInv
<1>3. ASSUME NEW p \in PACKETS, Send(p) PROVE OrderInv'
  <2>1. ~Dispatched' /\ Remember
    BY <1>3, QuietIsSilent DEF Send, Quiet
  <2>2. last' \in last .. Len(log) /\ Len(log) \in Nat
    BY <2>1, LastMovesUp
  <2>3. last \in 0 .. Len(log)
    BY DEF OrderInv
  <2>4. Len(log') = Len(log) + 1
    BY <1>3, SendShape
  <2>5. last' \in 0 .. Len(log') /\ last' < Len(log')
    BY <2>2, <2>3, <2>4
  <2> QED
    BY <2>1, <2>5 DEF OrderInv
<1>4. CASE Wait \/ Lose
  BY <1>2, <1>4, QuietIsSilent DEF Wait, Lose, Quiet
<1>5. ASSUME NEW v \in VALUES, Garble(v) PROVE OrderInv'
  BY <1>2, <1>5, QuietIsSilent DEF Garble, Quiet
<1>6. ASSUME NEW v \in VALUES, Noise(v) PROVE OrderInv'
  <2>1. ~Dispatched'
    BY <1>6, PlainNeverDispatches DEF Noise
  <2> QED
    BY <1>2, <1>6, <2>1 DEF Noise
<1>7. CASE Deliver /\ Dispatched'
  <2>1. line # <<>> /\ ByteEdge(Head(line)) /\ Remember /\ line' = Tail(line) /\ log' = log
    BY <1>7 DEF Deliver
  <2>2. Len(line) = 1 /\ Len(log) \in Nat \ {0} /\ out' = Verdict(Current)
    BY <1>7, <2>1, DispatchIsCurrent
  <2>3. line' = <<>>
    <3>1. Len(line') = Len(line) - 1 /\ line' \in Seq(Byte)
      BY <2>1, TailShape
    <3>2. Len(line') = 0
      BY <2>2, <3>1
    <3> QED
      BY <3>1, <3>2, EmptySeq
  <2>4. last' \in last .. Len(log) /\ last' < Len(log)
    BY <2>1, LastMovesUp
  <2>5. last \in 0 .. Len(log)
    BY DEF OrderInv
  <2>6. last' \in 0 .. Len(log') /\ Len(log') \in last' + 1 .. Len(log')
    BY <2>1, <2>2, <2>4, <2>5
  <2>7. out' = Verdict(log'[Len(log')])
    BY <2>1, <2>2, Zenon DEF Current
  <2> QED
    BY <2>3, <2>6, <2>7 DEF OrderInv
<1>8. CASE Deliver /\ ~Dispatched'
  BY <1>2, <1>8 DEF Deliver
<1> QED
  BY <1>1, <1>3, <1>4, <1>5, <1>6, <1>7, <1>8 DEF Next

-----------------------------------------------------------------------------
(* A packet that meets no fault. *)

\* Where the packet in flight stands, when it is intact.
LEMMA InFlight ==
  ASSUME LineOK, SumsInv, IntactInv, intact, line # <<>>
  PROVE  \E p \in SentPacket, k \in Nat :
           /\ p = Current /\ k = Taken /\ Len(p.payload) <= MAX_PAYLOAD
           /\ Len(line) \in Nat \ {0} /\ Len(line) + k = Len(Body(p)) + 3 /\ Len(Body(p)) \in Nat
           /\ \A i \in 1 .. Len(line) : line[i] = Wire(p)[k + i]
           /\ k > 0 => InStepWith(Body(p), k)
<1>1. /\ log \in Seq(SentPacket) /\ log # <<>> /\ line \in Seq(Byte)
      /\ \A n \in 1 .. Len(log) : Len(log[n].payload) <= MAX_PAYLOAD
  BY DEF LineOK, LogOK, SumsInv
<1>2. Len(log) \in 1 .. Len(log)
  BY <1>1, EmptySeq
<1>3. PICK p \in SentPacket : p = Current
  BY <1>1, <1>2, ElementOfSeq DEF Current
<1>4. Len(p.payload) <= MAX_PAYLOAD
  BY <1>1, <1>2, <1>3, Zenon DEF Current
<1>5. Len(line) \in Nat \ {0}
  BY <1>1, EmptySeq
<1>6. Len(Wire(p)) = Len(Body(p)) + 3 /\ Len(Body(p)) \in Nat
  BY WireShape, BodyShape, LenProperties
<1>7. /\ Taken >= 0 /\ Taken = Len(Wire(p)) - Len(line)
      /\ \A i \in 1 .. Len(line) : line[i] = Wire(p)[Taken + i]
      /\ Taken > 0 => InStepWith(Body(p), Taken)
  BY <1>3, Zenon DEF IntactInv, Taken
<1>8. Taken \in Nat /\ Len(line) + Taken = Len(Body(p)) + 3
  <2> DEFINE k == Taken
  <2>1. k >= 0 /\ k = Len(Wire(p)) - Len(line)
    BY <1>7
  <2> HIDE DEF k
  <2>2. k \in Nat /\ Len(line) + k = Len(Body(p)) + 3
    BY <1>5, <1>6, <2>1
  <2> QED
    BY <2>2 DEF k
<1> QED
  BY <1>3, <1>4, <1>5, <1>6, <1>7, <1>8, Zenon

\* The next byte of an intact packet.
LEMMA DeliverInStep ==
  ASSUME DecInv, LineOK, SumsInv, IntactInv, Deliver, intact'
  PROVE  \E p \in SentPacket, k \in Nat :
           /\ p = Current /\ k = Taken
           /\ Len(line) \in Nat \ {0} /\ Len(line) + k = Len(Body(p)) + 3 /\ Len(Body(p)) \in Nat
           /\ \A i \in 1 .. Len(line) : line[i] = Wire(p)[k + i]
           /\ Len(line) >= 2 => InStepWith(Body(p), k + 1)'
           /\ Len(line) = 1 => state = "CRC_H" /\ crc = Body(p) /\ crc_lo = SumByte("lo", Body(p))
                               /\ Head(line) = SumByte("hi", Body(p))
<1>1. /\ line # <<>> /\ ByteEdge(Head(line)) /\ intact /\ (AtFirstByte => state = "HUNT")
      /\ Head(line) = line[1]
  BY TailShape DEF Deliver
<1>2. PICK p \in SentPacket, k \in Nat :
           /\ p = Current /\ k = Taken /\ Len(p.payload) <= MAX_PAYLOAD
           /\ Len(line) \in Nat \ {0} /\ Len(line) + k = Len(Body(p)) + 3 /\ Len(Body(p)) \in Nat
           /\ \A i \in 1 .. Len(line) : line[i] = Wire(p)[k + i]
           /\ k > 0 => InStepWith(Body(p), k)
  BY <1>1, InFlight, Zenon
<1> DEFINE body == Body(p)
           n == Len(line)
           m == Len(body)
           b == Head(line)
<1>3. n \in Nat \ {0} /\ n + k = m + 3 /\ m \in Nat
  BY <1>2
<1>4. b = Wire(p)[k + 1]
  <2>1. 1 \in 1 .. n
    BY <1>3
  <2> QED
    BY <1>1, <1>2, <2>1, Zenon
<1>5. /\ Wire(p)[1] = PlainByte(SOF) /\ Len(Wire(p)) = m + 3
      /\ \A i \in 1 .. m : Wire(p)[i + 1] = PlainByte(body[i])
      /\ Wire(p)[m + 2] = SumByte("lo", body) /\ Wire(p)[m + 3] = SumByte("hi", body)
  BY WireShape, Zenon
<1>6. k > 0 => InStepWith(body, k)
  BY <1>2, Zenon
<1> HIDE DEF body, n, m, b
<1>7. ByteEdge(b)
  BY <1>1, Zenon DEF b
<1>8. ASSUME n >= 2 PROVE InStepWith(body, k + 1)'
  <2>1. k = 0 \/ k \in 1 .. m \/ k = m + 1
    BY <1>3, <1>8
  <2>2. CASE k = 0
    <3>1. state = "HUNT"
      <4>1. n = m + 3
        BY <1>3, <2>2
      <4> QED
        BY <1>1, <1>2, <1>5, <4>1, Zenon DEF AtFirstByte, Current, n
    <3>2. b = PlainByte(SOF)
      BY <1>4, <1>5, <2>2
    <3>3. Hunt(b)
      BY <1>7, <3>1 DEF ByteEdge, Hunt, TakeVer, TakeType, TakeLenL, TakeLenH, TakeTs, TakeFn, TakePayload,
                        TakeCrcL, TakeCrcH
    <3>4. state' = "VER" /\ crc' = <<>>
      BY <3>2, <3>3 DEF Hunt, PlainByte
    <3>5. k + 1 = 1 /\ 1 # m + 2
      BY <1>3, <2>2
    <3>6. InStepWith(body, 1)'
      <4>1. Len(crc') = 0
        BY <3>4
      <4>2. 1 # Len(body) + 2
        BY <3>5 DEF m
      <4> QED
        BY <3>4, <4>1, <4>2 DEF InStepWith
    <3> QED
      BY <3>5, <3>6
  <2>3. CASE k \in 1 .. m
    <3>1. b = PlainByte(body[k])
      BY <1>4, <1>5, <2>3, Zenon
    <3>2. b.val = body[k]
      BY <3>1 DEF PlainByte
    <3>3. InStepWith(body, k)
      BY <1>6, <2>3
    <3>4. body = Body(p) /\ k \in 1 .. Len(body)
      BY <2>3 DEF m, body
    <3> QED
      BY <1>2, <1>7, <3>2, <3>3, <3>4, BodyByteInStep
  <2>4. CASE k = m + 1
    <3>1. k + 1 = m + 2 /\ k > 0
      BY <1>3, <2>4
    <3>2. b = SumByte("lo", body)
      BY <1>4, <1>5, <3>1, Zenon
    <3>3. InStepWith(body, Len(body) + 1) /\ body = Body(p)
      BY <1>6, <2>4, <3>1 DEF m, body
    <3>4. InStepWith(body, Len(body) + 2)'
      BY <1>7, <3>2, <3>3, SumByteInStep
    <3> QED
      BY <3>1, <3>4 DEF m
  <2> QED
    BY <2>1, <2>2, <2>3, <2>4
<1>9. ASSUME n = 1
      PROVE  state = "CRC_H" /\ crc = body /\ crc_lo = SumByte("lo", body) /\ b = SumByte("hi", body)
  <2>1. k = m + 2 /\ k + 1 = m + 3 /\ k > 0
    BY <1>3, <1>9
  <2>2. InStepWith(body, k) /\ k = Len(body) + 2
    BY <1>6, <2>1 DEF m
  <2>3. b = SumByte("hi", body)
    BY <1>4, <1>5, <2>1, Zenon
  <2> QED
    BY <2>2, <2>3, Zenon DEF InStepWith
<1> QED
  BY <1>2, <1>8, <1>9, Zenon DEF body, n, b

LEMMA NextKeepsIntact ==
  ASSUME DecInv, LineOK, SumsInv, IntactInv, [Next]_vars
  PROVE  IntactInv'
<1>1. SUFFICES ASSUME intact', line' # <<>>
               PROVE  IntactInv'
  BY DEF IntactInv
<1>2. CASE UNCHANGED <<line, log, state, crc, crc_lo>> /\ intact
  <2>1. PICK p \in SentPacket, k \in Nat :
           /\ p = Current /\ k = Taken
           /\ \A i \in 1 .. Len(line) : line[i] = Wire(p)[k + i]
           /\ k > 0 => InStepWith(Body(p), k)
    BY <1>1, <1>2, InFlight
  <2>2. Current' = p /\ Taken' = k
    BY <1>2, <2>1, Zenon DEF Current, Taken
  <2>3. k > 0 => InStepWith(Body(p), k)'
    BY <1>2, <2>1, Zenon DEF InStepWith
  <2>4. \A i \in 1 .. Len(line') : line'[i] = Wire(p)[k + i]
    BY <1>2, <2>1, Zenon
  <2> QED
    BY <2>1, <2>2, <2>3, <2>4 DEF IntactInv
<1>3. CASE UNCHANGED vars
  BY <1>1, <1>2, <1>3 DEF vars, decVars, linkVars
<1>4. CASE Wait
  <2>1. intact /\ ~Desynced /\ IdleEdge /\ UNCHANGED <<line, log>>
    BY <1>1, <1>4 DEF Wait, Quiet
  <2>2. UNCHANGED <<state, crc, crc_lo>>
    BY <2>1 DEF IdleEdge, Desynced, Outcome
  <2> QED
    BY <1>2, <2>1, <2>2
<1>5. ASSUME NEW p \in PACKETS, Send(p) PROVE IntactInv'
  <2>1. PICK q \in SentPacket : q = Current'
    BY <1>5, SendShape, Zenon
  <2>2. line' = Wire(q)
    BY <1>5, <2>1, SendShape, Zenon
  <2>3. Len(Wire(q)) \in Nat
    BY WireShape, LenProperties
  <2>4. Taken' = 0
    <3>1. Taken' = Len(Wire(q)) - Len(Wire(q))
      BY <2>1, <2>2, Zenon DEF Taken
    <3> QED
      BY <2>3, <3>1
  <2>5. ASSUME NEW i \in 1 .. Len(line') PROVE line'[i] = Wire(q)[0 + i]
    <3>1. 0 + i = i
      OBVIOUS
    <3> QED
      BY <2>2, <3>1
  <2>6. 0 >= 0 /\ ~(0 > 0)
    OBVIOUS
  <2> QED
    BY <2>1, <2>4, <2>5, <2>6, Zenon DEF IntactInv
<1>6. CASE Lose \/ \E v \in VALUES : Garble(v)
  BY <1>1, <1>6 DEF Lose, Garble
<1>7. ASSUME NEW v \in VALUES, Noise(v) PROVE IntactInv'
  BY <1>1, <1>7 DEF Noise
<1>8. CASE Deliver
  <2>1. PICK p \in SentPacket, k \in Nat :
           /\ p = Current /\ k = Taken
           /\ Len(line) \in Nat \ {0} /\ Len(line) + k = Len(Body(p)) + 3 /\ Len(Body(p)) \in Nat
           /\ \A i \in 1 .. Len(line) : line[i] = Wire(p)[k + i]
           /\ Len(line) >= 2 => InStepWith(Body(p), k + 1)'
    BY <1>1, <1>8, DeliverInStep
  <2>2. /\ line' \in Seq(Byte) /\ Len(line') = Len(line) - 1
        /\ \A i \in 1 .. Len(line') : i + 1 \in 1 .. Len(line) /\ line'[i] = line[i + 1]
    BY <1>8, TailShape DEF Deliver
  <2>3. Len(line) >= 2
    <3>1. Len(line') \in Nat \ {0}
      BY <1>1, <2>2, EmptySeq
    <3> QED
      BY <2>1, <2>2, <3>1
  <2>4. Current' = p
    BY <1>8, <2>1, Zenon DEF Deliver, Current
  <2>5. Taken' = k + 1
    <3>1. Taken' = Len(Wire(p)) - Len(line') /\ k = Len(Wire(p)) - Len(line)
      BY <2>1, <2>4, Zenon DEF Taken
    <3>2. Len(Wire(p)) \in Nat
      BY WireShape, LenProperties
    <3>3. Len(line) \in Nat /\ Len(line') = Len(line) - 1
      BY <2>1, <2>2
    <3> QED
      BY <3>1, <3>2, <3>3
  <2>6. ASSUME NEW i \in 1 .. Len(line') PROVE line'[i] = Wire(p)[(k + 1) + i]
    <3>1. (k + 1) + i = k + (i + 1)
      OBVIOUS
    <3> QED
      BY <2>1, <2>2, <3>1, Zenon
  <2>7. k + 1 >= 0
    OBVIOUS
  <2> QED
    BY <2>1, <2>3, <2>4, <2>5, <2>6, <2>7, Zenon DEF IntactInv
<1> QED
  BY <1>3, <1>4, <1>5, <1>6, <1>7, <1>8 DEF Next

-----------------------------------------------------------------------------
(* The timer counts the silence. *)

\* In a packet the timer is the silence so far, and it stops short of the timeout.
TimerInv ==
  /\ quiet \in 0 .. TIMEOUT_CYCLES /\ to_cnt \in 0 .. TIMEOUT_CYCLES - 1
  /\ state # "HUNT" => to_cnt = quiet /\ quiet < TIMEOUT_CYCLES

LEMMA NextKeepsTimer ==
  ASSUME TimerInv, [Next]_vars
  PROVE  TimerInv'
<1> USE TimeoutAssumption
<1>1. CASE Quiet
  BY <1>1 DEF Quiet, TimerInv, IdleEdge, Silence, TimedOut
<1>2. ASSUME NEW b, ByteEdge(b), quiet' = 0 PROVE TimerInv'
  BY <1>2 DEF TimerInv, ByteEdge
<1>3. CASE UNCHANGED vars
  BY <1>3 DEF vars, decVars, linkVars, TimerInv
<1>4. Next => Quiet \/ Deliver \/ \E v \in VALUES : Noise(v)
  BY DEF Next, Wait, Send, Lose, Garble
<1> QED
  BY <1>1, <1>2, <1>3, <1>4 DEF Deliver, Noise

-----------------------------------------------------------------------------
(* The invariant of the link, and what it is for. *)

LinkInv ==
  /\ DecInv /\ SlotInv /\ TimerInv
  /\ LineOK /\ SumsInv /\ OrderInv /\ IntactInv

LEMMA NextKeepsDecoder ==
  ASSUME DecInv, SlotInv, LineOK, [Next]_vars
  PROVE  DecInv' /\ SlotInv'
<1>1. CASE Quiet
  BY <1>1, IdleKeepsDecoder, IdleKeepsSlot DEF Quiet
<1>2. CASE Deliver
  <2>1. line # <<>> /\ line' = Tail(line) /\ ByteEdge(Head(line)) /\ SlotEdge
    BY <1>2 DEF Deliver
  <2>2. Head(line).val \in Nat
    BY <2>1, TailShape DEF Byte
  <2> QED
    BY <2>1, <2>2, ByteKeepsDecoder, ByteKeepsSlot
<1>3. ASSUME NEW v \in VALUES, Noise(v) PROVE DecInv' /\ SlotInv'
  <2>1. v \in Nat
    BY LinkAssumption
  <2>2. PlainByte(v).val \in Nat
    BY <2>1 DEF PlainByte
  <2>3. ByteEdge(PlainByte(v)) /\ SlotEdge
    BY <1>3 DEF Noise
  <2> QED
    BY <2>2, <2>3, ByteKeepsDecoder, ByteKeepsSlot
<1>4. CASE UNCHANGED vars
  BY <1>4 DEF vars, decVars, hdrVars, errVars, linkVars, DecInv, DecoderTypeOK, CountersOK, DataOK, FlagsOK,
              Position, Noted, StrobesEnd, InPayload, SlotInv, Landed, Speculate, HEADER
<1>5. Next => Quiet \/ Deliver \/ \E v \in VALUES : Noise(v)
  BY DEF Next, Wait, Send, Lose, Garble
<1> QED
  BY <1>1, <1>2, <1>3, <1>4, <1>5

LEMMA InitLink == Init => LinkInv
<1> SUFFICES ASSUME Init PROVE LinkInv
  OBVIOUS
<1>1. /\ state = "HUNT" /\ type_q = 0 /\ len_q = 0 /\ fn_q = Field(0) /\ mb_cnt = 0 /\ pl_idx = 0
      /\ crc = <<>> /\ ver_err = FALSE /\ len_err = FALSE /\ to_cnt = 0
      /\ wr.en = FALSE /\ out.kind = "none" /\ ~Dispatched
      /\ line = <<>> /\ slot = EmptySlot /\ log = <<>> /\ intact = FALSE /\ quiet = TIMEOUT_CYCLES /\ last = 0
  BY DEF Init, DecInit, NoWrite, NoOutcome, Outcome, Dispatched
<1>2. DecInv
  <2>1. fn_q \in [1 .. FIELD_BYTES -> Nat]
    BY <1>1 DEF Field
  <2>2. DataOK
    <3>1. crc \in Seq(Nat)
      BY <1>1
    <3> QED
      BY <1>1, <2>1, <3>1, Zenon DEF DataOK
  <2>3. CountersOK
    BY <1>1 DEF CountersOK
  <2>4. FlagsOK /\ Position /\ StrobesEnd
    BY <1>1 DEF FlagsOK, States, Position, StrobesEnd
  <2>5. Noted
    BY <1>1 DEF Noted, InPayload
  <2> QED
    BY <2>2, <2>3, <2>4, <2>5 DEF DecInv, DecoderTypeOK
<1>3. SlotInv
  BY <1>1 DEF SlotInv, EmptySlot, InPayload
<1>4. TimerInv
  BY <1>1, TimeoutAssumption DEF TimerInv
<1>5. LineOK /\ SumsInv
  BY <1>1 DEF LineOK, LogOK, SumsInv
<1>6. OrderInv /\ IntactInv
  BY <1>1 DEF OrderInv, IntactInv
<1> QED
  BY <1>2, <1>3, <1>4, <1>5, <1>6 DEF LinkInv

LEMMA NextKeepsLink ==
  ASSUME LinkInv, [Next]_vars
  PROVE  LinkInv'
BY NextKeepsDecoder, NextKeepsTimer, NextKeepsLine, NextKeepsSums, NextKeepsOrder, NextKeepsIntact DEF LinkInv

\* The inductive invariant: registers and slot as functions of the bytes folded,
\* the line, the order of dispatches, the timer, and the intact packet.
THEOREM LinkInvariant == Spec => []LinkInv
<1>1. LinkInv /\ [Next]_vars => LinkInv'
  BY NextKeepsLink
<1> QED
  BY InitLink, <1>1, PTL DEF Spec

\* Every write of the decoder lands in the slot of the frame in progress: the
\* assertion of packet_decoder.sv, for every packet, fault and field width.
THEOREM WritesStayInSlot == Spec => []IndexInRange
<1>1. LinkInv => IndexInRange
  BY DEF LinkInv, DecInv, DecoderTypeOK, DataOK, IndexInRange
<1> QED
  BY LinkInvariant, <1>1, PTL

\* A line silent for TIMEOUT_CYCLES edges finds the decoder hunting, whatever
\* the timeout: the timer is the silence in every state but HUNT.
THEOREM SilenceEndsPacket == Spec => []HuntsAfterSilence
<1>1. LinkInv => HuntsAfterSilence
  BY TimeoutAssumption DEF LinkInv, TimerInv, HuntsAfterSilence
<1> QED
  BY LinkInvariant, <1>1, PTL

\* No mixture of packets is ever dispatched: whatever the line loses, garbles
\* or adds, a frame committed or a command run is one packet that was sent,
\* with its own verdict, in the order sent and never twice.
THEOREM DispatchesAreAuthentic == Spec => []Authentic
<1>1. LinkInv => Authentic
  <2> SUFFICES ASSUME LinkInv PROVE Authentic
    OBVIOUS
  <2>1. TypeOK
    <3>1. /\ state \in States /\ type_q \in Nat /\ len_q \in Nat /\ pl_idx \in 0 .. MAX_PAYLOAD
          /\ mb_cnt \in 0 .. FIELD_BYTES - 1 /\ fn_q \in [1 .. FIELD_BYTES -> Nat]
          /\ ver_err \in BOOLEAN /\ len_err \in BOOLEAN /\ wr.en \in BOOLEAN
      BY Zenon DEF LinkInv, DecInv, DecoderTypeOK, CountersOK, DataOK, FlagsOK
    <3>2. /\ to_cnt \in 0 .. TIMEOUT_CYCLES - 1 /\ quiet \in 0 .. TIMEOUT_CYCLES
          /\ slot \in [0 .. NUM_MFCC - 1 -> Nat] /\ last \in 0 .. Len(log)
      BY Zenon DEF LinkInv, TimerInv, SlotInv, OrderInv
    <3> QED
      BY <3>1, <3>2, Zenon DEF TypeOK
  <2> QED
    BY <2>1, Zenon DEF LinkInv, OrderInv, Authentic
<1> QED
  BY LinkInvariant, <1>1, PTL

\* Bytes that an aborted packet left in the slot never reach a committed frame:
\* while a feature packet is received the slot, with the write on its way, is
\* the payload so far, so at the commit it is the payload.
THEOREM CommitsAreWhole == Spec => []CommittedWhole
<1>1. Init => CommittedWhole
  BY DEF Init, DecInit, NoOutcome, Outcome, CommittedWhole
<1>2. LinkInv /\ CommittedWhole /\ [Next]_vars => CommittedWhole'
  <2> SUFFICES ASSUME LinkInv, CommittedWhole, [Next]_vars, out'.kind = "commit"
               PROVE  CommittedWhole'
    BY DEF CommittedWhole
  <2>1. CASE UNCHANGED vars
    BY <2>1 DEF vars, decVars, linkVars, CommittedWhole
  <2>2. CASE Deliver
    <3>1. line # <<>> /\ ByteEdge(Head(line)) /\ SlotEdge /\ log' = log
      BY <2>2 DEF Deliver
    <3>2. Dispatched'
      BY DEF Dispatched
    <3>3. PICK p \in SentPacket : /\ p = Current /\ state = "CRC_H" /\ crc = Body(p)
                                  /\ p.fn = Len(log) /\ Len(log) \in Nat \ {0} /\ out' = Verdict(p)
      BY <3>1, <3>2, DispatchIsCurrent, Zenon DEF LinkInv
    <3>4. \A i \in 0 .. NUM_MFCC - 1 : slot'[i] = p.payload[i + 1]
      <4>1. Verdict(p).kind = "commit"
        BY <3>3, Zenon
      <4> QED
        BY <3>1, <3>3, <4>1, CommitIsWhole DEF LinkInv
    <3>5. out'.fn = Field(Len(log))
      BY <3>3 DEF Verdict, Outcome
    <3>6. Len(log) \in 1 .. Len(log) /\ log[Len(log)] = p
      BY <3>3 DEF Current
    <3> QED
      BY <3>1, <3>4, <3>5, <3>6, Zenon DEF CommittedWhole
  <2>3. ASSUME NEW v \in VALUES, Noise(v) PROVE FALSE
    <3>1. ByteEdge(PlainByte(v))
      BY <2>3 DEF Noise
    <3>2. ~Dispatched'
      BY <3>1, PlainNeverDispatches
    <3> QED
      BY <3>2 DEF Dispatched
  <2>4. CASE Quiet
    <3>1. ~Dispatched'
      BY <2>4, QuietIsSilent DEF Quiet
    <3> QED
      BY <3>1 DEF Dispatched
  <2>5. Next => Quiet \/ Deliver \/ \E v \in VALUES : Noise(v)
    BY DEF Next, Wait, Send, Lose, Garble
  <2> QED
    BY <2>1, <2>2, <2>3, <2>4, <2>5
<1> QED
  BY LinkInvariant, <1>1, <1>2, PTL DEF Spec

\* Recovery: a packet that meets a hunting decoder and no fault is dispatched on
\* its last byte with its own verdict, whatever came before it.
THEOREM IntactIsDispatched == Spec => []IntactDispatched
<1>1. Init => IntactDispatched
  BY DEF Init, IntactDispatched
<1>2. LinkInv /\ IntactDispatched /\ [Next]_vars => IntactDispatched'
  <2> SUFFICES ASSUME LinkInv, IntactDispatched, [Next]_vars, expect' # Nothing
               PROVE  out' = expect'
    BY DEF IntactDispatched
  <2>1. CASE UNCHANGED vars
    BY <2>1 DEF vars, decVars, linkVars, IntactDispatched
  <2>2. CASE Deliver
    <3>1. line # <<>> /\ ByteEdge(Head(line)) /\ intact' /\ line' = <<>> /\ expect' = Verdict(Current)
      BY <2>2 DEF Deliver, Current
    <3>2. Len(line) = 1
      <4>1. Len(line') = Len(line) - 1 /\ Len(line) \in Nat
        BY <2>2, TailShape DEF Deliver, LinkInv
      <4>2. Len(line') = 0
        BY <3>1
      <4> QED
        BY <4>1, <4>2
    <3>3. PICK p \in SentPacket : /\ p = Current /\ state = "CRC_H" /\ crc = Body(p)
                                  /\ crc_lo = SumByte("lo", Body(p)) /\ Head(line) = SumByte("hi", Body(p))
      BY <2>2, <3>1, <3>2, DeliverInStep DEF LinkInv
    <3>4. TakeCrcH(Head(line))
      BY <3>1, <3>3 DEF ByteEdge, Hunt, TakeVer, TakeType, TakeLenL, TakeLenH, TakeTs, TakeFn, TakePayload, TakeCrcL
    <3>5. ChecksumOk(crc_lo, Head(line), crc)
      BY <3>3 DEF ChecksumOk, SumByte
    <3>6. out' = Outcome(Dispatch, type_q, fn_q)
      BY <3>4, <3>5 DEF TakeCrcH
    <3> QED
      BY <3>1, <3>3, <3>6, NotedVerdict, Zenon DEF LinkInv
  <2>3. Next => Deliver \/ expect' = Nothing
    BY DEF Next, Wait, Send, Lose, Garble, Noise, Quiet
  <2> QED
    BY <2>1, <2>2, <2>3
<1> QED
  BY LinkInvariant, <1>1, <1>2, PTL DEF Spec

-----------------------------------------------------------------------------
(* The two parsers. *)

\* Every value on the line fits a byte.
Octets == \A i \in 1 .. Len(line) : line[i].val \in 0 .. 255

LEMMA BodyOctets ==
  ASSUME NEW p \in SentPacket, p.fn \in 0 .. 255, Len(p.payload) <= MAX_PAYLOAD
  PROVE  \A i \in 1 .. Len(Body(p)) : Body(p)[i] \in 0 .. 255
<1> DEFINE lo == Len(p.payload) % 256
           hi == Len(p.payload) \div 256
           front == <<p.ver, p.type, lo, hi>>
           ts == Field(0)
           fn == Field(p.fn)
           load == p.payload
<1>1. load \in Seq(0 .. 255) /\ p.ver \in 0 .. 255 /\ p.type \in 0 .. 255
  BY Zenon DEF SentPacket
<1>2. front \in Seq(0 .. 255)
  <2>1. lo \in 0 .. 255 /\ hi \in 0 .. 255
    <3>1. \A n \in Nat : n <= MAX_PAYLOAD => n % 256 \in 0 .. 255 /\ n \div 256 \in 0 .. 255
      OBVIOUS
    <3>2. Len(p.payload) \in Nat
      BY SentTypes, Zenon
    <3> QED
      BY <3>1, <3>2, Zenon
  <2> HIDE DEF lo, hi
  <2>2. \A w, x, y, z \in 0 .. 255 : <<w, x, y, z>> \in Seq(0 .. 255)
    OBVIOUS
  <2> QED
    BY <1>1, <2>1, <2>2, Zenon
<1>3. ts \in Seq(0 .. 255) /\ fn \in Seq(0 .. 255)
  <2>1. \A n \in 0 .. 255 : Field(n) \in Seq(0 .. 255)
    BY DEF Field
  <2>2. 0 \in 0 .. 255
    OBVIOUS
  <2> QED
    BY <2>1, <2>2, Zenon
<1>4. Body(p) = ((front \o ts) \o fn) \o load
  BY Zenon DEF Body
<1> HIDE DEF front, ts, fn, load
<1>5. Body(p) \in Seq(0 .. 255)
  BY <1>1, <1>2, <1>3, <1>4
<1> QED
  BY <1>5, ElementOfSeq

LEMMA NextKeepsOctets ==
  ASSUME LineOK, Octets, [Next]_vars
  PROVE  Octets'
<1>1. CASE UNCHANGED line
  BY <1>1 DEF Octets
<1>2. ASSUME NEW p \in PACKETS, Send(p) PROVE Octets'
  <2>1. PICK q \in SentPacket : q = Current'
    BY <1>2, SendShape, Zenon
  <2>2. q.fn \in 0 .. 255 /\ Len(q.payload) <= MAX_PAYLOAD
    <3>1. q.fn = Len(log) + 1 /\ Len(q.payload) <= MAX_PAYLOAD /\ Len(log) \in Nat
      BY <1>2, <2>1, SendShape, Zenon
    <3>2. Len(log) < MAX_PACKETS /\ MAX_PACKETS \in 0 .. 255
      BY <1>2, LinkAssumption DEF Send
    <3>3. \A n \in Nat, m \in 0 .. 255 : n < m => n + 1 \in 0 .. 255
      OBVIOUS
    <3> QED
      BY <3>1, <3>2, <3>3, Zenon
  <2> DEFINE body == Body(q)
  <2>3. \A i \in 1 .. Len(body) : body[i] \in 0 .. 255
    BY <2>2, BodyOctets
  <2>4. /\ line' = Wire(q)
        /\ Len(line') = Len(body) + 3
        /\ \A i \in 1 .. Len(body) : line'[i + 1] = PlainByte(body[i])
        /\ line'[1] = PlainByte(SOF)
        /\ line'[Len(body) + 2] = SumByte("lo", body) /\ line'[Len(body) + 3] = SumByte("hi", body)
    BY <1>2, <2>1, SendShape, WireShape, Zenon
  <2>5. Len(body) \in Nat
    BY BodyShape, LenProperties
  <2> HIDE DEF body
  <2>6. ASSUME NEW i \in 1 .. Len(line') PROVE line'[i].val \in 0 .. 255
    <3>1. i = 1 \/ i - 1 \in 1 .. Len(body) \/ i = Len(body) + 2 \/ i = Len(body) + 3
      BY <2>4, <2>5
    <3>2. CASE i = 1
      <4>1. line'[i] = PlainByte(SOF)
        BY <2>4, <3>2
      <4>2. PlainByte(SOF).val \in 0 .. 255
        BY DEF PlainByte
      <4> QED
        BY <4>1, <4>2
    <3>3. CASE i - 1 \in 1 .. Len(body)
      <4>1. (i - 1) + 1 = i
        OBVIOUS
      <4>2. line'[i] = PlainByte(body[i - 1])
        BY <2>4, <3>3, <4>1
      <4>3. body[i - 1] \in 0 .. 255
        BY <2>3, <3>3
      <4> QED
        BY <4>2, <4>3 DEF PlainByte
    <3>4. CASE i = Len(body) + 2 \/ i = Len(body) + 3
      <4>1. line'[i].val = 0
        BY <2>4, <3>4 DEF SumByte
      <4> QED
        BY <4>1
    <3> QED
      BY <3>1, <3>2, <3>3, <3>4
  <2> QED
    BY <2>6 DEF Octets
<1>3. CASE Lose \/ Deliver
  <2>1. \A i \in 1 .. Len(line') : i + 1 \in 1 .. Len(line) /\ line'[i] = line[i + 1]
    BY <1>3, TailShape DEF Lose, Deliver
  <2> QED
    BY <2>1, Zenon DEF Octets
<1>4. ASSUME NEW v \in VALUES, Garble(v) PROVE Octets'
  <2>1. line' = [line EXCEPT ![1] = PlainByte(v)] /\ line \in Seq(Byte)
    BY <1>4 DEF Garble, LineOK
  <2>2. /\ Len(line') = Len(line)
        /\ \A i \in 1 .. Len(line) : line'[i] = IF i = 1 THEN PlainByte(v) ELSE line[i]
    BY <2>1
  <2>3. PlainByte(v).val \in 0 .. 255
    BY LinkAssumption DEF PlainByte
  <2> QED
    BY <2>2, <2>3, Zenon DEF Octets
<1> QED
  BY <1>1, <1>2, <1>3, <1>4 DEF Next, Wait, Noise, vars, linkVars

\* Until they part, the two parsers hold the same registers.
Mirror ==
  ~split =>
    /\ p_state = state
    /\ state # "HUNT" => p_crc = crc
    /\ state = "CRC_H" => p_crc_lo = crc_lo
    /\ state = "LEN_H" => p_len = len_q % 256
    /\ state \in {"TS", "FN"} \/ InPayload => p_len = len_q
    /\ state \in {"TS", "FN"} => p_idx = mb_cnt
    /\ state = "PAYLOAD" => p_idx = pl_idx

\* The same byte moves both the same way.
LEMMA ByteInMirror ==
  ASSUME DecInv, Mirror, NEW b, b.val \in 0 .. 255, ByteEdge(b), Feed(b), ~split, SplitEdge(BadVersion)
  PROVE  Mirror' /\ (p_ret' <=> Dispatched') /\ (split' \/ p_state' = state')
<1> DEFINE Same == Mirror' /\ (p_ret' <=> Dispatched') /\ (split' \/ p_state' = state')
<1> USE DEF Go, FoldHost, Fold, Silent, NoOutcome, Outcome, hdrVars, errVars, InPayload, Dispatched
<1>a. p_state = state /\ CountersOK
  BY DEF Mirror, DecInv, DecoderTypeOK
<1>1. CASE Hunt(b)
  <2>1. FeedHunt(b)
    BY <1>a, <1>1 DEF Hunt, Feed, FeedHunt, FeedVer, FeedType, FeedLenL, FeedLenH, FeedTs, FeedFn, FeedPayload, FeedCrcL, FeedCrcH
  <2> QED
    BY <1>a, <1>1, <2>1 DEF Hunt, FeedHunt, Mirror
<1>2. CASE TakeVer(b)
  <2>1. FeedVer(b) /\ ~ver_err
    BY <1>a, <1>2 DEF DecInv, Noted, TakeVer, Feed, FeedHunt, FeedVer, FeedType, FeedLenL, FeedLenH, FeedTs, FeedFn, FeedPayload, FeedCrcL, FeedCrcH
  <2> QED
    BY <1>a, <1>2, <2>1 DEF TakeVer, FeedVer, Mirror, SplitEdge, BadVersion
<1>3. CASE TakeType(b)
  <2>1. FeedType(b)
    BY <1>a, <1>3 DEF TakeType, Feed, FeedHunt, FeedVer, FeedType, FeedLenL, FeedLenH, FeedTs, FeedFn, FeedPayload, FeedCrcL, FeedCrcH
  <2> QED
    BY <1>a, <1>3, <2>1 DEF TakeType, FeedType, Mirror
<1>4. CASE TakeLenL(b)
  <2>1. FeedLenL(b)
    BY <1>a, <1>4 DEF TakeLenL, Feed, FeedHunt, FeedVer, FeedType, FeedLenL, FeedLenH, FeedTs, FeedFn, FeedPayload, FeedCrcL, FeedCrcH
  <2>2. \A m \in Nat, v \in 0 .. 255 : (((m \div 256) * 256) + v) % 256 = v
    OBVIOUS
  <2>3. (((len_q \div 256) * 256) + b.val) % 256 = b.val
    BY <1>a, <2>2 DEF CountersOK
  <2>4. len_q' % 256 = b.val /\ p_len' = b.val
    BY <1>4, <2>1, <2>3, Zenon DEF TakeLenL, FeedLenL
  <2>5. state' = "LEN_H" /\ p_state' = "LEN_H" /\ p_crc' = crc' /\ p_ret' = FALSE /\ out'.kind = "none"
    BY <1>a, <1>4, <2>1 DEF TakeLenL, FeedLenL, Mirror
  <2> QED
    BY <2>4, <2>5 DEF Mirror
<1>5. CASE TakeLenH(b)
  <2>1. FeedLenH(b)
    BY <1>a, <1>5 DEF TakeLenH, Feed, FeedHunt, FeedVer, FeedType, FeedLenL, FeedLenH, FeedTs, FeedFn, FeedPayload, FeedCrcL, FeedCrcH
  <2>2. p_len' = len_q' /\ len_q' \in Nat
    <3>1. p_len = len_q % 256 /\ p_len' = p_len + (b.val * 256) /\ len_q' = (b.val * 256) + (len_q % 256)
      BY <1>5, <2>1 DEF TakeLenH, FeedLenH, Mirror
    <3>2. len_q % 256 \in Nat
      BY <1>a DEF CountersOK
    <3> QED
      BY <3>1, <3>2
  <2>3. p_crc' = crc'
    BY <1>5, <2>1 DEF TakeLenH, FeedLenH, Mirror
  <2>4. \/ state' = "HUNT" /\ p_state' = "HUNT"
        \/ state' = "TS" /\ p_state' = "TS" /\ p_idx' = 0 /\ mb_cnt' = 0
    BY <1>5, <2>1, <2>2 DEF TakeLenH, FeedLenH
  <2>5. p_ret' = FALSE /\ ~Dispatched'
    BY <1>5, <2>1 DEF TakeLenH, FeedLenH
  <2> QED
    BY <2>2, <2>3, <2>4, <2>5 DEF Mirror
<1>6. CASE TakeTs(b)
  <2>1. FeedTs(b)
    BY <1>a, <1>6 DEF TakeTs, Feed, FeedHunt, FeedVer, FeedType, FeedLenL, FeedLenH, FeedTs, FeedFn, FeedPayload, FeedCrcL, FeedCrcH
  <2>2. p_idx = mb_cnt /\ p_len = len_q /\ p_crc = crc
    BY <1>6 DEF TakeTs, Mirror
  <2>3. (p_idx + 1 = FIELD_BYTES) <=> LastOfField
    BY <1>a, <2>2 DEF LastOfField, CountersOK
  <2> QED
    BY <1>6, <2>1, <2>2, <2>3 DEF TakeTs, FeedTs, NextOfField, Mirror
<1>7. CASE TakeFn(b)
  <2>1. FeedFn(b)
    BY <1>a, <1>7 DEF TakeFn, Feed, FeedHunt, FeedVer, FeedType, FeedLenL, FeedLenH, FeedTs, FeedFn, FeedPayload, FeedCrcL, FeedCrcH
  <2>2. state = "FN" /\ p_idx = mb_cnt /\ p_len = len_q /\ p_crc = crc
    BY <1>7 DEF TakeFn, Mirror
  <2>3. (p_idx + 1 = FIELD_BYTES) <=> LastOfField
    BY <1>a, <2>2 DEF LastOfField, CountersOK
  <2>4. p_len' = len_q' /\ p_crc' = crc' /\ p_ret' = FALSE /\ ~Dispatched'
    BY <1>7, <2>1, <2>2 DEF TakeFn, FeedFn
  <2>5. \/ state' \in {"CRC_L", "PAYLOAD"} /\ p_state' = state' /\ p_idx' = 0 /\ pl_idx' = 0
        \/ state' = "FN" /\ p_state' = "FN" /\ p_idx' = mb_cnt'
    BY <1>7, <2>1, <2>2, <2>3 DEF TakeFn, FeedFn, NextOfField
  <2> QED
    BY <2>4, <2>5 DEF Mirror
<1>8. CASE TakePayload(b)
  <2>1. FeedPayload(b)
    BY <1>a, <1>8 DEF TakePayload, Feed, FeedHunt, FeedVer, FeedType, FeedLenL, FeedLenH, FeedTs, FeedFn, FeedPayload, FeedCrcL, FeedCrcH
  <2> QED
    BY <1>8, <2>1 DEF TakePayload, FeedPayload, Mirror
<1>9. CASE TakeCrcL(b)
  <2>1. FeedCrcL(b)
    BY <1>a, <1>9 DEF TakeCrcL, Feed, FeedHunt, FeedVer, FeedType, FeedLenL, FeedLenH, FeedTs, FeedFn, FeedPayload, FeedCrcL, FeedCrcH
  <2> QED
    BY <1>9, <2>1 DEF TakeCrcL, FeedCrcL, Mirror
<1>10. CASE TakeCrcH(b)
  <2>1. FeedCrcH(b)
    BY <1>a, <1>10 DEF TakeCrcH, Feed, FeedHunt, FeedVer, FeedType, FeedLenL, FeedLenH, FeedTs, FeedFn, FeedPayload, FeedCrcL, FeedCrcH
  <2>2. p_ret' = ChecksumOk(crc_lo, b, crc) /\ p_state' = "HUNT" /\ state' = "HUNT"
    BY <1>10, <2>1 DEF TakeCrcH, FeedCrcH, Mirror
  <2>3. Dispatched' <=> ChecksumOk(crc_lo, b, crc)
    BY <1>10 DEF TakeCrcH, Dispatch
  <2> QED
    BY <2>2, <2>3 DEF Mirror
<1> QED
  BY <1>1, <1>2, <1>3, <1>4, <1>5, <1>6, <1>7, <1>8, <1>9, <1>10 DEF ByteEdge

LEMMA PairKeepsMirror ==
  ASSUME LinkInv, Octets, Mirror, PairNext
  PROVE  Mirror' /\ (~split => (p_ret' <=> Dispatched') /\ (split' \/ p_state' = state'))
<1>1. ASSUME NEW b, b.val \in 0 .. 255, ByteEdge(b), Feed(b), SplitEdge(BadVersion)
      PROVE  Mirror' /\ (~split => (p_ret' <=> Dispatched') /\ (split' \/ p_state' = state'))
  <2>1. CASE ~split
    BY <1>1, <2>1, ByteInMirror DEF LinkInv
  <2>2. CASE split
    BY <1>1, <2>2 DEF SplitEdge, Mirror, InPayload
  <2> QED
    BY <2>1, <2>2
<1>2. CASE PairDeliver
  <2>1. line # <<>> /\ line' = Tail(line) /\ ByteEdge(Head(line)) /\ Feed(Head(line)) /\ SplitEdge(BadVersion)
    BY <1>2 DEF PairDeliver, Deliver
  <2>2. Head(line) = line[1] /\ Len(line) \in Nat \ {0}
    BY <2>1, TailShape DEF LinkInv
  <2>3. 1 \in 1 .. Len(line)
    BY <2>2
  <2>4. Head(line).val \in 0 .. 255
    BY <2>2, <2>3 DEF Octets
  <2> QED
    BY <1>1, <2>1, <2>4
<1>3. CASE PairNoise
  <2>1. PICK v \in VALUES : Noise(v) /\ Feed(PlainByte(v)) /\ SplitEdge(BadVersion)
    BY <1>3 DEF PairNoise
  <2>2. PlainByte(v).val \in 0 .. 255
    BY LinkAssumption DEF PlainByte
  <2> QED
    BY <1>1, <2>1, <2>2 DEF Noise
<1>4. CASE PairSilent
  <2>1. IdleEdge /\ NotFed /\ SplitEdge(Timeout)
    BY <1>4 DEF PairSilent, Wait, Lose, Send, Garble, Quiet
  <2>2. ~p_ret' /\ ~Dispatched'
    BY <2>1, QuietIsSilent DEF NotFed
  <2>3. CASE split \/ Timeout
    BY <2>1, <2>2, <2>3 DEF SplitEdge, Mirror, InPayload
  <2>4. CASE ~split /\ ~Timeout
    <3>1. /\ state' = state /\ crc' = crc /\ crc_lo' = crc_lo /\ len_q' = len_q
          /\ mb_cnt' = mb_cnt /\ pl_idx' = pl_idx
      BY <2>1, <2>4 DEF IdleEdge, Timeout, Desynced, Outcome, hdrVars
    <3>2. /\ p_state' = p_state /\ p_crc' = p_crc /\ p_crc_lo' = p_crc_lo /\ p_len' = p_len /\ p_idx' = p_idx
      BY <2>1 DEF NotFed
    <3> QED
      BY <2>2, <2>4, <3>1, <3>2 DEF Mirror, InPayload
  <2> QED
    BY <2>3, <2>4
<1> QED
  BY <1>2, <1>3, <1>4 DEF PairNext

\* The mirror of protocol.c, for every packet, fault, timeout and size of the
\* protocol: until a foreign version byte or a timeout parts them, decoder and
\* host parser stand at the same byte and accept the same packets.
THEOREM ParsersInLockStep == PairSpec => LockStep
<1> DEFINE Inv == LinkInv /\ Octets /\ Mirror
           Same == ~split => /\ (p_ret' <=> Dispatched')
                             /\ split' \/ p_state' = state'
<1>1. PairInit => Inv
  <2> SUFFICES ASSUME PairInit PROVE Inv
    OBVIOUS
  <2>1. LinkInv
    BY InitLink DEF PairInit
  <2>2. Octets /\ Mirror
    BY DEF PairInit, Init, DecInit, HostInit, Octets, Mirror, InPayload
  <2> QED
    BY <2>1, <2>2
<1>2. PairNext => Next
  BY DEF PairNext, PairDeliver, PairNoise, PairSilent, Next
<1>3. Inv /\ [PairNext]_pairVars => Inv'
  <2> SUFFICES ASSUME Inv, [PairNext]_pairVars PROVE Inv'
    OBVIOUS
  <2>1. [Next]_vars
    BY <1>2 DEF pairVars
  <2>2. LinkInv' /\ Octets'
    BY <2>1, NextKeepsLink, NextKeepsOctets DEF LinkInv
  <2>3. Mirror'
    <3>1. CASE PairNext
      BY <3>1, PairKeepsMirror
    <3>2. CASE UNCHANGED pairVars
      BY <3>2 DEF pairVars, hostVars, vars, decVars, hdrVars, Mirror, InPayload
    <3> QED
      BY <3>1, <3>2
  <2> QED
    BY <2>2, <2>3
<1>4. Inv /\ [PairNext]_pairVars => [Same]_pairVars
  BY PairKeepsMirror
<1> HIDE DEF Inv
<1> QED
  BY <1>1, <1>3, <1>4, PTL DEF PairSpec, LockStep

=============================================================================
