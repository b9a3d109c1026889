------------------------------- MODULE Frames -------------------------------
(***************************************************************************)
(* From samples to analysis frames: host/src/mfcc.c as far as it decides   *)
(* which samples a frame is computed from, and the WAV readers of audio.c  *)
(* and featurize.c.  A sample is the set of its origins: one sample of a   *)
(* file, several when mixed or interpolated, none for silence.             *)
(***************************************************************************)
EXTENDS Integers, Sequences, SequencesExt, FiniteSetsExt

CONSTANTS
  FRAME_LEN, HOP_LEN,   \* KWS_MFCC_FRAME_LEN, _HOP_LEN   (400, 160)
  FILES                 \* the WAV files, as records: see WellFormed

ASSUME FramesAssumption == HOP_LEN \in Nat \ {0} /\ FRAME_LEN \in Nat /\ FRAME_LEN > HOP_LEN
ASSUME FilesAssumption == \A f \in FILES : f.claimed \in Nat /\ f.there \in Nat

Silence == {}
Junk == {<<"junk", 0>>}   \* what an uninitialised array holds

Least(a, b) == IF a < b THEN a ELSE b

\* kws_mfcc_frame_f: the frame and the sample pre-emphasis starts from; the
\* state moves by a hop, not by a frame.
MfccFrame(preemph_state, samples) == [prev |-> preemph_state, data |-> samples]
MfccState(samples) == samples[HOP_LEN]

\* n frames of a buffer, one after the other at hops.
FramesOf(preemph_state, buf, n) ==
  LET samples(k) == SubSeq(buf, (k - 1) * HOP_LEN + 1, (k - 1) * HOP_LEN + FRAME_LEN)
  IN  [k \in 1 .. n |->
         MfccFrame(IF k = 1 THEN preemph_state ELSE MfccState(samples(k - 1)), samples(k))]

-----------------------------------------------------------------------------
(* WAV files: a sequence of chunks, the format of a fmt chunk, the bytes   *)
(* the data chunk claims and those that are there.                         *)

\* Index of the data chunk, or 0.  The walk goes wrong on a fmt chunk that is short,
\* or odd, whose pad byte is not skipped.
Passable(c) == c.id # "fmt " \/ (c.size >= 16 /\ c.size % 2 = 0)

DataChunk(f) ==
  LET found == {d \in DOMAIN f.chunks :
                  /\ f.chunks[d].id = "data"
                  /\ \A c \in 1 .. d - 1 : f.chunks[c].id # "data" /\ Passable(f.chunks[c])}
  IN  IF f.riff /\ found # {} THEN CHOOSE d \in found : TRUE ELSE 0

\* The last fmt chunk before the data is the one that counts.
FormatKnown(f) == \E c \in 1 .. DataChunk(f) - 1 : f.chunks[c].id = "fmt "

\* PCM16 at the right rate, mono or stereo.
WavAccepted(f) == DataChunk(f) # 0 /\ FormatKnown(f) /\ f.pcm16 /\ f.channels \in {1, 2}

\* wav_read: whole sample frames within the claim and within the file.
SamplesIn(f) == Least(f.claimed, f.there) \div (2 * f.channels)

Sample(f, i) == {<<f.name, i>>}
Content(f) == [i \in 1 .. SamplesIn(f) |-> Sample(f, i)]

=============================================================================
