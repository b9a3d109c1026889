------------------------------ MODULE Featurize ------------------------------
(***************************************************************************)
(* host/src/featurize.c: the training featurizer, one step per line of the *)
(* manifest.  Random draws are choices.                                    *)
(***************************************************************************)
EXTENDS Frames

CONSTANTS
  CLIP_SAMPLES, WIN_FRAMES,   \* (16000, 32)
  JITTER,                     \* crops this far to each side                 (4)
  WHOLE_MAX_SAMPLES,
  RATES,                      \* of the fast copy, in thousandths   (1100..1150)
  NOISE_LEN,                  \* samples of the noise recordings
  OPTIONS, MANIFESTS          \* command lines and manifests tried

CLIP_FRAMES == (CLIP_SAMPLES - FRAME_LEN) \div HOP_LEN + 1

\* Noise shorter than a clip is not loaded.
ASSUME FeaturizeAssumption ==
  /\ CLIP_SAMPLES \in Nat /\ CLIP_SAMPLES >= FRAME_LEN /\ WIN_FRAMES \in 1 .. CLIP_FRAMES
  /\ NOISE_LEN > CLIP_SAMPLES /\ WHOLE_MAX_SAMPLES \in Nat /\ WHOLE_MAX_SAMPLES >= FRAME_LEN
  /\ JITTER \in Nat /\ \A m \in MANIFESTS : m \in Seq([label : Int, file : FILES, offset : Int])

VARIABLES
  opt,         \* the options: mode, jitter, stretch, mix
  manifest,    \* what is left of it: label, file, offset
  wbuf,        \* the static buffer of whole mode
  n_records, rec_frames, s_n,
  out,         \* the records written: label, frames
  header,      \* n_records and frames_per_record in the output
  closed,
  accepted     \* history: per record, the clip it is of

featVars == <<opt, manifest, wbuf, n_records, rec_frames, s_n, out, header, closed, accepted>>

-----------------------------------------------------------------------------
(* Clips. *)

\* wav_read_clip: cropped or padded with silence to a clip.
ClipOf(f, offset) ==
  LET start == IF offset < 0 THEN 0 ELSE offset
  IN  [i \in 1 .. CLIP_SAMPLES |->
         IF start + i <= SamplesIn(f) THEN Sample(f, start + i) ELSE Silence]

\* time_stretch_inplace: between two samples of the source, silence past its end.
Stretched(clip, rate) ==
  [i \in 1 .. CLIP_SAMPLES |->
     LET i0 == ((i - 1) * rate) \div 1000
         exact == ((i - 1) * rate) % 1000 = 0
     IN  IF i0 >= CLIP_SAMPLES - 1 THEN Silence
         ELSE clip[i0 + 1] \cup (IF exact THEN Silence ELSE clip[i0 + 2])]

\* maybe_time_stretch: of keywords only; the copies made, none or one.
StretchChoices(clip, label) ==
  {<<>>} \cup (IF opt.stretch /\ label >= 2 THEN {<<Stretched(clip, r)>> : r \in RATES} ELSE {})

\* mix_noise: any stretch of the noise, or none.
MixChoices(clip, label) ==
  {clip} \cup
  (IF opt.mix /\ label # 0
   THEN {[i \in 1 .. CLIP_SAMPLES |-> clip[i] \cup {<<"noise", off + i>>}] :
           off \in 0 .. NOISE_LEN - CLIP_SAMPLES - 1}
   ELSE {})

-----------------------------------------------------------------------------
(* Records. *)

\* best_window: any start may be that of the loudest window.
BestWindows == 0 .. CLIP_FRAMES - WIN_FRAMES

IntoClip(s) == IF s < 0 THEN 0 ELSE Least(s, CLIP_FRAMES - WIN_FRAMES)

\* emit_windowed_records: one crop or three.
Crops(frames, label, s0) ==
  LET starts == <<s0, s0 - JITTER, s0 + JITTER>>
  IN  [c \in 1 .. (IF opt.jitter THEN 3 ELSE 1) |->
         [label |-> label,
          frames |-> SubSeq(frames, IntoClip(starts[c]) + 1, IntoClip(starts[c]) + WIN_FRAMES)]]

\* Mutant: the state of the last clip goes on into the next.
ClipFramesGoOn(clip) == FramesOf(IF out = <<>> THEN Silence ELSE Junk, clip, CLIP_FRAMES)

\* clip_frames_q: pre-emphasis starts afresh.
ClipFrames(clip) == FramesOf(Silence, clip, CLIP_FRAMES)

\* The records a clip may give.
RecordChoices(clip, label) ==
  IF opt.mode = "all" THEN {<<[label |-> label, frames |-> ClipFrames(clip)]>>}
  ELSE {Crops(ClipFrames(clip), label, s0) : s0 \in BestWindows}

\* Of the fast copy, in windowed mode.
CopyChoices(copy, label) ==
  IF copy = <<>> \/ opt.mode = "all" THEN {<<>>} ELSE RecordChoices(copy[1], label)

\* All of a clip's records are of the clip.
Of(records, clip) == [k \in 1 .. Len(records) |-> clip]

Emit(records, clips) ==
  /\ out' = out \o records /\ n_records' = n_records + Len(records)
  /\ accepted' = accepted \o clips

-----------------------------------------------------------------------------
(* The lines of the manifest. *)

Line == Head(manifest)
NextLine == ~closed /\ manifest # <<>> /\ manifest' = Tail(manifest)
Skip == UNCHANGED <<wbuf, n_records, rec_frames, s_n, out, accepted>>

\* wav_read_whole: mono, and all that is wanted of the claim must be there.
WholeSamples(f) == Least(f.claimed \div 2, WHOLE_MAX_SAMPLES)
WholeReadable(f) == WavAccepted(f) /\ f.channels = 1 /\ WholeSamples(f) <= f.there \div 2

Quotient(a, b) == IF a >= 0 THEN a \div b ELSE -((-a) \div b)   \* of C

WholeFrames(n) == Quotient(n - FRAME_LEN, HOP_LEN) + 1

\* fread leaves the rest of the buffer as it was, also when it falls short.
Overwritten(f) == [i \in 1 .. Len(wbuf) |->
  IF i <= Least(WholeSamples(f), f.there \div 2) THEN Sample(f, i) ELSE wbuf[i]]

WholeLine ==
  /\ NextLine /\ opt.mode = "whole"
  /\ LET f == Line.file
         n == WholeFrames(WholeSamples(f))
         now == Overwritten(f)
     IN  \/ ~(WavAccepted(f) /\ f.channels = 1) /\ Skip
         \/ /\ WavAccepted(f) /\ f.channels = 1
            /\ ~WholeReadable(f) \/ n < 1
            /\ wbuf' = now /\ UNCHANGED <<n_records, rec_frames, s_n, out, accepted>>
         \/ /\ WholeReadable(f) /\ n >= 1
            /\ wbuf' = now /\ rec_frames' = n
            /\ Emit(<<[label |-> Line.label, frames |-> FramesOf(Silence, now, n)]>>, <<Content(f)>>)
            /\ UNCHANGED s_n
  /\ UNCHANGED <<opt, header, closed>>

\* The clean or mixed record always, the fast copy on top of it.
ClipLine ==
  /\ NextLine /\ opt.mode # "whole"
  /\ \/ ~WavAccepted(Line.file) /\ Skip
     \/ /\ WavAccepted(Line.file)
        /\ LET clean == ClipOf(Line.file, Line.offset)
           IN  \E copy \in StretchChoices(clean, Line.label), clip \in MixChoices(clean, Line.label) :
                 \/ /\ opt.mode = "stats"
                    /\ s_n' = s_n + CLIP_FRAMES /\ UNCHANGED <<n_records, out, accepted>>
                 \/ /\ opt.mode # "stats" /\ UNCHANGED s_n
                    /\ \E own \in RecordChoices(clip, Line.label), extra \in CopyChoices(copy, Line.label) :
                         Emit(own \o extra, Of(own, clip) \o Of(extra, Head(copy \o <<clip>>)))
        /\ UNCHANGED <<wbuf, rec_frames>>
  /\ UNCHANGED <<opt, header, closed>>

FeatFinish ==
  /\ ~closed /\ manifest = <<>>
  /\ closed' = TRUE
  /\ header' = IF opt.mode = "stats" THEN header
               ELSE [n_records |-> n_records,
                     rec_frames |-> IF opt.mode = "whole" THEN rec_frames ELSE header.rec_frames]
  /\ UNCHANGED <<opt, manifest, wbuf, n_records, rec_frames, s_n, out, accepted>>

FeatInit ==
  /\ opt \in OPTIONS /\ manifest \in MANIFESTS
  /\ wbuf = [i \in 1 .. WHOLE_MAX_SAMPLES |-> Silence]
  /\ n_records = 0 /\ s_n = 0 /\ out = <<>> /\ accepted = <<>> /\ closed = FALSE
  /\ rec_frames = IF opt.mode = "all" THEN CLIP_FRAMES ELSE WIN_FRAMES
  /\ header = [n_records |-> 0, rec_frames |-> rec_frames]

FeatNext == WholeLine \/ ClipLine \/ FeatFinish

=============================================================================
