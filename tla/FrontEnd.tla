------------------------------ MODULE FrontEnd ------------------------------
(***************************************************************************)
(* The two users of the front end: the live loop and the featurizer whose  *)
(* frames the model is trained on.  What must hold of each, and between    *)
(* them.                                                                   *)
(***************************************************************************)
EXTENDS LiveLoop, Featurize

VARIABLE side   \* which of the two programs runs

vars == <<side, loopVars, micVars, featVars>>

Init ==
  /\ LoopInit /\ FeatInit
  /\ \/ side = "live"
     \/ side = "featurize" /\ source = "wav" /\ file = CHOOSE f \in FILES : TRUE
  /\ side = "live" => opt = (CHOOSE o \in OPTIONS : TRUE) /\ manifest = <<>>
  /\ source # "wav" => file = CHOOSE f \in FILES : TRUE

Live == side = "live" /\ LoopNext /\ UNCHANGED <<side, featVars>>
Train == side = "featurize" /\ FeatNext /\ UNCHANGED <<side, loopVars, micVars>>

Next == Live \/ Train

Spec == Init /\ [][Next]_vars

-----------------------------------------------------------------------------
\* Every frame is as long as a frame and every position in range.
TypeOK ==
  /\ Len(frame) = FRAME_LEN /\ Len(got) < FRAME_LEN
  /\ cur_buf \in Buffers /\ cur_off \in 0 .. MIC_BUF_LEN - 1
  /\ \A k \in DOMAIN sent : Len(sent[k].data) = FRAME_LEN
  /\ \A k \in DOMAIN out : \A j \in DOMAIN out[k].frames : Len(out[k].frames[j].data) = FRAME_LEN

\* The k-th frame of a signal: pre-emphasis starts from the sample just before it.
FrameAt(signal, k) ==
  [prev |-> IF k = 1 THEN Silence ELSE signal[(k - 1) * HOP_LEN],
   data |-> SubSeq(signal, (k - 1) * HOP_LEN + 1, (k - 1) * HOP_LEN + FRAME_LEN)]

WholeFramesIn(signal) ==
  IF Len(signal) < FRAME_LEN THEN 0 ELSE ((Len(signal) - FRAME_LEN) \div HOP_LEN) + 1

\* Samples behind the last whole frame.
Remainder(signal) == IF Len(signal) < FRAME_LEN THEN Len(signal) ELSE (Len(signal) - FRAME_LEN) % HOP_LEN

\* "Exactly as the live host would": the frames of a file streamed live are the
\* frames of the file, as whole mode is to write them, and at most one more, when
\* samples are left over that do not fill a hop.
LiveFrames ==
  source = "wav" =>
    LET whole == WholeFramesIn(Content(file))
    IN  /\ \A k \in DOMAIN sent : k <= whole => sent[k] = FrameAt(Content(file), k)
        /\ side = "live" /\ lp = "end" /\ ~stopped /\ WavAccepted(file)
             => Len(sent) = whole + (IF Remainder(Content(file)) > 0 THEN 1 ELSE 0)

\* Memory that was never written is analysed only if the source ends in the first
\* frame.
JunkOnlyIfShort ==
  (\E k \in DOMAIN sent : \E i \in 1 .. FRAME_LEN : sent[k].data[i] = Junk)
    => source = "wav" /\ SamplesIn(file) < FRAME_LEN /\ Len(sent) = 1

\* What the live loop sends of a file is the file and nothing else.
LiveIsTheSignal == TypeOK /\ LiveFrames /\ JunkOnlyIfShort

\* What the microphone heard is analysed in its order, each frame a hop behind the
\* last; samples are skipped only where the driver had no buffer, and reader and
\* driver pass the buffers to each other in order.
Number(sample) == (CHOOSE o \in sample : TRUE)[2]

MicInOrder ==
  source = "mic" =>
    /\ RingInOrder
    /\ \A k \in DOMAIN sent : \A i \in 1 .. FRAME_LEN - 1 :
         Number(sent[k].data[i]) + 1 .. Number(sent[k].data[i + 1]) - 1 \subseteq lost
           /\ Number(sent[k].data[i]) < Number(sent[k].data[i + 1])
    /\ \A k \in 2 .. Len(sent) :
         /\ SubSeq(sent[k].data, 1, FRAME_LEN - HOP_LEN) = SubSeq(sent[k - 1].data, HOP_LEN + 1, FRAME_LEN)
         /\ sent[k].prev = sent[k - 1].data[HOP_LEN]

\* A training record is a run of the frames of one clip, within it, analysed as the
\* live loop would analyse it: with pre-emphasis carried from frame to frame and
\* nothing of the clip before.
RecordsAreOfOneClip ==
  opt.mode # "whole" =>
    \A k \in DOMAIN out : \E s \in 0 .. CLIP_FRAMES - Len(out[k].frames) :
      \A j \in DOMAIN out[k].frames : out[k].frames[j] = FrameAt(accepted[k], s + j)

\* A record of whole mode holds the frames of its own file, if that is a frame long;
\* of a shorter one it may hold a frame that ends in the samples of another.
WholeIsTheSignal ==
  opt.mode = "whole" =>
    \A k \in DOMAIN out : Len(accepted[k]) >= FRAME_LEN =>
      \A j \in DOMAIN out[k].frames : out[k].frames[j] = FrameAt(accepted[k], j)

\* The header patched at the end tells how many records follow and how long each is;
\* in whole mode as long as the file holds one record.
HeaderTrue ==
  closed /\ opt.mode # "stats" /\ (opt.mode = "whole" => Len(out) <= 1) =>
    /\ header.n_records = Len(out)
    /\ \A k \in DOMAIN out : Len(out[k].frames) = header.rec_frames

\* Records hold what the clips and files they come from hold, under a header that
\* counts them.
RecordsAreTrue == RecordsAreOfOneClip /\ WholeIsTheSignal /\ HeaderTrue

-----------------------------------------------------------------------------
(* Values for TLC: files that differ in length, layout and format, the      *)
(* command lines, and manifests of one and two lines.                      *)

Chunk(id, size) == [id |-> id, size |-> size]
Plain == <<Chunk("fmt ", 16), Chunk("data", 0)>>

Wav(name, chunks, channels, claimed, there) ==
  [name |-> name, riff |-> TRUE, chunks |-> chunks, pcm16 |-> TRUE, channels |-> channels,
   claimed |-> claimed, there |-> there]

\* Mono, in samples.
Mono(name, n) == Wav(name, Plain, 1, 2 * n, 2 * n)

Lengths == {Mono("empty", 0), Mono("one", 1), Mono("three", 3), Mono("four", 4), Mono("frame", 5),
            Mono("aligned", 11), Mono("clip", 14), Mono("longer", 17), Mono("longest", 20)}

Others ==
  { Wav("stereo", Plain, 2, 46, 46), Wav("cut short", Plain, 1, 30, 25), Wav("odd", Plain, 1, 25, 25),
    Wav("other chunks", <<Chunk("LIST", 7), Chunk("fmt ", 18), Chunk("fact", 4), Chunk("data", 0)>>, 1, 26, 26),
    Wav("bad fmt", <<Chunk("fmt ", 14), Chunk("data", 0)>>, 1, 26, 26),
    Wav("fmt late", <<Chunk("data", 0), Chunk("fmt ", 16)>>, 1, 26, 26),
    Wav("surround", Plain, 3, 30, 30), [Mono("8 bit", 12) EXCEPT !.pcm16 = FALSE],
    [Mono("no riff", 12) EXCEPT !.riff = FALSE] }

AllFiles == Lengths \cup Others

Opt(mode, jitter, stretch, mix) == [mode |-> mode, jitter |-> jitter, stretch |-> stretch, mix |-> mix]

AllOptions ==
  { Opt("stats", FALSE, FALSE, FALSE), Opt("all", FALSE, FALSE, TRUE), Opt("windows", FALSE, FALSE, FALSE),
    Opt("windows", TRUE, TRUE, TRUE), Opt("whole", FALSE, FALSE, FALSE) }

Entry(label, f, offset) == [label |-> label, file |-> f, offset |-> offset]

SingleLines == {<<Entry(label, f, offset)>> : label \in {0, 2}, f \in AllFiles, offset \in {-1, 3, 16}}
TwoLines == {<<Entry(2, f, 0), Entry(1, g, 1)>> :
               f \in {Mono("longer", 17), Wav("stereo", Plain, 2, 46, 46)},
               g \in {Mono("aligned", 11), Mono("four", 4), Mono("clip", 14), Wav("cut short", Plain, 1, 30, 25)}}
AllManifests == SingleLines \cup TwoLines \cup {<<>>}

=============================================================================
