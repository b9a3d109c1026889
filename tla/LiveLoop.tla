------------------------------ MODULE LiveLoop ------------------------------
(***************************************************************************)
(* The sampling side of host/src/main.c: it primes a frame from a source   *)
(* of host/src/audio.c, computes features of it, and refills it a hop at a *)
(* time.  The serial side is HostSession.                                  *)
(***************************************************************************)
EXTENDS Frames

(* The Windows microphone of audio.c: a ring of buffers handed to the       *)
(* driver, which fills them in the order it got them while mic_read empties *)
(* them.  A sample is its number; what comes while the driver has no buffer *)
(* is lost.                                                                 *)

CONSTANTS
  MIC_N_BUF, MIC_BUF_LEN,   \* (8, 320)
  MAX_HEARD                 \* bound: samples of one behaviour

ASSUME MicAssumption == MIC_N_BUF \in Nat \ {0} /\ MIC_BUF_LEN \in Nat \ {0} /\ MAX_HEARD \in Nat

VARIABLES
  mic_buf,   \* what is recorded in each buffer
  done,      \* WHDR_DONE
  queue,     \* buffers at the driver, in its order
  cur_buf, cur_off,
  heard, lost

micVars == <<mic_buf, done, queue, cur_buf, cur_off, heard, lost>>

Buffers == 0 .. MIC_N_BUF - 1

MicOpen ==
  /\ mic_buf = [b \in Buffers |-> <<>>] /\ done = [b \in Buffers |-> FALSE]
  /\ queue = [k \in 1 .. MIC_N_BUF |-> k - 1]
  /\ cur_buf = 0 /\ cur_off = 0 /\ heard = 0 /\ lost = {}

\* The driver records a sample; a full buffer is done.
MicHear ==
  /\ heard < MAX_HEARD /\ heard' = heard + 1
  /\ \/ /\ queue = <<>> /\ lost' = lost \cup {heard + 1}
        /\ UNCHANGED <<mic_buf, done, queue>>
     \/ /\ queue # <<>> /\ UNCHANGED lost
        /\ LET b == Head(queue)
               full == Len(mic_buf[b]) + 1 = MIC_BUF_LEN
           IN  /\ mic_buf' = [mic_buf EXCEPT ![b] = Append(@, heard + 1)]
               /\ done' = [done EXCEPT ![b] = full]
               /\ queue' = IF full THEN Tail(queue) ELSE queue
  /\ UNCHANGED <<cur_buf, cur_off>>

\* Mutant: a buffer is read from its start again.
TakeFromStart(wanted) ==
  LET avail == Len(mic_buf[cur_buf]) - cur_off
  IN  SubSeq(mic_buf[cur_buf], 1, IF wanted < avail THEN wanted ELSE avail)

\* One round of mic_read's loop, with so many samples still wanted.
Take(wanted) ==
  LET avail == Len(mic_buf[cur_buf]) - cur_off
  IN  SubSeq(mic_buf[cur_buf], cur_off + 1, cur_off + (IF wanted < avail THEN wanted ELSE avail))

\* An emptied buffer goes back to the driver, behind the others.
MicRound(wanted) ==
  /\ done[cur_buf]
  /\ LET taken == Len(Take(wanted))
     IN  IF cur_off + taken >= Len(mic_buf[cur_buf])
         THEN /\ done' = [done EXCEPT ![cur_buf] = FALSE]
              /\ mic_buf' = [mic_buf EXCEPT ![cur_buf] = <<>>]
              /\ queue' = Append(queue, cur_buf)
              /\ cur_buf' = (cur_buf + 1) % MIC_N_BUF /\ cur_off' = 0
         ELSE cur_off' = cur_off + taken /\ UNCHANGED <<mic_buf, done, queue, cur_buf>>
  /\ UNCHANGED <<heard, lost>>

\* The ring is whole: from cur_buf on, first the buffers that are done, then those of
\* the driver in the order it fills them; only its first may hold samples.
RingInOrder ==
  LET ring == [k \in 1 .. MIC_N_BUF |-> (cur_buf + (k - 1)) % MIC_N_BUF]
      n == MIC_N_BUF - Len(queue)
  IN  /\ Len(queue) <= MIC_N_BUF
      /\ queue = SubSeq(ring, n + 1, MIC_N_BUF)
      /\ \A k \in 1 .. MIC_N_BUF : done[ring[k]] <=> k <= n
      /\ \A k \in 1 .. MIC_N_BUF : mic_buf[ring[k]] # <<>> => k <= n + 1

-----------------------------------------------------------------------------
(* The loop. *)

CONSTANT SOURCES   \* of "mic", "wav", "synth"

VARIABLES
  source, file,   \* kws_audio_open
  pos,            \* samples read of the file, or made
  frame, got,     \* the frame; samples of the read in progress
  lp,             \* "prime", "send", "read", "end"
  preemph_state,
  sent,           \* the frames analysed
  stopped         \* history: the loop was told to stop

loopVars == <<source, file, pos, frame, got, lp, preemph_state, sent, stopped>>

Wanted == IF lp = "prime" THEN FRAME_LEN ELSE HOP_LEN
Reading == lp \in {"prime", "read"}

\* The samples of a read go behind what the shift left, over what was there.
Into(samples) ==
  LET kept == FRAME_LEN - Wanted
  IN  [i \in 1 .. FRAME_LEN |->
         IF i \in kept + 1 .. kept + Len(samples) THEN samples[i - kept] ELSE frame[i]]

\* Nothing read: the stream has ended.
ReadDone(samples) ==
  IF samples = <<>> THEN lp' = "end" /\ UNCHANGED frame
  ELSE lp' = "send" /\ frame' = Into(samples)

\* wav_read and synth_read are done at once, but for the pacing.
ReadFile ==
  /\ Reading /\ source = "wav"
  /\ LET samples == SubSeq(Content(file), pos + 1, Least(pos + Wanted, SamplesIn(file)))
     IN  ReadDone(samples) /\ pos' = pos + Len(samples)
  /\ UNCHANGED <<source, file, got, preemph_state, sent, stopped, micVars>>

Made(i) == {<<"synth", i>>}

ReadSynth ==
  /\ Reading /\ source = "synth" /\ pos + Wanted <= MAX_HEARD
  /\ ReadDone([k \in 1 .. Wanted |-> Made(pos + k)]) /\ pos' = pos + Wanted
  /\ UNCHANGED <<source, file, got, preemph_state, sent, stopped, micVars>>

\* mic_read goes on until it has all.
Heard(i) == {<<"mic", i>>}

ReadMic ==
  /\ Reading /\ source = "mic" /\ Len(got) < Wanted
  /\ MicRound(Wanted - Len(got))
  /\ LET samples == got \o [k \in DOMAIN Take(Wanted - Len(got)) |-> Heard(Take(Wanted - Len(got))[k])]
     IN  IF Len(samples) = Wanted THEN ReadDone(samples) /\ got' = <<>>
         ELSE got' = samples /\ UNCHANGED <<lp, frame>>
  /\ UNCHANGED <<source, file, pos, preemph_state, sent, stopped>>

\* Mutant: the frame is shifted by one sample too many.
ShiftedTooFar == [i \in 1 .. FRAME_LEN |-> IF i + HOP_LEN < FRAME_LEN THEN frame[i + HOP_LEN + 1] ELSE frame[i]]

\* memmove: what lies behind stays until it is overwritten.
Shifted == [i \in 1 .. FRAME_LEN |-> IF i + HOP_LEN <= FRAME_LEN THEN frame[i + HOP_LEN] ELSE frame[i]]

\* kws_mfcc_frame and the advance by a hop.
SendFrame ==
  /\ lp = "send"
  /\ sent' = Append(sent, MfccFrame(preemph_state, frame))
  /\ preemph_state' = MfccState(frame)
  /\ frame' = Shifted /\ lp' = "read"
  /\ UNCHANGED <<source, file, pos, got, stopped, micVars>>

\* SIGINT or the end of the duration, seen between two frames.
Stop ==
  /\ lp = "send" /\ sent # <<>>
  /\ lp' = "end" /\ stopped' = TRUE
  /\ UNCHANGED <<source, file, pos, frame, got, preemph_state, sent, micVars>>

LoopInit ==
  /\ MicOpen
  /\ source \in SOURCES /\ file \in FILES
  /\ pos = 0 /\ got = <<>> /\ sent = <<>> /\ stopped = FALSE
  /\ frame = [i \in 1 .. FRAME_LEN |-> Junk] /\ preemph_state = Silence
  /\ lp = IF source = "wav" /\ ~WavAccepted(file) THEN "end" ELSE "prime"

\* The driver records whether the loop reads or not.
LoopNext ==
  \/ ReadFile \/ ReadSynth \/ ReadMic \/ SendFrame \/ Stop
  \/ source = "mic" /\ MicHear /\ UNCHANGED loopVars

=============================================================================
