----------------------------- MODULE StreamCore -----------------------------
(***************************************************************************)
(* The streaming path of rtl/kws_core.sv, one step per clock cycle: the    *)
(* feature ring, the window scheduler and the inference chain, wired to    *)
(* the streaming-control bits of rtl/register_file.sv and to the clear     *)
(* fan-out.  The inputs of a cycle are the registered strobes of the       *)
(* packet decoder: a frame commit, a command, or a speculative feature     *)
(* byte.                                                                   *)
(*                                                                         *)
(* Two facts about the environment are parameters of the model:            *)
(*   - two packet strobes are never in adjacent cycles (each takes at      *)
(*     least 18 bytes to receive): pkt_q;                                  *)
(*   - a feature packet takes longer to receive (58 bytes, two cycles      *)
(*     each at the very least) than the 40-cycle history sweep the         *)
(*     accumulator makes after a reset;                                    *)
(*   - at most MAX_LAG frames are accepted between the issue of a window   *)
(*     and the end of its inference.  The delivered configuration has an   *)
(*     inference of about 1.4 ms and a frame of about 5 ms on the wire, so *)
(*     MAX_LAG = 1; larger values model the slow engine or the fast link   *)
(*     that the scheduler's drop path exists for.                          *)
(***************************************************************************)
EXTENDS FeatureBuffer, WindowScheduler, EngineChain

CONSTANTS
  MAX_LAG,      \* commits that may arrive during one inference
  MAX_FRAMES,   \* bound: frames accepted in one behaviour
  LAST_RESTART  \* bound: no START or RESET after this many frames

ASSUME EnvironmentAssumption ==
  /\ MAX_LAG \in Nat
  /\ MAX_FRAMES \in Nat
  /\ LAST_RESTART \in Nat

VARIABLES
  stream_en,    \* register_file: streaming enabled
  soft_clear,   \* register_file: one-cycle strobe after RESET
  stream_clear, \* register_file: one-cycle strobe after START
  clr_pulse,    \* clr_pulse_q: the registered engine reset
  pkt_q,        \* environment: a packet strobe in the previous cycle
  \* History, read by no code: it only states the properties.
  fseq,         \* frames accepted since power-up
  sess,         \* value of fseq when the current session was cleared
  issues,       \* windows issued in the current session
  drops,        \* windows dropped in the current session
  first_at,     \* frames in the session when its first window was issued
  drop_seen     \* a window was dropped since the convolution last started

ctrlVars == <<stream_en, soft_clear, stream_clear, clr_pulse, pkt_q>>
histVars == <<fseq, sess, issues, drops, first_at, drop_seen>>
vars == <<fbufVars, schedVars, chainVars, ctrlVars, histVars>>

Commands == {"RESET", "START", "STOP"}

Init ==
  /\ FbufInit /\ SchedInit /\ ChainInit
  /\ stream_en = FALSE /\ soft_clear = FALSE /\ stream_clear = FALSE
  /\ clr_pulse = FALSE /\ pkt_q = FALSE
  /\ fseq = 0 /\ sess = 0 /\ issues = 0 /\ drops = 0 /\ first_at = 0
  /\ drop_seen = FALSE

-----------------------------------------------------------------------------
(* The wires of kws_core. *)

ClrStream == soft_clear \/ stream_clear

\* Mutant: the engines are on the power-on reset only.
EngineResetPowerOn == FALSE

EngineReset == ClrStream \/ clr_pulse   \* clr_pulse_q high before or after the edge

FramesInSession == fseq - sess

\* Frames accepted since the newest frame of the last issued window.
Lag == fseq - win_fn

Active == ChainActive(issue_o)

\* register_file: the streaming-control effect of a command strobe.
RegisterEdge(cmd) ==
  /\ soft_clear' = (cmd = "RESET")
  /\ stream_clear' = (cmd = "START")
  /\ stream_en' = (cmd = "START" \/ (stream_en /\ cmd \notin {"RESET", "STOP"}))

HistoryEdge(commit) ==
  LET issue == IssueNow(stream_en, frames_total, EngineBusy)
      drop  == DropNow(EngineBusy)
  IN  /\ fseq' = IF commit THEN fseq + 1 ELSE fseq
      /\ drop_seen' = IF conv = "IDLE" THEN FALSE ELSE drop_seen \/ drop
      /\ \/ /\ ClrStream
            /\ sess' = fseq' /\ issues' = 0 /\ drops' = 0 /\ first_at' = 0
         \/ /\ ~ClrStream
            /\ issues' = IF issue THEN issues + 1 ELSE issues
            /\ drops' = IF drop THEN drops + 1 ELSE drops
            /\ first_at' = IF issue /\ ~first_done THEN FramesInSession ELSE first_at
            /\ UNCHANGED sess

\* One rising clock edge: every register at once, from the wires of the cycle.
Edge(write, frame, cmd) ==
  LET commit == frame /\ stream_en
  IN  /\ RegisterEdge(cmd)
      /\ clr_pulse' = ClrStream
      /\ pkt_q' = (frame \/ cmd \in Commands)
      /\ FbufEdge(ClrStream, write \/ frame, commit, fseq + 1)
      /\ SchedEdge(ClrStream, stream_en, commit, wr_frame, frames_total,
                   newest_fn, EngineBusy)
      /\ ChainEdge(EngineReset, issue_o, win_base, win_fn)
      /\ HistoryEdge(commit)

-----------------------------------------------------------------------------
(* The inputs a cycle may see. *)

\* No packet completes; the decoder may be storing a payload byte.
QuietCycle == \E write \in BOOLEAN : Edge(write, FALSE, "NONE")

\* A feature packet passes its CRC.
FrameCycle ==
  /\ ~pkt_q
  /\ fseq < MAX_FRAMES
  /\ acc # "CLR"
  /\ Active => Lag < MAX_LAG
  /\ Edge(FALSE, TRUE, "NONE")

\* A command packet is dispatched.
CommandCycle(cmd) ==
  /\ ~pkt_q
  /\ cmd \in {"START", "RESET"} => fseq <= LAST_RESTART
  /\ Edge(FALSE, FALSE, cmd)

Next ==
  \/ QuietCycle
  \/ FrameCycle
  \/ \E cmd \in Commands : CommandCycle(cmd)

Spec == Init /\ [][Next]_vars

\* The clock never stops, and the loop counters of every stage run out.
Fairness ==
  /\ WF_vars(QuietCycle)
  /\ WF_vars(Next /\ conv = "RUN" /\ conv' = "IDLE")
  /\ WF_vars(Next /\ pool = "RUN" /\ pool' = "IDLE")
  /\ WF_vars(Next /\ cls = "RUN" /\ cls' = "IDLE")
  /\ WF_vars(Next /\ acc # "IDLE" /\ acc' = "IDLE")
  /\ WF_vars(Next /\ phase = "SCAN" /\ phase' = "IDLE")

FairSpec == Spec /\ Fairness

-----------------------------------------------------------------------------
(* What must hold.                                                         *)

\* The delivered timing: an inference ends before the next window is due.
NominalTiming == MAX_LAG < WINDOW_STRIDE

\* The ring and its contents: the pointer stays on the ring, the saturating
\* count never claims more frames than the session has.
FbufTypeOK ==
  /\ wr_frame \in Slots
  /\ frames_total \in 0 .. WINDOW_LEN
  /\ newest_fn \in Nat
  /\ mem \in [Slots -> Nat]

\* The scheduler's registers; the credit fits its eight bits.
SchedTypeOK ==
  /\ stride_cnt \in 0 .. CNT_MAX
  /\ first_done \in BOOLEAN /\ issue_o \in BOOLEAN /\ drop_o \in BOOLEAN
  /\ win_base \in Slots /\ win_fn \in Nat

\* The states and strobes of the stages, and the provenance of their data.
ChainTypeOK ==
  /\ conv \in {"IDLE", "RUN"} /\ conv_done \in BOOLEAN
  /\ conv_base \in Slots /\ act_fn \in Nat
  /\ pool \in {"IDLE", "RUN"} /\ pool_done \in BOOLEAN /\ pooled_fn \in Nat
  /\ cls \in {"IDLE", "RUN"} /\ cls_done \in BOOLEAN /\ logits_fn \in Nat
  /\ smooth_update \in BOOLEAN /\ smooth_fn \in Nat
  /\ acc \in {"CLR", "IDLE", "FOLD"} /\ acc_busy_d \in BOOLEAN /\ fold_fn \in Nat
  /\ pend \in BOOLEAN /\ phase \in {"IDLE", "SCAN"}
  /\ detect \in BOOLEAN /\ eval_fn \in Nat

\* The control bits and the history counters.
CtrlTypeOK ==
  /\ stream_en \in BOOLEAN /\ soft_clear \in BOOLEAN /\ stream_clear \in BOOLEAN
  /\ clr_pulse \in BOOLEAN /\ pkt_q \in BOOLEAN
  /\ fseq \in Nat /\ sess \in 0 .. fseq
  /\ issues \in Nat /\ drops \in Nat /\ first_at \in Nat
  /\ drop_seen \in BOOLEAN

\* Every register of the streaming path keeps to the range its width gives it:
\* no ring pointer, credit or count ever leaves it, whatever the inputs.
TypeOK == FbufTypeOK /\ SchedTypeOK /\ ChainTypeOK /\ CtrlTypeOK

-----------------------------------------------------------------------------
\* The slots the running convolution reads still hold, in order, the frames of
\* the window it was started for: the pointer wrap, the speculative write of
\* the next frame, commits during the inference, and a restart in the middle of
\* it never put another frame, or half of one, under the reader.
WindowReadable ==
  \A j \in 0 .. WINDOW_LEN - 1 :
    mem[SlotAfter(conv_base, j)] = (act_fn + 1 + j) - WINDOW_LEN

WindowIntact == conv = "RUN" => WindowReadable

\* docs/architecture.md: an overrun of the ring is "still monitored via
\* windows_drop".  However slow the engine, by the time the writer reaches a
\* slot the convolution may still read, a drop has been counted.
OverrunReported == conv = "RUN" /\ ~WindowReadable => drop_seen

\* No hand-off of the chain is ever lost: a stage that is started is idle, so
\* an issued window is never scheduled (and counted) without being inferred.
NoStartLost ==
  /\ issue_o => conv = "IDLE"
  /\ conv_done => pool = "IDLE"
  /\ pool_done => cls = "IDLE"
  /\ smooth_update => acc = "IDLE" /\ phase = "IDLE"

\* A detection is reported with the frame number of the window it was computed
\* from, and all the frames of that window were sent in the current session.
DetectAttribution ==
  detect => /\ eval_fn = win_fn
            /\ sess + WINDOW_LEN <= eval_fn

\* However late the issues, no commit is lost to the stride grid: the frames
\* since the first window are the strides issued or dropped, plus the credit.
CreditConserved ==
  first_done =>
    FramesInSession = first_at + ((issues + drops) - 1) * WINDOW_STRIDE + stride_cnt

\* An engine at work on a window holds back at most two strides of credit, so
\* the scheduling debt of a slow engine does not grow.
DebtBounded == stride_cnt <= 2 * WINDOW_STRIDE

-----------------------------------------------------------------------------
(* Why the ring is safe: the invariant that is preserved by every edge.    *)

\* Going back from the write pointer, the slots hold the session's frames,
\* newest first, as far as the ring or the session reaches.
RingContents ==
  \A i \in 1 .. HIST_DEPTH - 1 :
    i <= FramesInSession => mem[SlotBefore(wr_frame, i)] = (fseq + 1) - i

CountsAgree ==
  /\ frames_total <= FramesInSession
  /\ FramesInSession > 0 => newest_fn = fseq
  /\ first_done => FramesInSession >= WINDOW_LEN

\* Between the issue edge and the start of the convolution at most one frame
\* can come in; the base and the frame number still name the same window.
IssuedWindow ==
  issue_o =>
    /\ first_done
    /\ sess + WINDOW_LEN <= win_fn
    /\ win_fn = fseq \/ (fseq = win_fn + 1 /\ pkt_q)
    /\ win_base = SlotBefore(wr_frame, WINDOW_LEN + Lag)

\* While the convolution runs, every frame that comes in is either credited to
\* the stride counter or has already forced a drop.
LatchedWindow ==
  conv = "RUN" =>
    /\ first_done
    /\ sess + WINDOW_LEN <= act_fn /\ act_fn <= fseq
    /\ drop_seen \/ fseq - act_fn <= stride_cnt + 1
    /\ WINDOW_LEN + (fseq - act_fn) <= HIST_DEPTH =>
         conv_base = SlotBefore(wr_frame, WINDOW_LEN + (fseq - act_fn))

\* The ring, the counters and the latched window stay in step with each other
\* through commits, issues, drops and clears in any order.
RingInv ==
  DebtBounded /\ RingContents /\ CountsAgree /\ IssuedWindow /\ LatchedWindow

\* The ring has a spare stride beyond the two a drop waits for (32 > 17 as
\* delivered); this is what makes the drop come before the overrun.
OverrunMargin == HIST_DEPTH - WINDOW_LEN > 2 * WINDOW_STRIDE + 1

-----------------------------------------------------------------------------
\* With the delivered timing the whole path implements the abstract schedule.
\* The registers of a session count from the moment its clear takes effect.
Fresh == ClrStream \/ ~first_done

Schedule == INSTANCE WindowSchedule WITH
  on  <- stream_en,
  n   <- IF ClrStream THEN 0 ELSE FramesInSession,
  k   <- IF ClrStream THEN 0 ELSE issues,
  win <- IF Fresh THEN 0 ELSE win_fn - sess

ImplementsSchedule == Schedule!FairSpec

\* An issued window is eventually decided by the smoother, unless RESET or
\* START throws the chain away: no command strands a stage mid-inference.
InferenceCompletes == issue_o ~> (eval_fn = win_fn \/ clr_pulse)

=============================================================================
