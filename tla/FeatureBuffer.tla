--------------------------- MODULE FeatureBuffer ---------------------------
(***************************************************************************)
(* rtl/feature_buffer.sv: the ring of MFCC frames, made of the pointer     *)
(* logic of circular_buffer_controller.sv and of feature_memory.sv.        *)
(*                                                                         *)
(* A frame is identified by its serial number: the how-manieth frame the   *)
(* buffer has accepted since power-up.  mem[s] is the serial of the frame  *)
(* whose NUM_MFCC coefficients slot s holds, or TORN when it holds         *)
(* anything else: power-up contents, or the speculative payload bytes of a *)
(* packet that has not been (or never will be) committed.                  *)
(*                                                                         *)
(* FbufEdge is the effect of one rising clock edge; its parameters are the *)
(* values of the input wires in the cycle that the edge ends.              *)
(***************************************************************************)
EXTENDS KwsPkg

VARIABLES
  wr_frame,      \* slot under (speculative) write
  frames_total,  \* frames committed since the last clear, saturating
  newest_fn,     \* frame number of the newest committed frame
  mem            \* contents of the feature memory, per slot

fbufVars == <<wr_frame, frames_total, newest_fn, mem>>

TORN == 0

FbufInit ==
  /\ wr_frame = 0
  /\ frames_total = 0
  /\ newest_fn = 0
  /\ mem = [s \in Slots |-> TORN]

\* Mutant: a clear rewinds the pointer and leaves the buffer primed.
PointerEdgeStaysPrimed(clear, commit, frame) ==
  \/ /\ clear
     /\ wr_frame' = 0
     /\ UNCHANGED <<frames_total, newest_fn>>
  \/ /\ ~clear /\ commit
     /\ wr_frame' = NextSlot(wr_frame)
     /\ newest_fn' = frame
     /\ frames_total' = IF frames_total = WINDOW_LEN THEN frames_total
                                                     ELSE frames_total + 1
  \/ /\ ~clear /\ ~commit
     /\ UNCHANGED <<wr_frame, frames_total, newest_fn>>

\* Mutant: the frame count does not saturate.
PointerEdgeUnsaturated(clear, commit, frame) ==
  \/ /\ clear
     /\ wr_frame' = 0
     /\ frames_total' = 0
     /\ UNCHANGED newest_fn
  \/ /\ ~clear /\ commit
     /\ wr_frame' = NextSlot(wr_frame)
     /\ newest_fn' = frame
     /\ frames_total' = frames_total + 1
  \/ /\ ~clear /\ ~commit
     /\ UNCHANGED <<wr_frame, frames_total, newest_fn>>

\* circular_buffer_controller: a clear wins over a commit; newest_* survive it.
PointerEdge(clear, commit, frame) ==
  \/ /\ clear
     /\ wr_frame' = 0
     /\ frames_total' = 0
     /\ UNCHANGED newest_fn
  \/ /\ ~clear /\ commit
     /\ wr_frame' = NextSlot(wr_frame)
     /\ newest_fn' = frame
     /\ frames_total' = IF frames_total = WINDOW_LEN THEN frames_total
                                                     ELSE frames_total + 1
  \/ /\ ~clear /\ ~commit
     /\ UNCHANGED <<wr_frame, frames_total, newest_fn>>

\* Mutant: the speculative bytes land on the newest committed frame.
MemoryEdgeOnNewest(write, commit, frame) ==
  \/ /\ commit
     /\ mem' = [mem EXCEPT ![wr_frame] = frame]
  \/ /\ ~commit /\ write
     /\ mem' = [mem EXCEPT ![SlotBefore(wr_frame, 1)] = TORN]
  \/ /\ ~commit /\ ~write
     /\ UNCHANGED mem

\* feature_memory: bytes always land in slot wr_frame_o.  A commit strobe
\* follows the last of the frame's payload bytes, so the slot then holds the
\* whole frame; a write without a commit leaves it torn.
MemoryEdge(write, commit, frame) ==
  \/ /\ commit
     /\ mem' = [mem EXCEPT ![wr_frame] = frame]
  \/ /\ ~commit /\ write
     /\ mem' = [mem EXCEPT ![wr_frame] = TORN]
  \/ /\ ~commit /\ ~write
     /\ UNCHANGED mem

FbufEdge(clear, write, commit, frame) ==
  /\ PointerEdge(clear, commit, frame)
  /\ MemoryEdge(write, commit, frame)

=============================================================================
