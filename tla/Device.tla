------------------------------- MODULE Device -------------------------------
(***************************************************************************)
(* The accelerator as a host sees it through the packet decoder and the    *)
(* packet encoder: what it does with a whole packet and what it sends.     *)
(* The modules of the core show how it gets there.  A frame is its number, *)
(* a window the sequence of its frames, and the decision of the smoother   *)
(* on the k-th window of a session is whether k is in FIRING.  A packet to *)
(* the device is [type, fn, id]; its id only tells commands apart.         *)
(***************************************************************************)
EXTENDS Naturals, Sequences, FiniteSets

CONSTANTS
  WINDOW_LEN,      \* frames of a window                          (32)
  WINDOW_STRIDE,   \* frames from one window to the next          (8)
  FIRING           \* windows of a session that end in a detection

ASSUME DeviceAssumption ==
  /\ WINDOW_LEN \in Nat \ {0} /\ WINDOW_STRIDE \in Nat \ {0}
  /\ FIRING \subseteq Nat

CommandTypes == {"PING", "RESET", "START", "STOP", "READ_STATS", "READ_VERSION"}

\* The statistics a host compares, as the counters of the core strobe them.
NoStats == [frames_rx |-> 0, dropped |-> 0, crc |-> 0, inferences |-> 0, keywords |-> 0]

NoResponse == [type |-> "none"]
NoJob == <<>>

\* After power-up or reset_sync: not streaming, nothing kept.
DevPowerUp ==
  [stream |-> FALSE, commits |-> 0, window |-> <<>>, job |-> NoJob, decided |-> 0,
   stats |-> NoStats, rsp |-> NoResponse]

-----------------------------------------------------------------------------
(* Frames. *)

Bump(d, counter) == [d EXCEPT !.stats[counter] = @ + 1]

\* The newest WINDOW_LEN frames with fn behind them.
Shift(window, fn) ==
  LET longer == Append(window, fn)
  IN  IF Len(longer) > WINDOW_LEN THEN Tail(longer) ELSE longer

\* The n-th commit of a session ends a window.
EndsWindow(n) == n >= WINDOW_LEN /\ (n - WINDOW_LEN) % WINDOW_STRIDE = 0

\* Mutant: frames are committed while streaming is off.
CommitAlways(d, fn) ==
  LET window == Shift(d.window, fn)
  IN  [Bump(d, "frames_rx") EXCEPT
         !.commits = @ + 1,
         !.window = window,
         !.job = IF EndsWindow(d.commits + 1) THEN window ELSE @]

Commit(d, fn) ==
  IF ~d.stream THEN Bump(d, "dropped")
  ELSE LET window == Shift(d.window, fn)
       IN  [Bump(d, "frames_rx") EXCEPT
              !.commits = @ + 1,
              !.window = window,
              !.job = IF EndsWindow(d.commits + 1) THEN window ELSE @]

\* The window under inference is decided; and whether it is a detection.
Fires(d) == d.decided + 1 \in FIRING

Decide(d) ==
  LET done == [Bump(d, "inferences") EXCEPT !.job = NoJob, !.decided = @ + 1]
  IN  IF Fires(d) THEN Bump(done, "keywords") ELSE done

\* What clr_stream clears.
FreshSession(d) == [d EXCEPT !.commits = 0, !.window = <<>>, !.job = NoJob, !.decided = 0]

-----------------------------------------------------------------------------
(* Commands. *)

Effect(d, type) ==
  CASE type = "RESET" -> [FreshSession(d) EXCEPT !.stream = FALSE, !.stats = NoStats]
    [] type = "START" -> [FreshSession(d) EXCEPT !.stream = TRUE]
    [] type = "STOP"  -> [d EXCEPT !.stream = FALSE]
    [] OTHER          -> d

ResponseType(type) ==
  CASE type = "READ_STATS"   -> "STATS"
    [] type = "READ_VERSION" -> "VERSION"
    [] OTHER                 -> "ACK"

\* The response echoes the command's type and frame number; a snapshot of the
\* counters goes with it.
Response(d, p) ==
  [type |-> ResponseType(p.type), cmd |-> p.type, fn |-> p.fn, id |-> p.id,
   stats |-> IF p.type = "READ_STATS" THEN d.stats ELSE NoStats]

Error(p) ==
  [type |-> "ERROR", cmd |-> p.type, fn |-> p.fn, id |-> p.id, stats |-> NoStats]

\* The core takes a packet that reached it: a garbled one is only counted.
Receive(d, p) ==
  CASE p.type = "GARBLED"     -> Bump(d, "crc")
    [] p.type = "FEATURE"     -> Commit(d, p.fn)
    [] p.type \in CommandTypes -> [Effect(d, p.type) EXCEPT !.rsp = Response(d, p)]
    [] OTHER                  -> [d EXCEPT !.rsp = Error(p)]

Answers(p) == p.type \notin {"GARBLED", "FEATURE"}

\* An engine decides a window long before the next one is due.
Ready(d, p) == p.type = "FEATURE" /\ EndsWindow(d.commits + 1) => d.job = NoJob

\* The response register is one deep.  A command that comes before the last
\* response has left overwrites it; if its header has gone out already, the
\* rest of it is served from the new one.
Overtaken(d, p) ==
  IF Answers(p) /\ d.rsp # NoResponse
    THEN {<<>>, <<d.rsp>>}
    ELSE {<<>>}

Event(d) == [type |-> "EVT", fn |-> d.job[WINDOW_LEN], window |-> d.job, nth |-> d.decided + 1]

=============================================================================
