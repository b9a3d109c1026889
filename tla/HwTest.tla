------------------------------- MODULE HwTest -------------------------------
(***************************************************************************)
(* The acceptance scenario, which exists twice: host/src/hwtest.c runs it  *)
(* against a board, tb/tb_kws_core.cpp against the simulated core.  A      *)
(* script is the sequence of their steps; the device answers at the other  *)
(* end of a link on which, on the board, a packet may be lost.             *)
(***************************************************************************)
EXTENDS Device

CONSTANTS
  FRAMES,       \* KWS_SELFTEST_FRAMES                              (90)
  CORRUPT,      \* frames of session 1 sent with a flipped bit (12, 55)
  MAX_FLIGHT,   \* bound: packets on the way to the device
  MAX_FAULTS    \* bound: packets lost in one behaviour

ASSUME ScenarioAssumption ==
  /\ FRAMES \in Nat \ {0} /\ CORRUPT \subseteq 0 .. FRAMES - 1
  /\ MAX_FLIGHT \in Nat \ {0} /\ MAX_FAULTS \in Nat
  \* The frame a board may hold from before is no window of its own.
  /\ WINDOW_LEN > 1
  \* The features are chosen so that either session has a detection.
  /\ \E k \in FIRING \ {0} :
       WINDOW_LEN + (k - 1) * WINDOW_STRIDE <= FRAMES - Cardinality(CORRUPT)

VARIABLES
  dev, down, up,
  script, i,    \* the steps, and the one being executed
  pc,           \* "step", "wait" for a reply, or "pump"
  g_ref,        \* the reference mirror
  evt_matched, g_errors,
  \* History, read by no code.
  before,       \* evt_matched at the last START
  dev_evts, ref_evts, \* detections of the device and of the reference
  faults

linkVars == <<dev, down, up>>
testVars == <<script, i, pc, g_ref, evt_matched, g_errors, before>>
histVars == <<dev_evts, ref_evts, faults>>
vars == <<linkVars, testVars, histVars>>

-----------------------------------------------------------------------------
(* The scripts. *)

Ask(type, check) == [op |-> "ask", type |-> type, check |-> check]
Feature(fn, corrupt, streaming) ==
  [op |-> "feature", fn |-> fn, corrupt |-> corrupt, streaming |-> streaming]
Op(op) == [op |-> op]

Frames(first, corrupt) ==
  [k \in 1 .. FRAMES |-> Feature(first + (k - 1), (k - 1) \in corrupt, TRUE)]

Session(first, corrupt) ==
  <<Ask("START", "echo"), Op("ref_reset")>> \o Frames(first, corrupt) \o <<Op("drain"), Op("matched")>>

SECOND == 2 * FRAMES   \* frame numbers of the second session        (2000)
STOPPED == 4 * FRAMES  \* the frame that has to be dropped            (1000)

\* STOP drops features, RESET clears the counters, three kinds of bad packet are
\* refused.
ErrorPlane ==
  << Ask("STOP", "echo"), Feature(STOPPED, FALSE, FALSE), Ask("READ_STATS", "stopped"),
     Ask("RESET", "echo"), Ask("READ_STATS", "cleared"),
     Ask("UNKNOWN_TYPE", "error"), Ask("BAD_LENGTH", "error"), Ask("BAD_VERSION", "error") >>

HwScript ==
  << Ask("PING", "echo"), Ask("RESET", "echo"), Ask("READ_VERSION", "geometry") >>
    \o Session(0, CORRUPT) \o <<Ask("READ_STATS", "session")>> \o ErrorPlane
    \o Session(SECOND, {}) \o <<Ask("STOP", "echo")>>

BenchScript ==
  << Ask("PING", "echo"), Ask("READ_VERSION", "geometry") >>
    \o Session(0, CORRUPT) \o <<Ask("READ_STATS", "session")>> \o ErrorPlane
    \o Session(SECOND, {})

OnBoard == script = HwScript
Done == i > Len(script)
Step == script[i]

-----------------------------------------------------------------------------
(* The reference mirror: a ring by commit index and a queue of expected    *)
(* events.                                                                 *)

EmptyRef ==
  [win |-> [k \in 0 .. WINDOW_LEN - 1 |-> 0], commits |-> 0, nth |-> 0, inferences |-> 0,
   evt |-> <<>>]

RefWindow(r) ==
  [t \in 1 .. WINDOW_LEN |-> r.win[((r.commits - WINDOW_LEN) + (t - 1)) % WINDOW_LEN]]

\* What the device is expected to report.
Expected(r, fn) == [type |-> "EVT", fn |-> fn, window |-> RefWindow(r), nth |-> r.nth + 1]

\* ref_commit
RefCommit(fn) ==
  LET r == [g_ref EXCEPT !.win[g_ref.commits % WINDOW_LEN] = fn, !.commits = @ + 1]
      due == r.commits >= WINDOW_LEN /\ (r.commits - WINDOW_LEN) % WINDOW_STRIDE = 0
      fires == due /\ r.nth + 1 \in FIRING
  IN  /\ g_ref' = IF ~due THEN r
                  ELSE [r EXCEPT !.inferences = @ + 1, !.nth = @ + 1,
                                 !.evt = IF fires THEN Append(@, Expected(r, fn)) ELSE @]
      /\ ref_evts' = IF fires THEN Append(ref_evts, Expected(r, fn)) ELSE ref_evts

-----------------------------------------------------------------------------
(* The device, and the link. *)

DevTake ==
  /\ down # <<>> /\ Ready(dev, Head(down))
  /\ down' = Tail(down) /\ dev' = Receive(dev, Head(down))
  /\ UNCHANGED <<up, testVars, histVars>>

DevAnswer ==
  /\ dev.rsp # NoResponse
  /\ up' = Append(up, dev.rsp) /\ dev' = [dev EXCEPT !.rsp = NoResponse]
  /\ UNCHANGED <<down, testVars, histVars>>

DevDecide ==
  /\ dev.job # NoJob
  /\ dev' = Decide(dev)
  /\ IF Fires(dev) THEN up' = Append(up, Event(dev)) /\ dev_evts' = Append(dev_evts, Event(dev))
                   ELSE UNCHANGED <<up, dev_evts>>
  /\ UNCHANGED <<down, testVars, ref_evts, faults>>

\* A packet to the board is garbled or vanishes, one from it is lost.
Lose ==
  /\ OnBoard /\ faults < MAX_FAULTS /\ faults' = faults + 1
  /\ \/ /\ down # <<>>
        /\ down' \in {Tail(down), <<[Head(down) EXCEPT !.type = "GARBLED"]>> \o Tail(down)}
        /\ UNCHANGED up
     \/ up # <<>> /\ up' = Tail(up) /\ UNCHANGED down
  /\ UNCHANGED <<dev, testVars, dev_evts, ref_evts>>

DevQuiet == down = <<>> /\ dev.rsp = NoResponse /\ dev.job = NoJob
Quiet == DevQuiet /\ up = <<>>

-----------------------------------------------------------------------------
(* The checks. *)

Check(ok) == g_errors' = (g_errors \/ ~ok)

\* Mutant: an event is compared by its count only.
HandleEventBlindly(p) ==
  /\ Check(g_ref.evt # <<>>)
  /\ IF g_ref.evt = <<>> THEN UNCHANGED <<g_ref, evt_matched>>
     ELSE g_ref' = [g_ref EXCEPT !.evt = Tail(@)] /\ evt_matched' = evt_matched + 1

\* handle_event: the oldest expected event, in all its fields.  The C compares frame
\* number, class, confidence and votes; here the window and the count stand for the last
\* three.  Two detections never have one frame number, so that comparison alone decides.
HandleEvent(p) ==
  /\ Check(g_ref.evt # <<>> /\ p = Head(g_ref.evt))
  /\ IF g_ref.evt = <<>> THEN UNCHANGED <<g_ref, evt_matched>>
     ELSE g_ref' = [g_ref EXCEPT !.evt = Tail(@)] /\ evt_matched' = evt_matched + 1

CommandFrame == 8 * FRAMES + i   \* g_cmd_fn, a range of its own

\* Ground truth of session 1.
SessionStats(s) ==
  /\ s.frames_rx = FRAMES - Cardinality(CORRUPT) /\ s.crc = Cardinality(CORRUPT)
  /\ s.inferences = g_ref.inferences /\ s.keywords = evt_matched /\ s.dropped = 0

ReplyOk(p) ==
  CASE Step.check = "echo"     -> p.cmd = Step.type /\ p.fn = CommandFrame
    [] Step.check = "geometry" -> TRUE
    [] Step.check = "session"  -> SessionStats(p.stats)
    [] Step.check = "stopped"  -> /\ p.stats.dropped = 1
                                  /\ OnBoard \/ p.stats.frames_rx = FRAMES - Cardinality(CORRUPT)
    [] Step.check = "cleared"  -> /\ p.stats.frames_rx = 0 /\ p.stats.keywords = 0
                                  /\ p.stats.inferences = 0
    [] Step.check = "error"    -> p.cmd = Step.type

Awaited == IF Step.check = "error" THEN "ERROR" ELSE ResponseType(Step.type)

-----------------------------------------------------------------------------
(* The steps. *)

Advance == i' = i + 1 /\ pc' = "step" /\ UNCHANGED script

Begin(op) == pc = "step" /\ ~Done /\ Step.op = op

SendRaw(p) == Len(down) < MAX_FLIGHT /\ down' = Append(down, p)

AskStep ==
  /\ Begin("ask")
  /\ SendRaw([type |-> Step.type, fn |-> CommandFrame, id |-> 0])
  /\ pc' = "wait"
  /\ UNCHANGED <<dev, up, script, i, g_ref, evt_matched, g_errors, before, histVars>>

\* An event is handled while waiting as it is while pumping.
TakeEvent ==
  /\ up # <<>> /\ Head(up).type = "EVT" /\ pc \in {"wait", "pump"}
  /\ HandleEvent(Head(up)) /\ up' = Tail(up)
  /\ UNCHANGED <<dev, down, script, i, pc, before, histVars>>

\* On the board the rest of the chunk goes with the reply; the bench keeps it.
TakeReply ==
  /\ pc = "wait" /\ up # <<>> /\ Head(up).type = Awaited
  /\ Check(ReplyOk(Head(up)))
  /\ \/ up' = Tail(up)
     \/ OnBoard /\ \E n \in 2 .. Len(up) : up' = SubSeq(up, n + 1, Len(up))
  /\ Advance
  /\ UNCHANGED <<dev, down, g_ref, evt_matched, before, histVars>>

\* Any other packet is an error, waiting or not.
TakeOther ==
  /\ up # <<>> /\ Head(up).type # "EVT"
  /\ pc = "pump" \/ (pc = "wait" /\ Head(up).type # Awaited)
  /\ Check(FALSE) /\ up' = Tail(up)
  /\ UNCHANGED <<dev, down, script, i, pc, g_ref, evt_matched, before, histVars>>

\* The wait is over when no reply is to come, or before a board's late one has come.
Timeout ==
  /\ pc = "wait"
  /\ \/ Quiet /\ UNCHANGED faults
     \/ OnBoard /\ ~Quiet /\ faults < MAX_FAULTS /\ faults' = faults + 1
  /\ Check(FALSE) /\ Advance
  /\ UNCHANGED <<linkVars, g_ref, evt_matched, before, dev_evts, ref_evts>>

\* send_feature: the reference commits before anything is read.
FeatureStep ==
  /\ Begin("feature")
  /\ SendRaw([type |-> IF Step.corrupt THEN "GARBLED" ELSE "FEATURE", fn |-> Step.fn, id |-> 0])
  /\ IF Step.streaming /\ ~Step.corrupt THEN RefCommit(Step.fn) ELSE UNCHANGED <<g_ref, ref_evts>>
  /\ pc' = "pump"
  /\ UNCHANGED <<dev, up, script, i, evt_matched, g_errors, before, dev_evts, faults>>

DrainStep ==
  /\ Begin("drain")
  /\ pc' = "pump"
  /\ UNCHANGED <<linkVars, script, i, g_ref, evt_matched, g_errors, before, histVars>>

\* A pump reads what is there; draining goes on until nothing is under way.
PumpEnds ==
  /\ pc = "pump" /\ (Step.op = "drain" => Quiet)
  /\ Advance
  /\ UNCHANGED <<linkVars, g_ref, evt_matched, g_errors, before, histVars>>

RefResetStep ==
  /\ Begin("ref_reset")
  /\ g_ref' = EmptyRef /\ before' = evt_matched
  /\ Advance
  /\ UNCHANGED <<linkVars, evt_matched, g_errors, histVars>>

MatchedStep ==
  /\ Begin("matched")
  /\ Check(g_ref.evt = <<>> /\ evt_matched > before)
  /\ Advance
  /\ UNCHANGED <<linkVars, g_ref, evt_matched, before, histVars>>

-----------------------------------------------------------------------------
\* The simulated core starts from reset; a board may have been streaming.
Init ==
  /\ script \in {HwScript, BenchScript}
  /\ dev = DevPowerUp \/ (OnBoard /\ dev = Commit([DevPowerUp EXCEPT !.stream = TRUE], STOPPED))
  /\ down = <<>> /\ up = <<>>
  /\ i = 1 /\ pc = "step" /\ g_ref = EmptyRef
  /\ evt_matched = 0 /\ g_errors = FALSE /\ before = 0
  /\ dev_evts = <<>> /\ ref_evts = <<>> /\ faults = 0

Run ==
  \/ AskStep \/ TakeEvent \/ TakeReply \/ TakeOther \/ Timeout
  \/ FeatureStep \/ DrainStep \/ PumpEnds \/ RefResetStep \/ MatchedStep

Finished == Done /\ DevQuiet /\ UNCHANGED vars

Next == DevTake \/ DevAnswer \/ DevDecide \/ Lose \/ Run \/ Finished

Spec == Init /\ [][Next]_vars

-----------------------------------------------------------------------------
(* What must hold.                                                         *)

\* No false alarm: with nothing lost, no check fails, however late within the
\* drain an event comes and whatever it comes between.
NoFalseAlarm == faults = 0 => ~g_errors

\* No false pass: a test that ends without an error has seen the device detect just
\* what the reference detects, in both sessions, whatever was lost on the way or came too late.
PassMeansAgreed == Done /\ DevQuiet /\ ~g_errors => dev_evts = ref_evts /\ evt_matched = Len(ref_evts)

=============================================================================
