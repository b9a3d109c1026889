----------------------------- MODULE HostSession -----------------------------
(***************************************************************************)
(* host/src/main.c with stats.c and serial.c: the streaming client, from   *)
(* opening the port to its orderly shutdown, with the device at the other  *)
(* end of a link that loses packets, answers late or is unplugged.         *)
(***************************************************************************)
EXTENDS Device

CONSTANTS
  REF_STRIDE,   \* the stride of ref_check, a literal there; WINDOW_STRIDE is the board's (8)
  LATRING,      \* KWS_LATRING                                   (1024)
  WARMUP,       \* g_warmup_frames                                (300)
  MAX_FRAMES,   \* bound: frames of audio
  MAX_POLLS,    \* bound: statistics polls
  MAX_FLIGHT,   \* bound: packets on the way to the device
  MAX_FAULTS    \* bound: faults of the link in one behaviour

ASSUME SessionAssumption ==
  /\ REF_STRIDE \in Nat \ {0} /\ LATRING \in Nat \ {0} /\ WARMUP \in Nat
  /\ MAX_FRAMES \in Nat /\ MAX_POLLS \in Nat /\ MAX_FLIGHT \in Nat \ {0} /\ MAX_FAULTS \in Nat

VARIABLES
  dev,          \* the device
  geometry,     \* bytes 4, 5, 7, 8, 9 of its version reply: as compiled, or other
  down, up,     \* packets to it and from it, in order
  port,         \* the port is there to be opened
  conn,         \* g_ser: "none", "good", or "dead" once the port went away
  pc,           \* where the client is
  cmd,          \* the command it sends or waits for
  attempt,      \* PINGs before this one
  resume,       \* connect_and_start was called from the streaming loop
  g_stop,
  frame_num,
  send_us,      \* g_st.send_us: whose time of sending a slot holds, or None
  g_win,        \* the reference's ring of frames
  g_smooth,     \* windows its smoother has decided
  \* History, read by no code.
  faults, late, \* faults so far, and a wait timed out before its answer
  own,          \* the last awaited reply answers the command just sent
  hw, ref,      \* frames of the device's reported events and of the predicted
  dev_wins, ref_wins, \* windows of the device and of the reference
  polls         \* statistics polls so far

linkVars == <<dev, geometry, down, up, port>>
hostVars == <<conn, pc, cmd, attempt, resume, g_stop>>
streamVars == <<frame_num, send_us, g_win, g_smooth>>
histVars == <<faults, late, own, hw, ref, dev_wins, ref_wins, polls>>
vars == <<linkVars, hostVars, streamVars, histVars>>

None == MAX_FRAMES
Foreign == MAX_FRAMES + LATRING   \* a frame of an earlier run of the client

StaleEvent == [type |-> "EVT", fn |-> Foreign, window |-> <<>>, nth |-> 0]

\* The device may still be streaming for a client that is gone; without frames it
\* ends at most one more inference, whose event may be on its way.
Init ==
  /\ dev \in {DevPowerUp, [DevPowerUp EXCEPT !.stream = TRUE, !.commits = 1, !.window = <<Foreign>>]}
  /\ geometry \in {"same", "other"}
  /\ down = <<>> /\ up \in {<<>>, <<StaleEvent>>}
  /\ port = TRUE /\ conn = "none"
  /\ pc = "OPEN" /\ cmd = "PING" /\ attempt = 0 /\ resume = FALSE
  /\ g_stop = FALSE
  /\ frame_num = 0 /\ send_us = [i \in 0 .. LATRING - 1 |-> None]
  /\ g_win = [i \in 0 .. WINDOW_LEN - 1 |-> None] /\ g_smooth = 0
  /\ faults = 0 /\ late = FALSE /\ own = TRUE
  /\ hw = <<>> /\ ref = <<>> /\ dev_wins = <<>> /\ ref_wins = <<>> /\ polls = 0

\* The histories of the two sides are compared up to the first fault.
Note(history, item) == IF faults = 0 THEN Append(history, item) ELSE <<>>

Fault == faults < MAX_FAULTS /\ faults' = faults + 1

-----------------------------------------------------------------------------
(* The device and the link. *)

\* Bytes toward the host go nowhere while nobody holds the port open.
Upward(packets) == up' = IF conn = "good" THEN up \o packets ELSE up

DevTake ==
  /\ down # <<>> /\ Ready(dev, Head(down))
  /\ down' = Tail(down)
  /\ dev' = Receive(dev, Head(down))
  /\ \E late_rest \in Overtaken(dev, Head(down)) : Upward(late_rest)
  /\ UNCHANGED <<geometry, port, hostVars, streamVars, histVars>>

DevAnswer ==
  /\ dev.rsp # NoResponse
  /\ Upward(<<dev.rsp>>)
  /\ dev' = [dev EXCEPT !.rsp = NoResponse]
  /\ UNCHANGED <<geometry, down, port, hostVars, streamVars, histVars>>

DevDecide ==
  /\ dev.job # NoJob
  /\ Upward(IF Fires(dev) THEN <<Event(dev)>> ELSE <<>>)
  /\ dev' = Decide(dev)
  /\ dev_wins' = Note(dev_wins, dev.job)
  /\ UNCHANGED <<geometry, down, port, hostVars, streamVars,
                 faults, late, own, hw, ref, ref_wins, polls>>

\* A broken packet is lost, and may take the next one along with it.
LoseDown ==
  /\ Fault
  /\ \E n \in 1 .. 2 : n <= Len(down) /\ down' = SubSeq(down, n + 1, Len(down))
  /\ UNCHANGED <<dev, geometry, up, port, hostVars, streamVars,
                 late, own, hw, ref, dev_wins, ref_wins, polls>>

LoseUp ==
  /\ Fault
  /\ \E n \in 1 .. 2 : n <= Len(up) /\ up' = SubSeq(up, n + 1, Len(up))
  /\ UNCHANGED <<dev, geometry, down, port, hostVars, streamVars,
                 late, own, hw, ref, dev_wins, ref_wins, polls>>

\* The port goes away with all that is on the line; the board keeps running, is
\* power-cycled, or comes back as another board.
Unplug ==
  /\ Fault /\ port
  /\ port' = FALSE /\ down' = <<>> /\ up' = <<>>
  /\ conn' = IF conn = "good" THEN "dead" ELSE conn
  /\ dev' \in {dev, DevPowerUp}
  /\ geometry' \in {"same", "other"}
  /\ UNCHANGED <<pc, cmd, attempt, resume, g_stop, streamVars,
                 late, own, hw, ref, dev_wins, ref_wins, polls>>

Replug ==
  /\ ~port /\ port' = TRUE
  /\ UNCHANGED <<dev, geometry, down, up, hostVars, streamVars, histVars>>

-----------------------------------------------------------------------------
(* connect_and_start *)

Stay(next) == pc' = next /\ UNCHANGED <<cmd, attempt, resume>>

\* kws_serial_open flushes both directions: what has arrived and what has not
\* left the buffers; the rest is on the line.
OpenPort ==
  /\ conn' = "good"
  /\ \E n \in 0 .. Len(up) : up' = SubSeq(up, n + 1, Len(up))
  /\ \E n \in 0 .. Len(down) : down' = SubSeq(down, 1, n)

\* A fresh parser goes with the port.
Open ==
  /\ pc = "OPEN" /\ ~g_stop /\ port
  /\ OpenPort
  /\ pc' = "SEND" /\ cmd' = "PING" /\ attempt' = 0
  /\ UNCHANGED <<dev, geometry, port, resume, g_stop, streamVars, histVars>>

\* Mutant: a port that is not there ends the client.
OpenFailsFatally ==
  /\ pc = "OPEN" /\ ~g_stop /\ ~port
  /\ Stay("DONE")
  /\ UNCHANGED <<linkVars, conn, g_stop, streamVars, histVars>>

OpenFails ==
  /\ pc = "OPEN" /\ ~g_stop /\ ~port
  /\ Stay("SLEEP")
  /\ UNCHANGED <<linkVars, conn, g_stop, streamVars, histVars>>

\* After 2 s the line is quiet; the sleep ends early when stopping.
Quiescent == down = <<>> /\ dev.rsp = NoResponse /\ dev.job = NoJob

Wake ==
  /\ pc = "SLEEP" /\ (g_stop \/ Quiescent)
  /\ Stay("OPEN")
  /\ UNCHANGED <<linkVars, conn, g_stop, streamVars, histVars>>

\* connect_and_start returns -1: nothing is open, main ends.
Abandon ==
  /\ pc = "OPEN" /\ g_stop
  /\ Stay("DONE")
  /\ UNCHANGED <<linkVars, conn, g_stop, streamVars, histVars>>

\* kws_serial_close: what arrives is dropped.
ClosePort == conn' = "none" /\ up' = <<>>

\* After a failed handshake the client sleeps, at the end of main it is done.
Close(next) == ClosePort /\ Stay(next)

\* kws_serial_read: nothing comes from a dead port.
Readable == conn = "good" /\ up # <<>>

-----------------------------------------------------------------------------
(* Commands: send_packet, wait_for, and the sequences of handshake and of   *)
(* the shutdown.                                                            *)

Handshake == {"PING", "RESET", "READ_VERSION", "START"}

\* History: id 1 marks the newest command and its reply, 0 the earlier ones.
Packet(type) == [type |-> type, fn |-> frame_num, id |-> 1]
Aged(packets) == [i \in 1 .. Len(packets) |->
                    IF "id" \in DOMAIN packets[i] THEN [packets[i] EXCEPT !.id = 0] ELSE packets[i]]
AgedRsp(d) == IF d.rsp = NoResponse THEN d ELSE [d EXCEPT !.rsp.id = 0]

Write(p) ==
  /\ down' = IF conn = "good" THEN Append(Aged(down), p) ELSE down
  /\ up' = Aged(up) /\ dev' = AgedRsp(dev)

FinalStats == "READ_STATS"

\* A write fails on a dead port, and now and then on a good one.
SendCommand ==
  /\ pc = "SEND" /\ Len(down) < MAX_FLIGHT
  /\ \/ /\ conn = "good" /\ Write(Packet(cmd))
        /\ Stay("WAIT") /\ UNCHANGED <<conn, faults>>
     \/ /\ \/ conn = "dead" /\ UNCHANGED faults
           \/ conn = "good" /\ Fault
        /\ IF cmd \in Handshake THEN Close("SLEEP") ELSE Stay("WAIT") /\ UNCHANGED <<up, conn>>
        /\ UNCHANGED <<down, dev>>
  /\ UNCHANGED <<geometry, port, g_stop, streamVars,
                 late, own, hw, ref, dev_wins, ref_wins, polls>>

\* Not looked at: byte 6, the stride.
Refused == geometry = "other"

\* What follows a command whose reply has come.
\* Mutant: no READ_VERSION between RESET and START.
SucceedUnversioned ==
  /\ UNCHANGED resume
  /\ \/ cmd = "PING" /\ pc' = "SEND" /\ cmd' = "RESET" /\ UNCHANGED attempt
     \/ cmd = "RESET" /\ pc' = "SEND" /\ cmd' = "START" /\ UNCHANGED attempt
     \/ cmd = "START" /\ pc' = (IF resume THEN "COUNT" ELSE "LOOP") /\ UNCHANGED <<cmd, attempt>>
     \/ cmd = "STOP" /\ pc' = "SEND" /\ cmd' = FinalStats /\ UNCHANGED attempt

Succeed ==
  /\ UNCHANGED resume
  /\ \/ cmd = "PING" /\ pc' = "SEND" /\ cmd' = "RESET" /\ UNCHANGED attempt
     \/ cmd = "RESET" /\ pc' = "SEND" /\ cmd' = "READ_VERSION" /\ UNCHANGED attempt
     \/ /\ cmd = "READ_VERSION" /\ ~Refused
        /\ pc' = "SEND" /\ cmd' = "START" /\ UNCHANGED attempt
     \/ cmd = "START" /\ pc' = (IF resume THEN "COUNT" ELSE "LOOP") /\ UNCHANGED <<cmd, attempt>>
     \/ cmd = "STOP" /\ pc' = "SEND" /\ cmd' = FinalStats /\ UNCHANGED attempt

LastPing == attempt = 2

\* What follows one whose reply has not: PING is tried three times.
Fail ==
  \/ /\ cmd = "PING" /\ ~LastPing
     /\ attempt' = attempt + 1 /\ pc' = "SEND"
     /\ UNCHANGED <<up, conn, cmd, resume>>
  \/ /\ cmd \in Handshake /\ (cmd = "PING" => LastPing)
     /\ Close("SLEEP")
  \/ /\ cmd = "STOP"
     /\ pc' = "SEND" /\ cmd' = FinalStats
     /\ UNCHANGED <<up, conn, attempt, resume>>
  \/ cmd = FinalStats /\ Close("DONE")

\* handle_packet, as far as anything depends on it: an event past the warm-up is
\* reported, whatever run it is of.
Handle(p) == hw' = IF p.type = "EVT" /\ p.fn >= WARMUP THEN Note(hw, p.fn) ELSE hw

Measured(fn) == frame_num > 0 /\ fn + LATRING >= frame_num /\ send_us[fn % LATRING] # None

Matches(p) == p.type = ResponseType(cmd)

\* wait_for dispatches packets up to one of the awaited type.
WaitOther ==
  /\ pc = "WAIT" /\ Readable /\ ~g_stop
  /\ ~Matches(Head(up))
  /\ Handle(Head(up)) /\ up' = Tail(up)
  /\ UNCHANGED <<dev, geometry, down, port, hostVars, streamVars,
                 faults, late, own, ref, dev_wins, ref_wins, polls>>

\* The rest of the chunk that held the awaited packet is thrown away.
WaitMatch ==
  /\ pc = "WAIT" /\ Readable /\ ~g_stop
  /\ Matches(Head(up))
  /\ own' = (Head(up).type # "EVT" /\ Head(up).id = 1)
  /\ \/ /\ cmd = "READ_VERSION" /\ Refused
        /\ Close("SLEEP")
     \/ /\ cmd = FinalStats
        /\ Close("DONE")
     \/ /\ Succeed
        /\ \E n \in 1 .. Len(up) : up' = SubSeq(up, n + 1, Len(up))
        /\ UNCHANGED conn
  /\ UNCHANGED <<dev, geometry, down, port, g_stop, streamVars,
                 faults, late, hw, ref, dev_wins, ref_wins, polls>>

\* A wait ends without its reply: when there is none to come, when it comes too
\* late, or at once when the client is being stopped.
NoReply == conn = "dead" \/ (down = <<>> /\ dev.rsp = NoResponse /\ up = <<>>)

WaitTimeout ==
  /\ pc = "WAIT"
  /\ \/ (g_stop \/ NoReply) /\ UNCHANGED <<faults, late>>
     \/ ~g_stop /\ ~NoReply /\ Fault /\ late' = TRUE
  /\ Fail
  /\ UNCHANGED <<dev, geometry, down, port, g_stop, streamVars,
                 own, hw, ref, dev_wins, ref_wins, polls>>

-----------------------------------------------------------------------------
(* The streaming loop. *)

SendFrame ==
  /\ pc = "LOOP" /\ ~g_stop /\ frame_num < MAX_FRAMES /\ Len(down) < MAX_FLIGHT
  /\ \/ /\ conn = "good"
        /\ down' = Append(down, [type |-> "FEATURE", fn |-> frame_num, id |-> 0])
        /\ pc' = "COUNT" /\ UNCHANGED <<conn, resume, faults>>
     \/ /\ \/ conn = "dead" /\ UNCHANGED faults
           \/ conn = "good" /\ Fault
        /\ conn' = "none" /\ pc' = "OPEN" /\ resume' = TRUE
        /\ UNCHANGED down
  /\ UNCHANGED <<dev, geometry, up, port, cmd, attempt, g_stop, streamVars,
                 late, own, hw, ref, dev_wins, ref_wins, polls>>

\* ref_check: the windows of the reference are those of the frame numbers.
\* Mutant: the grid starts a frame late.
RefDueLate(n) == n > WINDOW_LEN /\ ((n - WINDOW_LEN) - 1) % REF_STRIDE = 0

RefDue(n) == n >= WINDOW_LEN /\ (n - WINDOW_LEN) % REF_STRIDE = 0

RefWindow(win, n) == [t \in 1 .. WINDOW_LEN |-> win[((n - WINDOW_LEN) + (t - 1)) % WINDOW_LEN]]

RefCheck ==
  LET n == frame_num + 1
  IN  /\ g_win' = [g_win EXCEPT ![frame_num % WINDOW_LEN] = frame_num]
      /\ \/ ~RefDue(n) /\ UNCHANGED <<g_smooth, ref, ref_wins>>
         \/ /\ RefDue(n)
            /\ g_smooth' = g_smooth + 1
            /\ ref_wins' = Note(ref_wins, RefWindow(g_win', n))
            /\ ref' = IF g_smooth' \in FIRING /\ frame_num >= WARMUP
                        THEN Note(ref, frame_num) ELSE ref

\* kws_stats_frame_sent
FrameSent(fn) == send_us' = [send_us EXCEPT ![fn % LATRING] = fn]

\* FrameSent, ref_check and the frame counter: also for the frame
\* whose write failed.
Count ==
  /\ pc = "COUNT"
  /\ FrameSent(frame_num)
  /\ RefCheck
  /\ frame_num' = frame_num + 1
  /\ Stay("POLL")
  /\ UNCHANGED <<linkVars, conn, g_stop,
                 faults, late, own, hw, dev_wins, polls>>

\* poll_serial takes what has arrived.
Poll ==
  /\ pc = "POLL" /\ Readable
  /\ Handle(Head(up)) /\ up' = Tail(up)
  /\ UNCHANGED <<dev, geometry, down, port, hostVars, streamVars,
                 faults, late, own, ref, dev_wins, ref_wins, polls>>

\* A statistics poll may be due; its answer is not waited for, nor is the
\* result of the write looked at.
AfterPoll ==
  /\ pc = "POLL"
  /\ \/ UNCHANGED <<down, up, dev, polls>>
     \/ /\ polls < MAX_POLLS /\ Len(down) < MAX_FLIGHT
        /\ polls' = polls + 1
        /\ Write(Packet("READ_STATS"))
  /\ Stay("LOOP")
  /\ UNCHANGED <<geometry, port, conn, g_stop, streamVars,
                 faults, late, own, hw, ref, dev_wins, ref_wins>>

\* Mutant: no STOP when the client is interrupted.
ShutdownQuietly ==
  /\ pc = "LOOP"
  /\ pc' = "SEND" /\ cmd' = IF g_stop THEN FinalStats ELSE "STOP"
  /\ UNCHANGED <<linkVars, conn, attempt, resume, g_stop, streamVars, histVars>>

\* Stopped, or the duration or the audio is over.
Shutdown ==
  /\ pc = "LOOP"
  /\ pc' = "SEND" /\ cmd' = "STOP"
  /\ UNCHANGED <<linkVars, conn, attempt, resume, g_stop, streamVars, histVars>>

Sigint ==
  /\ ~g_stop /\ g_stop' = TRUE
  /\ UNCHANGED <<linkVars, conn, pc, cmd, attempt, resume, streamVars, histVars>>

-----------------------------------------------------------------------------
DevStep == DevTake \/ DevAnswer \/ DevDecide
HostStep ==
  \/ Open \/ OpenFails \/ Wake \/ Abandon
  \/ SendCommand \/ WaitOther \/ WaitMatch \/ WaitTimeout
  \/ SendFrame \/ Count \/ Poll \/ AfterPoll \/ Shutdown
Finished == pc = "DONE" /\ Quiescent /\ UNCHANGED vars

Next ==
  \/ DevStep \/ LoseDown \/ LoseUp \/ Unplug \/ Replug
  \/ HostStep \/ Sigint
  \/ Finished

Spec == Init /\ [][Next]_vars

\* The processes run, the port comes back, and a client that may go on does: the
\* audio of a running client is endless.
FairSpec ==
  /\ Spec
  /\ WF_vars(DevTake) /\ WF_vars(DevAnswer) /\ WF_vars(DevDecide)
  /\ WF_vars(Replug) /\ WF_vars(HostStep)

-----------------------------------------------------------------------------
(* What must hold.                                                         *)

Loop == {"LOOP", "COUNT", "POLL"}

\* The variables keep their ranges.
TypeOK ==
  /\ conn \in {"none", "good", "dead"} /\ port \in BOOLEAN
  /\ pc \in {"OPEN", "SLEEP", "SEND", "WAIT", "DONE"} \cup Loop
  /\ cmd \in CommandTypes /\ attempt \in 0 .. 2 /\ frame_num \in 0 .. MAX_FRAMES
  /\ Len(down) <= MAX_FLIGHT
  /\ send_us \in [0 .. LATRING - 1 -> 0 .. MAX_FRAMES]
  /\ g_win \in [0 .. WINDOW_LEN - 1 -> 0 .. MAX_FRAMES]

\* The acknowledgement a session starts on is that of its own START, and every
\* awaited reply answers the command just sent unless a wait gave up too early:
\* the version reply that is read in between sweeps late acknowledgements away.
StartIsOwn == pc \in Loop => own
EachReplyIsOwn == ~late => own

\* While the client streams and nothing was lost, the device streams too.
StreamsInStep == pc \in Loop /\ faults = 0 => dev.stream

\* Frames go only to a device whose version reply agrees in the bytes compared, also
\* after another board was plugged in.
StreamsToOwnModel == pc \in Loop /\ conn = "good" => geometry = "same"

\* "On the same window schedule as the hardware": up to the first fault the reference
\* infers the windows that the device does, in the same order, and what one side has
\* the other will have.
Prefix(s, t) == \E n \in 0 .. Len(t) : s = SubSeq(t, 1, n)
OneSchedule == faults = 0 => Prefix(dev_wins, ref_wins) \/ Prefix(ref_wins, dev_wins)

\* What holds of it: the board must have the stride of the client, which the handshake
\* does not make sure of.
SameStride == WINDOW_STRIDE = REF_STRIDE
WindowsAgree == SameStride => OneSchedule

\* Once everything has arrived both sides have reported the same events; but an event
\* of an earlier run of the client that was read during the handshake comes first, and
\* is reported as if it were of this run.
EventsAgree ==
  SameStride /\ faults = 0 /\ pc = "LOOP" /\ Quiescent /\ up = <<>> =>
    hw \in {ref, <<Foreign>> \o ref}

\* The end-to-end latency of an event is computed from the time its own frame was
\* sent, however late the event is read: else it is not computed.
LatencyOfOwnFrame ==
  pc \in {"POLL", "WAIT"} =>
    \A i \in 1 .. Len(up) :
      up[i].type = "EVT" /\ Measured(up[i].fn) => send_us[up[i].fn % LATRING] = up[i].fn

\* After an orderly shutdown on a good link the device has stopped.
StoppedAtExit ==
  pc = "DONE" /\ cmd = FinalStats /\ faults = 0 /\ down = <<>> => ~dev.stream

\* docs/protocol.md: "The host sends one command at a time and awaits the
\* response"; register_file.sv: "strictly one command in flight (the host library
\* enforces it)".  Waits that gave up too early and an interrupt apart, after which
\* every wait ends at once.
Commands == {i \in 1 .. Len(down) : down[i].type \in CommandTypes}
OneCommandInFlight ==
  ~late /\ ~g_stop =>
    Cardinality(Commands) + (IF dev.rsp = NoResponse THEN 0 ELSE 1) <= 1

\* What holds of it: the client gets ahead of a reply only with a statistics poll,
\* which it does not wait for.
InFlightRule == polls = 0 => OneCommandInFlight

\* Every reply is taken for what it answers: the acknowledgement a session starts
\* on, any other awaited reply, and with them the number of commands under way.
RepliesAreOwn == StartIsOwn /\ EachReplyIsOwn /\ InFlightRule

\* Client and device keep in step while nothing is lost: both stream, to one model,
\* and at one stride through the same windows and events, each timed from its own frame.
InStep ==
  /\ TypeOK
  /\ StreamsInStep /\ StreamsToOwnModel /\ WindowsAgree /\ EventsAgree
  /\ LatencyOfOwnFrame

\* The client reaches its streaming loop or is stopped, whatever was lost.
Reconnects == pc = "OPEN" ~> (pc \in Loop \/ g_stop \/ geometry = "other")

\* Once it is told to stop, it ends.
Stops == g_stop ~> pc = "DONE"

\* Neither a silent, an unplugged nor a half started device holds the client for ever.
ReturnsOrStops == Reconnects /\ Stops

=============================================================================
