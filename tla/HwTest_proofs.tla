---------------------------- MODULE HwTest_proofs ----------------------------
(* A test that passes has seen the device agree with the reference, detection by *)
(* detection, whatever was lost on the way; and a test on a link that loses       *)
(* nothing raises no alarm.                                                      *)
(*                                                                               *)
(* PassInv is the invariant behind the first. It has the types, the place in the *)
(* script, and, as long as no error is noted, what the two sides agree on. In a  *)
(* session: the frames and the detections on the way are those sent last and     *)
(* those not yet matched, in order, and the device is never ahead of the         *)
(* reference, in frames, windows or detections. Between sessions: nothing waits  *)
(* but the request asked and its reply, and all detections are matched.          *)
(* AlarmInv adds, while nothing is lost, that each side is exact: the device has *)
(* every intact frame that has arrived, in its window and in its counters, and   *)
(* each detection is the one due for its window.                                 *)
EXTENDS HwTest, SequenceTheorems, FiniteSetTheorems, TLAPS

-----------------------------------------------------------------------------
(* Types. *)

\* What a packet to the device may be, and what a reply is checked for.
Types == CommandTypes \cup {"FEATURE", "GARBLED", "UNKNOWN_TYPE", "BAD_LENGTH", "BAD_VERSION"}
Checks == {"echo", "geometry", "session", "stopped", "cleared", "error"}

Counters == [{"frames_rx", "dropped", "crc", "inferences", "keywords"} -> Nat]
Replies == [type : {"ACK", "STATS", "VERSION", "ERROR"}, cmd : Types, fn : Nat, id : Nat, stats : Counters]
Events == [type : {"EVT"}, fn : Nat, window : [1 .. WINDOW_LEN -> Nat], nth : Nat]
Requests == [type : Types, fn : Nat, id : Nat]
Windows == [1 .. WINDOW_LEN -> Nat]

Devices ==
  [stream : BOOLEAN, commits : Nat, window : Seq(Nat), job : {NoJob} \cup Windows, decided : Nat,
   stats : Counters, rsp : Replies \cup {NoResponse}]

\* The device keeps its registers in range, and a window as long as a window.
DevOK(d) ==
  /\ d \in Devices
  /\ Len(d.window) = IF d.commits < WINDOW_LEN THEN d.commits ELSE WINDOW_LEN

Mirrors ==
  [win : [0 .. WINDOW_LEN - 1 -> Nat], commits : Nat, nth : Nat, inferences : Nat, evt : Seq(Events)]

TypeOK ==
  /\ DevOK(dev)
  /\ down \in Seq(Requests) /\ up \in Seq(Replies \cup Events)
  /\ script \in {HwScript, BenchScript} /\ i \in Nat /\ pc \in {"step", "wait", "pump"}
  /\ g_ref \in Mirrors /\ evt_matched \in Nat /\ g_errors \in BOOLEAN /\ before \in Nat
  /\ dev_evts \in Seq(Events) /\ ref_evts \in Seq(Events) /\ faults \in Nat

-----------------------------------------------------------------------------
(* Places in the script, counted from the one before the first START. *)

Lead == IF OnBoard THEN 3 ELSE 2
At == i - Lead

\* A session is named by the place of its ref_reset.
Sessions == {2, FRAMES + 15}
First(base) == IF base = 2 THEN 0 ELSE SECOND
Cor(base) == IF base = 2 THEN CORRUPT ELSE {}
InSession(base) == At \in base + 1 .. base + FRAMES + 2
Calm == \A base \in Sessions : ~InSession(base)

\* The frames sent in it.
Sent(base) ==
  IF At - base > FRAMES THEN FRAMES
  ELSE IF pc = "pump" THEN At - base ELSE (At - base) - 1

\* The program counter fits the step.
Control ==
  /\ i \in 1 .. Len(script) + 1
  /\ pc = "wait" => ~Done /\ Step.op = "ask"
  /\ pc = "pump" => ~Done /\ Step.op \in {"feature", "drain"}

-----------------------------------------------------------------------------
(* Frames and windows of a session whose frames cor are corrupted. *)

\* How many of the first s frames are intact, and which is the n-th intact one.
Good(cor, s) == Cardinality((0 .. s - 1) \ cor)
Nth(cor, n) == CHOOSE s \in 0 .. FRAMES - 1 : s \notin cor /\ Good(cor, s) + 1 = n

Start(k) == (k - 1) * WINDOW_STRIDE

\* After n frames k windows have ended.
Counted(n, k) == n < Start(k + 1) + WINDOW_LEN /\ (k > 0 => n >= Start(k) + WINDOW_LEN)

WinOf(first, cor, q) == [t \in 1 .. WINDOW_LEN |-> first + Nth(cor, Start(q) + t)]
Due(first, cor, q) ==
  [type |-> "EVT", fn |-> first + Nth(cor, Start(q) + WINDOW_LEN), window |-> WinOf(first, cor, q), nth |-> q]

-----------------------------------------------------------------------------
(* In a session, after k frames: d is the device, dn what is on the way to it, u  *)
(* what is on the way from it, r the reference; m detections are handled, b of     *)
(* them before this session; de and re are all detections of either side.          *)

FrameAt(k, dn, a) == (k - Len(dn)) + (a - 1)

\* On the way to the device are the last frames sent.
Carried(first, cor, k, dn) ==
  /\ Len(dn) <= k
  /\ \A a \in 1 .. Len(dn) :
       /\ dn[a].type \in {"FEATURE", "GARBLED"}
       /\ dn[a].type = "FEATURE" => FrameAt(k, dn, a) \notin cor /\ dn[a].fn = first + FrameAt(k, dn, a)

Flow(first, cor, k, d, dn, r) ==
  /\ d.stream /\ d.rsp = NoResponse
  /\ Carried(first, cor, k, dn)
  /\ r.commits = Good(cor, k) /\ d.commits <= Good(cor, k - Len(dn))

\* Windows that have ended at the device.
Ended(d) == IF d.job = NoJob THEN d.decided ELSE d.decided + 1
Windowed(d, r) == Counted(r.commits, r.nth) /\ Counted(d.commits, Ended(d))

\* Behind its first b, s lists the detections among the session's first n windows.
Lists(b, s, n) ==
  /\ \A a \in b + 1 .. Len(s) : s[a].nth \in FIRING /\ 1 <= s[a].nth /\ s[a].nth <= n
  /\ \A a, c \in b + 1 .. Len(s) : a < c => s[a].nth < s[c].nth
  /\ \A q \in FIRING : 1 <= q /\ q <= n => \E a \in b + 1 .. Len(s) : s[a].nth = q

\* The device has detected no window that the reference has not.
Behind(d, r, b, de, re) ==
  /\ Len(de) <= Len(re)
  /\ Lists(b, re, r.nth) /\ Lists(b, de, d.decided)
  /\ \A a \in b + 1 .. Len(de) : de[a].nth = re[a].nth

\* The detections handled are those of both sides, so far.
Matched(r, m, b, de, re) ==
  /\ b <= m /\ m <= Len(de)
  /\ Len(re) = m + Len(r.evt)
  /\ \A a \in 1 .. Len(r.evt) : r.evt[a] = re[m + a]
  /\ \A a \in 1 .. m : de[a] = re[a]

\* On the way from the device are detections not handled, in order.
Coming(m, de, u) ==
  /\ \A a \in 1 .. Len(u) : \E j \in m + 1 .. Len(de) : u[a] = de[j]
  /\ \A a, c \in 1 .. Len(u) : a < c => u[a].nth < u[c].nth

SessionInv(first, cor, k) ==
  /\ Flow(first, cor, k, dev, down, g_ref) /\ Windowed(dev, g_ref)
  /\ Behind(dev, g_ref, before, dev_evts, ref_evts)
  /\ Matched(g_ref, evt_matched, before, dev_evts, ref_evts)
  /\ Coming(evt_matched, dev_evts, up)

\* While nothing is lost: all of them are there, and they are those that are due.
FlowExact(cor, k, d, dn) ==
  /\ d.commits = Good(cor, k - Len(dn))
  /\ \A a \in 1 .. Len(dn) : FrameAt(k, dn, a) \notin cor => dn[a].type = "FEATURE"

WindowExact(first, cor, d) ==
  /\ \A t \in 1 .. Len(d.window) : d.window[t] = first + Nth(cor, (d.commits - Len(d.window)) + t)
  /\ d.job # NoJob => d.job = WinOf(first, cor, d.decided + 1)

RingExact(first, cor, r) ==
  \A n \in 1 .. r.commits : n + WINDOW_LEN > r.commits => r.win[(n - 1) % WINDOW_LEN] = first + Nth(cor, n)

EventsExact(first, cor, b, s) == \A a \in b + 1 .. Len(s) : s[a] = Due(first, cor, s[a].nth)

UpExact(m, de, u) ==
  /\ Len(u) = Len(de) - m
  /\ \A a \in 1 .. Len(u) : u[a] = de[m + a]

StatsExact(k, d, dn, r, de) ==
  /\ d.stats.frames_rx = d.commits /\ d.stats.crc = (k - Len(dn)) - d.commits
  /\ d.stats.dropped = 0 /\ d.stats.inferences = d.decided
  /\ d.stats.keywords = Len(de) /\ r.inferences = r.nth

SessionExact(first, cor, k) ==
  /\ FlowExact(cor, k, dev, down)
  /\ WindowExact(first, cor, dev) /\ RingExact(first, cor, g_ref)
  /\ EventsExact(first, cor, before, dev_evts) /\ EventsExact(first, cor, before, ref_evts)
  /\ UpExact(evt_matched, dev_evts, up)

-----------------------------------------------------------------------------
(* Between sessions. *)

Command == [type |-> Step.type, fn |-> CommandFrame, id |-> 0]
Framish(p) == p.type \in {"FEATURE", "GARBLED"}

\* Only the frame sent after the STOP is sent without waiting.
Idle ==
  /\ pc # "wait" /\ up = <<>> /\ dev.rsp = NoResponse
  /\ \/ down = <<>>
     \/ At = FRAMES + 7 /\ pc = "pump" /\ Len(down) = 1 /\ Framish(down[1])
     \/ At = FRAMES + 8 /\ Len(down) = 1 /\ Framish(down[1])

Sending ==
  /\ pc = "wait" /\ up = <<>> /\ dev.rsp = NoResponse
  /\ \/ Len(down) = 1 /\ (down[1] = Command \/ down[1].type = "GARBLED")
     \/ At = FRAMES + 8 /\ Len(down) = 2 /\ Framish(down[1]) /\ (down[2] = Command \/ down[2].type = "GARBLED")

Answered ==
  /\ pc = "wait" /\ down = <<>>
  /\ \/ up = <<>> /\ dev.rsp # NoResponse
     \/ dev.rsp = NoResponse /\ Len(up) = 1 /\ up[1].type # "EVT"

Lost == pc = "wait" /\ down = <<>> /\ up = <<>> /\ dev.rsp = NoResponse

\* The place the device has come to.
Place == IF Answered THEN At + 1 ELSE At

Placed ==
  /\ Place \in {FRAMES + 7, FRAMES + 8} => ~dev.stream
  /\ Place \in Sessions => dev.stream /\ dev.commits = 0 /\ dev.window = <<>> /\ dev.decided = 0

CalmInv ==
  /\ dev.job = NoJob /\ g_ref.evt = <<>>
  /\ dev_evts = ref_evts /\ evt_matched = Len(ref_evts)
  /\ Lost \/ ((Idle \/ Sending \/ Answered) /\ Placed)

Reply == IF up = <<>> THEN dev.rsp ELSE up[1]

\* Frames sent after the STOP and received.
Dropped ==
  IF Place = FRAMES + 8 \/ (Place = FRAMES + 7 /\ pc = "pump")
    THEN 1 - (IF Sending THEN Len(down) - 1 ELSE Len(down))
    ELSE 0

Intact == FRAMES - Cardinality(CORRUPT)

\* On the way is what is expected: the command, its reply, and the frame after the STOP.
OnWay ==
  /\ ~Lost
  /\ Sending => down[Len(down)] = Command /\ (Len(down) = 2 => down[1].type = "FEATURE")
  /\ Idle => (Len(down) = 1 => down[1].type = "FEATURE")
  /\ Answered => Reply.type = Awaited /\ ReplyOk(Reply)

\* What the counters of the device show, by its place.
Told ==
  /\ Place <= 2 => dev_evts = <<>>
  /\ Place \in (IF OnBoard THEN 0 ELSE -1) .. 2 => dev.stats = NoStats
  /\ Place = FRAMES + 10 => dev.stats = NoStats
  /\ Place = FRAMES + 5 => SessionStats(dev.stats)
  /\ Place \in FRAMES + 5 .. FRAMES + 8 => dev.stats.frames_rx = Intact
  /\ Place \in FRAMES + 5 .. FRAMES + 8 => dev.stats.dropped = Dropped

CalmExact == OnWay /\ Told

-----------------------------------------------------------------------------
SessionAt(base) ==
  /\ InSession(base) => SessionInv(First(base), Cor(base), Sent(base))
  /\ At = base + FRAMES + 2 => Quiet

Agree == SessionAt(2) /\ SessionAt(FRAMES + 15) /\ (Calm => CalmInv)

PassInv == TypeOK /\ Control /\ (~g_errors => Agree)

ExactAt(base) ==
  InSession(base) => /\ SessionExact(First(base), Cor(base), Sent(base))
                     /\ base = 2 => StatsExact(Sent(2), dev, down, g_ref, dev_evts)

Exact == ExactAt(2) /\ ExactAt(FRAMES + 15) /\ (Calm => CalmExact)

AlarmInv == faults = 0 => ~g_errors /\ Exact

-----------------------------------------------------------------------------
(* Multiples and remainders. *)

\* A multiple plus a small number leaves the small number.
LEMMA Remainders ==
  ASSUME NEW S \in Nat \ {0}, NEW q \in Nat, NEW y \in 0 .. S - 1
  PROVE  (q * S + y) % S = y
OBVIOUS

\* Every number is a multiple plus a remainder.
LEMMA Divide ==
  ASSUME NEW S \in Nat \ {0}, NEW x \in Nat
  PROVE  \E q \in Nat, y \in 0 .. S - 1 : x = q * S + y /\ x % S = y
<1> DEFINE d == x \div S
           m == x % S
<1>1. d \in Nat /\ m \in 0 .. S - 1
  OBVIOUS
<1>2. x % S = x - S * (x \div S)
  BY Z3T(60)
<1>3. x \div S = d /\ x % S = m
  OBVIOUS
<1> HIDE DEF d, m
<1>4. x = d * S + m
  BY <1>1, <1>2, <1>3
<1> QED
  BY <1>1, <1>3, <1>4

\* Different multiples of S are S apart.
LEMMA Apart ==
  ASSUME NEW S \in Nat \ {0}, NEW p \in Nat, NEW q \in Nat, p < q
  PROVE  p * S + S <= q * S
<1>1. PICK d \in Nat : q = p + 1 + d
  <2>1. (q - p) - 1 \in Nat
    OBVIOUS
  <2> QED
    BY <2>1
<1>2. q * S = p * S + S + d * S /\ d * S \in Nat
  BY <1>1
<1> QED
  BY <1>2

\* Numbers less than L apart have slots of their own in a ring of L.
LEMMA OwnSlots ==
  ASSUME NEW L \in Nat \ {0}, NEW f \in Nat, NEW g \in Nat, f < g, g < f + L
  PROVE  f % L # g % L
<1> SUFFICES ASSUME f % L = g % L PROVE FALSE
  OBVIOUS
<1>1. PICK p \in Nat, y \in 0 .. L - 1 : f = p * L + y /\ f % L = y
  BY Divide
<1>2. PICK q \in Nat, z \in 0 .. L - 1 : g = q * L + z /\ g % L = z
  BY Divide
<1> DEFINE pl == p * L
           ql == q * L
<1>3. pl \in Nat /\ ql \in Nat
  OBVIOUS
<1>4. (p < q => pl + L <= ql) /\ (q < p => ql + L <= pl) /\ (p = q => pl = ql)
  BY Apart
<1>5. f = pl + y /\ g = ql + y
  BY <1>1, <1>2
<1> HIDE DEF pl, ql
<1> QED
  BY <1>3, <1>4, <1>5

-----------------------------------------------------------------------------
(* Windows and the frames that end them. *)

\* Windows start WINDOW_STRIDE apart, in order, the first at frame 0.
LEMMA Starts ==
  /\ \A k \in Nat : Start(k + 1) \in Nat /\ Start(k + 2) = Start(k + 1) + WINDOW_STRIDE
  /\ Start(1) = 0
  /\ \A j, k \in Nat : j < k => Start(j + 1) < Start(k + 1)
<1> USE DeviceAssumption
<1>1. ASSUME NEW k \in Nat PROVE Start(k + 1) \in Nat /\ Start(k + 2) = Start(k + 1) + WINDOW_STRIDE
  <2>1. Start(k + 1) = k * WINDOW_STRIDE /\ Start(k + 2) = (k + 1) * WINDOW_STRIDE
    BY DEF Start
  <2> QED
    BY <2>1
<1>2. Start(1) = 0
  BY DEF Start
<1>3. ASSUME NEW j \in Nat, NEW k \in Nat, j < k PROVE Start(j + 1) < Start(k + 1)
  <2>1. Start(j + 1) = j * WINDOW_STRIDE /\ Start(k + 1) = k * WINDOW_STRIDE
    BY DEF Start
  <2>2. j * WINDOW_STRIDE + WINDOW_STRIDE <= k * WINDOW_STRIDE
    BY <1>3, Apart
  <2>3. j * WINDOW_STRIDE \in Nat /\ k * WINDOW_STRIDE \in Nat
    OBVIOUS
  <2> QED
    BY <2>1, <2>2, <2>3
<1> QED
  BY <1>1, <1>2, <1>3

\* The next frame ends the next window, or none.
LEMMA CountedOn ==
  ASSUME NEW n \in Nat, NEW k \in Nat, Counted(n, k)
  PROVE  /\ EndsWindow(n + 1) => Counted(n + 1, k + 1) /\ n + 1 = Start(k + 1) + WINDOW_LEN
         /\ ~EndsWindow(n + 1) => Counted(n + 1, k)
<1> USE DeviceAssumption
<1> DEFINE b == Start(k + 1)
<1>1. /\ b \in Nat /\ b = k * WINDOW_STRIDE /\ Start(k + 2) = b + WINDOW_STRIDE /\ (k + 1) + 1 = k + 2
      /\ (k > 0 => Start(k) + WINDOW_STRIDE = b /\ Start(k) = (k - 1) * WINDOW_STRIDE /\ Start(k) \in Nat)
  <2>1. b \in Nat /\ b = k * WINDOW_STRIDE /\ Start(k + 2) = b + WINDOW_STRIDE /\ (k + 1) + 1 = k + 2
    BY Starts DEF Start
  <2>2. ASSUME k > 0 PROVE Start(k) + WINDOW_STRIDE = b /\ Start(k) = (k - 1) * WINDOW_STRIDE /\ Start(k) \in Nat
    <3>1. k - 1 \in Nat /\ (k - 1) + 1 = k /\ (k - 1) + 2 = k + 1
      BY <2>2
    <3> QED
      BY <3>1, Starts DEF Start
  <2> QED
    BY <2>1, <2>2
<1>2. n + 1 <= b + WINDOW_LEN /\ (k > 0 => n >= Start(k) + WINDOW_LEN)
  BY <1>1 DEF Counted
<1> HIDE DEF b
<1>3. CASE n + 1 = b + WINDOW_LEN
  <2>1. (n + 1) - WINDOW_LEN = k * WINDOW_STRIDE + 0 /\ 0 \in 0 .. WINDOW_STRIDE - 1
    BY <1>1, <1>3
  <2>2. EndsWindow(n + 1)
    <3>1. (k * WINDOW_STRIDE + 0) % WINDOW_STRIDE = 0
      BY <2>1, Remainders
    <3>2. ((n + 1) - WINDOW_LEN) % WINDOW_STRIDE = 0 /\ n + 1 >= WINDOW_LEN
      BY <1>1, <1>3, <2>1, <3>1
    <3> QED
      BY <3>2 DEF EndsWindow
  <2>3. Counted(n + 1, k + 1)
    BY <1>1, <1>3 DEF Counted, b
  <2> QED
    BY <1>3, <2>2, <2>3 DEF b
<1>4. CASE n + 1 < b + WINDOW_LEN
  <2>1. Counted(n + 1, k)
    BY <1>1, <1>2, <1>4 DEF Counted, b
  <2>2. ~EndsWindow(n + 1)
    <3>1. CASE k = 0
      BY <1>1, <1>4, <3>1 DEF EndsWindow
    <3>2. CASE k > 0
      <4> DEFINE y == (n + 1) - (Start(k) + WINDOW_LEN)
      <4>1. y \in 1 .. WINDOW_STRIDE - 1 /\ (n + 1) - WINDOW_LEN = Start(k) + y
        BY <1>1, <1>2, <1>4, <3>2
      <4> HIDE DEF y
      <4>2. (n + 1) - WINDOW_LEN = (k - 1) * WINDOW_STRIDE + y /\ k - 1 \in Nat /\ y \in 0 .. WINDOW_STRIDE - 1 /\ y # 0
        BY <1>1, <3>2, <4>1
      <4>3. ((k - 1) * WINDOW_STRIDE + y) % WINDOW_STRIDE = y
        BY <4>2, Remainders
      <4> QED
        BY <4>2, <4>3 DEF EndsWindow
    <3> QED
      BY <3>1, <3>2
  <2> QED
    BY <2>1, <2>2
<1> QED
  BY <1>2, <1>3, <1>4, <1>1

\* At most one number of windows has ended.
LEMMA CountedOnce ==
  ASSUME NEW n \in Nat, NEW j \in Nat, NEW k \in Nat, Counted(n, j), Counted(n, k)
  PROVE  j = k
<1> USE DeviceAssumption
<1>1. \A h, l \in Nat : h < l => ~(Counted(n, h) /\ Counted(n, l))
  <2> SUFFICES ASSUME NEW h \in Nat, NEW l \in Nat, h < l, Counted(n, h), Counted(n, l) PROVE FALSE
    OBVIOUS
  <2>1. l > 0 /\ n < Start(h + 1) + WINDOW_LEN /\ n >= Start(l) + WINDOW_LEN
    BY DEF Counted
  <2>2. l - 1 \in Nat /\ (l - 1) + 1 = l /\ (h = l - 1 \/ h < l - 1)
    OBVIOUS
  <2>3. Start(h + 1) \in Nat /\ Start(l) \in Nat
    BY <2>2, Starts
  <2>4. h < l - 1 => Start(h + 1) < Start((l - 1) + 1)
    BY <2>2, Starts
  <2>5. Start(h + 1) <= Start(l)
    BY <2>2, <2>3, <2>4
  <2> QED
    BY <2>1, <2>3, <2>5
<1> QED
  BY <1>1

\* Of more frames no fewer windows have ended.
LEMMA CountedGrows ==
  ASSUME NEW n \in Nat, NEW m \in Nat, n <= m, NEW j \in Nat, NEW k \in Nat, Counted(n, j), Counted(m, k)
  PROVE  j <= k
<1> USE DeviceAssumption
<1> SUFFICES ASSUME k < j PROVE FALSE
  OBVIOUS
<1>1. j - 1 \in Nat /\ (j - 1) + 1 = j /\ (k = j - 1 \/ k < j - 1)
  OBVIOUS
<1>2. Start(k + 1) \in Nat /\ Start(j) \in Nat
  BY <1>1, Starts
<1>3. k < j - 1 => Start(k + 1) < Start((j - 1) + 1)
  BY <1>1, Starts
<1>4. Start(k + 1) <= Start(j)
  BY <1>1, <1>2, <1>3
<1> QED
  BY <1>2, <1>4 DEF Counted

\* The frame that ends the k-th window.
LEMMA EndsAt ==
  ASSUME NEW n \in Nat, NEW k \in Nat, Counted(n, k), EndsWindow(n + 1)
  PROVE  /\ Counted(n + 1, k + 1) /\ n + 1 = Start(k + 1) + WINDOW_LEN
         /\ Start(k + 1) \in Nat /\ Start(k + 1) = (n + 1) - WINDOW_LEN
<1>1. Counted(n + 1, k + 1) /\ n + 1 = Start(k + 1) + WINDOW_LEN
  BY CountedOn
<1>2. Start(k + 1) \in Nat
  BY Starts
<1> QED
  BY <1>1, <1>2, DeviceAssumption

\* Before a frame no window has ended.
LEMMA CountedNone == Counted(0, 0)
<1>1. Start(1) = 0 /\ 0 + 1 = 1
  BY Starts
<1> QED
  BY <1>1, DeviceAssumption DEF Counted

\* At the first window in which a detection is due.
LEMMA CountedReached ==
  ASSUME NEW n \in Nat, NEW k \in Nat, Counted(n, k), NEW q \in Nat \ {0}, WINDOW_LEN + (q - 1) * WINDOW_STRIDE <= n
  PROVE  q <= k
<1> USE DeviceAssumption
<1> SUFFICES ASSUME k < q PROVE FALSE
  OBVIOUS
<1>1. q - 1 \in Nat /\ (q - 1) + 1 = q /\ (k = q - 1 \/ k < q - 1)
  OBVIOUS
<1>2. Start(k + 1) \in Nat /\ Start(q) \in Nat /\ Start(q) = (q - 1) * WINDOW_STRIDE
  <2>1. Start(q) = (q - 1) * WINDOW_STRIDE
    BY DEF Start
  <2>2. Start(k + 1) \in Nat /\ Start((q - 1) + 1) \in Nat
    BY <1>1, Starts
  <2> QED
    BY <1>1, <2>1, <2>2
<1>3. k < q - 1 => Start(k + 1) < Start((q - 1) + 1)
  BY <1>1, Starts
<1>4. Start(k + 1) <= Start(q)
  BY <1>1, <1>2, <1>3
<1> QED
  BY <1>2, <1>4 DEF Counted

-----------------------------------------------------------------------------
(* The frames of a session. *)

\* How the intact frames count up.
LEMMA GoodGrows ==
  ASSUME NEW cor \in SUBSET (0 .. FRAMES - 1)
  PROVE  /\ Good(cor, 0) = 0
         /\ \A s \in Nat : Good(cor, s) \in Nat /\ Good(cor, s) <= s
         /\ \A s \in Nat : Good(cor, s + 1) = IF s \in cor THEN Good(cor, s) ELSE Good(cor, s) + 1
         /\ \A s, t \in Nat : s <= t => Good(cor, s) <= Good(cor, t)
         /\ Good(cor, FRAMES) = FRAMES - Cardinality(cor)
<1> USE ScenarioAssumption
<1> DEFINE G(s) == (0 .. s - 1) \ cor
<1>1. ASSUME NEW s \in Nat PROVE IsFiniteSet(G(s)) /\ Cardinality(G(s)) \in Nat /\ Cardinality(G(s)) <= s
  <2>1. IsFiniteSet(0 .. s - 1) /\ Cardinality(0 .. s - 1) = s
    <3>1. 0 \in Int /\ s - 1 \in Int
      OBVIOUS
    <3>2. IsFiniteSet(0 .. s - 1) /\ Cardinality(0 .. s - 1) = IF 0 > s - 1 THEN 0 ELSE (s - 1) - 0 + 1
      BY <3>1, FS_Interval
    <3> QED
      BY <3>2
  <2>2. G(s) \subseteq 0 .. s - 1
    OBVIOUS
  <2>3. IsFiniteSet(G(s)) /\ Cardinality(G(s)) <= Cardinality(0 .. s - 1)
    BY <2>1, <2>2, FS_Subset
  <2> QED
    BY <2>1, <2>3, FS_CardinalityType
<1>2. ASSUME NEW s \in Nat
      PROVE  Cardinality(G(s + 1)) = IF s \in cor THEN Cardinality(G(s)) ELSE Cardinality(G(s)) + 1
  <2>1. CASE s \in cor
    <3>1. G(s + 1) = G(s)
      BY <2>1
    <3> QED
      BY <2>1, <3>1
  <2>2. CASE s \notin cor
    <3>1. G(s + 1) = G(s) \cup {s} /\ s \notin G(s)
      BY <2>2
    <3>2. Cardinality(G(s) \cup {s}) = Cardinality(G(s)) + 1
      BY <1>1, <3>1, FS_AddElement
    <3> QED
      BY <2>2, <3>1, <3>2
  <2> QED
    BY <2>1, <2>2
<1>3. ASSUME NEW s \in Nat, NEW t \in Nat, s <= t PROVE Cardinality(G(s)) <= Cardinality(G(t))
  <2>1. G(s) \subseteq G(t)
    BY <1>3
  <2> QED
    BY <2>1, <1>1, FS_Subset
<1>4. Cardinality(G(0)) = 0
  <2>1. G(0) = {}
    OBVIOUS
  <2> QED
    BY <2>1, FS_EmptySet
<1>5. Cardinality(G(FRAMES)) = FRAMES - Cardinality(cor)
  <2>1. IsFiniteSet(0 .. FRAMES - 1) /\ Cardinality(0 .. FRAMES - 1) = FRAMES
    BY FS_Interval
  <2>2. cor \subseteq 0 .. FRAMES - 1 /\ (0 .. FRAMES - 1) \cap cor = cor
    OBVIOUS
  <2>3. Cardinality(G(FRAMES)) = Cardinality(0 .. FRAMES - 1) - Cardinality((0 .. FRAMES - 1) \cap cor)
    BY <2>1, FS_Difference
  <2> QED
    BY <2>1, <2>2, <2>3
<1> QED
  BY <1>1, <1>2, <1>3, <1>4, <1>5 DEF Good

\* The frame that comes next is the next intact one.
LEMMA NthIs ==
  ASSUME NEW cor \in SUBSET (0 .. FRAMES - 1), NEW s \in 0 .. FRAMES - 1, s \notin cor
  PROVE  Nth(cor, Good(cor, s) + 1) = s /\ Good(cor, s + 1) = Good(cor, s) + 1
<1> USE ScenarioAssumption
<1> DEFINE n == Good(cor, s) + 1
<1>1. ASSUME NEW a \in 0 .. FRAMES - 1, NEW b \in 0 .. FRAMES - 1, a < b, a \notin cor
      PROVE  Good(cor, a) + 1 <= Good(cor, b)
  <2>1. a \in Nat /\ b \in Nat /\ a + 1 \in Nat /\ a + 1 <= b
    BY <1>1
  <2>2. Good(cor, a + 1) = Good(cor, a) + 1 /\ Good(cor, a + 1) <= Good(cor, b)
    BY <1>1, <2>1, GoodGrows
  <2> QED
    BY <2>2
<1>2. \A a \in 0 .. FRAMES - 1 : Good(cor, a) \in Nat
  <2>1. \A a \in 0 .. FRAMES - 1 : a \in Nat
    OBVIOUS
  <2> QED
    BY <2>1, GoodGrows
<1>3. ASSUME NEW a \in 0 .. FRAMES - 1, a \notin cor, Good(cor, a) + 1 = n PROVE a = s
  <2>1. ~(a < s)
    <3>1. a < s => Good(cor, a) + 1 <= Good(cor, s)
      BY <1>1, <1>3
    <3> QED
      BY <3>1, <1>2, <1>3
  <2>2. ~(s < a)
    <3>1. s < a => Good(cor, s) + 1 <= Good(cor, a)
      BY <1>1
    <3> QED
      BY <3>1, <1>2, <1>3
  <2> QED
    BY <2>1, <2>2
<1>4. s \notin cor /\ Good(cor, s) + 1 = n
  OBVIOUS
<1> HIDE DEF n
<1>5. (CHOOSE a \in 0 .. FRAMES - 1 : a \notin cor /\ Good(cor, a) + 1 = n) = s
  BY <1>3, <1>4
<1>6. Good(cor, s + 1) = Good(cor, s) + 1
  <2>1. s \in Nat
    OBVIOUS
  <2> QED
    BY <2>1, GoodGrows
<1> QED
  BY <1>4, <1>5, <1>6 DEF Nth

\* Where the two sessions are and how many frames of each are intact.
LEMMA SessionFacts ==
  ASSUME NEW base \in Sessions
  PROVE  /\ First(base) \in Nat /\ Cor(base) \in SUBSET (0 .. FRAMES - 1)
         /\ base \in Nat /\ base >= 2
         /\ FRAMES - Cardinality(CORRUPT) <= Good(Cor(base), FRAMES)
         /\ Good(CORRUPT, FRAMES) = FRAMES - Cardinality(CORRUPT)
         /\ Cardinality(CORRUPT) \in Nat
<1> USE ScenarioAssumption
<1>1. First(base) \in Nat /\ Cor(base) \in SUBSET (0 .. FRAMES - 1) /\ base \in Nat /\ base >= 2
  BY DEF Sessions, First, Cor, SECOND
<1>2. Good(CORRUPT, FRAMES) = FRAMES - Cardinality(CORRUPT)
  BY GoodGrows
<1>3. Good({}, FRAMES) = FRAMES - Cardinality({}) /\ Cardinality({}) = 0
  BY GoodGrows, FS_EmptySet
<1>4. Cardinality(CORRUPT) \in Nat
  <2>1. IsFiniteSet(0 .. FRAMES - 1)
    BY FS_Interval
  <2> QED
    BY <2>1, FS_Subset, FS_CardinalityType
<1> QED
  BY <1>1, <1>2, <1>3, <1>4 DEF Cor

-----------------------------------------------------------------------------
(* The script, place by place. *)

Steps ==
  [op : {"ask"}, type : Types, check : Checks]
    \cup [op : {"feature"}, fn : Nat, corrupt : BOOLEAN, streaming : BOOLEAN]
    \cup [op : {"ref_reset", "drain", "matched"}]

\* Requests are steps.
LEMMA AskIsStep ==
  ASSUME NEW t \in Types, NEW c \in Checks
  PROVE  Ask(t, c) \in Steps
<1>1. [op |-> "ask", type |-> t, check |-> c] \in [op : {"ask"}, type : Types, check : Checks]
  OBVIOUS
<1> QED
  BY <1>1, Zenon DEF Ask, Steps

\* The steps without arguments are steps.
LEMMA OpIsStep ==
  ASSUME NEW o \in {"ref_reset", "drain", "matched"}
  PROVE  Op(o) \in Steps
<1>1. [op |-> o] \in [op : {"ref_reset", "drain", "matched"}]
  OBVIOUS
<1> QED
  BY <1>1, Zenon DEF Op, Steps

\* Two sequences joined, by place.
LEMMA Joined ==
  ASSUME NEW S, NEW s \in Seq(S), NEW t \in Seq(S)
  PROVE  /\ s \o t \in Seq(S) /\ Len(s \o t) = Len(s) + Len(t) /\ Len(s) \in Nat /\ Len(t) \in Nat
         /\ \A k \in 1 .. Len(s) : (s \o t)[k] = s[k]
         /\ \A k \in 1 .. Len(t) : (s \o t)[Len(s) + k] = t[k]
<1>1. s \o t \in Seq(S) /\ Len(s \o t) = Len(s) + Len(t) /\ Len(s) \in Nat /\ Len(t) \in Nat
  BY ConcatProperties, LenProperties
<1>2. \A k \in 1 .. Len(s) + Len(t) : (s \o t)[k] = IF k <= Len(s) THEN s[k] ELSE t[k - Len(s)]
  BY ConcatProperties
<1>3. ASSUME NEW k \in 1 .. Len(t) PROVE (s \o t)[Len(s) + k] = t[k]
  <2>1. Len(s) + k \in 1 .. Len(s) + Len(t) /\ ~(Len(s) + k <= Len(s)) /\ (Len(s) + k) - Len(s) = k
    BY <1>1
  <2> QED
    BY <1>2, <2>1
<1>4. ASSUME NEW k \in 1 .. Len(s) PROVE (s \o t)[k] = s[k]
  <2>1. k \in 1 .. Len(s) + Len(t) /\ k <= Len(s)
    BY <1>1
  <2> QED
    BY <1>2, <2>1
<1> QED
  BY <1>1, <1>3, <1>4

\* The steps of a session: START, reset of the reference, the frames, drain, verdict.
LEMMA SessionSteps ==
  ASSUME NEW first \in Nat, NEW cor \in SUBSET (0 .. FRAMES - 1)
  PROVE  LET s == Session(first, cor)
         IN  /\ s \in Seq(Steps) /\ Len(s) = FRAMES + 4
             /\ s[1] = Ask("START", "echo") /\ s[2] = Op("ref_reset")
             /\ \A k \in 1 .. FRAMES : s[k + 2] = Feature(first + (k - 1), (k - 1) \in cor, TRUE)
             /\ s[FRAMES + 3] = Op("drain") /\ s[FRAMES + 4] = Op("matched")
<1> USE ScenarioAssumption
<1> DEFINE a == <<Ask("START", "echo"), Op("ref_reset")>>
           f == Frames(first, cor)
           z == <<Op("drain"), Op("matched")>>
           af == a \o f
           s == af \o z
<1>1. a \in Seq(Steps) /\ Len(a) = 2 /\ a[1] = Ask("START", "echo") /\ a[2] = Op("ref_reset")
  <2>1. Ask("START", "echo") \in Steps /\ Op("ref_reset") \in Steps
    BY AskIsStep, OpIsStep DEF Types, Checks, CommandTypes
  <2> QED
    BY <2>1
<1>2. z \in Seq(Steps) /\ Len(z) = 2 /\ z[1] = Op("drain") /\ z[2] = Op("matched")
  <2>1. Op("drain") \in Steps /\ Op("matched") \in Steps
    BY AskIsStep, OpIsStep DEF Types, Checks, CommandTypes
  <2> QED
    BY <2>1
<1>3. f \in Seq(Steps) /\ Len(f) = FRAMES
      /\ \A k \in 1 .. FRAMES : f[k] = Feature(first + (k - 1), (k - 1) \in cor, TRUE)
  <2>1. \A k \in 1 .. FRAMES : Feature(first + (k - 1), (k - 1) \in cor, TRUE) \in Steps
    <3> SUFFICES ASSUME NEW k \in 1 .. FRAMES PROVE Feature(first + (k - 1), (k - 1) \in cor, TRUE) \in Steps
      OBVIOUS
    <3>1. first + (k - 1) \in Nat /\ ((k - 1) \in cor) \in BOOLEAN
      OBVIOUS
    <3> QED
      BY <3>1, Zenon DEF Feature, Steps
  <2>2. f = [k \in 1 .. FRAMES |-> Feature(first + (k - 1), (k - 1) \in cor, TRUE)]
    BY DEF Frames
  <2> HIDE DEF f
  <2>3. f \in [1 .. FRAMES -> Steps]
    BY <2>1, <2>2, Zenon
  <2>4. f \in Seq(Steps) /\ Len(f) = FRAMES
    BY <2>3, SeqDef, LenProperties
  <2> QED
    BY <2>2, <2>4, Zenon
<1> HIDE DEF a, f, z
<1>4. /\ af \in Seq(Steps) /\ Len(af) = 2 + FRAMES
      /\ \A k \in 1 .. 2 : af[k] = a[k]
      /\ \A k \in 1 .. FRAMES : af[2 + k] = f[k]
  <2>8. a \in Seq(Steps) /\ f \in Seq(Steps)
    BY <1>1, <1>3
  <2>9. a \in Seq(Steps) /\ f \in Seq(Steps) /\ Len(a) = 2 /\ Len(f) = FRAMES
    BY <1>1, <1>3
  <2>1. a \o f \in Seq(Steps)
    BY <2>8, Joined
  <2>2. Len(a \o f) = Len(a) + Len(f)
    BY <2>8, Joined
  <2>3. \A k \in 1 .. Len(a) : (a \o f)[k] = a[k]
    BY <2>8, Joined
  <2>4. \A k \in 1 .. Len(f) : (a \o f)[Len(a) + k] = f[k]
    BY <2>8, Joined
  <2> QED
    BY <2>9, <2>1, <2>2, <2>3, <2>4
<1> HIDE DEF af
<1>5. /\ s \in Seq(Steps) /\ Len(s) = (2 + FRAMES) + 2
      /\ \A k \in 1 .. 2 + FRAMES : s[k] = af[k]
      /\ \A k \in 1 .. 2 : s[(2 + FRAMES) + k] = z[k]
  <2>8. af \in Seq(Steps) /\ z \in Seq(Steps)
    BY <1>2, <1>4
  <2>9. af \in Seq(Steps) /\ z \in Seq(Steps) /\ Len(af) = 2 + FRAMES /\ Len(z) = 2
    BY <1>2, <1>4
  <2>1. af \o z \in Seq(Steps)
    BY <2>8, Joined
  <2>2. Len(af \o z) = Len(af) + Len(z)
    BY <2>8, Joined
  <2>3. \A k \in 1 .. Len(af) : (af \o z)[k] = af[k]
    BY <2>8, Joined
  <2>4. \A k \in 1 .. Len(z) : (af \o z)[Len(af) + k] = z[k]
    BY <2>8, Joined
  <2> QED
    BY <2>9, <2>1, <2>2, <2>3, <2>4
<1>6. s = Session(first, cor)
  BY DEF Session, a, f, z, af
<1> HIDE DEF s
<1>7. s[1] = Ask("START", "echo") /\ s[2] = Op("ref_reset")
  <2>1. 1 \in 1 .. 2 /\ 2 \in 1 .. 2 /\ 1 \in 1 .. 2 + FRAMES /\ 2 \in 1 .. 2 + FRAMES
    OBVIOUS
  <2> QED
    BY <1>1, <1>4, <1>5, <2>1, Zenon
<1>8. ASSUME NEW k \in 1 .. FRAMES PROVE s[k + 2] = Feature(first + (k - 1), (k - 1) \in cor, TRUE)
  <2>1. 2 + k \in 1 .. 2 + FRAMES /\ k + 2 = 2 + k
    OBVIOUS
  <2>2. s[2 + k] = af[2 + k] /\ af[2 + k] = f[k]
    BY <1>4, <1>5, <2>1
  <2> QED
    BY <1>3, <2>1, <2>2, Zenon
<1>9. s[FRAMES + 3] = Op("drain") /\ s[FRAMES + 4] = Op("matched")
  <2>1. (2 + FRAMES) + 1 = FRAMES + 3 /\ (2 + FRAMES) + 2 = FRAMES + 4 /\ 1 \in 1 .. 2 /\ 2 \in 1 .. 2
    OBVIOUS
  <2>2. s[(2 + FRAMES) + 1] = z[1] /\ s[(2 + FRAMES) + 2] = z[2]
    BY <1>5, <2>1, Zenon
  <2> QED
    BY <1>2, <2>1, <2>2, Zenon
<1>10. Len(s) = FRAMES + 4
  BY <1>5
<1> QED
  BY <1>5, <1>6, <1>7, <1>8, <1>9, <1>10, Zenon

\* From the first START on, both scripts are alike.
Plain(s, lead, base) ==
  /\ s[(lead + base) - 1] = Ask("START", "echo") /\ s[lead + base] = Op("ref_reset")
  /\ \A k \in 1 .. FRAMES :
       s[(lead + base) + k] = Feature(First(base) + (k - 1), (k - 1) \in Cor(base), TRUE)
  /\ s[(lead + base) + (FRAMES + 1)] = Op("drain") /\ s[(lead + base) + (FRAMES + 2)] = Op("matched")

Scripted(s, lead) ==
  /\ \A base \in Sessions : Plain(s, lead, base)
  /\ s[lead + (FRAMES + 5)] = Ask("READ_STATS", "session")
  /\ s[lead + (FRAMES + 6)] = Ask("STOP", "echo")
  /\ s[lead + (FRAMES + 7)] = Feature(STOPPED, FALSE, FALSE)
  /\ s[lead + (FRAMES + 8)] = Ask("READ_STATS", "stopped")
  /\ s[lead + (FRAMES + 9)] = Ask("RESET", "echo")
  /\ s[lead + (FRAMES + 10)] = Ask("READ_STATS", "cleared")
  /\ s[lead + (FRAMES + 11)] = Ask("UNKNOWN_TYPE", "error")
  /\ s[lead + (FRAMES + 12)] = Ask("BAD_LENGTH", "error")
  /\ s[lead + (FRAMES + 13)] = Ask("BAD_VERSION", "error")

\* Sequences written out.
LEMMA EightInARow ==
  ASSUME NEW S, NEW a \in S, NEW b \in S, NEW c \in S, NEW d \in S, NEW e \in S, NEW f \in S, NEW g \in S, NEW h \in S
  PROVE  <<a, b, c, d, e, f, g, h>> \in Seq(S) /\ Len(<<a, b, c, d, e, f, g, h>>) = 8
OBVIOUS

\* The error plane is a sequence of eight steps.
LEMMA ErrorSteps == ErrorPlane \in Seq(Steps) /\ Len(ErrorPlane) = 8
<1>1. /\ Ask("STOP", "echo") \in Steps /\ Ask("READ_STATS", "stopped") \in Steps
      /\ Ask("RESET", "echo") \in Steps /\ Ask("READ_STATS", "cleared") \in Steps
      /\ Ask("UNKNOWN_TYPE", "error") \in Steps /\ Ask("BAD_LENGTH", "error") \in Steps
      /\ Ask("BAD_VERSION", "error") \in Steps
  BY AskIsStep DEF Types, Checks, CommandTypes
<1>2. Feature(STOPPED, FALSE, FALSE) \in Steps
  <2>1. STOPPED \in Nat
    BY ScenarioAssumption DEF STOPPED
  <2>2. [op |-> "feature", fn |-> STOPPED, corrupt |-> FALSE, streaming |-> FALSE]
          \in [op : {"feature"}, fn : Nat, corrupt : BOOLEAN, streaming : BOOLEAN]
    BY <2>1
  <2> QED
    BY <2>2, Zenon DEF Feature, Steps
<1> QED
  BY <1>1, <1>2, EightInARow, Zenon DEF ErrorPlane

\* A lead, a session, the error plane and a session make a script.
LEMMA ScriptedIs ==
  ASSUME NEW pre \in Seq(Steps), NEW lead \in Nat, Len(pre) = lead
  PROVE  LET s == pre \o Session(0, CORRUPT) \o <<Ask("READ_STATS", "session")>> \o ErrorPlane \o Session(SECOND, {})
         IN  /\ s \in Seq(Steps) /\ Len(s) = lead + (2 * FRAMES + 17)
             /\ \A k \in 1 .. lead : s[k] = pre[k]
             /\ Scripted(s, lead)
<1> USE ScenarioAssumption
<1> DEFINE s1 == Session(0, CORRUPT)
           q == <<Ask("READ_STATS", "session")>>
           s2 == Session(SECOND, {})
           p1 == pre \o s1
           p2 == p1 \o q
           p3 == p2 \o ErrorPlane
           s == p3 \o s2
<1>1. /\ s1 \in Seq(Steps) /\ Len(s1) = FRAMES + 4
      /\ s1[1] = Ask("START", "echo") /\ s1[2] = Op("ref_reset")
      /\ \A k \in 1 .. FRAMES : s1[k + 2] = Feature(0 + (k - 1), (k - 1) \in CORRUPT, TRUE)
      /\ s1[FRAMES + 3] = Op("drain") /\ s1[FRAMES + 4] = Op("matched")
  BY SessionSteps, Zenon
<1>2. /\ s2 \in Seq(Steps) /\ Len(s2) = FRAMES + 4
      /\ s2[1] = Ask("START", "echo") /\ s2[2] = Op("ref_reset")
      /\ \A k \in 1 .. FRAMES : s2[k + 2] = Feature(SECOND + (k - 1), (k - 1) \in {}, TRUE)
      /\ s2[FRAMES + 3] = Op("drain") /\ s2[FRAMES + 4] = Op("matched")
  <2>1. SECOND \in Nat /\ {} \in SUBSET (0 .. FRAMES - 1)
    BY DEF SECOND
  <2> QED
    BY <2>1, SessionSteps, Zenon
<1>3. q \in Seq(Steps) /\ Len(q) = 1 /\ q[1] = Ask("READ_STATS", "session")
  <2>1. Ask("READ_STATS", "session") \in Steps
    BY AskIsStep DEF Types, Checks, CommandTypes
  <2> QED
    BY <2>1
<1> HIDE DEF s1, s2, q
<1> DEFINE l1 == lead + (FRAMES + 4)
           l2 == l1 + 1
           l3 == l2 + 8
<1>4. /\ p1 \in Seq(Steps) /\ Len(p1) = l1 /\ l1 \in Nat
      /\ \A k \in 1 .. lead : p1[k] = pre[k]
      /\ \A k \in 1 .. FRAMES + 4 : p1[lead + k] = s1[k]
  <2>8. pre \in Seq(Steps) /\ s1 \in Seq(Steps)
    BY <1>1
  <2>9. pre \in Seq(Steps) /\ s1 \in Seq(Steps) /\ Len(pre) = lead /\ Len(s1) = (FRAMES + 4)
    BY <1>1
  <2>1. pre \o s1 \in Seq(Steps)
    BY <2>8, Joined
  <2>2. Len(pre \o s1) = Len(pre) + Len(s1)
    BY <2>8, Joined
  <2>3. \A k \in 1 .. Len(pre) : (pre \o s1)[k] = pre[k]
    BY <2>8, Joined
  <2>4. \A k \in 1 .. Len(s1) : (pre \o s1)[Len(pre) + k] = s1[k]
    BY <2>8, Joined
  <2> QED
    BY <2>9, <2>1, <2>2, <2>3, <2>4
<1> HIDE DEF p1
<1>5. /\ p2 \in Seq(Steps) /\ Len(p2) = l2 /\ l2 \in Nat
      /\ \A k \in 1 .. l1 : p2[k] = p1[k]
      /\ \A k \in 1 .. 1 : p2[l1 + k] = q[k]
  <2> HIDE DEF l1
  <2>8. p1 \in Seq(Steps) /\ q \in Seq(Steps)
    BY <1>3, <1>4
  <2>9. p1 \in Seq(Steps) /\ q \in Seq(Steps) /\ Len(p1) = l1 /\ Len(q) = 1
    BY <1>3, <1>4
  <2>1. p1 \o q \in Seq(Steps)
    BY <2>8, Joined
  <2>2. Len(p1 \o q) = Len(p1) + Len(q)
    BY <2>8, Joined
  <2>3. \A k \in 1 .. Len(p1) : (p1 \o q)[k] = p1[k]
    BY <2>8, Joined
  <2>4. \A k \in 1 .. Len(q) : (p1 \o q)[Len(p1) + k] = q[k]
    BY <2>8, Joined
  <2> QED
    BY <2>9, <2>1, <2>2, <2>3, <2>4
<1> HIDE DEF p2
<1>6. /\ p3 \in Seq(Steps) /\ Len(p3) = l3 /\ l3 \in Nat
      /\ \A k \in 1 .. l2 : p3[k] = p2[k]
      /\ \A k \in 1 .. 8 : p3[l2 + k] = ErrorPlane[k]
  <2> HIDE DEF l2
  <2>8. p2 \in Seq(Steps) /\ ErrorPlane \in Seq(Steps)
    BY <1>5, ErrorSteps
  <2>9. p2 \in Seq(Steps) /\ ErrorPlane \in Seq(Steps) /\ Len(p2) = l2 /\ Len(ErrorPlane) = 8
    BY <1>5, ErrorSteps
  <2>1. p2 \o ErrorPlane \in Seq(Steps)
    BY <2>8, Joined
  <2>2. Len(p2 \o ErrorPlane) = Len(p2) + Len(ErrorPlane)
    BY <2>8, Joined
  <2>3. \A k \in 1 .. Len(p2) : (p2 \o ErrorPlane)[k] = p2[k]
    BY <2>8, Joined
  <2>4. \A k \in 1 .. Len(ErrorPlane) : (p2 \o ErrorPlane)[Len(p2) + k] = ErrorPlane[k]
    BY <2>8, Joined
  <2>5. \A k \in 1 .. 8 : (p2 \o ErrorPlane)[l2 + k] = ErrorPlane[k]
    BY <2>4, <2>9, Zenon
  <2>6. \A k \in 1 .. l2 : (p2 \o ErrorPlane)[k] = p2[k]
    BY <2>3, <2>9, Zenon
  <2>7. Len(p2 \o ErrorPlane) = l3 /\ l3 \in Nat
    BY <1>5, <2>2, <2>9 DEF l3
  <2> QED
    BY <2>1, <2>5, <2>6, <2>7, Zenon DEF p3
<1> HIDE DEF p3
<1>7. /\ s \in Seq(Steps) /\ Len(s) = l3 + (FRAMES + 4)
      /\ \A k \in 1 .. l3 : s[k] = p3[k]
      /\ \A k \in 1 .. FRAMES + 4 : s[l3 + k] = s2[k]
  <2> HIDE DEF l3
  <2>8. p3 \in Seq(Steps) /\ s2 \in Seq(Steps)
    BY <1>2, <1>6
  <2>9. p3 \in Seq(Steps) /\ s2 \in Seq(Steps) /\ Len(p3) = l3 /\ Len(s2) = (FRAMES + 4)
    BY <1>2, <1>6
  <2>1. p3 \o s2 \in Seq(Steps)
    BY <2>8, Joined
  <2>2. Len(p3 \o s2) = Len(p3) + Len(s2)
    BY <2>8, Joined
  <2>3. \A k \in 1 .. Len(p3) : (p3 \o s2)[k] = p3[k]
    BY <2>8, Joined
  <2>4. \A k \in 1 .. Len(s2) : (p3 \o s2)[Len(p3) + k] = s2[k]
    BY <2>8, Joined
  <2> QED
    BY <2>9, <2>1, <2>2, <2>3, <2>4
<1> HIDE DEF s
<1>8. /\ l1 = lead + (FRAMES + 4) /\ l2 = lead + (FRAMES + 5) /\ l3 = lead + (FRAMES + 13)
      /\ l3 + (FRAMES + 4) = lead + (2 * FRAMES + 17)
  OBVIOUS
<1> HIDE DEF l1, l2, l3
<1>9. ASSUME NEW k \in 1 .. lead PROVE s[k] = pre[k]
  <2>1. k \in 1 .. l1 /\ k \in 1 .. l2 /\ k \in 1 .. l3
    BY <1>8
  <2>2. s[k] = p3[k] /\ p3[k] = p2[k]
    BY <1>6, <1>7, <2>1, Zenon
  <2>3. p2[k] = p1[k] /\ p1[k] = pre[k]
    BY <1>4, <1>5, <2>1, Zenon
  <2> QED
    BY <2>2, <2>3, Zenon
<1>10. ASSUME NEW k \in 1 .. FRAMES + 4 PROVE s[lead + k] = s1[k]
  <2>1. lead + k \in 1 .. l1 /\ lead + k \in 1 .. l2 /\ lead + k \in 1 .. l3
    BY <1>8
  <2>2. s[lead + k] = p3[lead + k] /\ p3[lead + k] = p2[lead + k]
    BY <1>6, <1>7, <2>1, Zenon
  <2>3. p2[lead + k] = p1[lead + k] /\ p1[lead + k] = s1[k]
    BY <1>4, <1>5, <2>1, Zenon
  <2> QED
    BY <2>2, <2>3, Zenon
<1>11. s[lead + (FRAMES + 5)] = Ask("READ_STATS", "session")
  <2>1. l1 + 1 \in 1 .. l2 /\ l1 + 1 \in 1 .. l3 /\ l1 + 1 = lead + (FRAMES + 5) /\ 1 \in 1 .. 1
    BY <1>8
  <2>2. p2[l1 + 1] = q[1]
    BY <1>5, <2>1, Zenon
  <2> QED
    BY <1>3, <1>6, <1>7, <2>1, <2>2, Zenon
<1>12. ASSUME NEW k \in 1 .. 8 PROVE s[lead + (FRAMES + 5 + k)] = ErrorPlane[k]
  <2>1. l2 + k \in 1 .. l3 /\ l2 + k = lead + (FRAMES + 5 + k)
    BY <1>8
  <2> QED
    BY <1>6, <1>7, <2>1, Zenon
<1>13. Plain(s, lead, 2)
  <2>1. /\ s[lead + 1] = s1[1] /\ s[lead + 2] = s1[2]
        /\ s[lead + (FRAMES + 3)] = s1[FRAMES + 3] /\ s[lead + (FRAMES + 4)] = s1[FRAMES + 4]
    <3>1. 1 \in 1 .. FRAMES + 4 /\ 2 \in 1 .. FRAMES + 4 /\ FRAMES + 3 \in 1 .. FRAMES + 4 /\ FRAMES + 4 \in 1 .. FRAMES + 4
      OBVIOUS
    <3> QED
      BY <1>10, <3>1, Zenon
  <2>2. /\ (lead + 2) - 1 = lead + 1 /\ (lead + 2) + (FRAMES + 1) = lead + (FRAMES + 3)
        /\ (lead + 2) + (FRAMES + 2) = lead + (FRAMES + 4)
    OBVIOUS
  <2>3. ASSUME NEW k \in 1 .. FRAMES
        PROVE  s[(lead + 2) + k] = Feature(First(2) + (k - 1), (k - 1) \in Cor(2), TRUE)
    <3>1. k + 2 \in 1 .. FRAMES + 4 /\ (lead + 2) + k = lead + (k + 2)
      OBVIOUS
    <3>2. s[lead + (k + 2)] = s1[k + 2]
      BY <1>10, <3>1, Zenon
    <3>3. First(2) = 0 /\ Cor(2) = CORRUPT
      BY DEF First, Cor
    <3> QED
      BY <1>1, <3>1, <3>2, <3>3, Zenon
  <2> QED
    BY <1>1, <2>1, <2>2, <2>3, Zenon DEF Plain
<1>14. Plain(s, lead, FRAMES + 15)
  <2>1. /\ s[l3 + 1] = s2[1] /\ s[l3 + 2] = s2[2]
        /\ s[l3 + (FRAMES + 3)] = s2[FRAMES + 3] /\ s[l3 + (FRAMES + 4)] = s2[FRAMES + 4]
    <3>1. 1 \in 1 .. FRAMES + 4 /\ 2 \in 1 .. FRAMES + 4 /\ FRAMES + 3 \in 1 .. FRAMES + 4 /\ FRAMES + 4 \in 1 .. FRAMES + 4
      OBVIOUS
    <3> QED
      BY <1>7, <3>1, Zenon
  <2>2. /\ (lead + (FRAMES + 15)) - 1 = l3 + 1 /\ lead + (FRAMES + 15) = l3 + 2
        /\ (lead + (FRAMES + 15)) + (FRAMES + 1) = l3 + (FRAMES + 3)
        /\ (lead + (FRAMES + 15)) + (FRAMES + 2) = l3 + (FRAMES + 4)
    BY <1>8
  <2>3. ASSUME NEW k \in 1 .. FRAMES
        PROVE  s[(lead + (FRAMES + 15)) + k]
                 = Feature(First(FRAMES + 15) + (k - 1), (k - 1) \in Cor(FRAMES + 15), TRUE)
    <3>1. k + 2 \in 1 .. FRAMES + 4 /\ (lead + (FRAMES + 15)) + k = l3 + (k + 2)
      BY <1>8
    <3>2. s[l3 + (k + 2)] = s2[k + 2]
      BY <1>7, <3>1, Zenon
    <3>3. First(FRAMES + 15) = SECOND /\ Cor(FRAMES + 15) = {}
      BY DEF First, Cor
    <3> QED
      BY <1>2, <3>1, <3>2, <3>3, Zenon
  <2> QED
    BY <1>2, <2>1, <2>2, <2>3, Zenon DEF Plain
<1>15. Scripted(s, lead)
  <2>1. \A k \in 1 .. 8 : s[lead + (FRAMES + 5 + k)] = ErrorPlane[k]
    BY <1>12
  <2>2. /\ FRAMES + 5 + 1 = FRAMES + 6 /\ FRAMES + 5 + 2 = FRAMES + 7 /\ FRAMES + 5 + 3 = FRAMES + 8
        /\ FRAMES + 5 + 4 = FRAMES + 9 /\ FRAMES + 5 + 5 = FRAMES + 10 /\ FRAMES + 5 + 6 = FRAMES + 11
        /\ FRAMES + 5 + 7 = FRAMES + 12 /\ FRAMES + 5 + 8 = FRAMES + 13
    OBVIOUS
  <2>3. /\ s[lead + (FRAMES + 6)] = ErrorPlane[1] /\ s[lead + (FRAMES + 7)] = ErrorPlane[2]
        /\ s[lead + (FRAMES + 8)] = ErrorPlane[3] /\ s[lead + (FRAMES + 9)] = ErrorPlane[4]
        /\ s[lead + (FRAMES + 10)] = ErrorPlane[5] /\ s[lead + (FRAMES + 11)] = ErrorPlane[6]
        /\ s[lead + (FRAMES + 12)] = ErrorPlane[7] /\ s[lead + (FRAMES + 13)] = ErrorPlane[8]
    <3>1. 1 \in 1 .. 8 /\ 2 \in 1 .. 8 /\ 3 \in 1 .. 8 /\ 4 \in 1 .. 8 /\ 5 \in 1 .. 8 /\ 6 \in 1 .. 8 /\ 7 \in 1 .. 8 /\ 8 \in 1 .. 8
      OBVIOUS
    <3> QED
      BY <2>1, <2>2, <3>1, Zenon
  <2>4. /\ ErrorPlane[1] = Ask("STOP", "echo") /\ ErrorPlane[2] = Feature(STOPPED, FALSE, FALSE)
        /\ ErrorPlane[3] = Ask("READ_STATS", "stopped") /\ ErrorPlane[4] = Ask("RESET", "echo")
        /\ ErrorPlane[5] = Ask("READ_STATS", "cleared") /\ ErrorPlane[6] = Ask("UNKNOWN_TYPE", "error")
        /\ ErrorPlane[7] = Ask("BAD_LENGTH", "error") /\ ErrorPlane[8] = Ask("BAD_VERSION", "error")
    BY DEF ErrorPlane
  <2> QED
    BY <1>11, <1>13, <1>14, <2>3, <2>4, Zenon DEF Scripted, Sessions
<1>16. s = pre \o Session(0, CORRUPT) \o <<Ask("READ_STATS", "session")>> \o ErrorPlane \o Session(SECOND, {})
  BY DEF s, p3, p2, p1, s1, s2, q
<1>17. Len(s) = lead + (2 * FRAMES + 17)
  BY <1>7, <1>8
<1> QED
  BY <1>7, <1>9, <1>15, <1>16, <1>17, Zenon

\* What both scripts say, and where they differ.
LEMMA ScriptIs ==
  ASSUME TypeOK
  PROVE  /\ Lead \in {2, 3} /\ script \in Seq(Steps) /\ Scripted(script, Lead)
         /\ script[1] = Ask("PING", "echo")
         /\ OnBoard => /\ Lead = 3 /\ Len(script) = 2 * FRAMES + 21
                       /\ script[2] = Ask("RESET", "echo") /\ script[3] = Ask("READ_VERSION", "geometry")
                       /\ script[2 * FRAMES + 21] = Ask("STOP", "echo")
         /\ ~OnBoard => /\ Lead = 2 /\ Len(script) = 2 * FRAMES + 19
                        /\ script[2] = Ask("READ_VERSION", "geometry")
<1> USE ScenarioAssumption
<1> DEFINE Mid(pre) == pre \o Session(0, CORRUPT) \o <<Ask("READ_STATS", "session")>> \o ErrorPlane \o Session(SECOND, {})
           a == <<Ask("PING", "echo"), Ask("RESET", "echo"), Ask("READ_VERSION", "geometry")>>
           b == <<Ask("PING", "echo"), Ask("READ_VERSION", "geometry")>>
           z == <<Ask("STOP", "echo")>>
<1>1. /\ Ask("PING", "echo") \in Steps /\ Ask("RESET", "echo") \in Steps
      /\ Ask("READ_VERSION", "geometry") \in Steps /\ Ask("STOP", "echo") \in Steps
  BY AskIsStep DEF Types, Checks, CommandTypes
<1>2. /\ a \in Seq(Steps) /\ Len(a) = 3 /\ a[1] = Ask("PING", "echo") /\ a[2] = Ask("RESET", "echo")
      /\ a[3] = Ask("READ_VERSION", "geometry")
  BY <1>1
<1>3. /\ b \in Seq(Steps) /\ Len(b) = 2 /\ b[1] = Ask("PING", "echo")
      /\ b[2] = Ask("READ_VERSION", "geometry")
  BY <1>1
<1>4. z \in Seq(Steps) /\ Len(z) = 1 /\ z[1] = Ask("STOP", "echo")
  BY <1>1
<1>5. BenchScript = Mid(b) /\ HwScript = Mid(a) \o z
  BY DEF BenchScript, HwScript
<1> HIDE DEF a, b, z
<1>6. /\ Mid(b) \in Seq(Steps) /\ Len(Mid(b)) = 2 + (2 * FRAMES + 17)
      /\ \A k \in 1 .. 2 : Mid(b)[k] = b[k]
      /\ Scripted(Mid(b), 2)
  <2>1. 2 \in Nat
    OBVIOUS
  <2> QED
    BY <1>3, <2>1, ScriptedIs, Zenon
<1>7. /\ Mid(a) \in Seq(Steps) /\ Len(Mid(a)) = 3 + (2 * FRAMES + 17)
      /\ \A k \in 1 .. 3 : Mid(a)[k] = a[k]
      /\ Scripted(Mid(a), 3)
  <2>1. 3 \in Nat
    OBVIOUS
  <2> QED
    BY <1>2, <2>1, ScriptedIs, Zenon
<1> DEFINE h == Mid(a) \o z
<1> HIDE DEF Mid
<1>8. /\ h \in Seq(Steps) /\ Len(h) = Len(Mid(a)) + Len(z)
      /\ \A k \in 1 .. Len(Mid(a)) : h[k] = Mid(a)[k]
      /\ \A k \in 1 .. Len(z) : h[Len(Mid(a)) + k] = z[k]
  <2>8. Mid(a) \in Seq(Steps) /\ z \in Seq(Steps)
    BY <1>4, <1>7
  <2>1. Mid(a) \o z \in Seq(Steps)
    BY <2>8, Joined
  <2>2. Len(Mid(a) \o z) = Len(Mid(a)) + Len(z)
    BY <2>8, Joined
  <2>3. \A k \in 1 .. Len(Mid(a)) : (Mid(a) \o z)[k] = Mid(a)[k]
    BY <2>8, Joined
  <2>4. \A k \in 1 .. Len(z) : (Mid(a) \o z)[Len(Mid(a)) + k] = z[k]
    BY <2>8, Joined
  <2> QED
    BY <2>1, <2>2, <2>3, <2>4, Zenon
<1> HIDE DEF h
<1>9. Len(h) = 2 * FRAMES + 21 /\ Len(Mid(a)) = 2 * FRAMES + 20
  BY <1>4, <1>7, <1>8
<1>10. \A k \in 1 .. 2 * FRAMES + 20 : h[k] = Mid(a)[k]
  BY <1>8, <1>9, Zenon
<1>11. h[2 * FRAMES + 21] = Ask("STOP", "echo")
  <2>1. (2 * FRAMES + 20) + 1 = 2 * FRAMES + 21 /\ 1 \in 1 .. 1
    OBVIOUS
  <2>2. h[(2 * FRAMES + 20) + 1] = z[1]
    BY <1>4, <1>8, <1>9, <2>1, Zenon
  <2> QED
    BY <1>4, <2>1, <2>2, Zenon
<1>12. Scripted(h, 3)
  <2>1. ASSUME NEW base \in Sessions PROVE Plain(h, 3, base)
    <3>1. \A j \in 1 .. FRAMES + 2 : (3 + base) + j \in 1 .. 2 * FRAMES + 20
      BY DEF Sessions
    <3>2. (3 + base) - 1 \in 1 .. 2 * FRAMES + 20 /\ 3 + base \in 1 .. 2 * FRAMES + 20
      BY DEF Sessions
    <3>3. FRAMES + 1 \in 1 .. FRAMES + 2 /\ FRAMES + 2 \in 1 .. FRAMES + 2 /\ \A j \in 1 .. FRAMES : j \in 1 .. FRAMES + 2
      OBVIOUS
    <3>4. Plain(Mid(a), 3, base)
      BY <1>7, Zenon DEF Scripted
    <3>5. /\ h[(3 + base) - 1] = Ask("START", "echo") /\ h[3 + base] = Op("ref_reset")
      BY <1>10, <3>2, <3>4, Zenon DEF Plain
    <3>6. \A k \in 1 .. FRAMES : h[(3 + base) + k] = Feature(First(base) + (k - 1), (k - 1) \in Cor(base), TRUE)
      BY <1>10, <3>1, <3>3, <3>4, Zenon DEF Plain
    <3>7. h[(3 + base) + (FRAMES + 1)] = Op("drain") /\ h[(3 + base) + (FRAMES + 2)] = Op("matched")
      BY <1>10, <3>1, <3>3, <3>4, Zenon DEF Plain
    <3> QED
      BY <3>5, <3>6, <3>7, Zenon DEF Plain
  <2>2. /\ 3 + (FRAMES + 5) \in 1 .. 2 * FRAMES + 20 /\ 3 + (FRAMES + 6) \in 1 .. 2 * FRAMES + 20
        /\ 3 + (FRAMES + 7) \in 1 .. 2 * FRAMES + 20 /\ 3 + (FRAMES + 8) \in 1 .. 2 * FRAMES + 20
        /\ 3 + (FRAMES + 9) \in 1 .. 2 * FRAMES + 20 /\ 3 + (FRAMES + 10) \in 1 .. 2 * FRAMES + 20
        /\ 3 + (FRAMES + 11) \in 1 .. 2 * FRAMES + 20 /\ 3 + (FRAMES + 12) \in 1 .. 2 * FRAMES + 20
        /\ 3 + (FRAMES + 13) \in 1 .. 2 * FRAMES + 20
    OBVIOUS
  <2> QED
    BY <1>7, <1>10, <2>1, <2>2, Zenon DEF Scripted
<1>13. h[1] = Ask("PING", "echo") /\ h[2] = Ask("RESET", "echo") /\ h[3] = Ask("READ_VERSION", "geometry")
  <2>1. /\ 1 \in 1 .. 2 * FRAMES + 20 /\ 2 \in 1 .. 2 * FRAMES + 20 /\ 3 \in 1 .. 2 * FRAMES + 20
        /\ 1 \in 1 .. 3 /\ 2 \in 1 .. 3 /\ 3 \in 1 .. 3
    OBVIOUS
  <2> QED
    BY <1>2, <1>7, <1>10, <2>1, Zenon
<1>14. Mid(b)[1] = Ask("PING", "echo") /\ Mid(b)[2] = Ask("READ_VERSION", "geometry") /\ Len(Mid(b)) = 2 * FRAMES + 19
  <2>1. 1 \in 1 .. 2 /\ 2 \in 1 .. 2 /\ 2 + (2 * FRAMES + 17) = 2 * FRAMES + 19
    OBVIOUS
  <2> QED
    BY <1>3, <1>6, <2>1, Zenon
<1>15. CASE OnBoard
  <2>1. script = h /\ Lead = 3
    BY <1>5, <1>15 DEF OnBoard, Lead, h
  <2> QED
    BY <1>8, <1>9, <1>11, <1>12, <1>13, <1>15, <2>1
<1>16. CASE ~OnBoard
  <2>1. script = Mid(b) /\ Lead = 2
    BY <1>5, <1>16 DEF OnBoard, Lead, TypeOK
  <2> QED
    BY <1>6, <1>14, <1>16, <2>1
<1> QED
  BY <1>15, <1>16

\* The step at each place.
StepAt(base) ==
  /\ At = base - 1 => Step = Ask("START", "echo")
  /\ At = base => Step = Op("ref_reset")
  /\ \A k \in 1 .. FRAMES :
       At = base + k => Step = Feature(First(base) + (k - 1), (k - 1) \in Cor(base), TRUE)
  /\ At = base + (FRAMES + 1) => Step = Op("drain")
  /\ At = base + (FRAMES + 2) => Step = Op("matched")

\* What each place of either script holds.
LEMMA StepIs ==
  ASSUME TypeOK
  PROVE  /\ \A base \in Sessions : StepAt(base)
         /\ i = 1 => Step = Ask("PING", "echo")
         /\ i = 2 /\ OnBoard => Step = Ask("RESET", "echo")
         /\ At = 0 => Step = Ask("READ_VERSION", "geometry")
         /\ At = FRAMES + 5 => Step = Ask("READ_STATS", "session")
         /\ At = FRAMES + 6 => Step = Ask("STOP", "echo")
         /\ At = FRAMES + 7 => Step = Feature(STOPPED, FALSE, FALSE)
         /\ At = FRAMES + 8 => Step = Ask("READ_STATS", "stopped")
         /\ At = FRAMES + 9 => Step = Ask("RESET", "echo")
         /\ At = FRAMES + 10 => Step = Ask("READ_STATS", "cleared")
         /\ At = FRAMES + 11 => Step = Ask("UNKNOWN_TYPE", "error")
         /\ At = FRAMES + 12 => Step = Ask("BAD_LENGTH", "error")
         /\ At = FRAMES + 13 => Step = Ask("BAD_VERSION", "error")
         /\ At = 2 * FRAMES + 18 /\ OnBoard => Step = Ask("STOP", "echo")
<1> USE ScenarioAssumption
<1>1. Lead \in {2, 3} /\ i \in Nat
  BY ScriptIs DEF TypeOK
<1>2. \A a \in Int : At = a => i = Lead + a
  BY <1>1 DEF At
<1>3. Scripted(script, Lead) /\ script[1] = Ask("PING", "echo")
  BY ScriptIs
<1>4. ASSUME NEW base \in Sessions PROVE StepAt(base)
  <2>1. Plain(script, Lead, base)
    BY <1>3, Zenon DEF Scripted
  <2>2. base \in Int
    BY DEF Sessions
  <2>3. At = base - 1 => i = (Lead + base) - 1
    BY <1>1, <2>2 DEF At
  <2>4. At = base => i = Lead + base
    BY <1>1, <2>2 DEF At
  <2>5. \A k \in Int : At = base + k => i = (Lead + base) + k
    BY <1>1, <2>2 DEF At
  <2>6. FRAMES + 1 \in Int /\ FRAMES + 2 \in Int /\ \A k \in 1 .. FRAMES : k \in Int
    OBVIOUS
  <2>7. ASSUME NEW k \in 1 .. FRAMES, At = base + k
        PROVE  Step = Feature(First(base) + (k - 1), (k - 1) \in Cor(base), TRUE)
    <3>1. i = (Lead + base) + k
      BY <2>5, <2>6, <2>7, Zenon
    <3> QED
      BY <2>1, <3>1, Zenon DEF Plain, Step
  <2>8. At = base + (FRAMES + 1) => Step = Op("drain")
    BY <2>1, <2>5, <2>6, Zenon DEF Plain, Step
  <2>9. At = base + (FRAMES + 2) => Step = Op("matched")
    BY <2>1, <2>5, <2>6, Zenon DEF Plain, Step
  <2>10. (At = base - 1 => Step = Ask("START", "echo")) /\ (At = base => Step = Op("ref_reset"))
    BY <2>1, <2>3, <2>4, Zenon DEF Plain, Step
  <2> QED
    BY <2>7, <2>8, <2>9, <2>10, Zenon DEF StepAt
<1>5. /\ FRAMES + 5 \in Int /\ FRAMES + 6 \in Int /\ FRAMES + 7 \in Int /\ FRAMES + 8 \in Int /\ FRAMES + 9 \in Int
      /\ FRAMES + 10 \in Int /\ FRAMES + 11 \in Int /\ FRAMES + 12 \in Int /\ FRAMES + 13 \in Int
  OBVIOUS
<1>6. /\ At = FRAMES + 5 => Step = Ask("READ_STATS", "session")
      /\ At = FRAMES + 6 => Step = Ask("STOP", "echo")
      /\ At = FRAMES + 7 => Step = Feature(STOPPED, FALSE, FALSE)
      /\ At = FRAMES + 8 => Step = Ask("READ_STATS", "stopped")
      /\ At = FRAMES + 9 => Step = Ask("RESET", "echo")
      /\ At = FRAMES + 10 => Step = Ask("READ_STATS", "cleared")
      /\ At = FRAMES + 11 => Step = Ask("UNKNOWN_TYPE", "error")
      /\ At = FRAMES + 12 => Step = Ask("BAD_LENGTH", "error")
      /\ At = FRAMES + 13 => Step = Ask("BAD_VERSION", "error")
  BY <1>2, <1>3, <1>5, Zenon DEF Scripted, Step
<1>7. i = 1 => Step = Ask("PING", "echo")
  BY <1>3, Zenon DEF Step
<1>8. i = 2 /\ OnBoard => Step = Ask("RESET", "echo")
  BY ScriptIs, Zenon DEF Step
<1>9. At = 0 => Step = Ask("READ_VERSION", "geometry")
  <2>1. At = 0 => i = Lead
    BY <1>1 DEF At
  <2>2. script[Lead] = Ask("READ_VERSION", "geometry")
    BY ScriptIs, Zenon
  <2> QED
    BY <2>1, <2>2, Zenon DEF Step
<1>10. At = 2 * FRAMES + 18 /\ OnBoard => Step = Ask("STOP", "echo")
  <2>1. At = 2 * FRAMES + 18 /\ Lead = 3 => i = 2 * FRAMES + 21
    BY <1>1 DEF At
  <2> QED
    BY <2>1, ScriptIs, Zenon DEF Step
<1> QED
  BY <1>4, <1>6, <1>7, <1>8, <1>9, <1>10, Zenon

-----------------------------------------------------------------------------
(* Which steps are where. *)

\* The fields of the three kinds of step.
LEMMA StepKinds ==
  /\ \A s, t, c : s = Ask(t, c) => s.op = "ask" /\ s.type = t /\ s.check = c
  /\ \A s, o : s = Op(o) => s.op = o
  /\ \A s, fn, c, m : s = Feature(fn, c, m) => s.op = "feature" /\ s.fn = fn /\ s.corrupt = c /\ s.streaming = m
BY DEF Ask, Op, Feature

\* Where the steps that ask for a reply are.
Asking ==
  i = 1 \/ (i = 2 /\ OnBoard) \/ (At = 2 * FRAMES + 18 /\ OnBoard)
  \/ At \in {0, 1, FRAMES + 5, FRAMES + 6, FRAMES + 8, FRAMES + 9, FRAMES + 10, FRAMES + 11, FRAMES + 12,
             FRAMES + 13, FRAMES + 14}

\* Every place of a script asks, is in a session, or sends the frame after the STOP.
LEMMA Everywhere ==
  ASSUME TypeOK, Control
  PROVE  /\ Lead \in {2, 3} /\ At \in Int /\ At = i - Lead /\ Lead = IF OnBoard THEN 3 ELSE 2
         /\ -2 <= At /\ At <= 2 * FRAMES + 19 /\ FRAMES \in Nat \ {0}
         /\ Done => At >= 2 * FRAMES + 18
         /\ i = 1 <=> At = IF OnBoard THEN -2 ELSE -1
         /\ i = 2 /\ OnBoard <=> At = -1 /\ OnBoard
         /\ ~Done => \/ Asking
                     \/ \E base \in Sessions : At \in base .. base + FRAMES + 2
                     \/ At = FRAMES + 7
<1> USE ScenarioAssumption
<1>1. Lead \in {2, 3} /\ At \in Int /\ At = i - Lead /\ Lead = IF OnBoard THEN 3 ELSE 2
  BY ScriptIs DEF At, TypeOK, Lead
<1>2. /\ Len(script) = IF OnBoard THEN 2 * FRAMES + 21 ELSE 2 * FRAMES + 19
      /\ i \in 1 .. Len(script) + 1 /\ (Done <=> i > Len(script))
  BY ScriptIs DEF Control, Done
<1>3. i \in Nat /\ i >= 1 /\ i <= Len(script) + 1
  BY <1>2 DEF TypeOK
<1>4. /\ -2 <= At /\ At <= 2 * FRAMES + 19 /\ (Done => At >= 2 * FRAMES + 18)
      /\ (i = 1 <=> At = IF OnBoard THEN -2 ELSE -1) /\ (i = 2 /\ OnBoard <=> At = -1 /\ OnBoard)
  BY <1>1, <1>2, <1>3
<1>5. ~Done => \/ i = 1 \/ (i = 2 /\ OnBoard) \/ (At = 2 * FRAMES + 18 /\ OnBoard) \/ At \in 0 .. 2 * FRAMES + 17
  BY <1>1, <1>2, <1>3
<1>6. ASSUME At \in 0 .. 2 * FRAMES + 17
      PROVE  \/ At \in {0, 1, FRAMES + 5, FRAMES + 6, FRAMES + 8, FRAMES + 9, FRAMES + 10, FRAMES + 11, FRAMES + 12,
                        FRAMES + 13, FRAMES + 14}
             \/ At \in 2 .. 2 + FRAMES + 2
             \/ At \in FRAMES + 15 .. (FRAMES + 15) + FRAMES + 2
             \/ At = FRAMES + 7
  <2>1. PICK a \in Int : a = At
    BY <1>1
  <2>2. a \in 0 .. 2 * FRAMES + 17
    BY <1>6, <2>1
  <2> QED
    BY <2>1, <2>2
<1>7. 2 \in Sessions /\ FRAMES + 15 \in Sessions
  BY DEF Sessions
<1>8. ~Done => \/ Asking
               \/ \E base \in Sessions : At \in base .. base + FRAMES + 2
               \/ At = FRAMES + 7
  BY <1>5, <1>6, <1>7, Zenon DEF Asking
<1> QED
  BY <1>1, <1>4, <1>8

\* The step tells the place.
LEMMA Kinds ==
  ASSUME TypeOK, Control, ~Done
  PROVE  /\ Step.op = "ask" => Asking
         /\ Step.op = "feature" =>
              \/ \E base \in Sessions : At \in base + 1 .. base + FRAMES
              \/ At = FRAMES + 7 /\ Step = Feature(STOPPED, FALSE, FALSE)
         /\ Step.op = "drain" => \E base \in Sessions : At = base + FRAMES + 1
         /\ Step.op = "matched" => \E base \in Sessions : At = base + FRAMES + 2
         /\ Step.op = "ref_reset" => At \in Sessions
         /\ Asking => Step.op = "ask"
         /\ At = FRAMES + 7 => Step = Feature(STOPPED, FALSE, FALSE)
<1> USE ScenarioAssumption
<1>1. At \in Int /\ FRAMES \in Nat
  BY Everywhere
<1>2. At = FRAMES + 7 => Step = Feature(STOPPED, FALSE, FALSE) /\ Step.op = "feature"
  <2>1. At = FRAMES + 7 => Step = Feature(STOPPED, FALSE, FALSE)
    BY StepIs, Zenon
  <2> QED
    BY <2>1, StepKinds, Zenon
<1>3. Asking => Step.op = "ask"
  <2>1. /\ i = 1 => Step.op = "ask"
        /\ i = 2 /\ OnBoard => Step.op = "ask"
        /\ At = 0 => Step.op = "ask"
        /\ At = 2 * FRAMES + 18 /\ OnBoard => Step.op = "ask"
    <3>1. /\ i = 1 => Step = Ask("PING", "echo")
          /\ i = 2 /\ OnBoard => Step = Ask("RESET", "echo")
          /\ At = 0 => Step = Ask("READ_VERSION", "geometry")
          /\ At = 2 * FRAMES + 18 /\ OnBoard => Step = Ask("STOP", "echo")
      BY StepIs, Zenon
    <3>2. \A t, c : Step = Ask(t, c) => Step.op = "ask"
      BY StepKinds, Zenon
    <3> QED
      BY <3>1, <3>2, Zenon
  <2>2. /\ At = FRAMES + 5 => Step.op = "ask"
        /\ At = FRAMES + 6 => Step.op = "ask"
        /\ At = FRAMES + 8 => Step.op = "ask"
        /\ At = FRAMES + 9 => Step.op = "ask"
        /\ At = FRAMES + 10 => Step.op = "ask"
        /\ At = FRAMES + 11 => Step.op = "ask"
        /\ At = FRAMES + 12 => Step.op = "ask"
        /\ At = FRAMES + 13 => Step.op = "ask"
    <3>1. /\ At = FRAMES + 5 => Step = Ask("READ_STATS", "session")
          /\ At = FRAMES + 6 => Step = Ask("STOP", "echo")
          /\ At = FRAMES + 8 => Step = Ask("READ_STATS", "stopped")
          /\ At = FRAMES + 9 => Step = Ask("RESET", "echo")
          /\ At = FRAMES + 10 => Step = Ask("READ_STATS", "cleared")
          /\ At = FRAMES + 11 => Step = Ask("UNKNOWN_TYPE", "error")
          /\ At = FRAMES + 12 => Step = Ask("BAD_LENGTH", "error")
          /\ At = FRAMES + 13 => Step = Ask("BAD_VERSION", "error")
      BY StepIs, Zenon
    <3>2. \A t, c : Step = Ask(t, c) => Step.op = "ask"
      BY StepKinds, Zenon
    <3> QED
      BY <3>1, <3>2, Zenon
  <2>3. At = 1 \/ At = FRAMES + 14 => Step.op = "ask"
    <3>1. 2 \in Sessions /\ FRAMES + 15 \in Sessions
      BY DEF Sessions
    <3>2. 2 - 1 = 1 /\ (FRAMES + 15) - 1 = FRAMES + 14
      OBVIOUS
    <3>3. StepAt(2) /\ StepAt(FRAMES + 15)
      BY <3>1, StepIs, Zenon
    <3>4. (At = 2 - 1 => Step = Ask("START", "echo")) /\ (At = (FRAMES + 15) - 1 => Step = Ask("START", "echo"))
      BY <3>3, Zenon DEF StepAt
    <3> QED
      BY <3>2, <3>4, StepKinds
  <2> QED
    BY <2>1, <2>2, <2>3 DEF Asking
<1>4. ASSUME NEW base \in Sessions, At \in base .. base + FRAMES + 2
      PROVE  \/ Step.op = "ref_reset" /\ At = base
             \/ Step.op = "feature" /\ At \in base + 1 .. base + FRAMES
             \/ Step.op = "drain" /\ At = base + FRAMES + 1
             \/ Step.op = "matched" /\ At = base + FRAMES + 2
  <2>1. base \in Int
    BY DEF Sessions
  <2>2. StepAt(base)
    BY StepIs, Zenon
  <2>3. At = base => Step.op = "ref_reset"
    BY <2>2, StepKinds, Zenon DEF StepAt
  <2>4. At = base + (FRAMES + 1) => Step.op = "drain"
    BY <2>2, StepKinds, Zenon DEF StepAt
  <2>5. At = base + (FRAMES + 2) => Step.op = "matched"
    BY <2>2, StepKinds, Zenon DEF StepAt
  <2>6. ASSUME NEW k \in 1 .. FRAMES, At = base + k PROVE Step.op = "feature"
    BY <2>2, <2>6, StepKinds, ZenonT(30) DEF StepAt
  <2>7. At \in base + 1 .. base + FRAMES => \E k \in 1 .. FRAMES : At = base + k
    <3> SUFFICES ASSUME At \in base + 1 .. base + FRAMES PROVE \E k \in 1 .. FRAMES : At = base + k
      OBVIOUS
    <3>1. At - base \in 1 .. FRAMES /\ At = base + (At - base)
      BY <1>1, <2>1
    <3> QED
      BY <3>1
  <2>8. \/ At = base \/ At \in base + 1 .. base + FRAMES \/ At = base + (FRAMES + 1) \/ At = base + (FRAMES + 2)
    BY <1>1, <1>4, <2>1
  <2>9. base + (FRAMES + 1) = base + FRAMES + 1 /\ base + (FRAMES + 2) = base + FRAMES + 2
    BY <2>1
  <2>10. At \in base + 1 .. base + FRAMES => Step.op = "feature"
    BY <2>6, <2>7, Zenon
  <2>11. CASE At = base
    BY <2>3, <2>11, Zenon
  <2>12. CASE At \in base + 1 .. base + FRAMES
    BY <2>10, <2>12, Zenon
  <2>13. CASE At = base + (FRAMES + 1)
    BY <2>4, <2>9, <2>13, Zenon
  <2>14. CASE At = base + (FRAMES + 2)
    BY <2>5, <2>9, <2>14, Zenon
  <2> QED
    BY <2>8, <2>11, <2>12, <2>13, <2>14, Zenon
<1>5. \/ Asking
      \/ \E base \in Sessions : At \in base .. base + FRAMES + 2
      \/ At = FRAMES + 7
  BY Everywhere
<1>6. CASE Asking
  BY <1>2, <1>3, <1>6, StepKinds
<1>7. CASE At = FRAMES + 7
  BY <1>2, <1>3, <1>7
<1>8. CASE \E base \in Sessions : At \in base .. base + FRAMES + 2
  <2>1. PICK base \in Sessions : At \in base .. base + FRAMES + 2
    BY <1>8
  <2>2. \/ Step.op = "ref_reset" /\ At = base
        \/ Step.op = "feature" /\ At \in base + 1 .. base + FRAMES
        \/ Step.op = "drain" /\ At = base + FRAMES + 1
        \/ Step.op = "matched" /\ At = base + FRAMES + 2
    BY <1>4, <2>1
  <2> QED
    BY <1>2, <1>3, <2>2
<1> QED
  BY <1>5, <1>6, <1>7, <1>8

\* How the places lie to each other.
LEMMA Between ==
  ASSUME TypeOK, Control
  PROVE  /\ Asking => Calm /\ At # FRAMES + 7 /\ At \notin Sessions
         /\ At = FRAMES + 7 => Calm
         /\ At \in Sessions => Calm
         /\ Calm \/ InSession(2) \/ InSession(FRAMES + 15)
         /\ InSession(2) => ~Calm /\ ~InSession(FRAMES + 15)
         /\ InSession(FRAMES + 15) => ~Calm /\ ~InSession(2)
<1> USE ScenarioAssumption
<1>1. /\ At \in Int /\ FRAMES \in Nat \ {0} /\ (i = 1 \/ (i = 2 /\ OnBoard) => At < 0)
  BY Everywhere
<1>2. Sessions = {2, FRAMES + 15}
  BY DEF Sessions
<1>3. PICK a \in Int : a = At
  BY <1>1
<1>4. /\ InSession(2) <=> 3 <= a /\ a <= FRAMES + 4
      /\ InSession(FRAMES + 15) <=> FRAMES + 16 <= a /\ a <= 2 * FRAMES + 17
  BY <1>3 DEF InSession
<1>5. Calm <=> ~InSession(2) /\ ~InSession(FRAMES + 15)
  BY <1>2 DEF Calm
<1>6. Asking => \/ a < 0 \/ a = 2 * FRAMES + 18
                \/ a \in {0, 1, FRAMES + 5, FRAMES + 6, FRAMES + 8, FRAMES + 9, FRAMES + 10, FRAMES + 11, FRAMES + 12,
                          FRAMES + 13, FRAMES + 14}
  BY <1>1, <1>3 DEF Asking
<1> QED
  BY <1>1, <1>2, <1>3, <1>4, <1>5, <1>6

-----------------------------------------------------------------------------
(* The device. *)

Names == {"frames_rx", "dropped", "crc", "inferences", "keywords"}

\* Of the device only the counters differ.
SameBut(e, d) ==
  /\ e.stream = d.stream /\ e.commits = d.commits /\ e.window = d.window /\ e.job = d.job
  /\ e.decided = d.decided /\ e.rsp = d.rsp

Counts(e, d, c) == e.stats[c] = d.stats[c] + 1 /\ \A n \in Names \ {c} : e.stats[n] = d.stats[n]

\* The registers of a device one by one.
LEMMA Fields ==
  ASSUME NEW d, DevOK(d)
  PROVE  /\ d \in Devices /\ d.stream \in BOOLEAN /\ d.commits \in Nat /\ d.window \in Seq(Nat)
         /\ d.job \in {NoJob} \cup Windows /\ d.decided \in Nat /\ d.stats \in Counters
         /\ d.rsp \in Replies \cup {NoResponse}
         /\ Len(d.window) = IF d.commits < WINDOW_LEN THEN d.commits ELSE WINDOW_LEN
         /\ \A n \in Names : d.stats[n] \in Nat
<1>1. d \in Devices /\ Len(d.window) = IF d.commits < WINDOW_LEN THEN d.commits ELSE WINDOW_LEN
  BY DEF DevOK
<1> HIDE DEF Counters, Replies, NoJob, Windows, NoResponse
<1>2. /\ d.stream \in BOOLEAN /\ d.commits \in Nat /\ d.window \in Seq(Nat)
      /\ d.job \in {NoJob} \cup Windows /\ d.decided \in Nat /\ d.stats \in Counters
      /\ d.rsp \in Replies \cup {NoResponse}
  BY <1>1 DEF Devices
<1>3. \A n \in Names : d.stats[n] \in Nat
  BY <1>2 DEF Counters, Names
<1> QED
  BY <1>1, <1>2, <1>3

\* A counter that counts changes nothing else.
LEMMA BumpIs ==
  ASSUME NEW d, DevOK(d), NEW c \in Names
  PROVE  DevOK(Bump(d, c)) /\ SameBut(Bump(d, c), d) /\ Counts(Bump(d, c), d, c)
<1> DEFINE s == [d.stats EXCEPT ![c] = d.stats[c] + 1]
           e == Bump(d, c)
<1>1. /\ d \in Devices /\ d.stats \in Counters /\ \A n \in Names : d.stats[n] \in Nat
      /\ d.rsp \in Replies \cup {NoResponse} /\ d.job \in {NoJob} \cup Windows
      /\ Len(d.window) = IF d.commits < WINDOW_LEN THEN d.commits ELSE WINDOW_LEN
  BY Fields
<1>2. s \in Counters /\ s[c] = d.stats[c] + 1 /\ \A n \in Names \ {c} : s[n] = d.stats[n]
  BY <1>1 DEF Counters, Names
<1>3. e = [d EXCEPT !.stats = s]
  BY DEF Bump
<1> HIDE DEF s, e, Counters, Replies, NoJob, Windows, NoResponse
<1>4. e \in Devices /\ SameBut(e, d) /\ e.stats = s
  BY <1>1, <1>2, <1>3 DEF Devices, SameBut
<1>5. DevOK(e)
  BY <1>1, <1>4 DEF DevOK, SameBut
<1>6. Counts(e, d, c)
  BY <1>2, <1>4 DEF Counts
<1> QED
  BY <1>4, <1>5, <1>6 DEF e

\* A window moves on by a frame.
LEMMA ShiftIs ==
  ASSUME NEW w \in Seq(Nat), Len(w) <= WINDOW_LEN, NEW fn \in Nat
  PROVE  /\ Shift(w, fn) \in Seq(Nat)
         /\ Len(Shift(w, fn)) = IF Len(w) < WINDOW_LEN THEN Len(w) + 1 ELSE WINDOW_LEN
         /\ Shift(w, fn)[Len(Shift(w, fn))] = fn
         /\ Len(w) < WINDOW_LEN => \A t \in 1 .. Len(w) : Shift(w, fn)[t] = w[t]
         /\ Len(w) = WINDOW_LEN => \A t \in 1 .. WINDOW_LEN - 1 : Shift(w, fn)[t] = w[t + 1]
<1> USE DeviceAssumption
<1> DEFINE longer == Append(w, fn)
<1>1. /\ longer \in Seq(Nat) /\ Len(longer) = Len(w) + 1 /\ longer # <<>>
      /\ longer[Len(w) + 1] = fn /\ \A t \in 1 .. Len(w) : longer[t] = w[t]
  BY AppendProperties
<1>2. /\ Tail(longer) \in Seq(Nat) /\ Len(Tail(longer)) = Len(longer) - 1
      /\ \A t \in 1 .. Len(Tail(longer)) : Tail(longer)[t] = longer[t + 1]
  BY <1>1, HeadTailProperties
<1>3. Shift(w, fn) = IF Len(longer) > WINDOW_LEN THEN Tail(longer) ELSE longer
  BY DEF Shift
<1>4. Len(w) \in Nat
  BY LenProperties
<1> HIDE DEF longer
<1>5. CASE Len(w) < WINDOW_LEN
  <2>1. Shift(w, fn) = longer
    BY <1>1, <1>3, <1>4, <1>5
  <2> QED
    BY <1>1, <1>4, <1>5, <2>1
<1>6. CASE Len(w) = WINDOW_LEN
  <2>1. Shift(w, fn) = Tail(longer) /\ Len(Tail(longer)) = WINDOW_LEN
    BY <1>1, <1>2, <1>3, <1>4, <1>6
  <2>2. Tail(longer)[WINDOW_LEN] = fn
    <3>1. WINDOW_LEN \in 1 .. Len(Tail(longer))
      BY <2>1
    <3>2. Tail(longer)[WINDOW_LEN] = longer[WINDOW_LEN + 1]
      BY <1>2, <3>1
    <3> QED
      BY <1>1, <1>6, <3>2
  <2>3. ASSUME NEW t \in 1 .. WINDOW_LEN - 1 PROVE Tail(longer)[t] = w[t + 1]
    <3>1. t \in 1 .. Len(Tail(longer)) /\ t + 1 \in 1 .. Len(w)
      BY <1>6, <2>1
    <3> QED
      BY <1>1, <1>2, <3>1
  <2>4. Tail(longer) \in Seq(Nat)
    BY <1>2
  <2> QED
    BY <1>6, <2>1, <2>2, <2>3, <2>4
<1> QED
  BY <1>4, <1>5, <1>6

\* The device commits a frame while it streams, and drops it otherwise.
LEMMA CommitIs ==
  ASSUME NEW d, DevOK(d), NEW fn \in Nat
  PROVE  LET e == Commit(d, fn)
         IN  /\ DevOK(e) /\ e.rsp = d.rsp /\ e.stream = d.stream /\ e.decided = d.decided
             /\ ~d.stream => SameBut(e, d) /\ Counts(e, d, "dropped")
             /\ d.stream => /\ Counts(e, d, "frames_rx")
                            /\ e.commits = d.commits + 1 /\ e.window = Shift(d.window, fn)
                            /\ e.job = IF EndsWindow(d.commits + 1) THEN e.window ELSE d.job
                            /\ EndsWindow(d.commits + 1) => e.window \in Windows /\ Len(e.window) = WINDOW_LEN
<1> USE DeviceAssumption
<1>1. CASE ~d.stream
  <2>1. Commit(d, fn) = Bump(d, "dropped")
    BY <1>1 DEF Commit
  <2>2. DevOK(Bump(d, "dropped")) /\ SameBut(Bump(d, "dropped"), d) /\ Counts(Bump(d, "dropped"), d, "dropped")
    BY BumpIs DEF Names
  <2> QED
    BY <1>1, <2>1, <2>2 DEF SameBut
<1>2. CASE d.stream
  <2> DEFINE w == Shift(d.window, fn)
             b == Bump(d, "frames_rx")
             j == IF EndsWindow(d.commits + 1) THEN w ELSE b.job
             c == d.commits + 1
             e == Commit(d, fn)
  <2>1. /\ d.commits \in Nat /\ d.window \in Seq(Nat) /\ Len(d.window) <= WINDOW_LEN /\ Len(d.window) \in Nat
        /\ Len(d.window) = IF d.commits < WINDOW_LEN THEN d.commits ELSE WINDOW_LEN
    BY Fields, LenProperties
  <2>2. w \in Seq(Nat) /\ Len(w) = IF Len(d.window) < WINDOW_LEN THEN Len(d.window) + 1 ELSE WINDOW_LEN
    BY <2>1, ShiftIs
  <2>3. DevOK(b) /\ SameBut(b, d) /\ Counts(b, d, "frames_rx")
    BY BumpIs DEF Names
  <2>4. e = [b EXCEPT !.commits = b.commits + 1, !.window = w, !.job = IF EndsWindow(d.commits + 1) THEN w ELSE b.job]
    BY <1>2 DEF Commit
  <2>5. b.commits + 1 = c
    BY <2>3 DEF SameBut
  <2>6. Len(w) = IF c < WINDOW_LEN THEN c ELSE WINDOW_LEN
    BY <2>1, <2>2
  <2>7. EndsWindow(d.commits + 1) => w \in Windows /\ Len(w) = WINDOW_LEN
    <3> SUFFICES ASSUME EndsWindow(d.commits + 1) PROVE w \in Windows /\ Len(w) = WINDOW_LEN
      OBVIOUS
    <3>1. Len(w) = WINDOW_LEN
      BY <2>1, <2>6 DEF EndsWindow
    <3>2. w \in [1 .. Len(w) -> Nat]
      BY <2>2, LenProperties
    <3> QED
      BY <3>1, <3>2 DEF Windows
  <2>8. j \in {NoJob} \cup Windows
    BY <2>3, <2>7, Fields
  <2>9. e = [b EXCEPT !.commits = c, !.window = w, !.job = j]
    BY <2>4, <2>5
  <2>10. c \in Nat
    BY <2>1
  <2> HIDE DEF w, b, j, e, c
  <2>11. /\ e \in Devices /\ e.commits = c /\ e.window = w /\ e.job = j
         /\ e.stream = b.stream /\ e.decided = b.decided /\ e.stats = b.stats /\ e.rsp = b.rsp
    <3>1. b \in Devices
      BY <2>3, Fields
    <3> HIDE DEF Counters, Replies, NoJob, Windows, NoResponse
    <3> QED
      BY <2>2, <2>8, <2>9, <2>10, <3>1 DEF Devices
  <2>13. DevOK(e)
    BY <2>6, <2>11 DEF DevOK
  <2>14. Counts(e, d, "frames_rx")
    BY <2>3, <2>11 DEF Counts
  <2>15. e.rsp = d.rsp /\ e.stream = d.stream /\ e.decided = d.decided /\ b.job = d.job
    BY <2>3, <2>11 DEF SameBut
  <2>16. e.job = IF EndsWindow(d.commits + 1) THEN e.window ELSE d.job
    BY <2>11, <2>15 DEF j
  <2>17. e.window = Shift(d.window, fn) /\ e.commits = d.commits + 1
    BY <2>11 DEF w, c
  <2> QED
    BY <1>2, <2>7, <2>11, <2>13, <2>14, <2>15, <2>16, <2>17 DEF e
<1> QED
  BY <1>1, <1>2

\* The end of an inference counts it, and a detection when it fires.
LEMMA DecideIs ==
  ASSUME NEW d, DevOK(d)
  PROVE  LET e == Decide(d)
         IN  /\ DevOK(e) /\ e.rsp = d.rsp /\ e.stream = d.stream /\ e.commits = d.commits /\ e.window = d.window
             /\ e.job = NoJob /\ e.decided = d.decided + 1
             /\ e.stats["inferences"] = d.stats["inferences"] + 1
             /\ e.stats["keywords"] = IF Fires(d) THEN d.stats["keywords"] + 1 ELSE d.stats["keywords"]
             /\ \A n \in {"frames_rx", "dropped", "crc"} : e.stats[n] = d.stats[n]
<1> DEFINE b == Bump(d, "inferences")
           n1 == b.decided + 1
           done == [b EXCEPT !.job = NoJob, !.decided = n1]
<1>1. DevOK(b) /\ SameBut(b, d) /\ Counts(b, d, "inferences")
  BY BumpIs DEF Names
<1>2. Decide(d) = IF Fires(d) THEN Bump(done, "keywords") ELSE done
  BY DEF Decide
<1> HIDE DEF b
<1>3. b \in Devices /\ n1 \in Nat /\ n1 = d.decided + 1
  BY <1>1, Fields DEF SameBut
<1>4. done = [b EXCEPT !.job = NoJob, !.decided = n1]
  OBVIOUS
<1> HIDE DEF n1, done
<1>5. /\ done \in Devices /\ done.job = NoJob /\ done.decided = n1 /\ done.stream = b.stream
      /\ done.commits = b.commits /\ done.window = b.window /\ done.stats = b.stats /\ done.rsp = b.rsp
  <2>1. NoJob \in {NoJob} \cup Windows
    OBVIOUS
  <2> HIDE DEF Counters, Replies, NoJob, Windows, NoResponse
  <2> QED
    BY <1>3, <1>4, <2>1 DEF Devices
<1>6. DevOK(done)
  BY <1>1, <1>5 DEF DevOK
<1>7. /\ done.rsp = d.rsp /\ done.stream = d.stream /\ done.commits = d.commits /\ done.window = d.window
      /\ done.job = NoJob /\ done.decided = d.decided + 1 /\ Counts(done, d, "inferences")
  <2>1. Counts(done, d, "inferences")
    BY <1>1, <1>5 DEF Counts
  <2> QED
    BY <1>1, <1>3, <1>5, <2>1 DEF SameBut
<1>8. /\ DevOK(Bump(done, "keywords")) /\ SameBut(Bump(done, "keywords"), done)
      /\ Counts(Bump(done, "keywords"), done, "keywords")
  BY <1>6, BumpIs DEF Names
<1>9. CASE Fires(d)
  <2>1. Decide(d) = Bump(done, "keywords")
    BY <1>2, <1>9
  <2> QED
    BY <1>7, <1>8, <1>9, <2>1 DEF SameBut, Counts, Names
<1>10. CASE ~Fires(d)
  <2>1. Decide(d) = done
    BY <1>2, <1>10
  <2> QED
    BY <1>6, <1>7, <1>10, <2>1 DEF Counts, Names
<1> QED
  BY <1>9, <1>10

\* Replies, events and the two "nothing here" values are told apart.
LEMMA PacketKinds ==
  /\ \A p \in Replies : p # NoResponse /\ p.type # "EVT"
  /\ \A p \in Events : p.type = "EVT" /\ p.nth \in Nat
  /\ NoJob \notin Windows /\ NoStats \in Counters
<1> USE DeviceAssumption
<1>1. \A p \in Replies : p # NoResponse /\ p.type # "EVT"
  BY DEF Replies, NoResponse
<1>2. \A p \in Events : p.type = "EVT" /\ p.nth \in Nat
  BY DEF Events
<1>3. NoJob \notin Windows
  <2> SUFFICES ASSUME NoJob \in Windows PROVE FALSE
    OBVIOUS
  <2>1. DOMAIN NoJob = 1 .. WINDOW_LEN
    BY DEF Windows
  <2>2. DOMAIN NoJob = {}
    BY DEF NoJob
  <2>3. 1 \in 1 .. WINDOW_LEN
    OBVIOUS
  <2> QED
    BY <2>1, <2>2, <2>3
<1>4. NoStats \in Counters
  BY DEF NoStats, Counters
<1> QED
  BY <1>1, <1>2, <1>3, <1>4

\* What a command or a bad packet does to the device, and what it is answered.
LEMMA CommandIs ==
  ASSUME NEW d, DevOK(d), NEW p \in Requests, p.type \notin {"GARBLED", "FEATURE"}
  PROVE  LET e == Receive(d, p)
         IN  /\ DevOK(e) /\ e.rsp \in Replies /\ e.rsp.cmd = p.type /\ e.rsp.fn = p.fn
             /\ e.rsp.type = IF p.type \in CommandTypes THEN ResponseType(p.type) ELSE "ERROR"
             /\ e.rsp.stats = IF p.type = "READ_STATS" THEN d.stats ELSE NoStats
             /\ e.job \in {NoJob, d.job}
             /\ e.stream = IF p.type = "START" THEN TRUE ELSE IF p.type \in {"RESET", "STOP"} THEN FALSE ELSE d.stream
             /\ e.stats = IF p.type = "RESET" THEN NoStats ELSE d.stats
             /\ p.type = "START" => e.commits = 0 /\ e.window = <<>> /\ e.decided = 0
<1> USE DeviceAssumption
<1> DEFINE r == IF p.type \in CommandTypes THEN Response(d, p) ELSE Error(p)
           f == IF p.type \in CommandTypes THEN Effect(d, p.type) ELSE d
           e == Receive(d, p)
<1>1. e = [f EXCEPT !.rsp = r]
  BY DEF Receive
<1>2. /\ r \in Replies /\ r.cmd = p.type /\ r.fn = p.fn
      /\ r.type = IF p.type \in CommandTypes THEN ResponseType(p.type) ELSE "ERROR"
      /\ r.stats = IF p.type = "READ_STATS" THEN d.stats ELSE NoStats
  <2>1. d.stats \in Counters /\ NoStats \in Counters
    BY Fields, PacketKinds
  <2>2. p.type \in Types /\ p.fn \in Nat /\ p.id \in Nat
    BY DEF Requests
  <2> HIDE DEF Counters, Types, NoStats
  <2>3. CASE p.type \in CommandTypes
    <3>1. r = [type |-> ResponseType(p.type), cmd |-> p.type, fn |-> p.fn, id |-> p.id,
               stats |-> IF p.type = "READ_STATS" THEN d.stats ELSE NoStats]
      BY <2>3 DEF Response
    <3>2. ResponseType(p.type) \in {"ACK", "STATS", "VERSION", "ERROR"}
      BY DEF ResponseType
    <3> QED
      BY <2>1, <2>2, <2>3, <3>1, <3>2 DEF Replies
  <2>4. CASE p.type \notin CommandTypes
    <3>1. r = [type |-> "ERROR", cmd |-> p.type, fn |-> p.fn, id |-> p.id, stats |-> NoStats]
      BY <2>4 DEF Error
    <3>2. p.type # "READ_STATS"
      BY <2>4 DEF CommandTypes
    <3> QED
      BY <2>1, <2>2, <2>4, <3>1, <3>2 DEF Replies
  <2> QED
    BY <2>3, <2>4
<1> DEFINE z == FreshSession(d)
<1>3. /\ DevOK(z) /\ z.stats = d.stats /\ z.rsp = d.rsp
      /\ z.commits = 0 /\ z.window = <<>> /\ z.decided = 0 /\ z.job = NoJob
  <2> DEFINE e0 == <<>>
  <2>1. z = [d EXCEPT !.commits = 0, !.window = e0, !.job = NoJob, !.decided = 0]
    BY DEF FreshSession
  <2>2. e0 \in Seq(Nat) /\ Len(e0) = 0 /\ d \in Devices
    BY Fields
  <2> DEFINE g == [d EXCEPT !.commits = 0, !.window = e0]
  <2>3. z = [g EXCEPT !.job = NoJob, !.decided = 0]
    BY <2>1, <2>2 DEF Devices
  <2> HIDE DEF e0, g, z, Counters, Replies, Windows, NoJob, NoResponse
  <2>4. g \in Devices /\ g.commits = 0 /\ g.window = e0 /\ g.stats = d.stats /\ g.rsp = d.rsp
    BY <2>2 DEF Devices, g
  <2>5. /\ z \in Devices /\ z.job = NoJob /\ z.decided = 0 /\ z.commits = g.commits /\ z.window = g.window
        /\ z.stats = g.stats /\ z.rsp = g.rsp
    BY <2>3, <2>4 DEF Devices
  <2>6. DevOK(z)
    BY <2>2, <2>4, <2>5 DEF DevOK
  <2> QED
    BY <2>4, <2>5, <2>6 DEF e0
<1> HIDE DEF z
<1>4. /\ DevOK(f) /\ f.job \in {NoJob, d.job}
      /\ f.stream = IF p.type = "START" THEN TRUE ELSE IF p.type \in {"RESET", "STOP"} THEN FALSE ELSE d.stream
      /\ f.stats = IF p.type = "RESET" THEN NoStats ELSE d.stats
      /\ p.type = "START" => f.commits = 0 /\ f.window = <<>> /\ f.decided = 0
  <2>0. d \in Devices /\ z \in Devices /\ NoStats \in Counters
    BY <1>3, Fields, PacketKinds
  <2> HIDE DEF Counters, Replies, Windows, NoJob, NoResponse, NoStats
  <2>1. CASE p.type = "RESET"
    <3>1. f = [z EXCEPT !.stream = FALSE, !.stats = NoStats]
      BY <2>1 DEF Effect, CommandTypes, z
    <3> HIDE DEF f
    <3>2. /\ f \in Devices /\ f.stream = FALSE /\ f.stats = NoStats /\ f.job = z.job /\ f.commits = z.commits
          /\ f.window = z.window
      BY <2>0, <3>1 DEF Devices
    <3> QED
      BY <1>3, <2>1, <3>2 DEF DevOK
  <2>2. CASE p.type = "START"
    <3>1. f = [z EXCEPT !.stream = TRUE]
      BY <2>2 DEF Effect, CommandTypes, z
    <3> HIDE DEF f
    <3>2. /\ f \in Devices /\ f.stream = TRUE /\ f.stats = z.stats /\ f.job = z.job /\ f.commits = z.commits
          /\ f.window = z.window /\ f.decided = z.decided
      BY <2>0, <3>1 DEF Devices
    <3> QED
      BY <1>3, <2>2, <3>2 DEF DevOK
  <2>3. CASE p.type = "STOP"
    <3>1. f = [d EXCEPT !.stream = FALSE]
      BY <2>3 DEF Effect, CommandTypes
    <3> HIDE DEF f
    <3>2. /\ f \in Devices /\ f.stream = FALSE /\ f.stats = d.stats /\ f.job = d.job /\ f.commits = d.commits
          /\ f.window = d.window
      BY <2>0, <3>1 DEF Devices
    <3> QED
      BY <2>3, <3>2 DEF DevOK
  <2>4. CASE p.type \notin {"RESET", "START", "STOP"}
    <3>1. f = d
      BY <2>4 DEF Effect
    <3> QED
      BY <2>4, <3>1
  <2> QED
    BY <2>1, <2>2, <2>3, <2>4
<1> HIDE DEF f, r, e
<1>5. /\ DevOK(e) /\ e.rsp = r /\ e.stream = f.stream /\ e.stats = f.stats /\ e.job = f.job
      /\ e.commits = f.commits /\ e.window = f.window /\ e.decided = f.decided
  <2>1. f \in Devices /\ r \in Replies \cup {NoResponse}
    BY <1>2, <1>4, Fields
  <2> HIDE DEF Counters, Replies, Windows, NoJob, NoResponse
  <2>2. /\ e \in Devices /\ e.rsp = r /\ e.stream = f.stream /\ e.stats = f.stats /\ e.job = f.job
        /\ e.commits = f.commits /\ e.window = f.window /\ e.decided = f.decided
    BY <1>1, <2>1 DEF Devices
  <2> QED
    BY <1>4, <2>2 DEF DevOK
<1> QED
  BY <1>2, <1>4, <1>5 DEF e

\* A packet received keeps the registers in range; a garbled one is counted, a frame committed.
LEMMA ReceiveKeeps ==
  ASSUME NEW d, DevOK(d), NEW p \in Requests
  PROVE  /\ DevOK(Receive(d, p))
         /\ p.type = "GARBLED" => Receive(d, p) = Bump(d, "crc")
         /\ p.type = "FEATURE" => Receive(d, p) = Commit(d, p.fn)
<1>1. p.fn \in Nat
  BY DEF Requests
<1>2. CASE p.type = "GARBLED"
  <2>1. Receive(d, p) = Bump(d, "crc")
    BY <1>2 DEF Receive, CommandTypes
  <2>2. DevOK(Bump(d, "crc"))
    BY BumpIs DEF Names
  <2> QED
    BY <1>2, <2>1, <2>2
<1>3. CASE p.type = "FEATURE"
  <2>1. Receive(d, p) = Commit(d, p.fn)
    BY <1>3 DEF Receive, CommandTypes
  <2>2. DevOK(Commit(d, p.fn))
    BY <1>1, CommitIs
  <2> QED
    BY <1>3, <2>1, <2>2
<1>4. CASE p.type \notin {"GARBLED", "FEATURE"}
  BY <1>4, CommandIs
<1> QED
  BY <1>2, <1>3, <1>4

-----------------------------------------------------------------------------
(* Types. *)

LinkTypes ==
  /\ DevOK(dev) /\ down \in Seq(Requests) /\ up \in Seq(Replies \cup Events)
  /\ dev_evts \in Seq(Events) /\ ref_evts \in Seq(Events)

TestTypes ==
  /\ script \in {HwScript, BenchScript} /\ i \in Nat /\ pc \in {"step", "wait", "pump"}
  /\ g_ref \in Mirrors /\ evt_matched \in Nat /\ g_errors \in BOOLEAN /\ before \in Nat /\ faults \in Nat

\* The types of the link and of the test.
LEMMA SplitTypes == TypeOK <=> LinkTypes /\ TestTypes
BY DEF TypeOK, LinkTypes, TestTypes

\* Head and tail of a sequence, by place.
LEMMA Heads ==
  ASSUME NEW S, NEW s \in Seq(S), s # <<>>
  PROVE  /\ Head(s) \in S /\ Head(s) = s[1] /\ Tail(s) \in Seq(S)
         /\ Len(s) \in Nat \ {0} /\ Len(Tail(s)) = Len(s) - 1
         /\ \A a \in 1 .. Len(Tail(s)) : Tail(s)[a] = s[a + 1]
         /\ \A a \in 1 .. Len(s) : s[a] \in S
<1>1. /\ Head(s) \in S /\ Tail(s) \in Seq(S) /\ Len(Tail(s)) = Len(s) - 1
      /\ \A a \in 1 .. Len(Tail(s)) : Tail(s)[a] = s[a + 1]
  BY HeadTailProperties
<1>2. Head(s) = s[1]
  OBVIOUS
<1>3. Len(s) \in Nat \ {0} /\ \A a \in 1 .. Len(s) : s[a] \in S
  BY EmptySeq, LenProperties
<1> QED
  BY <1>1, <1>2, <1>3

\* Append, by place.
LEMMA Appended ==
  ASSUME NEW S, NEW s \in Seq(S), NEW x \in S
  PROVE  /\ Append(s, x) \in Seq(S) /\ Len(s) \in Nat /\ Len(Append(s, x)) = Len(s) + 1 /\ Append(s, x) # <<>>
         /\ \A a \in 1 .. Len(s) : Append(s, x)[a] = s[a]
         /\ Append(s, x)[Len(s) + 1] = x
BY AppendProperties, LenProperties

\* The head of what is on the way, garbled.
Garble(s) == <<[Head(s) EXCEPT !.type = "GARBLED"]>> \o Tail(s)

\* Garbling changes the type of the first packet only.
LEMMA GarbleIs ==
  ASSUME NEW s \in Seq(Requests), s # <<>>
  PROVE  /\ Garble(s) \in Seq(Requests) /\ Len(Garble(s)) = Len(s)
         /\ Garble(s)[1].type = "GARBLED" /\ \A a \in 2 .. Len(s) : Garble(s)[a] = s[a]
<1> DEFINE h == [Head(s) EXCEPT !.type = "GARBLED"]
           o == <<h>>
           t == Tail(s)
<1>1. /\ Head(s) \in Requests /\ t \in Seq(Requests) /\ Len(s) \in Nat \ {0} /\ Len(t) = Len(s) - 1
      /\ \A a \in 1 .. Len(t) : t[a] = s[a + 1]
  BY Heads
<1>2. h \in Requests /\ h.type = "GARBLED"
  BY <1>1 DEF Requests, Types
<1> HIDE DEF h
<1>3. o \in Seq(Requests) /\ Len(o) = 1 /\ o[1] = h
  BY <1>2
<1> HIDE DEF o, t
<1>11. o \in Seq(Requests) /\ t \in Seq(Requests)
  BY <1>1, <1>3
<1>4. o \o t \in Seq(Requests)
  BY <1>11, Joined
<1>5. Len(o \o t) = Len(o) + Len(t)
  BY <1>11, Joined
<1>6. \A a \in 1 .. Len(o) : (o \o t)[a] = o[a]
  BY <1>11, Joined
<1>7. \A a \in 1 .. Len(t) : (o \o t)[Len(o) + a] = t[a]
  BY <1>11, Joined
<1>8. Garble(s) = o \o t
  BY DEF Garble, o, h, t
<1> DEFINE g == o \o t
<1> HIDE DEF g
<1>9. g \in Seq(Requests) /\ Len(g) = Len(s) /\ g[1] = h
  <2>1. g \in Seq(Requests) /\ Len(g) = Len(o) + Len(t) /\ \A a \in 1 .. Len(o) : g[a] = o[a]
    BY <1>4, <1>5, <1>6 DEF g
  <2> QED
    BY <1>1, <1>3, <2>1
<1>10. ASSUME NEW a \in 2 .. Len(s) PROVE g[a] = s[a]
  <2>1. a - 1 \in 1 .. Len(t) /\ 1 + (a - 1) = a /\ (a - 1) + 1 = a
    BY <1>1
  <2>2. \A b \in 1 .. Len(t) : g[1 + b] = t[b]
    BY <1>3, <1>7 DEF g
  <2>3. g[1 + (a - 1)] = t[a - 1] /\ t[a - 1] = s[(a - 1) + 1]
    BY <1>1, <2>1, <2>2
  <2> QED
    BY <2>1, <2>3
<1> QED
  BY <1>2, <1>8, <1>9, <1>10 DEF g

\* A detection is an event.
LEMMA EventIs ==
  ASSUME NEW d, DevOK(d), d.job # NoJob
  PROVE  /\ Event(d) \in Events /\ Event(d).nth = d.decided + 1 /\ Event(d).window = d.job
         /\ Event(d) = [type |-> "EVT", fn |-> d.job[WINDOW_LEN], window |-> d.job, nth |-> d.decided + 1]
<1> USE DeviceAssumption
<1>1. d.job \in Windows /\ d.decided \in Nat
  BY Fields
<1>2. d.job[WINDOW_LEN] \in Nat /\ d.job \in [1 .. WINDOW_LEN -> Nat]
  BY <1>1 DEF Windows
<1> QED
  BY <1>1, <1>2 DEF Event, Events

\* The fields of the reference one by one.
LEMMA MirrorFields ==
  ASSUME NEW r \in Mirrors
  PROVE  /\ r.win \in [0 .. WINDOW_LEN - 1 -> Nat] /\ r.commits \in Nat /\ r.nth \in Nat /\ r.inferences \in Nat
         /\ r.evt \in Seq(Events)
<1> HIDE DEF Events
<1> QED
  BY DEF Mirrors

\* What the reference does with a frame.
Observed(r, e, fn) ==
  [type |-> "EVT", fn |-> fn, window |-> [t \in 1 .. WINDOW_LEN |-> r.win[((r.commits - WINDOW_LEN) + (t - 1)) % WINDOW_LEN]],
   nth |-> e]

\* What the reference does with a frame: it counts it, and at the end of a window its detection.
LEMMA RefCommitIs ==
  ASSUME g_ref \in Mirrors, ref_evts \in Seq(Events), NEW fn \in Nat, RefCommit(fn)
  PROVE  LET c == g_ref.commits + 1
             n == g_ref.nth + 1
             x == Observed(g_ref', n, fn)
         IN  /\ g_ref' \in Mirrors /\ g_ref'.commits = c
             /\ g_ref'.win = [g_ref.win EXCEPT ![g_ref.commits % WINDOW_LEN] = fn]
             /\ ~EndsWindow(c) => g_ref'.nth = g_ref.nth /\ g_ref'.inferences = g_ref.inferences
             /\ EndsWindow(c) => g_ref'.nth = n /\ g_ref'.inferences = g_ref.inferences + 1
             /\ ~(EndsWindow(c) /\ n \in FIRING) => g_ref'.evt = g_ref.evt /\ ref_evts' = ref_evts
             /\ EndsWindow(c) /\ n \in FIRING =>
                  x \in Events /\ g_ref'.evt = Append(g_ref.evt, x) /\ ref_evts' = Append(ref_evts, x)
<1> USE DeviceAssumption
<1> DEFINE c == g_ref.commits + 1
           n == g_ref.nth + 1
           m == g_ref.inferences + 1
           w == [g_ref.win EXCEPT ![g_ref.commits % WINDOW_LEN] = fn]
           r == [g_ref EXCEPT !.win = w, !.commits = c]
           x == Expected(r, fn)
<1>1. /\ g_ref.win \in [0 .. WINDOW_LEN - 1 -> Nat] /\ g_ref.commits \in Nat /\ g_ref.nth \in Nat
      /\ g_ref.inferences \in Nat /\ g_ref.evt \in Seq(Events)
  BY MirrorFields
<1>2. w \in [0 .. WINDOW_LEN - 1 -> Nat] /\ c \in Nat /\ n \in Nat /\ m \in Nat
  <2>1. c \in Nat /\ n \in Nat /\ m \in Nat
    BY <1>1
  <2>2. w \in [0 .. WINDOW_LEN - 1 -> Nat]
    <3> DEFINE y == g_ref.commits % WINDOW_LEN
    <3>1. g_ref.win \in [0 .. WINDOW_LEN - 1 -> Nat]
      BY <1>1
    <3> HIDE DEF y
    <3>2. [g_ref.win EXCEPT ![y] = fn] \in [0 .. WINDOW_LEN - 1 -> Nat]
      BY <3>1
    <3> QED
      BY <3>2 DEF y
  <2> QED
    BY <2>1, <2>2
<1>3. /\ g_ref' = IF ~EndsWindow(c) THEN r
                  ELSE [r EXCEPT !.inferences = @ + 1, !.nth = @ + 1,
                                 !.evt = IF n \in FIRING THEN Append(@, x) ELSE @]
      /\ ref_evts' = IF EndsWindow(c) /\ n \in FIRING THEN Append(ref_evts, x) ELSE ref_evts
  <2>1. r = [g_ref EXCEPT !.win[g_ref.commits % WINDOW_LEN] = fn, !.commits = @ + 1]
    OBVIOUS
  <2>2. r.commits = c /\ r.nth = g_ref.nth
    <3> HIDE DEF Events, w, c
    <3> QED
      BY DEF Mirrors
  <2> HIDE DEF r, x
  <2>3. EndsWindow(c) <=> (r.commits >= WINDOW_LEN /\ (r.commits - WINDOW_LEN) % WINDOW_STRIDE = 0)
    BY <2>2 DEF EndsWindow
  <2> DEFINE due == r.commits >= WINDOW_LEN /\ (r.commits - WINDOW_LEN) % WINDOW_STRIDE = 0
  <2>4. /\ g_ref' = IF ~due THEN r
                    ELSE [r EXCEPT !.inferences = @ + 1, !.nth = @ + 1,
                                   !.evt = IF due /\ r.nth + 1 \in FIRING THEN Append(@, Expected(r, fn)) ELSE @]
        /\ ref_evts' = IF due /\ r.nth + 1 \in FIRING THEN Append(ref_evts, Expected(r, fn)) ELSE ref_evts
    BY <2>1 DEF RefCommit
  <2>5. r.nth + 1 = n
    BY <2>2
  <2>6. (EndsWindow(c) <=> due) /\ Expected(r, fn) = x
    BY <2>3 DEF x
  <2> HIDE DEF due, n
  <2> QED
    BY <2>4, <2>5, <2>6
<1> HIDE DEF w, c, n, m
<1>4. /\ r \in Mirrors /\ r.win = w /\ r.commits = c /\ r.nth = g_ref.nth /\ r.inferences = g_ref.inferences
      /\ r.evt = g_ref.evt
  <2> HIDE DEF Events
  <2> QED
    BY <1>2 DEF Mirrors
<1>5. x = Observed(r, n, fn) /\ (EndsWindow(c) => x \in Events)
  <2>1. x = Observed(r, n, fn)
    BY <1>4 DEF Expected, RefWindow, Observed, n
  <2> SUFFICES ASSUME EndsWindow(c) PROVE x \in Events
    BY <2>1
  <2> DEFINE v == [t \in 1 .. WINDOW_LEN |-> r.win[((r.commits - WINDOW_LEN) + (t - 1)) % WINDOW_LEN]]
  <2>2. ASSUME NEW t \in 1 .. WINDOW_LEN PROVE r.win[((r.commits - WINDOW_LEN) + (t - 1)) % WINDOW_LEN] \in Nat
    <3>1. (r.commits - WINDOW_LEN) + (t - 1) \in Nat
      BY <1>2, <1>4 DEF EndsWindow
    <3>2. ((r.commits - WINDOW_LEN) + (t - 1)) % WINDOW_LEN \in 0 .. WINDOW_LEN - 1
      BY <3>1
    <3> QED
      BY <1>2, <1>4, <3>2
  <2>3. v \in [1 .. WINDOW_LEN -> Nat]
    BY <2>2
  <2> HIDE DEF v
  <2>4. x = [type |-> "EVT", fn |-> fn, window |-> v, nth |-> n]
    BY <2>1 DEF Observed, v
  <2> QED
    BY <1>2, <2>3, <2>4 DEF Events
<1> HIDE DEF r, x
<1>6. CASE ~EndsWindow(c)
  BY <1>3, <1>4, <1>6 DEF c, n, w
<1>7. CASE EndsWindow(c) /\ n \notin FIRING
  <2>1. g_ref' = [r EXCEPT !.inferences = m, !.nth = n] /\ ref_evts' = ref_evts
    <3>1. g_ref' = [r EXCEPT !.inferences = @ + 1, !.nth = @ + 1, !.evt = @]
      BY <1>3, <1>7
    <3> HIDE DEF Events
    <3> QED
      BY <1>3, <1>4, <1>7, <3>1 DEF Mirrors, m, n
  <2>2. /\ g_ref' \in Mirrors /\ g_ref'.win = w /\ g_ref'.commits = c /\ g_ref'.nth = n /\ g_ref'.inferences = m
        /\ g_ref'.evt = g_ref.evt
    <3> HIDE DEF Events
    <3> QED
      BY <1>2, <1>4, <2>1 DEF Mirrors
  <2> QED
    BY <1>7, <2>1, <2>2 DEF c, n, m, w
<1>8. CASE EndsWindow(c) /\ n \in FIRING
  <2> DEFINE e == Append(g_ref.evt, x)
  <2>1. e \in Seq(Events)
    BY <1>1, <1>5, <1>8
  <2> HIDE DEF e
  <2>2. g_ref' = [r EXCEPT !.inferences = m, !.nth = n, !.evt = e] /\ ref_evts' = Append(ref_evts, x)
    <3>1. g_ref' = [r EXCEPT !.inferences = @ + 1, !.nth = @ + 1, !.evt = Append(@, x)]
      BY <1>3, <1>8
    <3> HIDE DEF Events
    <3> QED
      BY <1>3, <1>4, <1>8, <3>1 DEF Mirrors, m, n, e
  <2>3. /\ g_ref' \in Mirrors /\ g_ref'.win = w /\ g_ref'.commits = c /\ g_ref'.nth = n /\ g_ref'.inferences = m
        /\ g_ref'.evt = e
    <3> HIDE DEF Events
    <3> QED
      BY <1>2, <1>4, <2>1, <2>2 DEF Mirrors
  <2>4. x = Observed(g_ref', n, fn)
    BY <1>4, <1>5, <2>3 DEF Observed
  <2> QED
    BY <1>5, <1>8, <2>2, <2>3, <2>4 DEF c, n, m, w, e
<1> QED
  BY <1>6, <1>7, <1>8

\* Whatever has been handled is at the head of the queue.
LEMMA HandleIs ==
  ASSUME g_ref \in Mirrors, g_errors \in BOOLEAN, NEW p, HandleEvent(p)
  PROVE  /\ g_ref.evt = <<>> \/ p # Head(g_ref.evt) => g_errors'
         /\ g_ref.evt = <<>> => UNCHANGED <<g_ref, evt_matched>>
         /\ g_ref.evt # <<>> => /\ g_ref' \in Mirrors /\ g_ref'.evt = Tail(g_ref.evt)
                                /\ g_ref'.win = g_ref.win /\ g_ref'.commits = g_ref.commits /\ g_ref'.nth = g_ref.nth
                                /\ g_ref'.inferences = g_ref.inferences /\ evt_matched' = evt_matched + 1
         /\ g_ref.evt # <<>> /\ p = Head(g_ref.evt) => g_errors' = g_errors
<1>1. g_errors' = (g_errors \/ ~(g_ref.evt # <<>> /\ p = Head(g_ref.evt)))
  BY DEF HandleEvent, Check
<1>2. g_ref.evt = <<>> => UNCHANGED <<g_ref, evt_matched>>
  BY DEF HandleEvent
<1>3. ASSUME g_ref.evt # <<>>
      PROVE  /\ g_ref' \in Mirrors /\ g_ref'.evt = Tail(g_ref.evt)
             /\ g_ref'.win = g_ref.win /\ g_ref'.commits = g_ref.commits /\ g_ref'.nth = g_ref.nth
             /\ g_ref'.inferences = g_ref.inferences /\ evt_matched' = evt_matched + 1
  <2> DEFINE e == Tail(g_ref.evt)
  <2>1. e \in Seq(Events)
    BY <1>3, MirrorFields, Heads
  <2>2. g_ref' = [g_ref EXCEPT !.evt = e] /\ evt_matched' = evt_matched + 1
    BY <1>3 DEF HandleEvent
  <2> HIDE DEF e, Events
  <2>3. /\ g_ref' \in Mirrors /\ g_ref'.evt = e
        /\ g_ref'.win = g_ref.win /\ g_ref'.commits = g_ref.commits /\ g_ref'.nth = g_ref.nth
        /\ g_ref'.inferences = g_ref.inferences
    BY <2>1, <2>2 DEF Mirrors
  <2> QED
    BY <2>2, <2>3 DEF e
<1>4. /\ g_ref.evt = <<>> \/ p # Head(g_ref.evt) => g_errors'
      /\ g_ref.evt # <<>> /\ p = Head(g_ref.evt) => g_errors' = g_errors
  <2> DEFINE a == g_ref.evt # <<>>
             b == p = Head(g_ref.evt)
  <2>1. g_errors' = (g_errors \/ ~(a /\ b))
    BY <1>1
  <2> HIDE DEF a, b
  <2>2. ~a \/ ~b => g_errors'
    BY <2>1
  <2>3. a /\ b => g_errors' = g_errors
    BY <2>1
  <2> QED
    BY <2>2, <2>3 DEF a, b
<1> QED
  BY <1>2, <1>3, <1>4

\* The device and the link keep the types.
LEMMA DeviceTypes ==
  ASSUME TypeOK, DevTake \/ DevAnswer \/ DevDecide \/ Lose
  PROVE  LinkTypes' /\ TestTypes' /\ UNCHANGED testVars
<1> USE SplitTypes
<1>1. /\ DevOK(dev) /\ down \in Seq(Requests) /\ up \in Seq(Replies \cup Events)
      /\ dev_evts \in Seq(Events) /\ ref_evts \in Seq(Events)
  BY DEF LinkTypes
<1>2. TestTypes
  OBVIOUS
<1>3. CASE DevTake
  <2>1. Head(down) \in Requests /\ Tail(down) \in Seq(Requests)
    BY <1>1, <1>3, Heads DEF DevTake
  <2>2. DevOK(Receive(dev, Head(down)))
    BY <1>1, <2>1, ReceiveKeeps
  <2>3. LinkTypes'
    BY <1>1, <1>3, <2>1, <2>2 DEF DevTake, LinkTypes, histVars
  <2> QED
    BY <1>2, <1>3, <2>3 DEF DevTake, TestTypes, testVars, histVars
<1>4. CASE DevAnswer
  <2>1. dev.rsp \in Replies /\ dev \in Devices
    BY <1>1, <1>4, Fields DEF DevAnswer
  <2>2. Append(up, dev.rsp) \in Seq(Replies \cup Events)
    BY <1>1, <2>1, Appended
  <2>3. DevOK(dev')
    <3> HIDE DEF Counters, Replies, Windows, NoJob, NoResponse
    <3>1. dev' = [dev EXCEPT !.rsp = NoResponse]
      BY <1>4 DEF DevAnswer
    <3>2. dev' \in Devices /\ dev'.window = dev.window /\ dev'.commits = dev.commits
      BY <2>1, <3>1 DEF Devices
    <3> QED
      BY <1>1, <3>2 DEF DevOK
  <2>4. LinkTypes'
    BY <1>1, <1>4, <2>2, <2>3 DEF DevAnswer, LinkTypes, histVars
  <2> QED
    BY <1>2, <1>4, <2>4 DEF DevAnswer, TestTypes, testVars, histVars
<1>5. CASE DevDecide
  <2>1. DevOK(Decide(dev)) /\ Event(dev) \in Events
    BY <1>1, <1>5, DecideIs, EventIs DEF DevDecide
  <2>2. Append(up, Event(dev)) \in Seq(Replies \cup Events) /\ Append(dev_evts, Event(dev)) \in Seq(Events)
    BY <1>1, <2>1, Appended
  <2>3. up' \in Seq(Replies \cup Events) /\ dev_evts' \in Seq(Events)
    <3>1. CASE Fires(dev)
      BY <1>5, <2>2, <3>1 DEF DevDecide
    <3>2. CASE ~Fires(dev)
      BY <1>1, <1>5, <3>2 DEF DevDecide
    <3> QED
      BY <3>1, <3>2
  <2>4. LinkTypes'
    BY <1>1, <1>5, <2>1, <2>3 DEF DevDecide, LinkTypes
  <2> QED
    BY <1>2, <1>5, <2>4 DEF DevDecide, TestTypes, testVars
<1>6. CASE Lose
  <2>1. down' \in Seq(Requests) /\ up' \in Seq(Replies \cup Events)
    <3>1. CASE down # <<>> /\ down' \in {Tail(down), Garble(down)} /\ UNCHANGED up
      <4>1. Tail(down) \in Seq(Requests) /\ Garble(down) \in Seq(Requests)
        BY <1>1, <3>1, Heads, GarbleIs
      <4> QED
        BY <1>1, <3>1, <4>1
    <3>2. CASE up # <<>> /\ up' = Tail(up) /\ UNCHANGED down
      <4>1. Tail(up) \in Seq(Replies \cup Events)
        BY <1>1, <3>2, Heads
      <4> QED
        BY <1>1, <3>2, <4>1
    <3> QED
      BY <1>6, <3>1, <3>2 DEF Lose, Garble
  <2>2. LinkTypes'
    BY <1>1, <1>6, <2>1 DEF Lose, LinkTypes
  <2>3. faults' \in Nat
    BY <1>2, <1>6 DEF Lose, TestTypes
  <2> QED
    BY <1>2, <1>6, <2>2, <2>3 DEF Lose, TestTypes, testVars
<1> QED
  BY <1>3, <1>4, <1>5, <1>6

\* The steps of the device and the link leave the test where it is.
LEMMA DeviceKeeps ==
  ASSUME TypeOK, Control, DevTake \/ DevAnswer \/ DevDecide \/ Lose
  PROVE  TypeOK' /\ Control'
<1>1. LinkTypes' /\ TestTypes' /\ UNCHANGED testVars
  BY DeviceTypes
<1>2. TypeOK'
  BY <1>1 DEF TypeOK, LinkTypes, TestTypes
<1>3. Control'
  BY <1>1 DEF Control, testVars, Done, Step
<1> QED
  BY <1>2, <1>3

\* The step being executed, and its fields.
LEMMA StepFields ==
  ASSUME TypeOK, Control, ~Done
  PROVE  /\ Step \in Steps
         /\ Step.op = "ask" => Step.type \in Types /\ Step.check \in Checks
         /\ Step.op = "feature" => Step.fn \in Nat /\ Step.corrupt \in BOOLEAN /\ Step.streaming \in BOOLEAN
<1>1. script \in Seq(Steps) /\ i \in 1 .. Len(script)
  <2>1. script \in Seq(Steps) /\ Len(script) \in Nat
    BY ScriptIs
  <2> QED
    BY <2>1 DEF Control, Done
<1>2. Step \in Steps
  BY <1>1 DEF Step
<1> QED
  BY <1>2 DEF Steps

\* The next step is a step of the script or its end.
LEMMA AdvanceKeeps ==
  ASSUME TypeOK, Control, ~Done, Advance
  PROVE  i' \in Nat /\ pc' \in {"step", "wait", "pump"} /\ script' = script /\ Control'
<1>1. i \in Nat /\ i \in 1 .. Len(script) + 1 /\ Len(script) \in Nat
  BY ScriptIs DEF TypeOK, Control
<1>2. i + 1 \in 1 .. Len(script) + 1
  BY <1>1 DEF Done
<1> QED
  BY <1>1, <1>2 DEF Advance, Control

\* A request sent keeps the types.
LEMMA AskTypes ==
  ASSUME TypeOK, Control, AskStep
  PROVE  TypeOK' /\ Control'
<1>1. pc = "step" /\ ~Done /\ Step.op = "ask"
  BY DEF AskStep, Begin
<1> DEFINE p == [type |-> Step.type, fn |-> CommandFrame, id |-> 0]
<1>2. p \in Requests
  <2>1. Step.type \in Types /\ CommandFrame \in Nat
    BY <1>1, StepFields, ScenarioAssumption DEF CommandFrame, TypeOK
  <2> QED
    BY <2>1 DEF Requests
<1>3. down' = Append(down, p)
  BY DEF AskStep, SendRaw
<1> HIDE DEF p
<1>4. down' \in Seq(Requests)
  BY <1>2, <1>3, Appended DEF TypeOK
<1>5. TypeOK'
  BY <1>4 DEF AskStep, TypeOK, histVars
<1>6. Control'
  BY <1>1 DEF AskStep, Control, Done, Step
<1> QED
  BY <1>5, <1>6

\* A packet taken by the host keeps the types.
LEMMA TakeTypes ==
  ASSUME TypeOK, Control, TakeEvent \/ TakeReply \/ TakeOther
  PROVE  TypeOK' /\ Control'
<1>1. /\ up # <<>> /\ up \in Seq(Replies \cup Events) /\ g_ref \in Mirrors /\ evt_matched \in Nat
      /\ g_errors \in BOOLEAN
  BY DEF TakeEvent, TakeReply, TakeOther, TypeOK
<1>2. Tail(up) \in Seq(Replies \cup Events)
  BY <1>1, Heads
<1>3. \A ok : Check(ok) => g_errors' \in BOOLEAN
  BY DEF Check
<1>4. CASE TakeEvent
  <2>1. g_errors' \in BOOLEAN
    BY <1>4 DEF TakeEvent, HandleEvent, Check
  <2>2. g_ref' \in Mirrors /\ evt_matched' \in Nat
    BY <1>1, <1>4, HandleIs DEF TakeEvent
  <2>3. TypeOK'
    BY <1>2, <1>4, <2>1, <2>2 DEF TakeEvent, TypeOK, histVars
  <2>4. Control'
    BY <1>4 DEF TakeEvent, Control, Done, Step
  <2> QED
    BY <2>3, <2>4
<1>5. CASE TakeReply
  <2>1. up' \in Seq(Replies \cup Events)
    <3>1. CASE up' = Tail(up)
      BY <1>2, <3>1
    <3>2. ASSUME NEW n \in 2 .. Len(up), up' = SubSeq(up, n + 1, Len(up)) PROVE up' \in Seq(Replies \cup Events)
      <4>1. Len(up) \in Nat /\ \A a \in 1 .. Len(up) : up[a] \in Replies \cup Events
        BY <1>1, LenProperties
      <4>2. \A a \in n + 1 .. Len(up) : up[a] \in Replies \cup Events
        BY <4>1
      <4>3. n + 1 \in Int /\ Len(up) \in Int
        BY <4>1
      <4> QED
        BY <1>1, <3>2, <4>1, <4>2, <4>3, SubSeqProperties
    <3> QED
      BY <1>5, <3>1, <3>2 DEF TakeReply
  <2>2. g_errors' \in BOOLEAN
    BY <1>5, <1>3 DEF TakeReply
  <2>3. ~Done /\ Advance
    BY <1>5 DEF TakeReply, Control
  <2>4. i' \in Nat /\ pc' \in {"step", "wait", "pump"} /\ script' = script /\ Control'
    BY <2>3, AdvanceKeeps
  <2>5. TypeOK'
    BY <1>5, <2>1, <2>2, <2>4 DEF TakeReply, TypeOK, histVars
  <2> QED
    BY <2>4, <2>5
<1>6. CASE TakeOther
  <2>1. g_errors' \in BOOLEAN
    BY <1>3, <1>6 DEF TakeOther
  <2>2. TypeOK'
    BY <1>2, <1>6, <2>1 DEF TakeOther, TypeOK, histVars
  <2>3. Control'
    BY <1>6 DEF TakeOther, Control, Done, Step
  <2> QED
    BY <2>2, <2>3
<1> QED
  BY <1>4, <1>5, <1>6

\* The steps that send nothing keep the types.
LEMMA StepTypes ==
  ASSUME TypeOK, Control, Timeout \/ DrainStep \/ PumpEnds \/ RefResetStep \/ MatchedStep
  PROVE  TypeOK' /\ Control'
<1>1. CASE Timeout
  <2>1. ~Done /\ Advance
    BY <1>1 DEF Timeout, Control
  <2>2. i' \in Nat /\ pc' \in {"step", "wait", "pump"} /\ script' = script /\ Control'
    BY <2>1, AdvanceKeeps
  <2>3. g_errors' \in BOOLEAN
    BY <1>1 DEF Timeout, Check
  <2>4. faults' \in Nat
    BY <1>1 DEF Timeout, TypeOK
  <2>5. TypeOK'
    BY <1>1, <2>2, <2>3, <2>4 DEF Timeout, TypeOK, linkVars
  <2> QED
    BY <2>2, <2>5
<1>2. CASE DrainStep
  <2>1. TypeOK'
    BY <1>2 DEF DrainStep, TypeOK, linkVars, histVars
  <2>2. Control'
    BY <1>2 DEF DrainStep, Begin, Control, Done, Step
  <2> QED
    BY <2>1, <2>2
<1>3. CASE PumpEnds
  <2>1. ~Done /\ Advance
    BY <1>3 DEF PumpEnds, Control
  <2>2. i' \in Nat /\ pc' \in {"step", "wait", "pump"} /\ script' = script /\ Control'
    BY <2>1, AdvanceKeeps
  <2>5. TypeOK'
    BY <1>3, <2>2 DEF PumpEnds, TypeOK, linkVars, histVars
  <2> QED
    BY <2>2, <2>5
<1>4. CASE RefResetStep
  <2>1. ~Done /\ Advance
    BY <1>4 DEF RefResetStep, Begin
  <2>2. i' \in Nat /\ pc' \in {"step", "wait", "pump"} /\ script' = script /\ Control'
    BY <2>1, AdvanceKeeps
  <2>3. EmptyRef \in Mirrors
    <3> DEFINE w == [k \in 0 .. WINDOW_LEN - 1 |-> 0]
               e == <<>>
    <3>1. w \in [0 .. WINDOW_LEN - 1 -> Nat] /\ e \in Seq(Events)
      OBVIOUS
    <3>2. EmptyRef = [win |-> w, commits |-> 0, nth |-> 0, inferences |-> 0, evt |-> e]
      BY DEF EmptyRef
    <3> HIDE DEF w, e, Events
    <3> QED
      BY <3>1, <3>2 DEF Mirrors
  <2>5. TypeOK'
    BY <1>4, <2>2, <2>3 DEF RefResetStep, TypeOK, linkVars, histVars
  <2> QED
    BY <2>2, <2>5
<1>5. CASE MatchedStep
  <2>1. ~Done /\ Advance
    BY <1>5 DEF MatchedStep, Begin
  <2>2. i' \in Nat /\ pc' \in {"step", "wait", "pump"} /\ script' = script /\ Control'
    BY <2>1, AdvanceKeeps
  <2>3. g_errors' \in BOOLEAN
    BY <1>5 DEF MatchedStep, Check
  <2>5. TypeOK'
    BY <1>5, <2>2, <2>3 DEF MatchedStep, TypeOK, linkVars, histVars
  <2> QED
    BY <2>2, <2>5
<1> QED
  BY <1>1, <1>2, <1>3, <1>4, <1>5

\* A frame sent keeps the types.
LEMMA FeatureTypes ==
  ASSUME TypeOK, Control, FeatureStep
  PROVE  TypeOK' /\ Control'
<1>1. pc = "step" /\ ~Done /\ Step.op = "feature"
  BY DEF FeatureStep, Begin
<1>2. Step.fn \in Nat
  BY <1>1, StepFields
<1> DEFINE p == [type |-> IF Step.corrupt THEN "GARBLED" ELSE "FEATURE", fn |-> Step.fn, id |-> 0]
<1>3. p \in Requests
  BY <1>2 DEF Requests, Types
<1>4. down' = Append(down, p)
  BY DEF FeatureStep, SendRaw
<1> HIDE DEF p
<1>5. down' \in Seq(Requests)
  BY <1>3, <1>4, Appended DEF TypeOK
<1>6. g_ref' \in Mirrors /\ ref_evts' \in Seq(Events)
  <2>1. CASE Step.streaming /\ ~Step.corrupt
    <3>1. RefCommit(Step.fn) /\ g_ref \in Mirrors /\ ref_evts \in Seq(Events)
      BY <2>1 DEF FeatureStep, TypeOK
    <3> DEFINE n == g_ref.nth + 1
               c == g_ref.commits + 1
               x == Observed(g_ref', n, Step.fn)
    <3>2. /\ g_ref' \in Mirrors
          /\ ~(EndsWindow(c) /\ n \in FIRING) => ref_evts' = ref_evts
          /\ EndsWindow(c) /\ n \in FIRING => x \in Events /\ ref_evts' = Append(ref_evts, x)
      BY <1>2, <3>1, RefCommitIs
    <3> HIDE DEF n, c, x
    <3> QED
      BY <3>1, <3>2, Appended
  <2>2. CASE ~(Step.streaming /\ ~Step.corrupt)
    BY <2>2 DEF FeatureStep, TypeOK
  <2> QED
    BY <2>1, <2>2
<1>7. TypeOK'
  BY <1>5, <1>6 DEF FeatureStep, TypeOK
<1>8. Control'
  BY <1>1 DEF FeatureStep, Control, Done, Step
<1> QED
  BY <1>7, <1>8

\* Every step keeps the types and the place in the script.
LEMMA TypesKept ==
  ASSUME TypeOK, Control, [Next]_vars
  PROVE  TypeOK' /\ Control'
<1>1. CASE UNCHANGED vars
  BY <1>1 DEF vars, linkVars, testVars, histVars, TypeOK, Control, Done, Step
<1>2. CASE Next
  <2>1. CASE Finished
    BY <1>1, <2>1 DEF Finished
  <2>2. CASE DevTake \/ DevAnswer \/ DevDecide \/ Lose
    BY <2>2, DeviceKeeps
  <2>3. CASE Run
    BY <2>3, AskTypes, TakeTypes, StepTypes, FeatureTypes DEF Run
  <2> QED
    BY <1>2, <2>1, <2>2, <2>3 DEF Next
<1> QED
  BY <1>1, <1>2

\* A device that has just been powered up, and one that streams since.
LEMMA PowerUpTypes == DevOK(DevPowerUp) /\ DevOK([DevPowerUp EXCEPT !.stream = TRUE])
<1> USE DeviceAssumption, ScenarioAssumption
<1>1. DevOK(DevPowerUp) /\ DevPowerUp.stream = FALSE
  <2> DEFINE e == <<>>
  <2>1. e \in Seq(Nat) /\ Len(e) = 0 /\ NoStats \in Counters
    BY PacketKinds
  <2>2. DevPowerUp = [stream |-> FALSE, commits |-> 0, window |-> e, job |-> NoJob, decided |-> 0,
                      stats |-> NoStats, rsp |-> NoResponse]
    BY DEF DevPowerUp
  <2> HIDE DEF e, NoStats, Counters, NoJob, Windows, NoResponse, Replies
  <2>3. /\ DevPowerUp \in Devices /\ DevPowerUp.window = e /\ DevPowerUp.commits = 0 /\ DevPowerUp.stream = FALSE
    BY <2>1, <2>2 DEF Devices
  <2> QED
    BY <2>1, <2>3 DEF DevOK
<1>2. DevOK([DevPowerUp EXCEPT !.stream = TRUE])
  <2> DEFINE s == [DevPowerUp EXCEPT !.stream = TRUE]
  <2>1. DevPowerUp \in Devices
    BY <1>1 DEF DevOK
  <2> HIDE DEF NoStats, Counters, NoJob, Windows, NoResponse, Replies, DevPowerUp
  <2>2. s \in Devices /\ s.window = DevPowerUp.window /\ s.commits = DevPowerUp.commits
    BY <2>1 DEF Devices
  <2> QED
    BY <1>1, <2>2 DEF DevOK
<1> QED
  BY <1>1, <1>2

\* They hold at the start, on a board that was streaming as on one just powered up.
LEMMA TypesFirst ==
  ASSUME Init
  PROVE  TypeOK /\ Control
<1> USE DeviceAssumption, ScenarioAssumption
<1>3. STOPPED \in Nat
  BY DEF STOPPED
<1>4. DevOK(Commit([DevPowerUp EXCEPT !.stream = TRUE], STOPPED))
  BY <1>3, PowerUpTypes, CommitIs
<1>5. DevOK(dev)
  BY <1>4, PowerUpTypes DEF Init
<1>6. EmptyRef \in Mirrors
  <2> DEFINE w == [k \in 0 .. WINDOW_LEN - 1 |-> 0]
             e == <<>>
  <2>1. w \in [0 .. WINDOW_LEN - 1 -> Nat] /\ e \in Seq(Events)
    OBVIOUS
  <2>2. EmptyRef = [win |-> w, commits |-> 0, nth |-> 0, inferences |-> 0, evt |-> e]
    BY DEF EmptyRef
  <2> HIDE DEF w, e, Events
  <2> QED
    BY <2>1, <2>2 DEF Mirrors
<1>7. TypeOK
  <2>1. /\ down \in Seq(Requests) /\ up \in Seq(Replies \cup Events)
        /\ dev_evts \in Seq(Events) /\ ref_evts \in Seq(Events)
    BY DEF Init
  <2>2. /\ script \in {HwScript, BenchScript} /\ i \in Nat /\ pc \in {"step", "wait", "pump"}
        /\ evt_matched \in Nat /\ before \in Nat /\ faults \in Nat
    BY DEF Init
  <2>3. g_ref \in Mirrors /\ g_errors \in BOOLEAN
    BY <1>6 DEF Init
  <2> QED
    BY <1>5, <2>1, <2>2, <2>3 DEF TypeOK
<1>8. Control
  <2>1. Len(script) \in Nat
    BY <1>7, ScriptIs
  <2> QED
    BY <2>1 DEF Init, Control
<1> QED
  BY <1>7, <1>8

-----------------------------------------------------------------------------
(* In a session: frames on the way and windows ended. *)

\* The device takes the oldest frame on the way, unless it was garbled.
LEMMA TakeIs ==
  ASSUME NEW first \in Nat, NEW cor \in SUBSET (0 .. FRAMES - 1), NEW k \in Nat, NEW d, DevOK(d),
         NEW dn \in Seq(Requests), dn # <<>>, NEW r, Flow(first, cor, k, d, dn, r), Ready(d, Head(dn))
  PROVE  LET e == Receive(d, Head(dn))
             s == k - Len(dn)
         IN  /\ s \in Nat /\ s < k /\ k - Len(Tail(dn)) = s + 1 /\ DevOK(e)
             /\ e.stream /\ e.rsp = NoResponse /\ e.decided = d.decided
             /\ \/ dn[1].type = "GARBLED" /\ SameBut(e, d) /\ Counts(e, d, "crc")
                \/ /\ dn[1].type = "FEATURE" /\ s \notin cor /\ e = Commit(d, first + s) /\ Counts(e, d, "frames_rx")
                   /\ e.commits = d.commits + 1 /\ e.window = Shift(d.window, first + s)
                   /\ e.job = IF EndsWindow(d.commits + 1) THEN e.window ELSE d.job
                   /\ EndsWindow(d.commits + 1) => e.window \in Windows /\ Len(e.window) = WINDOW_LEN /\ d.job = NoJob
<1> DEFINE e == Receive(d, Head(dn))
           s == k - Len(dn)
           h == Head(dn)
<1>1. /\ h \in Requests /\ h = dn[1] /\ Len(dn) \in Nat \ {0} /\ Len(Tail(dn)) = Len(dn) - 1
  BY Heads
<1>2. Len(dn) <= k /\ d.stream /\ d.rsp = NoResponse
  BY DEF Flow, Carried
<1>3. s \in Nat /\ s < k /\ k - Len(Tail(dn)) = s + 1
  BY <1>1, <1>2
<1>4. /\ h.type \in {"FEATURE", "GARBLED"}
      /\ h.type = "FEATURE" => s \notin cor /\ h.fn = first + s
  <2>1. 1 \in 1 .. Len(dn) /\ FrameAt(k, dn, 1) = s
    BY <1>1, <1>3 DEF FrameAt
  <2>2. /\ dn[1].type \in {"FEATURE", "GARBLED"}
        /\ dn[1].type = "FEATURE" => FrameAt(k, dn, 1) \notin cor /\ dn[1].fn = first + FrameAt(k, dn, 1)
    BY <2>1, Zenon DEF Flow, Carried
  <2> QED
    BY <1>1, <2>1, <2>2, Zenon
<1>5. DevOK(e) /\ (h.type = "GARBLED" => e = Bump(d, "crc")) /\ (h.type = "FEATURE" => e = Commit(d, h.fn))
  BY <1>1, ReceiveKeeps
<1>6. CASE h.type = "GARBLED"
  <2>1. e = Bump(d, "crc") /\ "crc" \in Names
    BY <1>5, <1>6 DEF Names
  <2>2. SameBut(e, d) /\ Counts(e, d, "crc")
    BY <2>1, BumpIs
  <2>3. e.stream /\ e.rsp = NoResponse /\ e.decided = d.decided
    BY <1>2, <2>2 DEF SameBut
  <2> QED
    BY <1>1, <1>3, <1>5, <1>6, <2>2, <2>3
<1>7. CASE h.type = "FEATURE"
  <2>1. e = Commit(d, first + s) /\ first + s \in Nat
    BY <1>3, <1>4, <1>5, <1>7
  <2> HIDE DEF e, s
  <2>2. /\ e.rsp = d.rsp /\ e.stream = d.stream /\ e.decided = d.decided
        /\ Counts(e, d, "frames_rx")
        /\ e.commits = d.commits + 1 /\ e.window = Shift(d.window, first + s)
        /\ e.job = IF EndsWindow(d.commits + 1) THEN e.window ELSE d.job
        /\ EndsWindow(d.commits + 1) => e.window \in Windows /\ Len(e.window) = WINDOW_LEN
    BY <1>2, <2>1, CommitIs
  <2>3. EndsWindow(d.commits + 1) => d.job = NoJob
    BY <1>7 DEF Ready
  <2>4. e.stream /\ e.rsp = NoResponse
    BY <1>2, <2>2
  <2> QED
    BY <1>1, <1>3, <1>4, <1>5, <1>7, <2>1, <2>2, <2>3, <2>4 DEF e, s
<1> QED
  BY <1>4, <1>6, <1>7

\* What is left on the way when the device takes the first packet.
LEMMA CarriedTail ==
  ASSUME NEW first \in Nat, NEW cor \in SUBSET (0 .. FRAMES - 1), NEW k \in Nat,
         NEW dn \in Seq(Requests), dn # <<>>, Carried(first, cor, k, dn)
  PROVE  /\ Carried(first, cor, k, Tail(dn))
         /\ \A a \in 1 .. Len(Tail(dn)) :
              FrameAt(k, Tail(dn), a) = FrameAt(k, dn, a + 1) /\ Tail(dn)[a] = dn[a + 1] /\ a + 1 \in 1 .. Len(dn)
<1> DEFINE t == Tail(dn)
<1>1. /\ Len(dn) \in Nat \ {0} /\ Len(t) = Len(dn) - 1 /\ \A a \in 1 .. Len(t) : t[a] = dn[a + 1]
  BY Heads
<1> HIDE DEF t
<1>2. ASSUME NEW a \in 1 .. Len(t)
      PROVE  /\ FrameAt(k, t, a) = FrameAt(k, dn, a + 1) /\ t[a] = dn[a + 1] /\ a + 1 \in 1 .. Len(dn)
             /\ t[a].type \in {"FEATURE", "GARBLED"}
             /\ t[a].type = "FEATURE" => FrameAt(k, t, a) \notin cor /\ t[a].fn = first + FrameAt(k, t, a)
  <2>1. a + 1 \in 1 .. Len(dn) /\ FrameAt(k, t, a) = FrameAt(k, dn, a + 1)
    <3>1. Len(t) = Len(dn) - 1 /\ Len(dn) \in Nat /\ Len(t) \in Nat
      BY <1>1
    <3>2. a + 1 \in 1 .. Len(dn)
      BY <3>1
    <3>3. (k - Len(t)) + (a - 1) = (k - Len(dn)) + ((a + 1) - 1)
      BY <3>1
    <3> QED
      BY <3>2, <3>3 DEF FrameAt
  <2>2. t[a] = dn[a + 1]
    BY <1>1
  <2> QED
    BY <2>1, <2>2, Zenon DEF Carried
<1>3. Len(t) <= k
  BY <1>1 DEF Carried
<1> QED
  BY <1>2, <1>3, Zenon DEF Carried, t

\* The device takes a frame or counts a garbled one, and stays behind the reference.
LEMMA FlowTake ==
  ASSUME NEW first \in Nat, NEW cor \in SUBSET (0 .. FRAMES - 1), NEW k \in Nat, NEW d, DevOK(d),
         NEW dn \in Seq(Requests), dn # <<>>, NEW r \in Mirrors, Flow(first, cor, k, d, dn, r), Windowed(d, r),
         Ready(d, Head(dn))
  PROVE  LET e == Receive(d, Head(dn)) IN Flow(first, cor, k, e, Tail(dn), r) /\ Windowed(e, r)
<1> DEFINE e == Receive(d, Head(dn))
           s == k - Len(dn)
<1>1. /\ s \in Nat /\ s < k /\ k - Len(Tail(dn)) = s + 1 /\ DevOK(e)
      /\ e.stream /\ e.rsp = NoResponse /\ e.decided = d.decided
      /\ \/ dn[1].type = "GARBLED" /\ SameBut(e, d) /\ Counts(e, d, "crc")
         \/ /\ dn[1].type = "FEATURE" /\ s \notin cor
            /\ e.commits = d.commits + 1
            /\ e.job = IF EndsWindow(d.commits + 1) THEN e.window ELSE d.job
            /\ EndsWindow(d.commits + 1) => e.window \in Windows /\ Len(e.window) = WINDOW_LEN /\ d.job = NoJob
  BY TakeIs
<1> HIDE DEF e
<1>2. d.commits \in Nat /\ d.decided \in Nat /\ d.commits <= Good(cor, s) /\ r.commits = Good(cor, k)
  BY Fields DEF Flow
<1> HIDE DEF s
<1>3. Good(cor, s) \in Nat /\ Good(cor, s + 1) = (IF s \in cor THEN Good(cor, s) ELSE Good(cor, s) + 1)
  <2>1. s \in Nat
    BY <1>1
  <2> QED
    BY <2>1, GoodGrows
<1>4. e.commits <= Good(cor, s + 1)
  <2>1. CASE SameBut(e, d)
    BY <1>2, <1>3, <2>1 DEF SameBut
  <2>2. CASE s \notin cor /\ e.commits = d.commits + 1
    BY <1>2, <1>3, <2>2
  <2> QED
    BY <1>1, <2>1, <2>2
<1>5. Flow(first, cor, k, e, Tail(dn), r)
  <2>1. Carried(first, cor, k, Tail(dn))
    BY CarriedTail DEF Flow
  <2>2. k - Len(Tail(dn)) = s + 1 /\ e.stream /\ e.rsp = NoResponse
    BY <1>1
  <2> QED
    BY <1>2, <1>4, <2>1, <2>2, Zenon DEF Flow
<1>6. Counted(r.commits, r.nth) /\ Counted(d.commits, Ended(d))
  BY DEF Windowed
<1>7. Counted(e.commits, Ended(e))
  <2>1. CASE SameBut(e, d)
    <3>1. e.commits = d.commits /\ Ended(e) = Ended(d)
      BY <2>1 DEF SameBut, Ended
    <3> QED
      BY <1>6, <3>1
  <2>2. CASE /\ e.commits = d.commits + 1
             /\ e.job = IF EndsWindow(d.commits + 1) THEN e.window ELSE d.job
             /\ EndsWindow(d.commits + 1) => e.window \in Windows /\ Len(e.window) = WINDOW_LEN /\ d.job = NoJob
    <3>1. Ended(d) \in Nat
      BY <1>2 DEF Ended
    <3>2. CASE EndsWindow(d.commits + 1)
      <4>1. Ended(d) = d.decided /\ Ended(e) = d.decided + 1
        BY <1>1, <2>2, <3>2, PacketKinds DEF Ended
      <4>2. Counted(d.commits + 1, Ended(d) + 1)
        BY <1>2, <1>6, <3>1, <3>2, CountedOn
      <4> QED
        BY <2>2, <4>1, <4>2
    <3>3. CASE ~EndsWindow(d.commits + 1)
      <4>1. Ended(e) = Ended(d)
        BY <1>1, <2>2, <3>3 DEF Ended
      <4>2. Counted(d.commits + 1, Ended(d))
        BY <1>2, <1>6, <3>1, <3>3, CountedOn
      <4> QED
        BY <2>2, <4>1, <4>2
    <3> QED
      BY <3>2, <3>3
  <2> QED
    BY <1>1, <2>1, <2>2
<1>8. Windowed(e, r)
  BY <1>6, <1>7 DEF Windowed
<1> QED
  BY <1>5, <1>8 DEF e

\* A frame is lost or garbled on the way.
LEMMA FlowLose ==
  ASSUME NEW first \in Nat, NEW cor \in SUBSET (0 .. FRAMES - 1), NEW k \in Nat, NEW d, DevOK(d),
         NEW dn \in Seq(Requests), dn # <<>>, NEW r, Flow(first, cor, k, d, dn, r)
  PROVE  Flow(first, cor, k, d, Tail(dn), r) /\ Flow(first, cor, k, d, Garble(dn), r)
<1>1. /\ Len(dn) \in Nat \ {0} /\ Len(Tail(dn)) = Len(dn) - 1 /\ Len(dn) <= k
  BY Heads DEF Flow, Carried
<1>2. Flow(first, cor, k, d, Tail(dn), r)
  <2> DEFINE s == k - Len(dn)
  <2>1. Carried(first, cor, k, Tail(dn))
    BY CarriedTail DEF Flow
  <2>2. s \in Nat /\ k - Len(Tail(dn)) = s + 1
    BY <1>1
  <2>3. Good(cor, s) <= Good(cor, s + 1) /\ Good(cor, s) \in Nat /\ Good(cor, s + 1) \in Nat /\ d.commits \in Nat
    <3>1. s + 1 \in Nat /\ s <= s + 1
      BY <2>2
    <3> QED
      BY <2>2, <3>1, GoodGrows, Fields
  <2>4. d.commits <= Good(cor, s)
    BY DEF Flow
  <2> HIDE DEF s
  <2>5. d.commits <= Good(cor, s + 1)
    BY <2>3, <2>4
  <2> QED
    BY <2>1, <2>2, <2>5, Zenon DEF Flow
<1>3. Flow(first, cor, k, d, Garble(dn), r)
  <2> DEFINE g == Garble(dn)
  <2>1. Len(g) = Len(dn) /\ g[1].type = "GARBLED" /\ \A a \in 2 .. Len(dn) : g[a] = dn[a]
    BY GarbleIs
  <2> HIDE DEF g
  <2>2. ASSUME NEW a \in 1 .. Len(g)
        PROVE  /\ g[a].type \in {"FEATURE", "GARBLED"}
               /\ g[a].type = "FEATURE" => FrameAt(k, g, a) \notin cor /\ g[a].fn = first + FrameAt(k, g, a)
    <3>1. CASE a = 1
      BY <2>1, <3>1
    <3>2. CASE a # 1
      <4>1. a \in 2 .. Len(dn) /\ a \in 1 .. Len(dn) /\ FrameAt(k, g, a) = FrameAt(k, dn, a)
        BY <1>1, <2>1, <3>2 DEF FrameAt
      <4>2. g[a] = dn[a]
        BY <2>1, <4>1
      <4> QED
        BY <4>1, <4>2, Zenon DEF Flow, Carried
    <3> QED
      BY <3>1, <3>2
  <2>3. Flow(first, cor, k, d, g, r)
    <3>1. Len(g) <= k
      BY <1>1, <2>1
    <3> QED
      BY <2>1, <2>2, <3>1, Zenon DEF Flow, Carried
  <2> QED
    BY <2>3 DEF g
<1> QED
  BY <1>2, <1>3

\* Another frame is sent, and committed by the reference unless it is sent corrupted.
LEMMA FlowSend ==
  ASSUME NEW first \in Nat, NEW cor \in SUBSET (0 .. FRAMES - 1), NEW k \in Nat, NEW d, DevOK(d),
         NEW dn \in Seq(Requests), NEW r \in Mirrors, NEW q \in Mirrors, NEW p \in Requests,
         p.type = IF k \in cor THEN "GARBLED" ELSE "FEATURE", p.fn = first + k,
         q.commits = IF k \in cor THEN r.commits ELSE r.commits + 1,
         Flow(first, cor, k, d, dn, r)
  PROVE  Flow(first, cor, k + 1, d, Append(dn, p), q)
<1> DEFINE t == Append(dn, p)
<1>1. /\ Len(dn) \in Nat /\ Len(t) = Len(dn) + 1 /\ \A a \in 1 .. Len(dn) : t[a] = dn[a]
      /\ t[Len(dn) + 1] = p
  BY Appended
<1>2. Len(dn) <= k /\ d.stream /\ d.rsp = NoResponse /\ r.commits = Good(cor, k) /\ d.commits <= Good(cor, k - Len(dn))
  BY DEF Flow, Carried
<1> HIDE DEF t
<1>3. ASSUME NEW a \in 1 .. Len(t)
      PROVE  /\ t[a].type \in {"FEATURE", "GARBLED"}
             /\ t[a].type = "FEATURE" => FrameAt(k + 1, t, a) \notin cor /\ t[a].fn = first + FrameAt(k + 1, t, a)
  <2>1. CASE a = Len(dn) + 1
    <3>1. FrameAt(k + 1, t, a) = k /\ t[a] = p
      BY <1>1, <2>1 DEF FrameAt
    <3> QED
      BY <3>1
  <2>2. CASE a # Len(dn) + 1
    <3>1. a \in 1 .. Len(dn) /\ FrameAt(k + 1, t, a) = FrameAt(k, dn, a)
      BY <1>1, <2>2 DEF FrameAt
    <3>2. t[a] = dn[a]
      BY <1>1, <3>1
    <3> QED
      BY <3>1, <3>2, Zenon DEF Flow, Carried
  <2> QED
    BY <2>1, <2>2
<1>4. q.commits = Good(cor, k + 1)
  <2>1. Good(cor, k + 1) = IF k \in cor THEN Good(cor, k) ELSE Good(cor, k) + 1
    BY GoodGrows
  <2> QED
    BY <1>2, <2>1
<1>5. (k + 1) - Len(t) = k - Len(dn) /\ Len(t) <= k + 1
  BY <1>1, <1>2
<1>6. Flow(first, cor, k + 1, d, t, q)
  BY <1>2, <1>3, <1>4, <1>5, Zenon DEF Flow, Carried
<1> QED
  BY <1>6 DEF t

-----------------------------------------------------------------------------
(* In a session: detections. *)

\* The members of a sequence of detections.
LEMMA EventsOf ==
  ASSUME NEW s \in Seq(Events)
  PROVE  Len(s) \in Nat /\ \A a \in 1 .. Len(s) : s[a] \in Events /\ s[a].nth \in Nat /\ s[a].type = "EVT"
<1>1. Len(s) \in Nat /\ \A a \in 1 .. Len(s) : s[a] \in Events
  BY LenProperties
<1> QED
  BY <1>1, PacketKinds

\* One more window has ended: it is listed if it is a detection.
LEMMA ListsOn ==
  ASSUME NEW b \in Nat, NEW s \in Seq(Events), NEW n \in Nat, Lists(b, s, n)
  PROVE  /\ n + 1 \notin FIRING => Lists(b, s, n + 1)
         /\ \A x \in Events : b <= Len(s) /\ x.nth = n + 1 /\ n + 1 \in FIRING => Lists(b, Append(s, x), n + 1)
<1>1. Len(s) \in Nat /\ \A a \in 1 .. Len(s) : s[a].nth \in Nat
  BY EventsOf
<1>2. \A q \in FIRING : q \in Nat
  BY DeviceAssumption
<1>3. /\ \A a \in b + 1 .. Len(s) : s[a].nth \in FIRING /\ 1 <= s[a].nth /\ s[a].nth <= n
      /\ \A a, c \in b + 1 .. Len(s) : a < c => s[a].nth < s[c].nth
      /\ \A q \in FIRING : 1 <= q /\ q <= n => \E a \in b + 1 .. Len(s) : s[a].nth = q
  BY Zenon DEF Lists
<1>4. ASSUME n + 1 \notin FIRING PROVE Lists(b, s, n + 1)
  <2>1. ASSUME NEW a \in b + 1 .. Len(s) PROVE s[a].nth \in FIRING /\ 1 <= s[a].nth /\ s[a].nth <= n + 1
    <3>1. s[a].nth \in FIRING /\ 1 <= s[a].nth /\ s[a].nth <= n /\ s[a].nth \in Nat
      BY <1>2, <1>3
    <3> QED
      BY <3>1
  <2>2. ASSUME NEW q \in FIRING, 1 <= q, q <= n + 1 PROVE \E a \in b + 1 .. Len(s) : s[a].nth = q
    <3>1. q \in Nat /\ q # n + 1
      BY <1>2, <1>4
    <3>2. q <= n
      BY <2>2, <3>1
    <3> QED
      BY <1>3, <2>2, <3>2
  <2> QED
    BY <1>3, <2>1, <2>2, Zenon DEF Lists
<1>5. ASSUME NEW x \in Events, b <= Len(s), x.nth = n + 1, n + 1 \in FIRING PROVE Lists(b, Append(s, x), n + 1)
  <2> DEFINE t == Append(s, x)
  <2>1. Len(t) = Len(s) + 1 /\ t[Len(s) + 1] = x /\ \A a \in 1 .. Len(s) : t[a] = s[a]
    BY Appended
  <2> HIDE DEF t
  <2>2. ASSUME NEW a \in b + 1 .. Len(t)
        PROVE  \/ a = Len(t) /\ t[a].nth = n + 1
               \/ a \in b + 1 .. Len(s) /\ a < Len(t) /\ t[a].nth = s[a].nth /\ s[a].nth <= n /\ s[a].nth \in Nat
                  /\ s[a].nth \in FIRING /\ 1 <= s[a].nth
    <3>1. CASE a = Len(s) + 1
      BY <1>5, <2>1, <3>1
    <3>2. CASE a # Len(s) + 1
      <4>1. a \in b + 1 .. Len(s) /\ a \in 1 .. Len(s) /\ a < Len(t)
        BY <1>1, <2>1, <3>2
      <4>2. t[a] = s[a]
        BY <2>1, <4>1
      <4>3. s[a].nth <= n /\ s[a].nth \in Nat /\ s[a].nth \in FIRING /\ 1 <= s[a].nth
        BY <1>1, <1>3, <4>1
      <4> QED
        BY <4>1, <4>2, <4>3
    <3> QED
      BY <3>1, <3>2
  <2>3. ASSUME NEW a \in b + 1 .. Len(t) PROVE t[a].nth \in FIRING /\ 1 <= t[a].nth /\ t[a].nth <= n + 1
    <3>1. CASE a = Len(t) /\ t[a].nth = n + 1
      BY <1>5, <3>1
    <3>2. CASE t[a].nth = s[a].nth /\ s[a].nth <= n /\ s[a].nth \in Nat /\ s[a].nth \in FIRING /\ 1 <= s[a].nth
      BY <3>2
    <3> QED
      BY <2>2, <3>1, <3>2
  <2>4. ASSUME NEW a \in b + 1 .. Len(t), NEW c \in b + 1 .. Len(t), a < c PROVE t[a].nth < t[c].nth
    <3>1. a \in b + 1 .. Len(s) /\ t[a].nth = s[a].nth /\ s[a].nth <= n /\ s[a].nth \in Nat
      <4>1. a # Len(t)
        BY <1>1, <2>1, <2>4
      <4> QED
        BY <2>2, <4>1
    <3>2. CASE c = Len(t) /\ t[c].nth = n + 1
      BY <3>1, <3>2
    <3>3. CASE c \in b + 1 .. Len(s) /\ t[c].nth = s[c].nth
      <4>1. s[a].nth < s[c].nth
        BY <1>3, <2>4, <3>1, <3>3
      <4> QED
        BY <3>1, <3>3, <4>1
    <3> QED
      BY <2>2, <3>2, <3>3
  <2>5. ASSUME NEW q \in FIRING, 1 <= q, q <= n + 1 PROVE \E a \in b + 1 .. Len(t) : t[a].nth = q
    <3>1. CASE q = n + 1
      <4>1. Len(s) + 1 \in b + 1 .. Len(t)
        BY <1>1, <1>5, <2>1
      <4>2. t[Len(s) + 1].nth = q
        BY <1>5, <2>1, <3>1
      <4> QED
        BY <4>1, <4>2
    <3>2. CASE q # n + 1
      <4>1. q \in Nat /\ q <= n
        BY <1>2, <2>5, <3>2
      <4>2. PICK a \in b + 1 .. Len(s) : s[a].nth = q
        BY <1>3, <2>5, <4>1
      <4>3. a \in b + 1 .. Len(t) /\ a \in 1 .. Len(s)
        BY <1>1, <2>1
      <4>4. t[a] = s[a]
        BY <2>1, <4>3
      <4> QED
        BY <4>2, <4>3, <4>4
    <3> QED
      BY <3>1, <3>2
  <2>6. Lists(b, t, n + 1)
    BY <2>3, <2>4, <2>5, Zenon DEF Lists
  <2> QED
    BY <2>6 DEF t
<1> QED
  BY <1>4, <1>5

\* The reference commits a frame.
RefDone(r, q, x) ==
  /\ q.commits = r.commits + 1
  /\ ~EndsWindow(q.commits) => q.nth = r.nth
  /\ EndsWindow(q.commits) => q.nth = r.nth + 1
  /\ ~(EndsWindow(q.commits) /\ r.nth + 1 \in FIRING) => q.evt = r.evt
  /\ EndsWindow(q.commits) /\ r.nth + 1 \in FIRING => x \in Events /\ x.nth = r.nth + 1 /\ q.evt = Append(r.evt, x)

RefEvents(r, q, x, re, rf) ==
  rf = IF EndsWindow(q.commits) /\ r.nth + 1 \in FIRING THEN Append(re, x) ELSE re

\* A frame sent keeps the count of windows.
LEMMA WindowedSend ==
  ASSUME NEW d, NEW r \in Mirrors, NEW q \in Mirrors, NEW x, RefDone(r, q, x), Windowed(d, r)
  PROVE  Windowed(d, q)
<1>1. r.commits \in Nat /\ r.nth \in Nat /\ Counted(r.commits, r.nth) /\ Counted(d.commits, Ended(d))
  BY MirrorFields DEF Windowed
<1>2. /\ EndsWindow(r.commits + 1) => Counted(r.commits + 1, r.nth + 1)
      /\ ~EndsWindow(r.commits + 1) => Counted(r.commits + 1, r.nth)
  BY <1>1, CountedOn
<1>3. Counted(q.commits, q.nth)
  <2>1. q.commits = r.commits + 1 /\ (~EndsWindow(q.commits) => q.nth = r.nth) /\ (EndsWindow(q.commits) => q.nth = r.nth + 1)
    BY DEF RefDone
  <2>2. CASE EndsWindow(q.commits)
    BY <1>2, <2>1, <2>2
  <2>3. CASE ~EndsWindow(q.commits)
    BY <1>2, <2>1, <2>3
  <2> QED
    BY <2>2, <2>3
<1> QED
  BY <1>1, <1>3 DEF Windowed

\* A frame sent can only put the reference further ahead.
LEMMA BehindSend ==
  ASSUME NEW d, NEW r \in Mirrors, NEW q \in Mirrors, NEW x, NEW b \in Nat, NEW de \in Seq(Events),
         NEW re \in Seq(Events), NEW rf \in Seq(Events),
         RefDone(r, q, x), RefEvents(r, q, x, re, rf), b <= Len(de), Behind(d, r, b, de, re)
  PROVE  Behind(d, q, b, de, rf)
<1>1. /\ Len(de) <= Len(re) /\ Lists(b, re, r.nth) /\ Lists(b, de, d.decided)
      /\ \A a \in b + 1 .. Len(de) : de[a].nth = re[a].nth
  BY Zenon DEF Behind
<1>2. r.nth \in Nat /\ Len(de) \in Nat /\ Len(re) \in Nat
  BY MirrorFields, EventsOf
<1>3. b <= Len(re)
  BY <1>1, <1>2
<1>4. /\ r.nth + 1 \notin FIRING => Lists(b, re, r.nth + 1)
      /\ \A y \in Events : b <= Len(re) /\ y.nth = r.nth + 1 /\ r.nth + 1 \in FIRING => Lists(b, Append(re, y), r.nth + 1)
  BY <1>1, <1>2, ListsOn
<1>5. /\ ~EndsWindow(q.commits) => q.nth = r.nth
      /\ EndsWindow(q.commits) => q.nth = r.nth + 1
      /\ EndsWindow(q.commits) /\ r.nth + 1 \in FIRING => x \in Events /\ x.nth = r.nth + 1
      /\ rf = IF EndsWindow(q.commits) /\ r.nth + 1 \in FIRING THEN Append(re, x) ELSE re
  BY DEF RefDone, RefEvents
<1>6. Lists(b, rf, q.nth)
  <2>1. CASE ~EndsWindow(q.commits)
    BY <1>1, <1>5, <2>1
  <2>2. CASE EndsWindow(q.commits) /\ r.nth + 1 \notin FIRING
    BY <1>4, <1>5, <2>2
  <2>3. CASE EndsWindow(q.commits) /\ r.nth + 1 \in FIRING
    BY <1>3, <1>4, <1>5, <2>3
  <2> QED
    BY <2>1, <2>2, <2>3
<1>7. CASE rf = re
  BY <1>1, <1>6, <1>7 DEF Behind
<1>8. CASE x \in Events /\ rf = Append(re, x)
  <2>1. Len(rf) = Len(re) + 1 /\ \A a \in 1 .. Len(re) : rf[a] = re[a]
    BY <1>8, Appended
  <2>2. Len(de) <= Len(rf)
    BY <1>1, <1>2, <2>1
  <2>3. ASSUME NEW a \in b + 1 .. Len(de) PROVE de[a].nth = rf[a].nth
    <3>1. a \in 1 .. Len(re)
      BY <1>1, <1>2
    <3>2. rf[a] = re[a]
      BY <2>1, <3>1
    <3> QED
      BY <1>1, <3>2
  <2> QED
    BY <1>1, <1>6, <2>2, <2>3, Zenon DEF Behind
<1> QED
  BY <1>5, <1>7, <1>8

\* A detection of the reference waits behind those already matched.
LEMMA MatchedSend ==
  ASSUME NEW r \in Mirrors, NEW q \in Mirrors, NEW x, NEW b \in Nat, NEW m \in Nat, NEW de \in Seq(Events),
         NEW re \in Seq(Events), NEW rf \in Seq(Events),
         RefDone(r, q, x), RefEvents(r, q, x, re, rf), Len(de) <= Len(re), Matched(r, m, b, de, re)
  PROVE  Matched(q, m, b, de, rf)
<1>1. /\ b <= m /\ m <= Len(de) /\ Len(re) = m + Len(r.evt)
      /\ \A a \in 1 .. Len(r.evt) : r.evt[a] = re[m + a]
      /\ \A a \in 1 .. m : de[a] = re[a]
  BY Zenon DEF Matched
<1>2. r.evt \in Seq(Events) /\ Len(r.evt) \in Nat /\ Len(de) \in Nat /\ Len(re) \in Nat
  BY MirrorFields, EventsOf
<1>3. \/ q.evt = r.evt /\ rf = re
      \/ x \in Events /\ q.evt = Append(r.evt, x) /\ rf = Append(re, x)
  BY DEF RefDone, RefEvents
<1>4. CASE q.evt = r.evt /\ rf = re
  BY <1>1, <1>4, Zenon DEF Matched
<1>5. CASE x \in Events /\ q.evt = Append(r.evt, x) /\ rf = Append(re, x)
  <2>1. /\ Len(q.evt) = Len(r.evt) + 1 /\ q.evt[Len(r.evt) + 1] = x
        /\ \A a \in 1 .. Len(r.evt) : q.evt[a] = r.evt[a]
    BY <1>2, <1>5, Appended
  <2>2. Len(rf) = Len(re) + 1 /\ rf[Len(re) + 1] = x /\ \A a \in 1 .. Len(re) : rf[a] = re[a]
    BY <1>5, Appended
  <2>3. Len(rf) = m + Len(q.evt)
    BY <1>1, <1>2, <2>1, <2>2
  <2>4. ASSUME NEW a \in 1 .. Len(q.evt) PROVE q.evt[a] = rf[m + a]
    <3>1. CASE a = Len(r.evt) + 1
      <4>1. m + a = Len(re) + 1
        BY <1>1, <1>2, <3>1
      <4> QED
        BY <2>1, <2>2, <3>1, <4>1
    <3>2. CASE a # Len(r.evt) + 1
      <4>1. a \in 1 .. Len(r.evt) /\ m + a \in 1 .. Len(re)
        BY <1>1, <1>2, <2>1, <3>2, SMTT(30)
      <4> QED
        BY <1>1, <2>1, <2>2, <4>1, Zenon
    <3> QED
      BY <3>1, <3>2
  <2>5. ASSUME NEW a \in 1 .. m PROVE de[a] = rf[a]
    <3>1. a \in 1 .. Len(re)
      BY <1>1, <1>2
    <3> QED
      BY <1>1, <2>2, <3>1, Zenon
  <2> QED
    BY <1>1, <2>3, <2>4, <2>5, Zenon DEF Matched
<1> QED
  BY <1>3, <1>4, <1>5

\* The device decides the window under inference.
LEMMA DecideBehind ==
  ASSUME NEW d, DevOK(d), d.job # NoJob, NEW r \in Mirrors, NEW b \in Nat, NEW de \in Seq(Events),
         NEW re \in Seq(Events), Windowed(d, r), d.commits <= r.commits, b <= Len(de), Behind(d, r, b, de, re)
  PROVE  LET e == Decide(d)
             x == Event(d)
         IN  /\ Windowed(e, r)
             /\ ~Fires(d) => Behind(e, r, b, de, re)
             /\ Fires(d) => Behind(e, r, b, Append(de, x), re)
<1> DEFINE e == Decide(d)
           x == Event(d)
           n == d.decided + 1
           l == Len(de) + 1
<1>1. /\ Len(de) <= Len(re) /\ Lists(b, re, r.nth) /\ Lists(b, de, d.decided)
      /\ \A a \in b + 1 .. Len(de) : de[a].nth = re[a].nth
  BY Zenon DEF Behind
<1>2. /\ r.nth \in Nat /\ r.commits \in Nat /\ d.commits \in Nat /\ d.decided \in Nat /\ Len(de) \in Nat /\ Len(re) \in Nat
  BY MirrorFields, EventsOf, Fields
<1>3. e.commits = d.commits /\ e.job = NoJob /\ e.decided = n /\ x \in Events /\ x.nth = n
  BY DecideIs, EventIs
<1>4. Counted(r.commits, r.nth) /\ Counted(d.commits, n) /\ Ended(d) = n /\ Ended(e) = n
  BY <1>3 DEF Windowed, Ended
<1>5. n <= r.nth
  BY <1>2, <1>4, CountedGrows
<1>6. Windowed(e, r)
  BY <1>3, <1>4 DEF Windowed
<1> HIDE DEF e, x
<1>7. /\ n \notin FIRING => Lists(b, de, n)
      /\ n \in FIRING => Lists(b, Append(de, x), n)
  BY <1>1, <1>2, <1>3, ListsOn
<1>8. ASSUME ~Fires(d) PROVE Behind(e, r, b, de, re)
  <2>1. Lists(b, de, e.decided)
    BY <1>3, <1>7, <1>8 DEF Fires
  <2> QED
    BY <1>1, <2>1, Zenon DEF Behind
<1>9. ASSUME Fires(d) PROVE Behind(e, r, b, Append(de, x), re)
  <2>1. n \in FIRING /\ n \in Nat /\ 1 <= n
    BY <1>2, <1>9 DEF Fires
  <2>2. /\ \A a \in b + 1 .. Len(re) : re[a].nth \in FIRING /\ 1 <= re[a].nth /\ re[a].nth <= r.nth /\ re[a].nth \in Nat
        /\ \A a, c \in b + 1 .. Len(re) : a < c => re[a].nth < re[c].nth
        /\ \A q \in FIRING : 1 <= q /\ q <= r.nth => \E a \in b + 1 .. Len(re) : re[a].nth = q
    <3>1. \A a \in b + 1 .. Len(re) : a \in 1 .. Len(re)
      BY <1>2
    <3> QED
      BY <1>1, <3>1, EventsOf, Zenon DEF Lists
  <2>3. /\ \A a \in b + 1 .. Len(de) : de[a].nth <= d.decided
        /\ \A q \in FIRING : 1 <= q /\ q <= d.decided => \E a \in b + 1 .. Len(de) : de[a].nth = q
    BY <1>1, Zenon DEF Lists
  <2>4. PICK a \in b + 1 .. Len(re) : re[a].nth = n
    BY <1>5, <2>1, <2>2
  <2>5. a \in Nat /\ l \in Nat /\ b + 1 <= l
    BY <1>2, <2>4
  <2>6. a >= l
    <3> SUFFICES ASSUME a < l PROVE FALSE
      BY <2>5
    <3>1. a \in b + 1 .. Len(de)
      BY <1>2, <2>5
    <3>2. re[a].nth <= d.decided
      BY <1>1, <2>3, <3>1
    <3> QED
      BY <1>2, <2>4, <3>2
  <2>7. l \in b + 1 .. Len(re)
    BY <1>2, <2>4, <2>5, <2>6
  <2>8. a = l
    <3> SUFFICES ASSUME l < a PROVE FALSE
      BY <2>5, <2>6
    <3>1. re[l].nth < re[a].nth /\ re[l].nth \in FIRING /\ 1 <= re[l].nth /\ re[l].nth \in Nat
      BY <2>2, <2>4, <2>7
    <3>2. re[l].nth <= d.decided
      BY <1>2, <2>4, <3>1
    <3>3. PICK c \in b + 1 .. Len(de) : de[c].nth = re[l].nth
      BY <2>3, <3>1, <3>2
    <3>4. c \in b + 1 .. Len(re) /\ c < l
      BY <1>1, <1>2
    <3>5. re[c].nth < re[l].nth
      BY <2>2, <2>7, <3>4
    <3>6. re[c].nth = re[l].nth
      BY <1>1, <3>3
    <3> QED
      BY <3>1, <3>5, <3>6
  <2> DEFINE t == Append(de, x)
  <2>9. Len(t) = l /\ t[l] = x /\ \A c \in 1 .. Len(de) : t[c] = de[c]
    BY <1>3, Appended
  <2>10. Lists(b, t, e.decided)
    BY <1>3, <1>7, <2>1
  <2> HIDE DEF t
  <2>11. ASSUME NEW c \in b + 1 .. Len(t) PROVE t[c].nth = re[c].nth
    <3>1. CASE c = l
      BY <1>3, <2>4, <2>8, <2>9, <3>1
    <3>2. CASE c # l
      <4>1. c \in b + 1 .. Len(de) /\ c \in 1 .. Len(de)
        BY <1>2, <2>9, <3>2
      <4> QED
        BY <1>1, <2>9, <4>1
    <3> QED
      BY <3>1, <3>2
  <2>12. Len(t) <= Len(re)
    BY <1>2, <2>7, <2>9
  <2>13. Behind(e, r, b, t, re)
    BY <1>1, <2>10, <2>11, <2>12, Zenon DEF Behind
  <2> QED
    BY <2>13 DEF t
<1> QED
  BY <1>6, <1>8, <1>9 DEF e, x

\* The detections of the device lie on the way in order: with one more behind them.
LEMMA MatchedDecide ==
  ASSUME NEW r, NEW b \in Nat, NEW m \in Nat, NEW de \in Seq(Events), NEW re \in Seq(Events), NEW x \in Events,
         Matched(r, m, b, de, re)
  PROVE  Matched(r, m, b, Append(de, x), re)
<1> DEFINE t == Append(de, x)
<1>1. Len(t) = Len(de) + 1 /\ Len(de) \in Nat /\ \A a \in 1 .. Len(de) : t[a] = de[a]
  BY Appended
<1>2. /\ b <= m /\ m <= Len(de) /\ Len(re) = m + Len(r.evt)
      /\ \A a \in 1 .. Len(r.evt) : r.evt[a] = re[m + a]
      /\ \A a \in 1 .. m : de[a] = re[a]
  BY Zenon DEF Matched
<1> HIDE DEF t
<1>3. m <= Len(t)
  BY <1>1, <1>2
<1>4. ASSUME NEW a \in 1 .. m PROVE t[a] = re[a]
  <2>1. a \in 1 .. Len(de)
    BY <1>1, <1>2
  <2> QED
    BY <1>1, <1>2, <2>1, Zenon
<1>5. Matched(r, m, b, t, re)
  BY <1>2, <1>3, <1>4, Zenon DEF Matched
<1> QED
  BY <1>5 DEF t

\* A detection of the device goes behind those on the way.
LEMMA ComingDecide ==
  ASSUME NEW d, DevOK(d), d.job # NoJob, NEW r, NEW b \in Nat, NEW m \in Nat, NEW de \in Seq(Events),
         NEW re \in Seq(Events), NEW u \in Seq(Replies \cup Events),
         b <= m, m <= Len(de), Behind(d, r, b, de, re), Coming(m, de, u)
  PROVE  Coming(m, Append(de, Event(d)), Append(u, Event(d)))
<1> DEFINE x == Event(d)
           t == Append(de, x)
           v == Append(u, x)
<1>1. x \in Events /\ x.nth = d.decided + 1 /\ d.decided \in Nat
  BY EventIs, Fields
<1> HIDE DEF x
<1>2. Len(t) = Len(de) + 1 /\ Len(de) \in Nat /\ t[Len(de) + 1] = x /\ \A a \in 1 .. Len(de) : t[a] = de[a]
  BY <1>1, Appended
<1>3. Len(v) = Len(u) + 1 /\ Len(u) \in Nat /\ v[Len(u) + 1] = x /\ \A a \in 1 .. Len(u) : v[a] = u[a]
  <2>1. x \in Replies \cup Events
    BY <1>1
  <2> QED
    BY <2>1, Appended
<1>4. /\ \A a \in 1 .. Len(u) : \E j \in m + 1 .. Len(de) : u[a] = de[j]
      /\ \A a, c \in 1 .. Len(u) : a < c => u[a].nth < u[c].nth
  BY Zenon DEF Coming
<1>5. \A j \in m + 1 .. Len(de) : de[j].nth <= d.decided /\ de[j].nth \in Nat
  <2>1. \A j \in m + 1 .. Len(de) : j \in b + 1 .. Len(de) /\ j \in 1 .. Len(de)
    BY <1>2
  <2> QED
    BY <2>1, EventsOf, Zenon DEF Behind, Lists
<1> HIDE DEF t, v
<1>6. ASSUME NEW a \in 1 .. Len(v) PROVE \E j \in m + 1 .. Len(t) : v[a] = t[j]
  <2>1. CASE a = Len(u) + 1
    <3>1. Len(de) + 1 \in m + 1 .. Len(t)
      BY <1>2
    <3> QED
      BY <1>2, <1>3, <2>1, <3>1
  <2>2. CASE a # Len(u) + 1
    <3>1. a \in 1 .. Len(u)
      BY <1>3, <2>2
    <3>2. PICK j \in m + 1 .. Len(de) : u[a] = de[j]
      BY <1>4, <3>1
    <3>3. j \in m + 1 .. Len(t) /\ j \in 1 .. Len(de)
      BY <1>2
    <3>4. v[a] = t[j]
      BY <1>2, <1>3, <3>1, <3>2, <3>3, Zenon
    <3> QED
      BY <3>3, <3>4
  <2> QED
    BY <2>1, <2>2
<1>7. ASSUME NEW a \in 1 .. Len(v), NEW c \in 1 .. Len(v), a < c PROVE v[a].nth < v[c].nth
  <2>1. a \in 1 .. Len(u)
    BY <1>3, <1>7
  <2>2. v[a] = u[a]
    BY <1>3, <2>1
  <2>3. CASE c = Len(u) + 1
    <3>1. PICK j \in m + 1 .. Len(de) : u[a] = de[j]
      BY <1>4, <2>1
    <3>2. v[a].nth <= d.decided /\ v[a].nth \in Nat
      BY <1>5, <2>2, <3>1
    <3> QED
      BY <1>1, <1>3, <2>3, <3>2
  <2>4. CASE c # Len(u) + 1
    <3>1. c \in 1 .. Len(u)
      BY <1>3, <2>4
    <3>2. v[c] = u[c] /\ u[a].nth < u[c].nth
      BY <1>3, <1>4, <1>7, <2>1, <3>1
    <3> QED
      BY <2>2, <3>2
  <2> QED
    BY <2>3, <2>4
<1>8. Coming(m, t, v)
  BY <1>6, <1>7, Zenon DEF Coming
<1> QED
  BY <1>8 DEF t, v, x

\* What comes is a detection not yet handled.
LEMMA ComingEvents ==
  ASSUME NEW m \in Nat, NEW de \in Seq(Events), NEW u, Coming(m, de, u), u # <<>>, u \in Seq(Replies \cup Events)
  PROVE  /\ u[1].type = "EVT" /\ Head(u) = u[1] /\ m + 1 <= Len(de) /\ Len(u) \in Nat \ {0}
         /\ \E j \in m + 1 .. Len(de) : u[1] = de[j]
<1>1. Len(u) \in Nat \ {0} /\ Head(u) = u[1]
  BY Heads
<1>2. 1 \in 1 .. Len(u)
  BY <1>1
<1>3. PICK j \in m + 1 .. Len(de) : u[1] = de[j]
  BY <1>2, Zenon DEF Coming
<1>4. Len(de) \in Nat /\ j \in 1 .. Len(de) /\ m + 1 <= Len(de)
  <2>1. Len(de) \in Nat
    BY EventsOf
  <2> QED
    BY <2>1
<1>5. de[j].type = "EVT"
  BY <1>4, EventsOf
<1> QED
  BY <1>1, <1>3, <1>4, <1>5

\* A packet is lost on the way from the device.
LEMMA ComingTail ==
  ASSUME NEW m \in Nat, NEW de \in Seq(Events), NEW u \in Seq(Replies \cup Events), u # <<>>, Coming(m, de, u)
  PROVE  Coming(m, de, Tail(u))
<1> DEFINE v == Tail(u)
<1>1. Len(u) \in Nat \ {0} /\ Len(v) = Len(u) - 1 /\ \A a \in 1 .. Len(v) : v[a] = u[a + 1]
  BY Heads
<1> HIDE DEF v
<1>2. \A a \in 1 .. Len(v) : a + 1 \in 1 .. Len(u)
  BY <1>1
<1>3. \A a, c \in 1 .. Len(v) : a < c => a + 1 < c + 1
  OBVIOUS
<1>4. \A a \in 1 .. Len(v) : \E j \in m + 1 .. Len(de) : v[a] = de[j]
  <2> SUFFICES ASSUME NEW a \in 1 .. Len(v) PROVE \E j \in m + 1 .. Len(de) : v[a] = de[j]
    OBVIOUS
  <2>1. \E j \in m + 1 .. Len(de) : u[a + 1] = de[j]
    BY <1>2, Zenon DEF Coming
  <2> QED
    BY <1>1, <2>1, Zenon
<1>5. \A a, c \in 1 .. Len(v) : a < c => v[a].nth < v[c].nth
  <2> SUFFICES ASSUME NEW a \in 1 .. Len(v), NEW c \in 1 .. Len(v), a < c PROVE v[a].nth < v[c].nth
    OBVIOUS
  <2>1. u[a + 1].nth < u[c + 1].nth
    BY <1>2, <1>3, Zenon DEF Coming
  <2>2. v[a] = u[a + 1] /\ v[c] = u[c + 1]
    BY <1>1, Zenon
  <2> QED
    BY <2>1, <2>2, Zenon
<1>6. Coming(m, de, v)
  BY <1>4, <1>5, Zenon DEF Coming
<1> QED
  BY <1>6 DEF v

\* The host takes a detection for the one expected: it is the device's next.
LEMMA HandleBehind ==
  ASSUME NEW d, NEW r \in Mirrors, NEW q \in Mirrors, NEW b \in Nat, NEW m \in Nat, NEW de \in Seq(Events),
         NEW re \in Seq(Events), NEW u \in Seq(Replies \cup Events), u # <<>>, r.evt # <<>>,
         Head(u) = Head(r.evt), q.evt = Tail(r.evt),
         Behind(d, r, b, de, re), Matched(r, m, b, de, re), Coming(m, de, u)
  PROVE  Matched(q, m + 1, b, de, re) /\ Coming(m + 1, de, Tail(u)) /\ u[1] = de[m + 1]
<1>1. /\ b <= m /\ m <= Len(de) /\ Len(re) = m + Len(r.evt)
      /\ \A a \in 1 .. Len(r.evt) : r.evt[a] = re[m + a]
      /\ \A a \in 1 .. m : de[a] = re[a]
  BY Zenon DEF Matched
<1>2. r.evt \in Seq(Events) /\ Len(de) \in Nat /\ Len(re) \in Nat
  BY MirrorFields, EventsOf
<1>3. /\ Len(r.evt) \in Nat \ {0} /\ Head(r.evt) = r.evt[1] /\ Len(q.evt) = Len(r.evt) - 1
      /\ \A a \in 1 .. Len(q.evt) : q.evt[a] = r.evt[a + 1]
  BY <1>2, Heads
<1>4. u[1].type = "EVT" /\ Head(u) = u[1] /\ m + 1 <= Len(de) /\ \E j \in m + 1 .. Len(de) : u[1] = de[j]
  BY ComingEvents
<1>5. Len(de) <= Len(re)
  BY DEF Behind
<1>6. u[1] = re[m + 1]
  <2>1. 1 \in 1 .. Len(r.evt)
    BY <1>3
  <2> QED
    BY <1>1, <1>3, <1>4, <2>1
<1>7. PICK j \in m + 1 .. Len(de) : u[1] = de[j]
  BY <1>4
<1>8. j = m + 1
  <2> SUFFICES ASSUME m + 1 < j PROVE FALSE
    OBVIOUS
  <2>1. j \in b + 1 .. Len(de) /\ j \in b + 1 .. Len(re) /\ m + 1 \in b + 1 .. Len(re) /\ m + 1 \in 1 .. Len(re)
    BY <1>1, <1>2, <1>4, <1>5
  <2>2. de[j].nth = re[j].nth /\ re[m + 1].nth < re[j].nth
    BY <2>1, Zenon DEF Behind, Lists
  <2>3. re[m + 1].nth \in Nat
    BY <2>1, EventsOf
  <2> QED
    BY <1>6, <1>7, <2>2, <2>3
<1>9. de[m + 1] = re[m + 1] /\ u[1] = de[m + 1]
  BY <1>6, <1>7, <1>8
<1>10. Matched(q, m + 1, b, de, re)
  <2>4. Len(r.evt) \in Nat /\ Len(q.evt) = Len(r.evt) - 1 /\ Len(re) = m + Len(r.evt) /\ b <= m
    BY <1>1, <1>3
  <2>1. b <= m + 1 /\ m + 1 <= Len(de) /\ Len(re) = (m + 1) + Len(q.evt)
    <3>1. m + 1 <= Len(de)
      BY <1>4
    <3>2. b <= m + 1
      BY <2>4
    <3>3. Len(re) = (m + 1) + Len(q.evt)
      <4>1. PICK z \in Nat : z = Len(r.evt)
        BY <2>4
      <4>2. Len(q.evt) = z - 1 /\ Len(re) = m + z
        BY <2>4, <4>1
      <4>3. m + z = (m + 1) + (z - 1)
        OBVIOUS
      <4> QED
        BY <4>2, <4>3, Zenon
    <3> QED
      BY <3>1, <3>2, <3>3
  <2>2. ASSUME NEW a \in 1 .. Len(q.evt) PROVE q.evt[a] = re[(m + 1) + a]
    <3>1. a + 1 \in 1 .. Len(r.evt) /\ m + (a + 1) = (m + 1) + a
      BY <2>4
    <3>2. q.evt[a] = r.evt[a + 1] /\ r.evt[a + 1] = re[m + (a + 1)]
      BY <1>1, <1>3, <3>1, Zenon
    <3> QED
      BY <3>1, <3>2, Zenon
  <2>3. ASSUME NEW a \in 1 .. m + 1 PROVE de[a] = re[a]
    <3>1. CASE a = m + 1
      BY <1>9, <3>1
    <3>2. CASE a # m + 1
      <4>1. a \in 1 .. m
        BY <3>2
      <4> QED
        BY <1>1, <4>1, Zenon
    <3> QED
      BY <3>1, <3>2
  <2> QED
    BY <2>1, <2>2, <2>3, Zenon DEF Matched
<1>11. Coming(m + 1, de, Tail(u))
  <2> DEFINE v == Tail(u)
  <2>1. Len(u) \in Nat \ {0} /\ Len(v) = Len(u) - 1 /\ \A a \in 1 .. Len(v) : v[a] = u[a + 1]
    BY Heads
  <2>2. Coming(m, de, v)
    BY ComingTail
  <2> HIDE DEF v
  <2>3. ASSUME NEW a \in 1 .. Len(v) PROVE \E c \in (m + 1) + 1 .. Len(de) : v[a] = de[c]
    <3>1. PICK c \in m + 1 .. Len(de) : v[a] = de[c]
      BY <2>2, Zenon DEF Coming
    <3>2. c # m + 1
      <4> SUFFICES ASSUME c = m + 1 PROVE FALSE
        OBVIOUS
      <4>1. 1 \in 1 .. Len(u) /\ a + 1 \in 1 .. Len(u) /\ 1 < a + 1
        BY <2>1
      <4>2. u[1].nth < u[a + 1].nth
        BY <4>1, Zenon DEF Coming
      <4>3. u[a + 1] = u[1]
        BY <1>9, <2>1, <3>1
      <4>4. u[1].nth \in Nat
        <5>1. m + 1 \in 1 .. Len(de)
          BY <1>2, <1>4
        <5> QED
          BY <1>9, <5>1, EventsOf
      <4> QED
        BY <4>2, <4>3, <4>4
    <3>3. c \in (m + 1) + 1 .. Len(de)
      BY <1>2, <3>2
    <3> QED
      BY <3>1, <3>3
  <2>4. Coming(m + 1, de, v)
    BY <2>2, <2>3, Zenon DEF Coming
  <2> QED
    BY <2>4 DEF v
<1> QED
  BY <1>9, <1>10, <1>11

-----------------------------------------------------------------------------
(* In a session in which nothing is lost. *)

\* The frame that comes to the device, and how many are committed then.
LEMMA ExactTakeIs ==
  ASSUME NEW first \in Nat, NEW cor \in SUBSET (0 .. FRAMES - 1), NEW k \in Nat, k <= FRAMES, NEW d, DevOK(d),
         NEW dn \in Seq(Requests), dn # <<>>, NEW r, Flow(first, cor, k, d, dn, r), Ready(d, Head(dn)),
         FlowExact(cor, k, d, dn), NEW s, s = k - Len(dn)
  PROVE  /\ s \in 0 .. FRAMES - 1 /\ d.commits = Good(cor, s)
         /\ dn[1].type = "GARBLED" => s \in cor /\ Good(cor, s + 1) = d.commits
         /\ dn[1].type = "FEATURE" => s \notin cor /\ Good(cor, s + 1) = d.commits + 1 /\ Nth(cor, d.commits + 1) = s
<1>1. s \in Nat /\ s < k /\ (dn[1].type = "FEATURE" => s \notin cor)
  <2>1. s \in Nat /\ s < k
    BY TakeIs
  <2>2. Len(dn) \in Nat \ {0}
    BY Heads
  <2>3. 1 \in 1 .. Len(dn) /\ FrameAt(k, dn, 1) = s
    BY <2>1, <2>2 DEF FrameAt
  <2>4. dn[1].type = "FEATURE" => FrameAt(k, dn, 1) \notin cor
    BY <2>3, Zenon DEF Flow, Carried
  <2> QED
    BY <2>1, <2>3, <2>4, Zenon
<1>2. s \in 0 .. FRAMES - 1
  BY <1>1, ScenarioAssumption
<1>3. d.commits = Good(cor, s)
  BY DEF FlowExact
<1>4. dn[1].type = "GARBLED" => s \in cor
  <2>1. Len(dn) \in Nat \ {0}
    BY Heads
  <2>2. 1 \in 1 .. Len(dn) /\ FrameAt(k, dn, 1) = s
    BY <1>1, <2>1 DEF FrameAt
  <2>3. FrameAt(k, dn, 1) \notin cor => dn[1].type = "FEATURE"
    BY <2>2, Zenon DEF FlowExact
  <2> QED
    BY <2>2, <2>3
<1>5. Good(cor, s + 1) = IF s \in cor THEN Good(cor, s) ELSE Good(cor, s) + 1
  BY <1>1, GoodGrows
<1>6. s \notin cor => Nth(cor, Good(cor, s) + 1) = s
  BY <1>2, NthIs
<1> QED
  BY <1>1, <1>2, <1>3, <1>4, <1>5, <1>6

\* The device takes what was sent: exactness is kept.
LEMMA ExactTake ==
  ASSUME NEW first \in Nat, NEW cor \in SUBSET (0 .. FRAMES - 1), NEW k \in Nat, k <= FRAMES, NEW d, DevOK(d),
         NEW dn \in Seq(Requests), dn # <<>>, NEW r, Flow(first, cor, k, d, dn, r), Windowed(d, r),
         Ready(d, Head(dn)), FlowExact(cor, k, d, dn), WindowExact(first, cor, d)
  PROVE  LET e == Receive(d, Head(dn))
         IN  /\ FlowExact(cor, k, e, Tail(dn)) /\ WindowExact(first, cor, e)
             /\ \A de : StatsExact(k, d, dn, r, de) => StatsExact(k, e, Tail(dn), r, de)
<1> USE DeviceAssumption
<1> DEFINE e == Receive(d, Head(dn))
           s == k - Len(dn)
<1>1. /\ s \in Nat /\ k - Len(Tail(dn)) = s + 1 /\ DevOK(e) /\ e.decided = d.decided
      /\ \/ dn[1].type = "GARBLED" /\ SameBut(e, d) /\ Counts(e, d, "crc")
         \/ /\ dn[1].type = "FEATURE" /\ s \notin cor /\ Counts(e, d, "frames_rx")
            /\ e.commits = d.commits + 1 /\ e.window = Shift(d.window, first + s)
            /\ e.job = IF EndsWindow(d.commits + 1) THEN e.window ELSE d.job
            /\ EndsWindow(d.commits + 1) => e.window \in Windows /\ Len(e.window) = WINDOW_LEN /\ d.job = NoJob
  BY TakeIs
<1>2. /\ s \in 0 .. FRAMES - 1 /\ d.commits = Good(cor, s)
      /\ dn[1].type = "GARBLED" => s \in cor /\ Good(cor, s + 1) = d.commits
      /\ dn[1].type = "FEATURE" => /\ s \notin cor /\ Good(cor, s + 1) = d.commits + 1
                                   /\ Nth(cor, d.commits + 1) = s
  <2>1. ASSUME NEW z, z = k - Len(dn)
        PROVE  /\ z \in 0 .. FRAMES - 1 /\ d.commits = Good(cor, z)
               /\ dn[1].type = "GARBLED" => z \in cor /\ Good(cor, z + 1) = d.commits
               /\ dn[1].type = "FEATURE" => /\ z \notin cor /\ Good(cor, z + 1) = d.commits + 1
                                            /\ Nth(cor, d.commits + 1) = z
    BY <2>1, ExactTakeIs
  <2> QED
    BY <2>1
<1> HIDE DEF e
<1>3. /\ d.commits \in Nat /\ d.decided \in Nat /\ d.window \in Seq(Nat)
      /\ Len(d.window) = IF d.commits < WINDOW_LEN THEN d.commits ELSE WINDOW_LEN
      /\ \A n \in Names : d.stats[n] \in Nat
  BY Fields
<1>4. FlowExact(cor, k, e, Tail(dn))
  <2>1. e.commits = Good(cor, s + 1)
    <3>1. CASE dn[1].type = "GARBLED" /\ SameBut(e, d)
      BY <1>2, <3>1 DEF SameBut
    <3>2. CASE dn[1].type = "FEATURE" /\ e.commits = d.commits + 1
      BY <1>2, <3>2
    <3> QED
      BY <1>1, <3>1, <3>2
  <2>2. ASSUME NEW a \in 1 .. Len(Tail(dn)), FrameAt(k, Tail(dn), a) \notin cor PROVE Tail(dn)[a].type = "FEATURE"
    <3>1. FrameAt(k, Tail(dn), a) = FrameAt(k, dn, a + 1) /\ Tail(dn)[a] = dn[a + 1] /\ a + 1 \in 1 .. Len(dn)
      BY CarriedTail DEF Flow
    <3>2. FrameAt(k, dn, a + 1) \notin cor => dn[a + 1].type = "FEATURE"
      BY <3>1, Zenon DEF FlowExact
    <3> QED
      BY <2>2, <3>1, <3>2, Zenon
  <2>3. e.commits = Good(cor, k - Len(Tail(dn)))
    BY <1>1, <2>1
  <2> QED
    BY <2>2, <2>3, Zenon DEF FlowExact
<1>5. ASSUME NEW de, StatsExact(k, d, dn, r, de) PROVE StatsExact(k, e, Tail(dn), r, de)
  <2>1. /\ d.stats["frames_rx"] = d.commits /\ d.stats["crc"] = s - d.commits
        /\ d.stats["dropped"] = 0 /\ d.stats["inferences"] = d.decided
        /\ d.stats["keywords"] = Len(de) /\ r.inferences = r.nth
    BY <1>5 DEF StatsExact
  <2>2. /\ "frames_rx" \in Names /\ "crc" \in Names /\ "dropped" \in Names /\ "inferences" \in Names /\ "keywords" \in Names
    BY DEF Names
  <2>3. CASE SameBut(e, d) /\ Counts(e, d, "crc")
    <3>1. /\ e.stats["crc"] = d.stats["crc"] + 1 /\ e.stats["frames_rx"] = d.stats["frames_rx"]
          /\ e.stats["dropped"] = d.stats["dropped"] /\ e.stats["inferences"] = d.stats["inferences"]
          /\ e.stats["keywords"] = d.stats["keywords"] /\ e.commits = d.commits
      BY <2>2, <2>3 DEF Counts, SameBut
    <3>2. e.stats["crc"] = (s + 1) - e.commits
      <4>1. s \in Nat /\ d.commits \in Nat
        BY <1>1, <1>3
      <4> HIDE DEF s
      <4>2. e.stats["crc"] = (s - d.commits) + 1 /\ e.commits = d.commits
        BY <2>1, <3>1
      <4> QED
        BY <4>1, <4>2
    <3> QED
      BY <1>1, <2>1, <3>1, <3>2 DEF StatsExact
  <2>4. CASE e.commits = d.commits + 1 /\ Counts(e, d, "frames_rx")
    <3>1. /\ e.stats["crc"] = d.stats["crc"] /\ e.stats["frames_rx"] = d.stats["frames_rx"] + 1
          /\ e.stats["dropped"] = d.stats["dropped"] /\ e.stats["inferences"] = d.stats["inferences"]
          /\ e.stats["keywords"] = d.stats["keywords"]
      BY <2>2, <2>4 DEF Counts
    <3>2. e.stats["crc"] = (s + 1) - e.commits /\ e.stats["frames_rx"] = e.commits
      BY <1>1, <1>3, <2>1, <2>4, <3>1
    <3> QED
      BY <1>1, <2>1, <3>1, <3>2 DEF StatsExact
  <2> QED
    BY <1>1, <2>3, <2>4
<1>6. WindowExact(first, cor, e)
  <2>1. /\ \A t \in 1 .. Len(d.window) : d.window[t] = first + Nth(cor, (d.commits - Len(d.window)) + t)
        /\ d.job # NoJob => d.job = WinOf(first, cor, d.decided + 1)
    BY Zenon DEF WindowExact
  <2>2. CASE SameBut(e, d)
    <3>1. e.commits = d.commits /\ e.window = d.window /\ e.job = d.job /\ e.decided = d.decided
      BY <2>2 DEF SameBut
    <3> QED
      BY <2>1, <3>1, Zenon DEF WindowExact
  <2>3. CASE /\ dn[1].type = "FEATURE" /\ e.commits = d.commits + 1 /\ e.window = Shift(d.window, first + s)
             /\ e.job = IF EndsWindow(d.commits + 1) THEN e.window ELSE d.job
             /\ EndsWindow(d.commits + 1) => e.window \in Windows /\ Len(e.window) = WINDOW_LEN /\ d.job = NoJob
    <3> DEFINE w == d.window
               v == e.window
               fn == first + s
               l == Len(d.window)
    <3>1. fn \in Nat /\ l <= WINDOW_LEN /\ l \in Nat
      BY <1>1, <1>3, LenProperties
    <3>2. /\ Len(v) = IF l < WINDOW_LEN THEN l + 1 ELSE WINDOW_LEN
          /\ v[Len(v)] = fn
          /\ l < WINDOW_LEN => \A t \in 1 .. l : v[t] = w[t]
          /\ l = WINDOW_LEN => \A t \in 1 .. WINDOW_LEN - 1 : v[t] = w[t + 1]
      <4>1. w \in Seq(Nat) /\ Len(w) <= WINDOW_LEN /\ v = Shift(w, fn)
        BY <1>3, <2>3, <3>1
      <4> HIDE DEF w, v, fn
      <4>2. /\ Len(v) = IF Len(w) < WINDOW_LEN THEN Len(w) + 1 ELSE WINDOW_LEN
            /\ v[Len(v)] = fn
            /\ Len(w) < WINDOW_LEN => \A t \in 1 .. Len(w) : v[t] = w[t]
            /\ Len(w) = WINDOW_LEN => \A t \in 1 .. WINDOW_LEN - 1 : v[t] = w[t + 1]
        BY <3>1, <4>1, ShiftIs, ZenonT(30)
      <4> QED
        BY <4>2 DEF w
    <3>3. fn = first + Nth(cor, d.commits + 1)
      BY <1>2, <2>3
    <3> HIDE DEF w, v, fn
    <3>4. ASSUME NEW t \in 1 .. Len(v) PROVE v[t] = first + Nth(cor, (e.commits - Len(v)) + t)
      <4>1. CASE t = Len(v)
        <5>1. (e.commits - Len(v)) + t = d.commits + 1
          <6>1. Len(v) \in Nat
            BY <3>1, <3>2
          <6> QED
            BY <1>3, <2>3, <4>1, <6>1
        <5> QED
          BY <3>2, <3>3, <4>1, <5>1
      <4>2. CASE t # Len(v) /\ l < WINDOW_LEN
        <5>1. t \in 1 .. l /\ (e.commits - Len(v)) + t = (d.commits - l) + t
          BY <1>3, <2>3, <3>1, <3>2, <4>2
        <5>2. v[t] = w[t] /\ w[t] = first + Nth(cor, (d.commits - l) + t)
          BY <2>1, <3>2, <4>2, <5>1 DEF w
        <5> QED
          BY <5>1, <5>2
      <4>3. CASE t # Len(v) /\ l = WINDOW_LEN
        <5>1. t \in 1 .. WINDOW_LEN - 1 /\ t + 1 \in 1 .. l /\ (e.commits - Len(v)) + t = (d.commits - l) + (t + 1)
          <6>1. Len(v) = WINDOW_LEN /\ e.commits = d.commits + 1 /\ d.commits \in Nat
            BY <1>3, <2>3, <3>2, <4>3
          <6>2. t \in 1 .. WINDOW_LEN - 1 /\ t + 1 \in 1 .. l
            BY <4>3, <6>1
          <6>3. (e.commits - Len(v)) + t = (d.commits - l) + (t + 1)
            BY <4>3, <6>1
          <6> QED
            BY <6>2, <6>3
        <5>2. v[t] = w[t + 1]
          BY <3>2, <4>3, <5>1
        <5>3. w[t + 1] = first + Nth(cor, (d.commits - l) + (t + 1))
          BY <2>1, <5>1, Zenon DEF w
        <5> QED
          BY <5>1, <5>2, <5>3
      <4> QED
        BY <3>1, <4>1, <4>2, <4>3
    <3>5. ASSUME e.job # NoJob PROVE e.job = WinOf(first, cor, e.decided + 1)
      <4>1. CASE ~EndsWindow(d.commits + 1)
        BY <1>1, <2>1, <2>3, <3>5, <4>1
      <4>2. CASE EndsWindow(d.commits + 1)
        <5>1. Counted(d.commits, d.decided)
          BY <2>3, <4>2 DEF Windowed, Ended
        <5>2. Start(d.decided + 1) = (d.commits + 1) - WINDOW_LEN
          BY <1>3, <4>2, <5>1, EndsAt
        <5>3. v \in [1 .. WINDOW_LEN -> Nat] /\ Len(v) = WINDOW_LEN /\ e.job = v
          BY <2>3, <4>2 DEF Windows, v
        <5>4. ASSUME NEW t \in 1 .. WINDOW_LEN PROVE v[t] = first + Nth(cor, Start(e.decided + 1) + t)
          <6>1. v[t] = first + Nth(cor, (e.commits - Len(v)) + t)
            BY <3>4, <5>3
          <6>2. e.commits - Len(v) = Start(e.decided + 1)
            BY <1>1, <2>3, <5>2, <5>3
          <6> QED
            BY <6>1, <6>2
        <5>5. v = [t \in 1 .. WINDOW_LEN |-> first + Nth(cor, Start(e.decided + 1) + t)]
          BY <5>3, <5>4
        <5> QED
          BY <5>3, <5>5 DEF WinOf
      <4> QED
        BY <4>1, <4>2
    <3> QED
      BY <3>4, <3>5, Zenon DEF WindowExact, v
  <2> QED
    BY <1>1, <2>2, <2>3
<1> QED
  BY <1>4, <1>5, <1>6 DEF e

\* The window decided is the one that is due.
LEMMA ExactDecide ==
  ASSUME NEW first \in Nat, NEW cor \in SUBSET (0 .. FRAMES - 1), NEW k, NEW d, DevOK(d), d.job # NoJob,
         NEW dn, NEW r, NEW b \in Nat, NEW m \in Nat, NEW de \in Seq(Events), NEW u \in Seq(Replies \cup Events),
         WindowExact(first, cor, d)
  PROVE  LET e == Decide(d)
             x == Event(d)
             df == IF Fires(d) THEN Append(de, x) ELSE de
             v == IF Fires(d) THEN Append(u, x) ELSE u
         IN  /\ WindowExact(first, cor, e)
             /\ FlowExact(cor, k, d, dn) => FlowExact(cor, k, e, dn)
             /\ EventsExact(first, cor, b, de) => EventsExact(first, cor, b, df)
             /\ UpExact(m, de, u) /\ m <= Len(de) => UpExact(m, df, v)
             /\ StatsExact(k, d, dn, r, de) => StatsExact(k, e, dn, r, df)
<1> USE DeviceAssumption
<1> DEFINE e == Decide(d)
           x == Event(d)
           df == IF Fires(d) THEN Append(de, x) ELSE de
           v == IF Fires(d) THEN Append(u, x) ELSE u
<1>1. /\ e.commits = d.commits /\ e.window = d.window /\ e.job = NoJob /\ e.decided = d.decided + 1
      /\ e.stats["inferences"] = d.stats["inferences"] + 1
      /\ e.stats["keywords"] = IF Fires(d) THEN d.stats["keywords"] + 1 ELSE d.stats["keywords"]
      /\ \A n \in {"frames_rx", "dropped", "crc"} : e.stats[n] = d.stats[n]
  BY DecideIs
<1>2. /\ x \in Events /\ x.nth = d.decided + 1 /\ x \in Replies \cup Events
      /\ x = [type |-> "EVT", fn |-> d.job[WINDOW_LEN], window |-> d.job, nth |-> d.decided + 1]
  BY EventIs
<1> HIDE DEF e, x
<1>3. d.job = WinOf(first, cor, d.decided + 1)
  BY DEF WindowExact
<1>4. x = Due(first, cor, d.decided + 1)
  <2>1. d.job[WINDOW_LEN] = first + Nth(cor, Start(d.decided + 1) + WINDOW_LEN)
    BY <1>3 DEF WinOf
  <2> QED
    BY <1>2, <1>3, <2>1 DEF Due
<1>5. /\ Len(de) \in Nat /\ Len(Append(de, x)) = Len(de) + 1 /\ Append(de, x)[Len(de) + 1] = x
      /\ \A a \in 1 .. Len(de) : Append(de, x)[a] = de[a]
  BY <1>2, Appended
<1>6. /\ Len(u) \in Nat /\ Len(Append(u, x)) = Len(u) + 1 /\ Append(u, x)[Len(u) + 1] = x
      /\ \A a \in 1 .. Len(u) : Append(u, x)[a] = u[a]
  BY <1>2, Appended
<1>7. WindowExact(first, cor, e)
  BY <1>1, Zenon DEF WindowExact
<1>8. FlowExact(cor, k, d, dn) => FlowExact(cor, k, e, dn)
  BY <1>1, Zenon DEF FlowExact
<1>9. ASSUME EventsExact(first, cor, b, de) PROVE EventsExact(first, cor, b, df)
  <2>1. CASE ~Fires(d)
    BY <1>9, <2>1
  <2>2. CASE Fires(d)
    <3> DEFINE t == Append(de, x)
    <3>1. Len(t) = Len(de) + 1 /\ t[Len(de) + 1] = x /\ \A a \in 1 .. Len(de) : t[a] = de[a]
      BY <1>5
    <3> HIDE DEF t
    <3>2. ASSUME NEW a \in b + 1 .. Len(t) PROVE t[a] = Due(first, cor, t[a].nth)
      <4>1. CASE a = Len(de) + 1
        BY <1>2, <1>4, <3>1, <4>1
      <4>2. CASE a # Len(de) + 1
        <5>1. a \in b + 1 .. Len(de) /\ a \in 1 .. Len(de)
          BY <1>5, <3>1, <4>2
        <5>2. t[a] = de[a] /\ de[a] = Due(first, cor, de[a].nth)
          BY <1>9, <3>1, <5>1, Zenon DEF EventsExact
        <5> QED
          BY <5>2, Zenon
      <4> QED
        BY <4>1, <4>2
    <3>3. EventsExact(first, cor, b, t)
      BY <3>2, Zenon DEF EventsExact
    <3> QED
      BY <2>2, <3>3 DEF t
  <2> QED
    BY <2>1, <2>2
<1>10. ASSUME UpExact(m, de, u), m <= Len(de) PROVE UpExact(m, df, v)
  <2>1. CASE ~Fires(d)
    BY <1>10, <2>1
  <2>2. CASE Fires(d)
    <3> DEFINE t == Append(de, x)
               z == Append(u, x)
    <3>1. Len(t) = Len(de) + 1 /\ t[Len(de) + 1] = x /\ \A a \in 1 .. Len(de) : t[a] = de[a]
      BY <1>5
    <3>2. Len(z) = Len(u) + 1 /\ z[Len(u) + 1] = x /\ \A a \in 1 .. Len(u) : z[a] = u[a]
      BY <1>6
    <3> HIDE DEF t, z
    <3>3. Len(u) = Len(de) - m /\ \A a \in 1 .. Len(u) : u[a] = de[m + a]
      BY <1>10, Zenon DEF UpExact
    <3>4. Len(z) = Len(t) - m
      BY <1>5, <1>6, <3>1, <3>2, <3>3
    <3>5. ASSUME NEW a \in 1 .. Len(z) PROVE z[a] = t[m + a]
      <4>1. CASE a = Len(u) + 1
        <5>1. m + a = Len(de) + 1
          BY <1>5, <1>6, <3>3, <4>1
        <5> QED
          BY <3>1, <3>2, <4>1, <5>1
      <4>2. CASE a # Len(u) + 1
        <5>1. a \in 1 .. Len(u) /\ m + a \in 1 .. Len(de)
          <6>1. PICK p \in Nat, q \in Nat : p = Len(u) /\ q = Len(de)
            BY <1>5, <1>6
          <6>2. p = q - m /\ Len(z) = p + 1
            BY <3>2, <3>3, <6>1
          <6>3. a \in 1 .. p /\ m + a \in 1 .. q
            BY <4>2, <6>1, <6>2
          <6> QED
            BY <6>1, <6>3
        <5> QED
          BY <3>1, <3>2, <3>3, <5>1, Zenon
      <4> QED
        BY <4>1, <4>2
    <3>6. UpExact(m, t, z)
      BY <3>4, <3>5, Zenon DEF UpExact
    <3> QED
      BY <2>2, <3>6 DEF t, z
  <2> QED
    BY <2>1, <2>2
<1>11. ASSUME StatsExact(k, d, dn, r, de) PROVE StatsExact(k, e, dn, r, df)
  <2>1. Len(df) = IF Fires(d) THEN Len(de) + 1 ELSE Len(de)
    BY <1>5
  <2>2. /\ e.stats["frames_rx"] = d.stats["frames_rx"] /\ e.stats["crc"] = d.stats["crc"]
        /\ e.stats["dropped"] = d.stats["dropped"]
    BY <1>1
  <2> QED
    BY <1>1, <1>11, <2>1, <2>2 DEF StatsExact
<1> QED
  BY <1>7, <1>8, <1>9, <1>10, <1>11 DEF e, x

\* The next detection that comes is the one expected.
LEMMA ExactHandle ==
  ASSUME NEW first, NEW cor, NEW d, NEW r \in Mirrors, NEW b \in Nat, NEW m \in Nat,
         NEW de \in Seq(Events), NEW re \in Seq(Events), NEW u \in Seq(Replies \cup Events), u # <<>>,
         Behind(d, r, b, de, re), Matched(r, m, b, de, re), Coming(m, de, u), UpExact(m, de, u),
         EventsExact(first, cor, b, de), EventsExact(first, cor, b, re)
  PROVE  r.evt # <<>> /\ Head(u) = Head(r.evt) /\ UpExact(m + 1, de, Tail(u))
<1>1. b <= m /\ m + 1 <= Len(de) /\ Len(de) <= Len(re) /\ Len(re) = m + Len(r.evt)
  BY ComingEvents, Zenon DEF Matched, Behind
<1>2. /\ Len(de) \in Nat /\ Len(re) \in Nat /\ r.evt \in Seq(Events) /\ Len(r.evt) \in Nat
  BY MirrorFields, EventsOf
<1>3. r.evt # <<>>
  <2>1. Len(r.evt) # 0
    BY <1>1, <1>2
  <2> QED
    BY <2>1
<1>4. Head(r.evt) = r.evt[1] /\ 1 \in 1 .. Len(r.evt)
  <2>1. Head(r.evt) = r.evt[1] /\ Len(r.evt) \in Nat \ {0}
    BY <1>2, <1>3, Heads
  <2> QED
    BY <2>1
<1>5. /\ Head(u) = u[1] /\ Len(u) \in Nat \ {0} /\ Len(Tail(u)) = Len(u) - 1
      /\ \A a \in 1 .. Len(Tail(u)) : Tail(u)[a] = u[a + 1]
  BY Heads
<1>6. 1 \in 1 .. Len(u) /\ m + 1 \in b + 1 .. Len(de) /\ m + 1 \in b + 1 .. Len(re)
  BY <1>1, <1>2, <1>5
<1>7. u[1] = de[m + 1]
  BY <1>6, Zenon DEF UpExact
<1>8. r.evt[1] = re[m + 1]
  BY <1>4, Zenon DEF Matched
<1>9. de[m + 1] = Due(first, cor, de[m + 1].nth) /\ re[m + 1] = Due(first, cor, re[m + 1].nth)
  BY <1>6, Zenon DEF EventsExact
<1>10. de[m + 1].nth = re[m + 1].nth
  BY <1>6, Zenon DEF Behind
<1>11. Head(u) = Head(r.evt)
  <2>1. de[m + 1] = re[m + 1]
    BY <1>9, <1>10, Zenon
  <2> QED
    BY <1>4, <1>5, <1>7, <1>8, <2>1, Zenon
<1> DEFINE v == Tail(u)
<1>12. UpExact(m + 1, de, v)
  <2>1. Len(u) = Len(de) - m /\ \A a \in 1 .. Len(u) : u[a] = de[m + a]
    BY Zenon DEF UpExact
  <2> HIDE DEF v
  <2>2. Len(v) = Len(u) - 1 /\ \A a \in 1 .. Len(v) : v[a] = u[a + 1]
    BY <1>5 DEF v
  <2>3. Len(v) = Len(de) - (m + 1)
    BY <1>2, <2>1, <2>2
  <2>4. ASSUME NEW a \in 1 .. Len(v) PROVE v[a] = de[(m + 1) + a]
    <3>1. Len(u) \in Nat /\ Len(v) = Len(u) - 1
      BY <1>5, <2>2
    <3>2. a + 1 \in 1 .. Len(u) /\ m + (a + 1) = (m + 1) + a
      BY <3>1
    <3>3. v[a] = u[a + 1] /\ u[a + 1] = de[m + (a + 1)]
      BY <2>1, <2>2, <3>2, Zenon
    <3> QED
      BY <3>2, <3>3, Zenon
  <2> QED
    BY <2>3, <2>4, Zenon DEF UpExact
<1> QED
  BY <1>3, <1>11, <1>12 DEF v

\* A frame sent, garbled when it is to be corrupted, is on the way.
LEMMA FlowExactSend ==
  ASSUME NEW cor \in SUBSET (0 .. FRAMES - 1), NEW k \in Nat, NEW d,
         NEW dn \in Seq(Requests), NEW p \in Requests, p.type = IF k \in cor THEN "GARBLED" ELSE "FEATURE",
         FlowExact(cor, k, d, dn)
  PROVE  FlowExact(cor, k + 1, d, Append(dn, p))
<1> DEFINE t == Append(dn, p)
<1>1. /\ Len(dn) \in Nat /\ Len(t) = Len(dn) + 1 /\ \A a \in 1 .. Len(dn) : t[a] = dn[a]
      /\ t[Len(dn) + 1] = p
  BY Appended
<1> HIDE DEF t
<1>2. (k + 1) - Len(t) = k - Len(dn)
  BY <1>1
<1>3. ASSUME NEW a \in 1 .. Len(t), FrameAt(k + 1, t, a) \notin cor PROVE t[a].type = "FEATURE"
  <2>1. CASE a = Len(dn) + 1
    <3>1. FrameAt(k + 1, t, a) = k /\ t[a] = p
      BY <1>1, <2>1 DEF FrameAt
    <3> QED
      BY <1>3, <3>1
  <2>2. CASE a # Len(dn) + 1
    <3>1. a \in 1 .. Len(dn) /\ FrameAt(k + 1, t, a) = FrameAt(k, dn, a)
      BY <1>1, <2>2 DEF FrameAt
    <3>2. t[a] = dn[a]
      BY <1>1, <3>1
    <3> QED
      BY <1>3, <3>1, <3>2, Zenon DEF FlowExact
  <2> QED
    BY <2>1, <2>2
<1>4. FlowExact(cor, k + 1, d, t)
  BY <1>2, <1>3, Zenon DEF FlowExact
<1> QED
  BY <1>4 DEF t

\* The mirror keeps a frame at its place in the ring.
RingSends(r, q, fn) == q.win = [r.win EXCEPT ![r.commits % WINDOW_LEN] = fn]

\* The reference commits the session's frame k.
LEMMA ExactSend ==
  ASSUME NEW first \in Nat, NEW cor \in SUBSET (0 .. FRAMES - 1), NEW k \in 0 .. FRAMES - 1, k \notin cor,
         NEW r \in Mirrors, NEW q \in Mirrors, NEW x, NEW fn, fn = first + k, RefDone(r, q, x),
         RingSends(r, q, fn), x = Observed(q, r.nth + 1, fn),
         r.commits = Good(cor, k), Counted(r.commits, r.nth), RingExact(first, cor, r)
  PROVE  RingExact(first, cor, q) /\ (EndsWindow(q.commits) => x = Due(first, cor, r.nth + 1))
<1> USE DeviceAssumption
<1> DEFINE c == r.commits
           L == WINDOW_LEN
<1>1. c \in Nat /\ r.nth \in Nat /\ r.win \in [0 .. WINDOW_LEN - 1 -> Nat] /\ q.commits = c + 1
  BY MirrorFields DEF RefDone
<1>2. fn = first + Nth(cor, c + 1)
  BY NthIs
<1>3. c % L \in 0 .. L - 1
  BY <1>1
<1> HIDE DEF c
<1>4. ASSUME NEW n \in 1 .. c + 1, n + L > c + 1 PROVE q.win[(n - 1) % L] = first + Nth(cor, n)
  <2>1. CASE n = c + 1
    <3>1. (n - 1) % L = c % L
      BY <1>1, <2>1
    <3>2. q.win[c % L] = fn
      BY <1>1, <1>3 DEF c, RingSends
    <3> QED
      BY <1>2, <2>1, <3>1, <3>2
  <2>2. CASE n # c + 1
    <3>1. n \in 1 .. c /\ n + L > c /\ n - 1 \in Nat /\ n - 1 < c /\ c < (n - 1) + L
      BY <1>1, <1>4, <2>2
    <3>2. (n - 1) % L # c % L
      BY <1>1, <3>1, OwnSlots
    <3>3. (n - 1) % L \in 0 .. L - 1
      BY <3>1
    <3>4. q.win[(n - 1) % L] = r.win[(n - 1) % L]
      <4> DEFINE y == (n - 1) % L
                 z == c % L
      <4>1. y # z /\ y \in 0 .. L - 1 /\ z \in 0 .. L - 1
        BY <1>3, <3>2, <3>3
      <4>2. q.win = [r.win EXCEPT ![z] = fn]
        BY DEF c, RingSends
      <4> HIDE DEF y, z
      <4>3. q.win[y] = r.win[y]
        BY <1>1, <4>1, <4>2
      <4> QED
        BY <4>3 DEF y
    <3>5. r.win[(n - 1) % L] = first + Nth(cor, n)
      BY <3>1, Zenon DEF RingExact, c
    <3> QED
      BY <3>4, <3>5, Zenon
  <2> QED
    BY <2>1, <2>2
<1>5. RingExact(first, cor, q)
  BY <1>1, <1>4, Zenon DEF RingExact
<1>6. ASSUME EndsWindow(q.commits) PROVE x = Due(first, cor, r.nth + 1)
  <2>1. /\ Start(r.nth + 1) \in Nat /\ Start(r.nth + 1) = (c + 1) - WINDOW_LEN
        /\ c + 1 = Start(r.nth + 1) + WINDOW_LEN
    <3>1. Counted(c, r.nth) /\ EndsWindow(c + 1)
      BY <1>1, <1>6 DEF c
    <3> QED
      BY <1>1, <3>1, EndsAt
  <2> DEFINE o == Start(r.nth + 1)
             v == [t \in 1 .. WINDOW_LEN |-> q.win[((q.commits - WINDOW_LEN) + (t - 1)) % WINDOW_LEN]]
  <2>2. ASSUME NEW t \in 1 .. WINDOW_LEN
        PROVE  q.win[((q.commits - WINDOW_LEN) + (t - 1)) % WINDOW_LEN] = first + Nth(cor, o + t)
    <3>1. o \in Nat /\ o = (c + 1) - WINDOW_LEN
      BY <2>1
    <3> HIDE DEF o
    <3>2. o + t \in 1 .. c + 1 /\ (o + t) + L > c + 1 /\ (q.commits - WINDOW_LEN) + (t - 1) = (o + t) - 1
      BY <1>1, <3>1
    <3>3. q.win[((o + t) - 1) % L] = first + Nth(cor, o + t)
      BY <1>4, <3>2
    <3> QED
      BY <3>2, <3>3
  <2>3. v = WinOf(first, cor, r.nth + 1)
    BY <2>2 DEF WinOf
  <2>4. x = [type |-> "EVT", fn |-> fn, window |-> v, nth |-> r.nth + 1]
    BY DEF Observed
  <2>5. fn = first + Nth(cor, Start(r.nth + 1) + WINDOW_LEN)
    BY <1>2, <2>1
  <2> HIDE DEF v
  <2> QED
    BY <2>3, <2>4, <2>5 DEF Due
<1> QED
  BY <1>5, <1>6

\* The detection the reference adds is the one that is due.
LEMMA EventsExactSend ==
  ASSUME NEW first, NEW cor, NEW r \in Mirrors, NEW q, NEW x, NEW b \in Nat, NEW re \in Seq(Events), NEW rf,
         RefDone(r, q, x), RefEvents(r, q, x, re, rf), EndsWindow(q.commits) => x = Due(first, cor, r.nth + 1),
         EventsExact(first, cor, b, re)
  PROVE  EventsExact(first, cor, b, rf)
<1>1. \/ rf = re
      \/ x \in Events /\ x.nth = r.nth + 1 /\ x = Due(first, cor, r.nth + 1) /\ rf = Append(re, x)
  BY DEF RefDone, RefEvents
<1>2. CASE rf = re
  BY <1>2
<1>3. CASE x \in Events /\ x.nth = r.nth + 1 /\ x = Due(first, cor, r.nth + 1) /\ rf = Append(re, x)
  <2>1. Len(re) \in Nat /\ Len(rf) = Len(re) + 1 /\ rf[Len(re) + 1] = x /\ \A a \in 1 .. Len(re) : rf[a] = re[a]
    BY <1>3, Appended
  <2>2. ASSUME NEW a \in b + 1 .. Len(rf) PROVE rf[a] = Due(first, cor, rf[a].nth)
    <3>1. CASE a = Len(re) + 1
      BY <1>3, <2>1, <3>1
    <3>2. CASE a # Len(re) + 1
      <4>1. a \in b + 1 .. Len(re) /\ a \in 1 .. Len(re)
        BY <2>1, <3>2
      <4>2. rf[a] = re[a] /\ re[a] = Due(first, cor, re[a].nth)
        BY <2>1, <4>1, Zenon DEF EventsExact
      <4> QED
        BY <4>2, Zenon
    <3> QED
      BY <3>1, <3>2
  <2> QED
    BY <2>2, Zenon DEF EventsExact
<1> QED
  BY <1>1, <1>2, <1>3

\* At the end of a session both sides have made the same detections, and some.
LEMMA AllMatched ==
  ASSUME NEW first \in Nat, NEW cor \in SUBSET (0 .. FRAMES - 1), FRAMES - Cardinality(CORRUPT) <= Good(cor, FRAMES),
         NEW d, DevOK(d), d.job = NoJob, NEW dn, dn = <<>>, NEW u, u = <<>>,
         NEW r \in Mirrors, NEW b \in Nat, NEW m \in Nat, NEW de \in Seq(Events), NEW re \in Seq(Events),
         Flow(first, cor, FRAMES, d, dn, r), Windowed(d, r), Behind(d, r, b, de, re), Matched(r, m, b, de, re),
         FlowExact(cor, FRAMES, d, dn), UpExact(m, de, u)
  PROVE  r.evt = <<>> /\ m > b /\ d.commits = r.commits /\ d.decided = r.nth /\ Len(de) = m
<1> USE ScenarioAssumption, DeviceAssumption
<1>1. /\ r.nth \in Nat /\ r.commits \in Nat /\ d.commits \in Nat /\ d.decided \in Nat /\ Len(de) \in Nat /\ Len(re) \in Nat
      /\ r.evt \in Seq(Events) /\ Len(r.evt) \in Nat
  BY MirrorFields, EventsOf, Fields
<1>2. d.commits = Good(cor, FRAMES) /\ r.commits = Good(cor, FRAMES)
  <2>1. FRAMES - Len(dn) = FRAMES
    OBVIOUS
  <2> QED
    BY <2>1 DEF Flow, FlowExact
<1>3. d.decided = r.nth
  <2>1. Counted(r.commits, r.nth) /\ Counted(r.commits, d.decided)
    BY <1>2 DEF Windowed, Ended
  <2> QED
    BY <1>1, <2>1, CountedOnce
<1>4. Len(de) = m /\ b <= m /\ Len(re) = m + Len(r.evt) /\ m <= Len(re)
  <2>1. Len(u) = Len(de) - m /\ Len(u) = 0
    BY DEF UpExact
  <2>2. b <= m /\ Len(re) = m + Len(r.evt)
    BY DEF Matched
  <2> QED
    BY <1>1, <2>1, <2>2
<1>5. /\ \A a \in b + 1 .. Len(re) : re[a].nth \in FIRING /\ 1 <= re[a].nth /\ re[a].nth <= r.nth
      /\ \A a, c \in b + 1 .. Len(re) : a < c => re[a].nth < re[c].nth
      /\ \A q \in FIRING : 1 <= q /\ q <= r.nth => \E a \in b + 1 .. Len(re) : re[a].nth = q
      /\ \A q \in FIRING : 1 <= q /\ q <= r.nth => \E a \in b + 1 .. Len(de) : de[a].nth = q
      /\ \A a \in b + 1 .. Len(de) : de[a].nth = re[a].nth
  BY <1>3, Zenon DEF Behind, Lists
<1>6. Len(re) = m
  <2> SUFFICES ASSUME m < Len(re) PROVE FALSE
    BY <1>1, <1>4
  <2> DEFINE l == m + 1
  <2>1. l \in b + 1 .. Len(re) /\ l \in 1 .. Len(re)
    BY <1>1, <1>4
  <2>2. re[l].nth \in FIRING /\ 1 <= re[l].nth /\ re[l].nth <= r.nth /\ re[l].nth \in Nat
    <3>1. re[l].nth \in Nat
      BY <2>1, EventsOf
    <3> QED
      BY <1>5, <2>1, <3>1
  <2>3. PICK a \in b + 1 .. Len(de) : de[a].nth = re[l].nth
    BY <1>5, <2>2
  <2>4. a \in b + 1 .. Len(re) /\ a < l
    BY <1>1, <1>4
  <2>5. re[a].nth < re[l].nth /\ re[a].nth = re[l].nth
    BY <1>5, <2>1, <2>3, <2>4
  <2> QED
    BY <2>2, <2>5
<1>7. r.evt = <<>>
  <2>1. Len(r.evt) = 0
    BY <1>1, <1>4, <1>6
  <2> QED
    BY <1>1, <2>1
<1>8. m > b
  <2>1. PICK q \in FIRING \ {0} : WINDOW_LEN + (q - 1) * WINDOW_STRIDE <= FRAMES - Cardinality(CORRUPT)
    OBVIOUS
  <2>2. q \in Nat \ {0}
    BY <2>1
  <2>3. WINDOW_LEN + (q - 1) * WINDOW_STRIDE <= r.commits
    <3> DEFINE y == WINDOW_LEN + (q - 1) * WINDOW_STRIDE
               z == FRAMES - Cardinality(CORRUPT)
    <3>1. y <= z /\ z <= r.commits
      BY <1>2, <2>1
    <3>2. y \in Int /\ z \in Int
      <4>1. Cardinality(CORRUPT) \in Nat
        BY SessionFacts DEF Sessions
      <4>2. (q - 1) \in Int /\ (q - 1) * WINDOW_STRIDE \in Int
        BY <2>2
      <4> QED
        BY <4>1, <4>2
    <3> HIDE DEF y, z
    <3>3. y <= r.commits
      BY <1>1, <3>1, <3>2
    <3> QED
      BY <3>3 DEF y
  <2>4. q <= r.nth /\ 1 <= q
    <3>1. Counted(r.commits, r.nth) /\ r.commits \in Nat /\ r.nth \in Nat
      BY <1>1 DEF Windowed
    <3>2. q <= r.nth
      BY <2>2, <2>3, <3>1, CountedReached
    <3> QED
      BY <2>2, <3>2
  <2>5. PICK a \in b + 1 .. Len(re) : re[a].nth = q
    BY <1>5, <2>4
  <2> QED
    BY <1>6, <2>5
<1> QED
  BY <1>2, <1>3, <1>4, <1>7, <1>8

-----------------------------------------------------------------------------
(* In a session: what the actions keep. *)

\* All that a session's invariant speaks of.
Both == <<dev, down, up, g_ref, evt_matched, before, dev_evts, ref_evts>>

\* Nothing of it has changed.
LEMMA SessionStays ==
  ASSUME NEW first, NEW cor, NEW k, SessionInv(first, cor, k), UNCHANGED Both
  PROVE  SessionInv(first, cor, k)'
BY DEF SessionInv, Both

\* In a session the device has no more commits than the reference.
LEMMA FlowBound ==
  ASSUME NEW first, NEW cor \in SUBSET (0 .. FRAMES - 1), NEW k \in Nat, NEW d, DevOK(d),
         NEW dn \in Seq(Requests), NEW r, Flow(first, cor, k, d, dn, r)
  PROVE  d.commits <= r.commits
<1>1. /\ Len(dn) \in Nat /\ Len(dn) <= k
      /\ r.commits = Good(cor, k) /\ d.commits <= Good(cor, k - Len(dn))
  BY LenProperties, Zenon DEF Flow, Carried
<1>2. k - Len(dn) \in Nat /\ k - Len(dn) <= k
  BY <1>1
<1>3. /\ Good(cor, k - Len(dn)) <= Good(cor, k) /\ Good(cor, k) \in Nat /\ Good(cor, k - Len(dn)) \in Nat
  BY <1>2, GoodGrows
<1>4. d.commits \in Nat
  BY Fields
<1> QED
  BY <1>1, <1>3, <1>4

\* DevTake.
LEMMA SessionTake ==
  ASSUME NEW first \in Nat, NEW cor \in SUBSET (0 .. FRAMES - 1), NEW k \in Nat, TypeOK,
         SessionInv(first, cor, k), DevTake
  PROVE  SessionInv(first, cor, k)'
<1> DEFINE e == Receive(dev, Head(down))
<1>1. /\ DevOK(dev) /\ down \in Seq(Requests) /\ g_ref \in Mirrors
  BY DEF TypeOK
<1>2. /\ down # <<>> /\ Ready(dev, Head(down)) /\ down' = Tail(down) /\ dev' = e
      /\ UNCHANGED <<up, g_ref, evt_matched, before, dev_evts, ref_evts>>
  BY DEF DevTake, testVars, histVars
<1>3. /\ Flow(first, cor, k, dev, down, g_ref) /\ Windowed(dev, g_ref)
      /\ Behind(dev, g_ref, before, dev_evts, ref_evts)
      /\ Matched(g_ref, evt_matched, before, dev_evts, ref_evts)
      /\ Coming(evt_matched, dev_evts, up)
  BY DEF SessionInv
<1>4. Flow(first, cor, k, e, Tail(down), g_ref) /\ Windowed(e, g_ref)
  BY <1>1, <1>2, <1>3, FlowTake
<1>5. e.decided = dev.decided
  BY <1>1, <1>2, <1>3, TakeIs
<1> HIDE DEF e
<1>6. Behind(e, g_ref, before, dev_evts, ref_evts)
  BY <1>3, <1>5 DEF Behind
<1> QED
  BY <1>2, <1>3, <1>4, <1>6 DEF SessionInv

\* DevDecide.
LEMMA SessionDecide ==
  ASSUME NEW first \in Nat, NEW cor \in SUBSET (0 .. FRAMES - 1), NEW k \in Nat, TypeOK,
         SessionInv(first, cor, k), DevDecide
  PROVE  SessionInv(first, cor, k)'
<1> DEFINE e == Decide(dev)
           x == Event(dev)
<1>1. /\ DevOK(dev) /\ down \in Seq(Requests) /\ g_ref \in Mirrors /\ up \in Seq(Replies \cup Events)
      /\ dev_evts \in Seq(Events) /\ ref_evts \in Seq(Events) /\ before \in Nat /\ evt_matched \in Nat
  BY DEF TypeOK
<1>2. /\ dev.job # NoJob /\ dev' = e
      /\ IF Fires(dev) THEN up' = Append(up, x) /\ dev_evts' = Append(dev_evts, x) ELSE UNCHANGED <<up, dev_evts>>
      /\ UNCHANGED <<down, g_ref, evt_matched, before, ref_evts>>
  BY DEF DevDecide, testVars
<1>3. /\ Flow(first, cor, k, dev, down, g_ref) /\ Windowed(dev, g_ref)
      /\ Behind(dev, g_ref, before, dev_evts, ref_evts)
      /\ Matched(g_ref, evt_matched, before, dev_evts, ref_evts)
      /\ Coming(evt_matched, dev_evts, up)
  BY DEF SessionInv
<1>4. before <= evt_matched /\ evt_matched <= Len(dev_evts) /\ Len(dev_evts) \in Nat
  BY <1>1, <1>3, LenProperties DEF Matched
<1>5. before <= Len(dev_evts)
  BY <1>1, <1>4
<1>6. dev.commits <= g_ref.commits
  BY <1>1, <1>3, FlowBound
<1>7. /\ Windowed(e, g_ref)
      /\ ~Fires(dev) => Behind(e, g_ref, before, dev_evts, ref_evts)
      /\ Fires(dev) => Behind(e, g_ref, before, Append(dev_evts, x), ref_evts)
  BY <1>1, <1>2, <1>3, <1>5, <1>6, DecideBehind
<1>8. x \in Events
  BY <1>1, <1>2, EventIs
<1>9. Matched(g_ref, evt_matched, before, Append(dev_evts, x), ref_evts)
  BY <1>1, <1>3, <1>8, MatchedDecide
<1>10. Coming(evt_matched, Append(dev_evts, x), Append(up, x))
  BY <1>1, <1>2, <1>3, <1>4, ComingDecide
<1>11. Flow(first, cor, k, e, down, g_ref)
  <2>1. e.stream = dev.stream /\ e.rsp = dev.rsp /\ e.commits = dev.commits
    BY <1>1, DecideIs
  <2> HIDE DEF e
  <2> QED
    BY <1>3, <2>1 DEF Flow
<1> HIDE DEF e, x
<1>12. CASE Fires(dev)
  <2>1. up' = Append(up, x) /\ dev_evts' = Append(dev_evts, x)
    BY <1>2, <1>12
  <2> QED
    BY <1>2, <1>7, <1>9, <1>10, <1>11, <1>12, <2>1 DEF SessionInv
<1>13. CASE ~Fires(dev)
  <2>1. up' = up /\ dev_evts' = dev_evts
    BY <1>2, <1>13
  <2> QED
    BY <1>2, <1>3, <1>7, <1>11, <1>13, <2>1 DEF SessionInv
<1> QED
  BY <1>12, <1>13

\* Lose.
LEMMA SessionLose ==
  ASSUME NEW first \in Nat, NEW cor \in SUBSET (0 .. FRAMES - 1), NEW k \in Nat, TypeOK,
         SessionInv(first, cor, k), Lose
  PROVE  SessionInv(first, cor, k)'
<1>1. /\ DevOK(dev) /\ down \in Seq(Requests) /\ up \in Seq(Replies \cup Events)
      /\ dev_evts \in Seq(Events) /\ evt_matched \in Nat
  BY DEF TypeOK
<1>2. /\ UNCHANGED <<dev, g_ref, evt_matched, before, dev_evts, ref_evts>>
      /\ \/ down # <<>> /\ down' \in {Tail(down), Garble(down)} /\ up' = up
         \/ up # <<>> /\ up' = Tail(up) /\ down' = down
  BY DEF Lose, testVars, Garble
<1>3. /\ Flow(first, cor, k, dev, down, g_ref) /\ Windowed(dev, g_ref)
      /\ Behind(dev, g_ref, before, dev_evts, ref_evts)
      /\ Matched(g_ref, evt_matched, before, dev_evts, ref_evts)
      /\ Coming(evt_matched, dev_evts, up)
  BY DEF SessionInv
<1>4. CASE down # <<>> /\ down' \in {Tail(down), Garble(down)} /\ up' = up
  <2>1. Flow(first, cor, k, dev, Tail(down), g_ref) /\ Flow(first, cor, k, dev, Garble(down), g_ref)
    BY <1>1, <1>3, <1>4, FlowLose
  <2>2. CASE down' = Tail(down)
    BY <1>2, <1>3, <1>4, <2>1, <2>2 DEF SessionInv
  <2>3. CASE down' = Garble(down)
    BY <1>2, <1>3, <1>4, <2>1, <2>3 DEF SessionInv
  <2> QED
    BY <1>4, <2>2, <2>3
<1>5. CASE up # <<>> /\ up' = Tail(up) /\ down' = down
  <2>1. Coming(evt_matched, dev_evts, Tail(up))
    BY <1>1, <1>3, <1>5, ComingTail
  <2> QED
    BY <1>2, <1>3, <1>5, <2>1 DEF SessionInv
<1> QED
  BY <1>2, <1>4, <1>5

\* TakeEvent, without an error.
LEMMA SessionEvent ==
  ASSUME NEW first \in Nat, NEW cor \in SUBSET (0 .. FRAMES - 1), NEW k \in Nat, TypeOK,
         SessionInv(first, cor, k), TakeEvent, ~g_errors'
  PROVE  SessionInv(first, cor, k)'
<1>1. /\ DevOK(dev) /\ g_ref \in Mirrors /\ up \in Seq(Replies \cup Events) /\ g_errors \in BOOLEAN
      /\ dev_evts \in Seq(Events) /\ ref_evts \in Seq(Events) /\ before \in Nat /\ evt_matched \in Nat
  BY DEF TypeOK
<1>2. /\ up # <<>> /\ HandleEvent(Head(up)) /\ up' = Tail(up)
      /\ UNCHANGED <<dev, down, before, dev_evts, ref_evts>>
  BY DEF TakeEvent, histVars
<1>3. /\ Flow(first, cor, k, dev, down, g_ref) /\ Windowed(dev, g_ref)
      /\ Behind(dev, g_ref, before, dev_evts, ref_evts)
      /\ Matched(g_ref, evt_matched, before, dev_evts, ref_evts)
      /\ Coming(evt_matched, dev_evts, up)
  BY DEF SessionInv
<1>4. g_ref.evt # <<>> /\ Head(up) = Head(g_ref.evt)
  BY <1>1, <1>2, HandleIs
<1>5. /\ g_ref' \in Mirrors /\ g_ref'.evt = Tail(g_ref.evt) /\ evt_matched' = evt_matched + 1
      /\ g_ref'.commits = g_ref.commits /\ g_ref'.nth = g_ref.nth
  BY <1>1, <1>2, <1>4, HandleIs
<1>6. Matched(g_ref', evt_matched + 1, before, dev_evts, ref_evts) /\ Coming(evt_matched + 1, dev_evts, Tail(up))
  BY <1>1, <1>2, <1>3, <1>4, <1>5, HandleBehind, ZenonT(30)
<1>7. /\ Flow(first, cor, k, dev, down, g_ref') /\ Windowed(dev, g_ref')
      /\ Behind(dev, g_ref', before, dev_evts, ref_evts)
  BY <1>3, <1>5 DEF Flow, Windowed, Behind
<1> QED
  BY <1>2, <1>5, <1>6, <1>7 DEF SessionInv

\* What FeatureStep does for the k-th frame of a session, corrupted or not.
Sends(first, cor, k) ==
  LET fn == first + k
  IN  /\ down' = Append(down, [type |-> IF k \in cor THEN "GARBLED" ELSE "FEATURE", fn |-> fn, id |-> 0])
      /\ IF k \notin cor THEN RefCommit(fn) ELSE UNCHANGED <<g_ref, ref_evts>>
      /\ UNCHANGED <<dev, up, evt_matched, before, dev_evts>>

\* A frame that is not corrupted is one more to the reference.
LEMMA RefSends ==
  ASSUME TypeOK, NEW fn \in Nat, RefCommit(fn), NEW x, x = Observed(g_ref', g_ref.nth + 1, fn)
  PROVE  /\ g_ref' \in Mirrors /\ RefDone(g_ref, g_ref', x) /\ RefEvents(g_ref, g_ref', x, ref_evts, ref_evts')
         /\ g_ref'.win = [g_ref.win EXCEPT ![g_ref.commits % WINDOW_LEN] = fn]
         /\ g_ref.inferences = g_ref.nth => g_ref'.inferences = g_ref'.nth
<1>1. g_ref \in Mirrors /\ ref_evts \in Seq(Events)
  BY DEF TypeOK
<1>2. /\ g_ref' \in Mirrors /\ g_ref'.commits = g_ref.commits + 1
      /\ g_ref'.win = [g_ref.win EXCEPT ![g_ref.commits % WINDOW_LEN] = fn]
      /\ ~EndsWindow(g_ref.commits + 1) => g_ref'.nth = g_ref.nth /\ g_ref'.inferences = g_ref.inferences
      /\ EndsWindow(g_ref.commits + 1) => g_ref'.nth = g_ref.nth + 1 /\ g_ref'.inferences = g_ref.inferences + 1
      /\ ~(EndsWindow(g_ref.commits + 1) /\ g_ref.nth + 1 \in FIRING) =>
           g_ref'.evt = g_ref.evt /\ ref_evts' = ref_evts
      /\ EndsWindow(g_ref.commits + 1) /\ g_ref.nth + 1 \in FIRING =>
           x \in Events /\ g_ref'.evt = Append(g_ref.evt, x) /\ ref_evts' = Append(ref_evts, x)
  BY <1>1, RefCommitIs
<1>3. x.nth = g_ref.nth + 1
  BY DEF Observed
<1> HIDE DEF Events
<1>4. RefDone(g_ref, g_ref', x) /\ RefEvents(g_ref, g_ref', x, ref_evts, ref_evts')
  BY <1>2, <1>3 DEF RefDone, RefEvents
<1> QED
  BY <1>2, <1>4

\* FeatureStep.
LEMMA SessionSend ==
  ASSUME NEW first \in Nat, NEW cor \in SUBSET (0 .. FRAMES - 1), NEW k \in Nat, TypeOK,
         SessionInv(first, cor, k), Sends(first, cor, k)
  PROVE  SessionInv(first, cor, k + 1)'
<1> DEFINE p == [type |-> IF k \in cor THEN "GARBLED" ELSE "FEATURE", fn |-> first + k, id |-> 0]
           x == Observed(g_ref', g_ref.nth + 1, first + k)
<1>1. /\ DevOK(dev) /\ down \in Seq(Requests) /\ g_ref \in Mirrors /\ up \in Seq(Replies \cup Events)
      /\ dev_evts \in Seq(Events) /\ ref_evts \in Seq(Events) /\ before \in Nat /\ evt_matched \in Nat
  BY DEF TypeOK
<1>2. /\ down' = Append(down, p) /\ UNCHANGED <<dev, up, evt_matched, before, dev_evts>>
      /\ k \notin cor => RefCommit(first + k)
      /\ k \in cor => UNCHANGED <<g_ref, ref_evts>>
  BY DEF Sends
<1>3. /\ Flow(first, cor, k, dev, down, g_ref) /\ Windowed(dev, g_ref)
      /\ Behind(dev, g_ref, before, dev_evts, ref_evts)
      /\ Matched(g_ref, evt_matched, before, dev_evts, ref_evts)
      /\ Coming(evt_matched, dev_evts, up)
  BY DEF SessionInv
<1>4. /\ p \in Requests /\ p.type = IF k \in cor THEN "GARBLED" ELSE "FEATURE"
      /\ p.fn = first + k /\ first + k \in Nat
  BY DEF Requests, Types
<1>5. CASE k \in cor
  <2>1. g_ref' = g_ref /\ ref_evts' = ref_evts
    BY <1>2, <1>5
  <2>2. Flow(first, cor, k + 1, dev, Append(down, p), g_ref)
    <3> HIDE DEF p
    <3> QED
      BY <1>1, <1>3, <1>4, <1>5, FlowSend
  <2> HIDE DEF p
  <2> QED
    BY <1>2, <1>3, <2>1, <2>2 DEF SessionInv
<1>6. CASE k \notin cor
  <2>1. /\ g_ref' \in Mirrors /\ RefDone(g_ref, g_ref', x) /\ RefEvents(g_ref, g_ref', x, ref_evts, ref_evts')
    BY <1>2, <1>4, <1>6, RefSends
  <2> HIDE DEF p, x
  <2>2. g_ref'.commits = g_ref.commits + 1
    BY <2>1 DEF RefDone
  <2>3. Flow(first, cor, k + 1, dev, Append(down, p), g_ref')
    BY <1>1, <1>3, <1>4, <1>6, <2>1, <2>2, FlowSend
  <2>4. Windowed(dev, g_ref')
    BY <1>1, <1>3, <2>1, WindowedSend
  <2>5. before <= Len(dev_evts) /\ Len(dev_evts) <= Len(ref_evts)
    <3>1. /\ before <= evt_matched /\ evt_matched <= Len(dev_evts) /\ Len(dev_evts) \in Nat
          /\ Len(dev_evts) <= Len(ref_evts)
      BY <1>1, <1>3, LenProperties, Zenon DEF Matched, Behind
    <3> QED
      BY <1>1, <3>1
  <2>6. ref_evts' \in Seq(Events)
    <3>1. x \in Events => Append(ref_evts, x) \in Seq(Events)
      BY <1>1, Appended
    <3> QED
      BY <1>1, <2>1, <2>2, <3>1 DEF RefEvents, RefDone
  <2>7. Behind(dev, g_ref', before, dev_evts, ref_evts')
    BY <1>1, <1>3, <2>1, <2>5, <2>6, BehindSend
  <2>8. Matched(g_ref', evt_matched, before, dev_evts, ref_evts')
    BY <1>1, <1>3, <2>1, <2>5, <2>6, MatchedSend
  <2> QED
    BY <1>2, <1>3, <2>3, <2>4, <2>7, <2>8 DEF SessionInv
<1> QED
  BY <1>5, <1>6

-----------------------------------------------------------------------------
(* In a session: where the script is. *)

\* The steps of a session, by their places.
LEMMA Inside ==
  ASSUME TypeOK, Control, NEW base \in Sessions, InSession(base)
  PROVE  /\ ~Done /\ At \in Int /\ At - base \in 1 .. FRAMES + 2 /\ At = i - Lead /\ Lead \in {2, 3} /\ i \in Nat
         /\ ~Calm /\ Step.op \notin {"ask", "ref_reset"} /\ pc # "wait"
         /\ Step.op = "feature" =>
              /\ At - base \in 1 .. FRAMES
              /\ Step = Feature(First(base) + ((At - base) - 1), ((At - base) - 1) \in Cor(base), TRUE)
         /\ Step.op = "drain" <=> At = base + FRAMES + 1
         /\ Step.op = "matched" <=> At = base + FRAMES + 2
<1>1. /\ Lead \in {2, 3} /\ At \in Int /\ At = i - Lead /\ FRAMES \in Nat \ {0} /\ (Done => At >= 2 * FRAMES + 18)
  BY Everywhere
<1>2. base \in {2, FRAMES + 15} /\ At - base \in 1 .. FRAMES + 2 /\ At \in base + 1 .. base + FRAMES + 2
  BY <1>1 DEF Sessions, InSession
<1>3. ~Done
  BY <1>1, <1>2
<1>4. ~Calm /\ ~Asking /\ At # FRAMES + 7 /\ At \notin Sessions
  BY <1>1, <1>2, Between DEF Calm
<1>5. /\ Step.op = "ask" => Asking
      /\ Step.op = "feature" => \E b \in Sessions : At \in b + 1 .. b + FRAMES
      /\ Step.op = "drain" => \E b \in Sessions : At = b + FRAMES + 1
      /\ Step.op = "matched" => \E b \in Sessions : At = b + FRAMES + 2
      /\ Step.op = "ref_reset" => At \in Sessions
  <2>1. /\ Step.op = "ask" => Asking
        /\ Step.op = "drain" => \E b \in Sessions : At = b + FRAMES + 1
        /\ Step.op = "matched" => \E b \in Sessions : At = b + FRAMES + 2
        /\ Step.op = "ref_reset" => At \in Sessions
    BY <1>3, Kinds
  <2>2. Step.op = "feature" => (\E b \in Sessions : At \in b + 1 .. b + FRAMES) \/ At = FRAMES + 7
    BY <1>3, Kinds
  <2> QED
    BY <1>4, <2>1, <2>2
<1>6. /\ \A k \in 1 .. FRAMES :
           At = base + k => Step = Feature(First(base) + (k - 1), (k - 1) \in Cor(base), TRUE)
      /\ At = base + (FRAMES + 1) => Step = Op("drain")
      /\ At = base + (FRAMES + 2) => Step = Op("matched")
  BY StepIs DEF StepAt
<1>7. \A b \in Sessions : At \in b + 1 .. b + FRAMES + 2 => b = base
  BY <1>1, <1>2 DEF Sessions
<1>8. /\ Step.op = "feature" => At - base \in 1 .. FRAMES
      /\ Step.op = "drain" => At = base + FRAMES + 1
      /\ Step.op = "matched" => At = base + FRAMES + 2
  <2>1. \A b \in Sessions : b \in Nat
    BY <1>1 DEF Sessions
  <2>2. \A b \in Sessions :
          At \in b + 1 .. b + FRAMES \/ At = b + FRAMES + 1 \/ At = b + FRAMES + 2 => At \in b + 1 .. b + FRAMES + 2
    BY <1>1, <2>1
  <2>3. base \in Nat
    BY <2>1
  <2>4. At \in base + 1 .. base + FRAMES => At - base \in 1 .. FRAMES
    BY <1>1, <2>3
  <2>5. Step.op = "feature" => At \in base + 1 .. base + FRAMES
    BY <1>5, <1>7, <2>2
  <2>6. Step.op = "drain" => At = base + FRAMES + 1
    BY <1>5, <1>7, <2>2
  <2>7. Step.op = "matched" => At = base + FRAMES + 2
    BY <1>5, <1>7, <2>2
  <2> QED
    BY <2>4, <2>5, <2>6, <2>7
<1>9. Step.op = "feature" =>
        Step = Feature(First(base) + ((At - base) - 1), ((At - base) - 1) \in Cor(base), TRUE)
  <2>1. At - base \in 1 .. FRAMES => At = base + (At - base)
    BY <1>1, <1>2
  <2> QED
    BY <1>6, <1>8, <2>1
<1>10. /\ At = base + FRAMES + 1 => Step.op = "drain"
       /\ At = base + FRAMES + 2 => Step.op = "matched"
  <2>1. /\ At = base + FRAMES + 1 => At = base + (FRAMES + 1)
        /\ At = base + FRAMES + 2 => At = base + (FRAMES + 2)
    BY <1>1, <1>2
  <2> QED
    BY <1>6, <2>1, StepKinds
<1>11. pc # "wait" /\ Step.op \notin {"ask", "ref_reset"}
  BY <1>4, <1>5 DEF Control
<1>12. i \in Nat
  BY DEF TypeOK
<1> QED
  BY <1>1, <1>2, <1>3, <1>4, <1>8, <1>9, <1>10, <1>11, <1>12

\* How many of its frames are sent.
LEMMA SentIs ==
  ASSUME TypeOK, Control, NEW base \in Sessions, InSession(base)
  PROVE  /\ Sent(base) \in 0 .. FRAMES
         /\ At - base <= FRAMES => Sent(base) = IF pc = "pump" THEN At - base ELSE (At - base) - 1
         /\ At - base > FRAMES => Sent(base) = FRAMES
<1>1. At - base \in 1 .. FRAMES + 2 /\ FRAMES \in Nat
  BY Inside, ScenarioAssumption
<1> QED
  BY <1>1 DEF Sent

\* The script does not move.
LEMMA PlaceStays ==
  ASSUME UNCHANGED <<script, i, pc>>, NEW base
  PROVE  /\ At' = At /\ Sent(base)' = Sent(base) /\ (InSession(base) <=> InSession(base)') /\ (Calm <=> Calm')
BY DEF At, Lead, OnBoard, Sent, InSession, Calm

\* What is to be shown when a session stays where it is.
LEMMA SessionHere ==
  ASSUME NEW base \in Sessions, InSession(base), UNCHANGED <<script, i, pc>>,
         NEW k, k = Sent(base), SessionInv(First(base), Cor(base), k)', At = base + FRAMES + 2 => Quiet'
  PROVE  InSession(base)' /\ SessionAt(base)'
<1>1. At' = At /\ Sent(base)' = k /\ InSession(base)'
  BY PlaceStays
<1>2. SessionInv(First(base), Cor(base), Sent(base))'
  BY <1>1 DEF SessionInv
<1> QED
  BY <1>1, <1>2 DEF SessionAt

\* FeatureStep, in a session.
LEMMA FeatureSends ==
  ASSUME TypeOK, Control, NEW base \in Sessions, InSession(base), FeatureStep, NEW k, k = Sent(base)
  PROVE  /\ k \in 0 .. FRAMES - 1 /\ At - base = k + 1 /\ pc' = "pump" /\ UNCHANGED <<script, i, g_errors, faults>>
         /\ Sends(First(base), Cor(base), k)
<1>1. pc = "step" /\ Step.op = "feature" /\ pc' = "pump" /\ UNCHANGED <<script, i, g_errors, faults>>
  BY DEF FeatureStep, Begin
<1>2. /\ At - base \in 1 .. FRAMES /\ At \in Int
      /\ Step = Feature(First(base) + ((At - base) - 1), ((At - base) - 1) \in Cor(base), TRUE)
  BY <1>1, Inside
<1>3. base \in Nat /\ FRAMES \in Nat
  BY SessionFacts, ScenarioAssumption
<1>4. At - base <= FRAMES
  BY <1>2
<1>5. k = (At - base) - 1
  BY <1>1, <1>4, SentIs
<1>6. k \in 0 .. FRAMES - 1 /\ At - base = k + 1
  BY <1>2, <1>3, <1>5
<1>7. Step.fn = First(base) + k /\ Step.corrupt = (k \in Cor(base)) /\ Step.streaming = TRUE
  BY <1>2, <1>5 DEF Feature
<1>8. Sends(First(base), Cor(base), k)
  <2>1. /\ down' = Append(down, [type |-> IF Step.corrupt THEN "GARBLED" ELSE "FEATURE", fn |-> Step.fn, id |-> 0])
        /\ IF Step.streaming /\ ~Step.corrupt THEN RefCommit(Step.fn) ELSE UNCHANGED <<g_ref, ref_evts>>
        /\ UNCHANGED <<dev, up, evt_matched, before, dev_evts>>
    BY DEF FeatureStep, SendRaw
  <2>2. IF k \notin Cor(base) THEN RefCommit(First(base) + k) ELSE UNCHANGED <<g_ref, ref_evts>>
    <3>1. CASE k \in Cor(base)
      BY <1>7, <2>1, <3>1
    <3>2. CASE k \notin Cor(base)
      <4>1. RefCommit(Step.fn)
        BY <1>7, <2>1, <3>2
      <4> QED
        BY <1>7, <3>2, <4>1
    <3> QED
      BY <3>1, <3>2
  <2> QED
    BY <1>7, <2>1, <2>2 DEF Sends
<1> QED
  BY <1>1, <1>6, <1>8

\* The session goes on by a step of the script.
LEMMA SessionOn ==
  ASSUME TypeOK, Control, NEW base \in Sessions, InSession(base), UNCHANGED script, TypeOK', Control',
         \/ pc' = "pump" /\ i' = i /\ pc = "step"
         \/ pc = "pump" /\ pc' = "step" /\ i' = i + 1,
         NEW k, k = IF pc = "step" /\ Step.op = "feature" THEN Sent(base) + 1 ELSE Sent(base),
         pc = "step" => Step.op # "matched"
  PROVE  /\ InSession(base)' /\ Sent(base)' = k
         /\ At' = base + FRAMES + 2 => pc = "pump" /\ Step.op = "drain"
<1>1. /\ At - base \in 1 .. FRAMES + 2 /\ At \in Int /\ base \in Nat /\ FRAMES \in Nat \ {0}
      /\ At = i - Lead /\ Lead \in {2, 3} /\ i \in Nat
  BY Inside, SessionFacts, ScenarioAssumption
<1>2. /\ Step.op = "feature" => At - base \in 1 .. FRAMES
      /\ Step.op = "drain" <=> At = base + FRAMES + 1
      /\ Step.op = "matched" <=> At = base + FRAMES + 2
  BY Inside
<1>3. At' = i' - Lead
  BY DEF At, Lead, OnBoard
<1>4. /\ At - base <= FRAMES => Sent(base) = IF pc = "pump" THEN At - base ELSE (At - base) - 1
      /\ At - base > FRAMES => Sent(base) = FRAMES
  BY SentIs
<1>5. /\ InSession(base)' <=> At' \in base + 1 .. base + FRAMES + 2
      /\ Sent(base)' = IF At' - base > FRAMES THEN FRAMES
                       ELSE IF pc' = "pump" THEN At' - base ELSE (At' - base) - 1
  BY DEF InSession, Sent
<1>6. At - base <= FRAMES => Step.op = "feature"
  <2> SUFFICES ASSUME At - base <= FRAMES PROVE Step.op = "feature"
    OBVIOUS
  <2>1. At - base \in 1 .. FRAMES /\ At = base + (At - base)
    BY <1>1
  <2>2. Step = Feature(First(base) + ((At - base) - 1), ((At - base) - 1) \in Cor(base), TRUE)
    BY <2>1, StepIs DEF StepAt
  <2> QED
    BY <2>2 DEF Feature
<1>7. CASE pc' = "pump" /\ i' = i /\ pc = "step"
  <2>1. At' = At
    BY <1>1, <1>3, <1>7
  <2>2. CASE At - base <= FRAMES
    BY <1>1, <1>4, <1>5, <1>6, <1>7, <2>1, <2>2
  <2>3. CASE At - base > FRAMES
    BY <1>1, <1>2, <1>4, <1>5, <1>7, <2>1, <2>3
  <2> QED
    BY <1>1, <2>2, <2>3
<1>8. CASE pc = "pump" /\ pc' = "step" /\ i' = i + 1
  <2>1. At' = At + 1 /\ At # base + FRAMES + 2
    <3>1. Step.op # "matched"
      BY <1>8 DEF Control
    <3> QED
      BY <1>1, <1>2, <1>3, <1>8, <3>1
  <2>2. CASE At - base <= FRAMES
    BY <1>1, <1>4, <1>5, <1>6, <1>8, <2>1, <2>2
  <2>3. CASE At - base > FRAMES
    BY <1>1, <1>2, <1>4, <1>5, <1>8, <2>1, <2>3
  <2> QED
    BY <1>1, <2>2, <2>3
<1> QED
  BY <1>7, <1>8

\* MatchedStep, without an error: both sides have detected the same.
LEMMA MatchedAgrees ==
  ASSUME TypeOK, Control, NEW base \in Sessions, InSession(base), SessionAt(base), MatchedStep, ~g_errors',
         TypeOK', Control'
  PROVE  At' = base + FRAMES + 3 /\ Calm' /\ CalmInv'
<1>1. /\ g_ref.evt = <<>> /\ i' = i + 1 /\ pc' = "step" /\ script' = script /\ Step.op = "matched"
      /\ UNCHANGED <<dev, down, up, g_ref, evt_matched, before, dev_evts, ref_evts>>
  <2>1. g_ref.evt = <<>>
    <3>1. g_errors' = (g_errors \/ ~(g_ref.evt = <<>> /\ evt_matched > before))
      BY DEF MatchedStep, Check
    <3> QED
      BY <3>1
  <2> QED
    BY <2>1 DEF MatchedStep, Begin, Advance, linkVars, histVars
<1>2. /\ At \in Int /\ base \in Nat /\ FRAMES \in Nat \ {0} /\ At = base + FRAMES + 2
      /\ At = i - Lead /\ Lead \in {2, 3} /\ i \in Nat
  BY <1>1, Inside, SessionFacts, ScenarioAssumption
<1>3. At' = base + FRAMES + 3
  <2>1. At' = i' - Lead
    BY <1>1 DEF At, Lead, OnBoard
  <2> QED
    BY <1>1, <1>2, <2>1
<1>4. base \in {2, FRAMES + 15}
  BY DEF Sessions
<1>5. Calm'
  <2>1. Calm' <=> \A b \in {2, FRAMES + 15} : At' \notin b + 1 .. b + FRAMES + 2
    BY DEF Calm, InSession, Sessions
  <2> QED
    BY <1>2, <1>3, <1>4, <2>1
<1>6. down = <<>> /\ dev.rsp = NoResponse /\ dev.job = NoJob /\ up = <<>>
  BY <1>2 DEF SessionAt, Quiet, DevQuiet
<1>7. dev_evts = ref_evts /\ evt_matched = Len(ref_evts)
  <2>1. /\ dev_evts \in Seq(Events) /\ ref_evts \in Seq(Events) /\ evt_matched \in Nat
    BY DEF TypeOK
  <2>2. /\ Behind(dev, g_ref, before, dev_evts, ref_evts)
        /\ Matched(g_ref, evt_matched, before, dev_evts, ref_evts)
    BY DEF SessionAt, SessionInv
  <2>3. /\ Len(dev_evts) <= Len(ref_evts) /\ evt_matched <= Len(dev_evts)
        /\ Len(ref_evts) = evt_matched + Len(g_ref.evt)
        /\ \A a \in 1 .. evt_matched : dev_evts[a] = ref_evts[a]
    BY <2>2, Zenon DEF Behind, Matched
  <2>4. Len(g_ref.evt) = 0 /\ Len(dev_evts) \in Nat /\ Len(ref_evts) \in Nat
    BY <1>1, <2>1, LenProperties
  <2>5. Len(ref_evts) = evt_matched /\ Len(dev_evts) = Len(ref_evts)
    BY <2>1, <2>3, <2>4
  <2>6. dev_evts = ref_evts
    BY <2>1, <2>3, <2>5, SeqEqual
  <2> QED
    BY <2>5, <2>6
<1>8. Idle' /\ ~Answered' /\ Placed'
  <2>1. Idle' /\ ~Answered'
    BY <1>1, <1>6 DEF Idle, Answered
  <2>2. Place' = base + FRAMES + 3
    BY <1>3, <2>1 DEF Place
  <2>3. Place' \notin {FRAMES + 7, FRAMES + 8} /\ Place' \notin Sessions
    BY <1>2, <1>4, <2>2 DEF Sessions
  <2> QED
    BY <2>1, <2>3 DEF Placed
<1> QED
  BY <1>1, <1>3, <1>5, <1>6, <1>7, <1>8 DEF CalmInv

\* Whatever happens in a session without an error, it goes on or ends in agreement.
LEMMA SessionStep ==
  ASSUME TypeOK, Control, NEW base \in Sessions, InSession(base), SessionAt(base), [Next]_vars, ~g_errors',
         TypeOK', Control'
  PROVE  \/ InSession(base)' /\ SessionAt(base)'
         \/ At' = base + FRAMES + 3 /\ Calm' /\ CalmInv' /\ MatchedStep
<1>1. /\ ~Done /\ ~Calm /\ Step.op \notin {"ask", "ref_reset"} /\ pc # "wait"
      /\ Step.op = "drain" <=> At = base + FRAMES + 1
      /\ Step.op = "matched" <=> At = base + FRAMES + 2
  BY Inside
<1>2. /\ First(base) \in Nat /\ Cor(base) \in SUBSET (0 .. FRAMES - 1) /\ base \in Nat
  BY SessionFacts
<1>3. PICK k : k = Sent(base)
  OBVIOUS
<1>4. k \in Nat /\ k \in 0 .. FRAMES
  BY <1>3, SentIs
<1>5. SessionInv(First(base), Cor(base), k) /\ (At = base + FRAMES + 2 => Quiet)
  BY <1>3 DEF SessionAt
<1>6. Quiet => down = <<>> /\ up = <<>> /\ dev.rsp = NoResponse /\ dev.job = NoJob
  BY DEF Quiet, DevQuiet
<1>7. dev.rsp = NoResponse
  BY <1>5, Zenon DEF SessionInv, Flow
<1>8. ASSUME UNCHANGED <<script, i, pc>>, SessionInv(First(base), Cor(base), k)', At = base + FRAMES + 2 => Quiet'
      PROVE  InSession(base)' /\ SessionAt(base)'
  BY <1>3, <1>8, SessionHere
<1>9. CASE DevTake
  <2>1. UNCHANGED <<script, i, pc>> /\ ~Quiet
    BY <1>6, <1>9 DEF DevTake, testVars
  <2>2. SessionInv(First(base), Cor(base), k)'
    BY <1>2, <1>4, <1>5, <1>9, SessionTake
  <2> QED
    BY <1>5, <1>8, <2>1, <2>2
<1>10. CASE DevAnswer
  BY <1>7, <1>10 DEF DevAnswer
<1>11. CASE DevDecide
  <2>1. UNCHANGED <<script, i, pc>> /\ ~Quiet
    BY <1>6, <1>11 DEF DevDecide, testVars
  <2>2. SessionInv(First(base), Cor(base), k)'
    BY <1>2, <1>4, <1>5, <1>11, SessionDecide
  <2> QED
    BY <1>5, <1>8, <2>1, <2>2
<1>12. CASE Lose
  <2>1. UNCHANGED <<script, i, pc>> /\ ~Quiet
    BY <1>6, <1>12 DEF Lose, testVars
  <2>2. SessionInv(First(base), Cor(base), k)'
    BY <1>2, <1>4, <1>5, <1>12, SessionLose
  <2> QED
    BY <1>5, <1>8, <2>1, <2>2
<1>13. CASE AskStep
  BY <1>1, <1>13 DEF AskStep, Begin
<1>14. CASE TakeEvent
  <2>1. UNCHANGED <<script, i, pc>> /\ ~Quiet
    BY <1>6, <1>14 DEF TakeEvent
  <2>2. SessionInv(First(base), Cor(base), k)'
    BY <1>2, <1>4, <1>5, <1>14, SessionEvent
  <2> QED
    BY <1>5, <1>8, <2>1, <2>2
<1>15. CASE TakeReply \/ Timeout
  BY <1>1, <1>15 DEF TakeReply, Timeout
<1>16. CASE TakeOther
  BY <1>16 DEF TakeOther, Check
<1>17. CASE FeatureStep
  <2>1. /\ pc = "step" /\ Step.op = "feature" /\ pc' = "pump" /\ i' = i /\ script' = script
        /\ Sends(First(base), Cor(base), k)
    BY <1>3, <1>17, FeatureSends DEF FeatureStep, Begin
  <2>2. SessionInv(First(base), Cor(base), k + 1)'
    BY <1>2, <1>4, <1>5, <2>1, SessionSend
  <2>3. PICK n : n = k + 1
    OBVIOUS
  <2>4. n = IF pc = "step" /\ Step.op = "feature" THEN Sent(base) + 1 ELSE Sent(base)
    BY <1>3, <2>1, <2>3
  <2>5. /\ InSession(base)' /\ Sent(base)' = n
        /\ At' = base + FRAMES + 2 => pc = "pump" /\ Step.op = "drain"
    BY <2>1, <2>4, SessionOn
  <2>6. SessionInv(First(base), Cor(base), Sent(base))'
    BY <2>2, <2>3, <2>5 DEF SessionInv
  <2> QED
    BY <2>1, <2>5, <2>6 DEF SessionAt
<1>18. CASE DrainStep
  <2>1. /\ pc = "step" /\ Step.op = "drain" /\ pc' = "pump" /\ i' = i /\ script' = script /\ UNCHANGED Both
    BY <1>18 DEF DrainStep, Begin, Both, linkVars, histVars
  <2>2. k = IF pc = "step" /\ Step.op = "feature" THEN Sent(base) + 1 ELSE Sent(base)
    BY <1>3, <2>1
  <2>3. /\ InSession(base)' /\ Sent(base)' = k
        /\ At' = base + FRAMES + 2 => pc = "pump" /\ Step.op = "drain"
    BY <2>1, <2>2, SessionOn
  <2>4. SessionInv(First(base), Cor(base), k)'
    BY <1>5, <2>1, SessionStays
  <2>5. SessionInv(First(base), Cor(base), Sent(base))'
    BY <2>3, <2>4 DEF SessionInv
  <2> QED
    BY <2>1, <2>3, <2>5 DEF SessionAt
<1>19. CASE PumpEnds
  <2>1. /\ pc = "pump" /\ pc' = "step" /\ i' = i + 1 /\ script' = script /\ UNCHANGED Both
        /\ Step.op = "drain" => Quiet
    BY <1>19 DEF PumpEnds, Advance, Both, linkVars, histVars
  <2>2. k = IF pc = "step" /\ Step.op = "feature" THEN Sent(base) + 1 ELSE Sent(base)
    BY <1>3, <2>1
  <2>3. /\ InSession(base)' /\ Sent(base)' = k
        /\ At' = base + FRAMES + 2 => pc = "pump" /\ Step.op = "drain"
    BY <2>1, <2>2, SessionOn
  <2>4. SessionInv(First(base), Cor(base), k)'
    BY <1>5, <2>1, SessionStays
  <2>5. SessionInv(First(base), Cor(base), Sent(base))'
    BY <2>3, <2>4 DEF SessionInv
  <2>6. Quiet => Quiet'
    BY <2>1 DEF Quiet, DevQuiet, Both
  <2> QED
    BY <2>1, <2>3, <2>5, <2>6 DEF SessionAt
<1>20. CASE RefResetStep
  BY <1>1, <1>20 DEF RefResetStep, Begin
<1>21. CASE MatchedStep
  BY <1>21, MatchedAgrees
<1>22. CASE Finished \/ UNCHANGED vars
  <2>1. UNCHANGED <<script, i, pc>> /\ UNCHANGED Both /\ (Quiet => Quiet')
    BY <1>22 DEF Finished, vars, linkVars, testVars, histVars, Both, Quiet, DevQuiet
  <2>2. SessionInv(First(base), Cor(base), k)'
    BY <1>5, <2>1, SessionStays
  <2> QED
    BY <1>5, <1>8, <2>1, <2>2
<1> QED
  BY <1>9, <1>10, <1>11, <1>12, <1>13, <1>14, <1>15, <1>16, <1>17, <1>18, <1>19, <1>20, <1>21, <1>22 DEF Next, Run

-----------------------------------------------------------------------------
(* Between sessions: where the script is. *)

\* The steps between the sessions, by their places.
LEMMA Outside ==
  ASSUME TypeOK, Control, Calm, ~Done
  PROVE  /\ Asking \/ At \in Sessions \/ At = FRAMES + 7
         /\ Step.op \notin {"drain", "matched"}
         /\ Step.op = "ask" <=> Asking
         /\ Step.op = "feature" => At = FRAMES + 7 /\ Step = Feature(STOPPED, FALSE, FALSE)
         /\ Step.op = "ref_reset" => At \in Sessions
         /\ pc = "pump" => At = FRAMES + 7
         /\ pc = "wait" => Asking
<1>1. FRAMES \in Nat \ {0} /\ At \in Int
  BY Everywhere
<1>2. \A b \in Sessions : b \in Nat /\ At \notin b + 1 .. b + FRAMES + 2
  BY <1>1 DEF Calm, InSession, Sessions
<1>3. \A b \in Sessions :
        At \in b + 1 .. b + FRAMES \/ At = b + FRAMES + 1 \/ At = b + FRAMES + 2 => At \in b + 1 .. b + FRAMES + 2
  BY <1>1, <1>2
<1>4. \A b \in Sessions : At \in b .. b + FRAMES + 2 => At = b
  BY <1>1, <1>2
<1>5. Asking \/ At \in Sessions \/ At = FRAMES + 7
  BY <1>4, Everywhere
<1>6. /\ Step.op = "feature" => \/ \E b \in Sessions : At \in b + 1 .. b + FRAMES
                                \/ At = FRAMES + 7 /\ Step = Feature(STOPPED, FALSE, FALSE)
      /\ Step.op = "drain" => \E b \in Sessions : At = b + FRAMES + 1
      /\ Step.op = "matched" => \E b \in Sessions : At = b + FRAMES + 2
  BY Kinds
<1>7. /\ Step.op \notin {"drain", "matched"}
      /\ Step.op = "feature" => At = FRAMES + 7 /\ Step = Feature(STOPPED, FALSE, FALSE)
  BY <1>2, <1>3, <1>6
<1>8. (Step.op = "ask" <=> Asking) /\ (Step.op = "ref_reset" => At \in Sessions)
  BY Kinds
<1> QED
  BY <1>5, <1>7, <1>8 DEF Control

\* What is asked, and what follows.
LEMMA Asked ==
  ASSUME TypeOK, Control, Asking
  PROVE  /\ Step.type \in Types /\ Step.type \notin {"FEATURE", "GARBLED"} /\ Command \in Requests
         /\ At = FRAMES + 6 => Step.type = "STOP"
         /\ At + 1 \in Sessions => Step.type = "START"
         /\ At # FRAMES + 7
         /\ \A b \in Sessions : At + 1 \notin b + 1 .. b + FRAMES + 2
<1>1. /\ FRAMES \in Nat \ {0} /\ At \in Int /\ (i = 1 => At \in {-2, -1})
      /\ (i = 2 /\ OnBoard => At = -1)
  BY Everywhere
<1>2. At \in {-2, -1, 0, 1, FRAMES + 5, FRAMES + 6, FRAMES + 8, FRAMES + 9, FRAMES + 10, FRAMES + 11, FRAMES + 12,
              FRAMES + 13, FRAMES + 14, 2 * FRAMES + 18}
  BY <1>1, Everywhere DEF Asking
<1>3. At # FRAMES + 7 /\ \A b \in Sessions : At + 1 \notin b + 1 .. b + FRAMES + 2
  BY <1>1, <1>2 DEF Sessions
<1>4. At = FRAMES + 6 => Step.type = "STOP"
  BY StepIs, StepKinds
<1>5. At + 1 \in Sessions => Step.type = "START"
  <2>1. \A b \in Sessions : At = b - 1 => Step = Ask("START", "echo")
    BY StepIs DEF StepAt
  <2>2. \A b \in Sessions : At + 1 = b => At = b - 1
    BY <1>1 DEF Sessions
  <2> QED
    BY <2>1, <2>2, StepKinds
<1>6. \E t \in CommandTypes \cup {"UNKNOWN_TYPE", "BAD_LENGTH", "BAD_VERSION"}, c \in Checks : Step = Ask(t, c)
  <2>1. "echo" \in Checks /\ "geometry" \in Checks /\ "session" \in Checks /\ "stopped" \in Checks
        /\ "cleared" \in Checks /\ "error" \in Checks
    BY DEF Checks
  <2>2. "PING" \in CommandTypes /\ "RESET" \in CommandTypes /\ "START" \in CommandTypes /\ "STOP" \in CommandTypes
        /\ "READ_STATS" \in CommandTypes /\ "READ_VERSION" \in CommandTypes
    BY DEF CommandTypes
  <2>3. CASE i = 1
    BY <2>1, <2>2, <2>3, StepIs
  <2>4. CASE i = 2 /\ OnBoard
    BY <2>1, <2>2, <2>4, StepIs
  <2>5. CASE At = 2 * FRAMES + 18 /\ OnBoard
    BY <2>1, <2>2, <2>5, StepIs
  <2>6. CASE At \in {0, FRAMES + 5, FRAMES + 6, FRAMES + 8, FRAMES + 9, FRAMES + 10, FRAMES + 11, FRAMES + 12,
                     FRAMES + 13}
    <3>1. \/ Step = Ask("READ_VERSION", "geometry") \/ Step = Ask("READ_STATS", "session")
          \/ Step = Ask("STOP", "echo") \/ Step = Ask("READ_STATS", "stopped") \/ Step = Ask("RESET", "echo")
          \/ Step = Ask("READ_STATS", "cleared") \/ Step = Ask("UNKNOWN_TYPE", "error")
          \/ Step = Ask("BAD_LENGTH", "error") \/ Step = Ask("BAD_VERSION", "error")
      BY <2>6, StepIs
    <3> QED
      BY <2>1, <2>2, <3>1
  <2>7. CASE At \in {1, FRAMES + 14}
    <3>1. \A b \in Sessions : At = b - 1 => Step = Ask("START", "echo")
      BY StepIs DEF StepAt
    <3>2. At = 2 - 1 \/ At = (FRAMES + 15) - 1
      BY <1>1, <2>7
    <3>3. Step = Ask("START", "echo")
      BY <3>1, <3>2 DEF Sessions
    <3> QED
      BY <2>1, <2>2, <3>3
  <2> QED
    BY <2>3, <2>4, <2>5, <2>6, <2>7 DEF Asking
<1>7. Step.type \in CommandTypes \cup {"UNKNOWN_TYPE", "BAD_LENGTH", "BAD_VERSION"}
  BY <1>6 DEF Ask
<1>8. Step.type \in Types /\ Step.type \notin {"FEATURE", "GARBLED"}
  BY <1>7 DEF Types, CommandTypes
<1>9. Command \in Requests
  <2>1. CommandFrame \in Nat
    BY ScenarioAssumption DEF CommandFrame, TypeOK
  <2> QED
    BY <1>8, <2>1 DEF Command, Requests
<1> QED
  BY <1>3, <1>4, <1>5, <1>8, <1>9

\* What is as it was when the script does not move.
LEMMA CalmStays ==
  ASSUME UNCHANGED <<script, i, pc>>
  PROVE  At' = At /\ (Calm' <=> Calm) /\ (Command = Command') /\ OnBoard' = OnBoard
BY DEF At, Lead, OnBoard, Calm, InSession, Sessions, Command, CommandFrame, Step

-----------------------------------------------------------------------------
(* Between sessions: what the actions keep. *)

\* A frame that comes while the device is stopped is only counted.
LEMMA FrameDropped ==
  ASSUME NEW d, DevOK(d), ~d.stream, NEW p \in Requests, Framish(p)
  PROVE  LET e == Receive(d, p)
         IN  /\ SameBut(e, d)
             /\ p.type = "FEATURE" => Counts(e, d, "dropped")
             /\ p.type = "GARBLED" => Counts(e, d, "crc")
<1>1. CASE p.type = "GARBLED"
  <2>1. Receive(d, p) = Bump(d, "crc") /\ p.type # "FEATURE"
    BY <1>1, ReceiveKeeps
  <2>2. SameBut(Bump(d, "crc"), d) /\ Counts(Bump(d, "crc"), d, "crc")
    BY BumpIs DEF Names
  <2> QED
    BY <2>1, <2>2
<1>2. CASE p.type = "FEATURE"
  <2>1. Receive(d, p) = Commit(d, p.fn) /\ p.type # "GARBLED" /\ p.fn \in Nat
    BY <1>2, ReceiveKeeps DEF Requests
  <2>2. SameBut(Commit(d, p.fn), d) /\ Counts(Commit(d, p.fn), d, "dropped")
    BY <2>1, CommitIs
  <2> QED
    BY <2>1, <2>2
<1> QED
  BY <1>1, <1>2 DEF Framish

\* What is on the way in the calm.
LEMMA CalmShape ==
  ASSUME TypeOK, Control, Calm, CalmInv
  PROVE  /\ pc # "wait" => Idle /\ ~Sending /\ ~Answered /\ ~Lost /\ Placed /\ Place = At
         /\ down # <<>> => (Idle \/ Sending) /\ ~Answered /\ ~Lost /\ Placed /\ Place = At
         /\ up # <<>> => /\ Answered /\ ~Idle /\ ~Sending /\ ~Lost /\ Placed /\ Place = At + 1 /\ pc = "wait"
                         /\ Len(up) = 1 /\ up[1].type # "EVT" /\ dev.rsp = NoResponse /\ down = <<>>
         /\ dev.rsp # NoResponse => /\ Answered /\ ~Idle /\ ~Sending /\ ~Lost /\ Placed /\ Place = At + 1 /\ pc = "wait"
                                    /\ up = <<>> /\ down = <<>>
         /\ ~(Idle /\ Sending)
<1>1. up = <<>> => Len(up) = 0
  OBVIOUS
<1>2. /\ Idle => pc # "wait" /\ up = <<>> /\ dev.rsp = NoResponse
      /\ Sending => pc = "wait" /\ up = <<>> /\ dev.rsp = NoResponse /\ down # <<>>
      /\ Lost => pc = "wait" /\ down = <<>> /\ up = <<>> /\ dev.rsp = NoResponse
      /\ Answered => /\ pc = "wait" /\ down = <<>>
                     /\ \/ up = <<>> /\ dev.rsp # NoResponse
                        \/ dev.rsp = NoResponse /\ Len(up) = 1 /\ up[1].type # "EVT"
  <2>1. Sending => down # <<>>
    <3>1. down = <<>> => Len(down) = 0
      OBVIOUS
    <3> QED
      BY <3>1 DEF Sending
  <2> QED
    BY <2>1 DEF Idle, Sending, Lost, Answered
<1>3. Lost \/ ((Idle \/ Sending \/ Answered) /\ Placed)
  BY DEF CalmInv
<1>4. /\ Answered => Place = At + 1
      /\ ~Answered => Place = At
  BY DEF Place
<1> QED
  BY <1>1, <1>2, <1>3, <1>4

\* DevTake.
LEMMA CalmTakes ==
  ASSUME TypeOK, Control, Calm, CalmInv, DevTake
  PROVE  /\ UNCHANGED <<up, script, i, pc, g_ref, evt_matched, g_errors, dev_evts, ref_evts, faults>>
         /\ DevOK(dev) /\ down \in Seq(Requests) /\ Placed /\ Place = At /\ dev' = Receive(dev, down[1])
         /\ dev'.job = NoJob
         /\ \/ /\ Idle /\ Len(down) = 1 /\ Framish(down[1]) /\ down' = <<>> /\ Idle'
               /\ At \in {FRAMES + 7, FRAMES + 8} /\ ~dev.stream /\ SameBut(dev', dev)
            \/ /\ Sending /\ Len(down) = 1 /\ down[1] = Command /\ Answered' /\ Asking /\ down' = <<>>
            \/ /\ Sending /\ Len(down) = 1 /\ down[1].type = "GARBLED" /\ Lost'
            \/ /\ Sending /\ Len(down) = 2 /\ Framish(down[1]) /\ Len(down') = 1 /\ down'[1] = down[2] /\ Sending'
               /\ At = FRAMES + 8 /\ ~dev.stream /\ SameBut(dev', dev)
<1>1. /\ down # <<>> /\ down' = Tail(down) /\ dev' = Receive(dev, Head(down))
      /\ UNCHANGED <<up, script, i, pc, g_ref, evt_matched, g_errors, dev_evts, ref_evts, faults>>
  BY DEF DevTake, testVars, histVars
<1>2. DevOK(dev) /\ down \in Seq(Requests)
  BY DEF TypeOK
<1>3. /\ Head(down) = down[1] /\ Len(down') = Len(down) - 1 /\ Len(down) \in Nat \ {0} /\ down' \in Seq(Requests)
      /\ \A a \in 1 .. Len(down') : down'[a] = down[a + 1]
      /\ \A a \in 1 .. Len(down) : down[a] \in Requests
  BY <1>1, <1>2, Heads
<1>4. down[1] \in Requests
  BY <1>3
<1>5. (Idle \/ Sending) /\ ~Answered /\ ~Lost /\ Placed /\ Place = At
  BY <1>1, CalmShape
<1>6. At' = At /\ Command' = Command
  BY <1>1, CalmStays
<1>7. dev.job = NoJob
  BY DEF CalmInv
<1>8. At \in {FRAMES + 7, FRAMES + 8} => ~dev.stream
  BY <1>5 DEF Placed
<1>9. up = <<>> /\ dev.rsp = NoResponse
  BY <1>5 DEF Idle, Sending
<1>10. ~dev.stream /\ Framish(down[1]) => SameBut(dev', dev)
  BY <1>1, <1>2, <1>3, <1>4, FrameDropped
<1>11. SameBut(dev', dev) => dev'.rsp = NoResponse /\ dev'.job = NoJob
  BY <1>7, <1>9 DEF SameBut
<1>12. CASE Idle
  <2>1. Len(down) # 0
    BY <1>3
  <2>2. down = <<>> => Len(down) = 0
    OBVIOUS
  <2>3. pc # "wait" /\ Len(down) = 1 /\ Framish(down[1]) /\ At \in {FRAMES + 7, FRAMES + 8}
    BY <1>12, <2>1, <2>2 DEF Idle
  <2>4. Len(down') = 0
    BY <1>3, <2>3
  <2>5. down' = <<>>
    BY <1>3, <2>4
  <2>6. ~dev.stream /\ SameBut(dev', dev)
    BY <1>8, <1>10, <2>3
  <2>7. Idle'
    BY <1>1, <1>9, <1>11, <2>3, <2>5, <2>6 DEF Idle
  <2> QED
    BY <1>1, <1>2, <1>3, <1>5, <1>11, <1>12, <2>3, <2>5, <2>6, <2>7
<1>13. CASE Sending
  <2>1. /\ pc = "wait"
        /\ \/ Len(down) = 1 /\ (down[1] = Command \/ down[1].type = "GARBLED")
           \/ At = FRAMES + 8 /\ Len(down) = 2 /\ Framish(down[1]) /\ (down[2] = Command \/ down[2].type = "GARBLED")
    BY <1>13 DEF Sending
  <2>2. Asking
    BY <2>1, Kinds DEF Control
  <2>3. Step.type \notin {"FEATURE", "GARBLED"} /\ Command.type = Step.type
    BY <2>2, Asked DEF Command
  <2>4. Len(down) = 1 => down' = <<>>
    <3>1. Len(down) = 1 => Len(down') = 0
      BY <1>3
    <3> QED
      BY <1>3, <3>1
  <2>5. CASE Len(down) = 1 /\ down[1] = Command
    <3>1. dev'.rsp \in Replies /\ dev'.job \in {NoJob, dev.job}
      BY <1>1, <1>2, <1>3, <1>4, <2>3, <2>5, CommandIs
    <3>2. dev'.rsp # NoResponse /\ dev'.job = NoJob
      BY <1>7, <3>1, PacketKinds
    <3>3. Answered'
      BY <1>1, <1>9, <2>1, <2>4, <2>5, <3>2 DEF Answered
    <3> QED
      BY <1>1, <1>2, <1>3, <1>5, <1>13, <2>2, <2>4, <2>5, <3>2, <3>3
  <2>6. CASE Len(down) = 1 /\ down[1].type = "GARBLED"
    <3>1. dev' = Bump(dev, "crc")
      BY <1>1, <1>2, <1>3, <1>4, <2>6, ReceiveKeeps
    <3>2. SameBut(dev', dev)
      BY <1>2, <3>1, BumpIs DEF Names
    <3>3. Lost'
      BY <1>1, <1>9, <1>11, <2>1, <2>4, <2>6, <3>2 DEF Lost
    <3> QED
      BY <1>1, <1>2, <1>3, <1>5, <1>11, <1>13, <2>6, <3>2, <3>3
  <2>7. CASE At = FRAMES + 8 /\ Len(down) = 2 /\ Framish(down[1]) /\ (down[2] = Command \/ down[2].type = "GARBLED")
    <3>1. Len(down') = 1 /\ 1 + 1 = 2
      BY <1>3, <2>7
    <3>2. 1 \in 1 .. Len(down')
      BY <3>1
    <3>3. down'[1] = down[2]
      BY <1>3, <3>1, <3>2
    <3>4. ~dev.stream /\ SameBut(dev', dev)
      BY <1>8, <1>10, <2>7
    <3>5. Sending'
      BY <1>1, <1>6, <1>9, <1>11, <2>1, <2>7, <3>1, <3>3, <3>4 DEF Sending
    <3> QED
      BY <1>1, <1>2, <1>3, <1>5, <1>11, <1>13, <2>7, <3>1, <3>3, <3>4, <3>5
  <2> QED
    BY <2>1, <2>5, <2>6, <2>7
<1> QED
  BY <1>5, <1>12, <1>13

\* Between sessions the device takes a packet.
LEMMA CalmTake ==
  ASSUME TypeOK, Control, Calm, CalmInv, DevTake
  PROVE  Calm' /\ CalmInv'
<1>1. /\ UNCHANGED <<up, script, i, pc, g_ref, evt_matched, g_errors, dev_evts, ref_evts, faults>>
      /\ DevOK(dev) /\ down \in Seq(Requests) /\ Placed /\ Place = At /\ dev' = Receive(dev, down[1])
      /\ dev'.job = NoJob
  BY CalmTakes
<1>2. /\ At' = At /\ Calm'
  BY <1>1, CalmStays
<1>3. g_ref.evt = <<>> /\ dev_evts = ref_evts /\ evt_matched = Len(ref_evts)
  BY DEF CalmInv
<1>4. SUFFICES Lost' \/ ((Idle' \/ Sending' \/ Answered') /\ Placed')
  BY <1>1, <1>2, <1>3 DEF CalmInv
<1>5. /\ Answered' => Place' = At + 1
      /\ ~Answered' => Place' = At
  BY <1>2 DEF Place
<1>6. CASE SameBut(dev', dev) /\ (Idle' \/ Sending') /\ up = <<>>
  <2>1. ~Answered'
    BY <1>1, <1>6 DEF Idle, Sending, Answered
  <2>2. Place' = Place
    BY <1>1, <1>5, <2>1
  <2>3. Placed'
    BY <1>1, <1>6, <2>2 DEF Placed, SameBut
  <2> QED
    BY <1>6, <2>3
<1>7. CASE Sending /\ Len(down) = 1 /\ down[1] = Command /\ Answered' /\ Asking
  <2>1. Place' = At + 1
    BY <1>5, <1>7
  <2>2. /\ Step.type \notin {"FEATURE", "GARBLED"} /\ Command.type = Step.type /\ Command \in Requests
        /\ At = FRAMES + 6 => Step.type = "STOP"
        /\ At + 1 \in Sessions => Step.type = "START"
        /\ At # FRAMES + 7
    BY <1>7, Asked DEF Command
  <2>3. /\ Command.type = "STOP" => dev'.stream = FALSE
        /\ Command.type = "START" => dev'.stream = TRUE /\ dev'.commits = 0 /\ dev'.window = <<>> /\ dev'.decided = 0
    <3>1. PICK p : p = Command
      OBVIOUS
    <3>2. p \in Requests /\ p.type \notin {"GARBLED", "FEATURE"} /\ dev' = Receive(dev, p)
      BY <1>1, <1>7, <2>2, <3>1
    <3>3. /\ DevOK(dev) /\ p \in Requests /\ p.type \notin {"GARBLED", "FEATURE"}
      BY <1>1, <3>2
    <3>4. LET e == Receive(dev, p)
          IN  /\ e.stream = IF p.type = "START" THEN TRUE ELSE IF p.type \in {"RESET", "STOP"} THEN FALSE ELSE dev.stream
              /\ p.type = "START" => e.commits = 0 /\ e.window = <<>> /\ e.decided = 0
      BY <3>3, CommandIs, Zenon
    <3> QED
      BY <3>1, <3>2, <3>4
  <2>4. At + 1 \in {FRAMES + 7, FRAMES + 8} => At \in {FRAMES + 6, FRAMES + 7}
    BY Everywhere
  <2>5. Placed'
    BY <2>1, <2>2, <2>3, <2>4 DEF Placed
  <2> QED
    BY <1>7, <2>5
<1> QED
  BY <1>6, <1>7, CalmTakes DEF Idle, Sending

\* DevAnswer.
LEMMA CalmAnswer ==
  ASSUME TypeOK, Control, Calm, CalmInv, DevAnswer
  PROVE  /\ Calm' /\ CalmInv' /\ At' = At /\ Answered /\ Answered' /\ ~Idle' /\ ~Sending' /\ ~Lost' /\ Place' = Place
         /\ up = <<>> /\ up' # <<>> /\ up'[1] = dev.rsp
         /\ UNCHANGED <<down, dev.stats, script, i, pc, g_ref, evt_matched, g_errors, dev_evts, ref_evts, faults>>
<1>1. /\ dev.rsp # NoResponse /\ up' = Append(up, dev.rsp) /\ dev' = [dev EXCEPT !.rsp = NoResponse]
      /\ UNCHANGED <<down, script, i, pc, g_ref, evt_matched, g_errors, dev_evts, ref_evts, faults>>
  BY DEF DevAnswer, testVars, histVars
<1>2. /\ Answered /\ Placed /\ Place = At + 1 /\ pc = "wait" /\ up = <<>> /\ down = <<>>
  BY <1>1, CalmShape
<1>3. At' = At /\ Calm'
  BY <1>1, CalmStays
<1>4. DevOK(dev) /\ dev.rsp \in Replies
  BY <1>1, Fields DEF TypeOK
<1>5. /\ dev'.rsp = NoResponse /\ dev'.stream = dev.stream /\ dev'.commits = dev.commits /\ dev'.window = dev.window
      /\ dev'.decided = dev.decided /\ dev'.job = dev.job /\ dev'.stats = dev.stats
  <2>1. dev \in Devices
    BY <1>4, Fields
  <2> HIDE DEF Counters, Replies, Windows, NoJob, NoResponse
  <2> QED
    BY <1>1, <2>1 DEF Devices
<1>6. Len(up') = 1 /\ up'[1] = dev.rsp /\ up'[1].type # "EVT" /\ up' # <<>>
  <2>1. up' = <<dev.rsp>>
    BY <1>1, <1>2
  <2> QED
    BY <1>4, <2>1, PacketKinds
<1>7. Answered'
  BY <1>1, <1>2, <1>5, <1>6 DEF Answered
<1>8. Place' = At + 1
  BY <1>3, <1>7 DEF Place
<1>9. Placed'
  BY <1>2, <1>5, <1>8 DEF Placed
<1>10. ~Idle' /\ ~Sending' /\ ~Lost'
  BY <1>6 DEF Idle, Sending, Lost
<1> QED
  BY <1>1, <1>2, <1>3, <1>5, <1>6, <1>7, <1>8, <1>9, <1>10 DEF CalmInv

\* Lose.
LEMMA CalmLose ==
  ASSUME TypeOK, Control, Calm, CalmInv, Lose
  PROVE  Calm' /\ CalmInv'
<1>1. /\ UNCHANGED <<dev, script, i, pc, g_ref, evt_matched, g_errors, dev_evts, ref_evts>>
      /\ \/ down # <<>> /\ down' \in {Tail(down), Garble(down)} /\ up' = up
         \/ up # <<>> /\ up' = Tail(up) /\ down' = down
  BY DEF Lose, testVars, Garble
<1>2. At' = At /\ Calm' /\ Command' = Command
  BY <1>1, CalmStays
<1>3. /\ dev.job = NoJob /\ g_ref.evt = <<>> /\ dev_evts = ref_evts /\ evt_matched = Len(ref_evts)
  BY DEF CalmInv
<1>4. SUFFICES Lost' \/ ((Idle' \/ Sending' \/ Answered') /\ Placed')
  BY <1>1, <1>2, <1>3 DEF CalmInv
<1>5. CASE up # <<>> /\ up' = Tail(up) /\ down' = down
  <2>1. Len(up) = 1 /\ dev.rsp = NoResponse /\ down = <<>> /\ pc = "wait"
    BY <1>5, CalmShape
  <2>2. up' = <<>>
    <3>1. up \in Seq(Replies \cup Events)
      BY DEF TypeOK
    <3>2. Tail(up) \in Seq(Replies \cup Events) /\ Len(Tail(up)) = 0
      BY <1>5, <2>1, <3>1, Heads
    <3> QED
      BY <1>5, <3>2
  <2> QED
    BY <1>1, <1>5, <2>1, <2>2 DEF Lost
<1>6. CASE down # <<>> /\ down' \in {Tail(down), Garble(down)} /\ up' = up
  <2>1. /\ (Idle \/ Sending) /\ ~Answered /\ Placed /\ Place = At
    BY <1>6, CalmShape
  <2>2. up = <<>> /\ dev.rsp = NoResponse
    BY <2>1 DEF Idle, Sending
  <2>3. down \in Seq(Requests)
    BY DEF TypeOK
  <2>4. /\ Len(Tail(down)) = Len(down) - 1 /\ Len(down) \in Nat \ {0} /\ Tail(down) \in Seq(Requests)
        /\ \A a \in 1 .. Len(Tail(down)) : Tail(down)[a] = down[a + 1]
    BY <1>6, <2>3, Heads
  <2>5. /\ Garble(down) \in Seq(Requests) /\ Len(Garble(down)) = Len(down)
        /\ Garble(down)[1].type = "GARBLED" /\ \A a \in 2 .. Len(down) : Garble(down)[a] = down[a]
    BY <1>6, <2>3, GarbleIs
  <2>6. Len(down) = 1 => Tail(down) = <<>>
    <3>1. Len(down) = 1 => Len(Tail(down)) = 0
      BY <2>4
    <3>2. PICK t : t = Tail(down)
      OBVIOUS
    <3>3. t \in Seq(Requests) /\ (Len(t) = 0 => t = <<>>)
      BY <2>4, <3>2
    <3> QED
      BY <3>1, <3>2, <3>3
  <2>7. SUFFICES Lost' \/ Idle' \/ Sending'
    <3>1. ~Answered' \/ Lost' \/ Idle' \/ Sending'
      BY <1>1, <1>6, <2>2 DEF Answered
    <3>2. ~Answered' => Place' = At
      BY <1>2 DEF Place
    <3>3. Idle' \/ Sending' => ~Answered'
      BY <1>1, <1>6, <2>2 DEF Idle, Sending, Answered
    <3>4. ~Answered' => Placed'
      BY <1>1, <2>1, <3>2 DEF Placed
    <3> QED
      BY <2>7, <3>3, <3>4
  <2>8. CASE Idle
    <3>1. Len(down) # 0
      BY <2>4
    <3>2. down = <<>> => Len(down) = 0
      OBVIOUS
    <3>3. /\ pc # "wait" /\ Len(down) = 1
          /\ (At = FRAMES + 7 /\ pc = "pump") \/ At = FRAMES + 8
      BY <2>8, <3>1, <3>2 DEF Idle
    <3>4. CASE down' = Tail(down)
      BY <1>1, <1>6, <2>2, <2>6, <3>3, <3>4 DEF Idle
    <3>5. CASE down' = Garble(down)
      <4>1. Len(down') = 1 /\ Framish(down'[1])
        BY <2>5, <3>3, <3>5 DEF Framish
      <4> QED
        BY <1>1, <1>2, <1>6, <2>2, <3>3, <4>1 DEF Idle
    <3> QED
      BY <1>6, <3>4, <3>5
  <2>9. CASE Sending
    <3>1. /\ pc = "wait"
          /\ \/ Len(down) = 1
             \/ At = FRAMES + 8 /\ Len(down) = 2 /\ (down[2] = Command \/ down[2].type = "GARBLED")
      BY <2>9 DEF Sending
    <3>2. CASE Len(down) = 1 /\ down' = Tail(down)
      BY <1>1, <1>6, <2>2, <2>6, <3>1, <3>2 DEF Lost
    <3>3. CASE Len(down) = 1 /\ down' = Garble(down)
      BY <1>1, <1>6, <2>2, <2>5, <3>1, <3>3 DEF Sending
    <3>4. CASE At = FRAMES + 8 /\ Len(down) = 2 /\ (down[2] = Command \/ down[2].type = "GARBLED") /\ down' = Tail(down)
      <4>1. Len(down') = 1 /\ 1 \in 1 .. Len(Tail(down)) /\ 1 + 1 = 2
        BY <2>4, <3>4
      <4>2. down'[1] = down[2]
        BY <2>4, <3>4, <4>1
      <4> QED
        BY <1>1, <1>2, <1>6, <2>2, <3>1, <3>4, <4>1, <4>2 DEF Sending
    <3>5. CASE At = FRAMES + 8 /\ Len(down) = 2 /\ (down[2] = Command \/ down[2].type = "GARBLED") /\ down' = Garble(down)
      <4>1. Len(down') = 2 /\ Framish(down'[1]) /\ down'[2] = down[2]
        <5>1. 2 \in 2 .. Len(down)
          BY <3>5
        <5> QED
          BY <2>5, <3>5, <5>1 DEF Framish
      <4> QED
        BY <1>1, <1>2, <1>6, <2>2, <3>1, <3>5, <4>1 DEF Sending
    <3> QED
      BY <1>6, <3>1, <3>2, <3>3, <3>4, <3>5
  <2> QED
    BY <2>1, <2>8, <2>9
<1> QED
  BY <1>1, <1>5, <1>6

\* AskStep.
LEMMA CalmAsk ==
  ASSUME TypeOK, Control, Calm, CalmInv, AskStep
  PROVE  /\ Calm' /\ CalmInv' /\ At' = At /\ Idle /\ Sending' /\ ~Idle' /\ ~Answered' /\ ~Lost' /\ Place' = Place
         /\ Asking /\ Command' = Command /\ down' = Append(down, Command) /\ Place = At /\ down \in Seq(Requests)
         /\ Command \in Requests
         /\ \/ down = <<>> /\ Len(down') = 1 /\ down'[1] = Command
            \/ At = FRAMES + 8 /\ Len(down) = 1 /\ Len(down') = 2 /\ down'[1] = down[1] /\ down'[2] = Command
         /\ UNCHANGED <<dev, up, script, i, g_ref, evt_matched, g_errors, dev_evts, ref_evts, faults>>
<1>1. /\ pc = "step" /\ ~Done /\ Step.op = "ask" /\ pc' = "wait" /\ down' = Append(down, Command)
      /\ UNCHANGED <<dev, up, script, i, g_ref, evt_matched, g_errors, dev_evts, ref_evts, faults>>
  BY DEF AskStep, Begin, SendRaw, Command, histVars
<1>2. Idle /\ Placed /\ Place = At
  BY <1>1, CalmShape
<1>3. Asking /\ Command \in Requests
  BY <1>1, Outside, Asked
<1>4. At # FRAMES + 7
  BY <1>3, Asked
<1>5. /\ up = <<>> /\ dev.rsp = NoResponse
      /\ down = <<>> \/ (At = FRAMES + 8 /\ Len(down) = 1 /\ Framish(down[1]))
  BY <1>2, <1>4 DEF Idle
<1>6. At' = At /\ Calm' /\ Command' = Command
  BY <1>1 DEF At, Lead, OnBoard, Calm, InSession, Sessions, Command, CommandFrame, Step
<1>7. down \in Seq(Requests)
  BY DEF TypeOK
<1>8. /\ Len(down') = Len(down) + 1 /\ \A a \in 1 .. Len(down) : down'[a] = down[a]
      /\ down'[Len(down) + 1] = Command /\ down' # <<>>
  BY <1>1, <1>3, <1>7, Appended
<1>9. \/ down = <<>> /\ Len(down') = 1 /\ down'[1] = Command
      \/ At = FRAMES + 8 /\ Len(down) = 1 /\ Framish(down[1]) /\ Len(down') = 2 /\ down'[1] = down[1] /\ down'[2] = Command
  <2>1. down = <<>> => Len(down) = 0
    OBVIOUS
  <2>2. CASE Len(down) = 0
    <3>1. Len(down) + 1 = 1
      BY <2>2
    <3> QED
      BY <1>5, <1>8, <2>2, <3>1
  <2>3. CASE At = FRAMES + 8 /\ Len(down) = 1 /\ Framish(down[1])
    <3>1. Len(down) + 1 = 2 /\ 1 \in 1 .. Len(down)
      BY <2>3
    <3> QED
      BY <1>8, <2>3, <3>1
  <2> QED
    BY <1>5, <2>1, <2>2, <2>3
<1>10. Sending'
  BY <1>1, <1>5, <1>6, <1>9 DEF Sending
<1>11. ~Idle' /\ ~Answered' /\ ~Lost'
  BY <1>1, <1>8 DEF Idle, Answered, Lost
<1>12. Place' = At
  BY <1>6, <1>11 DEF Place
<1>13. Placed'
  BY <1>1, <1>2, <1>12 DEF Placed
<1>14. CalmInv'
  BY <1>1, <1>10, <1>13 DEF CalmInv
<1> QED
  BY <1>1, <1>2, <1>3, <1>6, <1>7, <1>9, <1>10, <1>11, <1>12, <1>14

\* TakeReply: nothing but the reply is on its way.
LEMMA CalmReply ==
  ASSUME TypeOK, Control, Calm, CalmInv, TakeReply, TypeOK', Control'
  PROVE  /\ Calm' /\ CalmInv' /\ At' = At + 1 /\ Place' = Place /\ Place = At + 1 /\ Answered /\ Idle' /\ down' = <<>>
         /\ ~Sending' /\ ~Answered' /\ ~Lost' /\ pc' = "step" /\ Asking
         /\ up # <<>> /\ g_errors' = (g_errors \/ ~ReplyOk(up[1]))
         /\ UNCHANGED <<dev, script, g_ref, evt_matched, dev_evts, ref_evts, faults>>
<1>1. /\ pc = "wait" /\ up # <<>> /\ i' = i + 1 /\ pc' = "step" /\ script' = script
      /\ up' = Tail(up) \/ \E n \in 2 .. Len(up) : up' = SubSeq(up, n + 1, Len(up))
      /\ UNCHANGED <<dev, down, g_ref, evt_matched, dev_evts, ref_evts, faults>>
  BY DEF TakeReply, Advance, histVars
<1>2. /\ Answered /\ Placed /\ Place = At + 1 /\ Len(up) = 1 /\ dev.rsp = NoResponse /\ down = <<>>
  BY <1>1, CalmShape
<1>3. Asking
  BY <1>1, Kinds DEF Control
<1>4. up' = <<>>
  <2>1. up \in Seq(Replies \cup Events)
    BY DEF TypeOK
  <2>2. PICK t : t = Tail(up)
    OBVIOUS
  <2>3. t \in Seq(Replies \cup Events) /\ Len(t) = 0
    BY <1>1, <1>2, <2>1, <2>2, Heads
  <2>4. t = <<>>
    BY <2>3
  <2>5. 2 .. Len(up) = {}
    BY <1>2
  <2> QED
    BY <1>1, <2>2, <2>4, <2>5
<1>5. At' = At + 1
  <2>1. At' = i' - Lead
    BY <1>1 DEF At, Lead, OnBoard
  <2>2. At = i - Lead /\ Lead \in {2, 3} /\ i \in Nat
    BY Everywhere DEF TypeOK
  <2> QED
    BY <1>1, <2>1, <2>2
<1>6. Calm'
  <2>1. \A b \in Sessions : At + 1 \notin b + 1 .. b + FRAMES + 2
    BY <1>3, Asked
  <2>2. Calm' <=> \A b \in Sessions : At' \notin b + 1 .. b + FRAMES + 2
    BY DEF Calm, InSession, Sessions
  <2> QED
    BY <1>5, <2>1, <2>2
<1>7. Idle' /\ ~Sending' /\ ~Answered' /\ ~Lost'
  BY <1>1, <1>2, <1>4 DEF Idle, Sending, Answered, Lost
<1>8. Place' = At + 1
  BY <1>5, <1>7 DEF Place
<1>9. Placed'
  BY <1>1, <1>2, <1>8 DEF Placed
<1>10. g_errors' = (g_errors \/ ~ReplyOk(up[1]))
  <2>1. Head(up) = up[1]
    BY <1>1, Heads DEF TypeOK
  <2> QED
    BY <2>1 DEF TakeReply, Check
<1>11. CalmInv'
  BY <1>1, <1>7, <1>9 DEF CalmInv
<1> QED
  BY <1>1, <1>2, <1>3, <1>5, <1>6, <1>7, <1>8, <1>10, <1>11

\* FeatureStep: the frame after the STOP.
LEMMA CalmFeature ==
  ASSUME TypeOK, Control, Calm, CalmInv, FeatureStep
  PROVE  /\ Calm' /\ CalmInv' /\ At' = At /\ At = FRAMES + 7 /\ Place = At /\ Place' = At /\ down = <<>> /\ pc # "pump"
         /\ Len(down') = 1 /\ down'[1].type = "FEATURE" /\ pc' = "pump" /\ Idle' /\ ~Sending' /\ ~Answered' /\ ~Lost'
         /\ Idle /\ ~Sending
         /\ UNCHANGED <<dev, up, script, i, g_ref, evt_matched, g_errors, dev_evts, ref_evts, faults>>
<1>1. /\ pc = "step" /\ ~Done /\ Step.op = "feature" /\ pc' = "pump"
      /\ UNCHANGED <<dev, up, script, i, evt_matched, g_errors, dev_evts, faults>>
  BY DEF FeatureStep, Begin
<1>2. At = FRAMES + 7 /\ Step = Feature(STOPPED, FALSE, FALSE)
  BY <1>1, Outside
<1>3. Step.corrupt = FALSE /\ Step.streaming = FALSE /\ Step.fn = STOPPED
  BY <1>2 DEF Feature
<1>4. /\ down' = Append(down, [type |-> "FEATURE", fn |-> STOPPED, id |-> 0])
      /\ UNCHANGED <<g_ref, ref_evts>>
  BY <1>3 DEF FeatureStep, SendRaw
<1>5. Idle /\ ~Sending /\ Placed /\ Place = At
  BY <1>1, CalmShape
<1>6. FRAMES \in Nat
  BY ScenarioAssumption
<1>7. up = <<>> /\ dev.rsp = NoResponse /\ down = <<>>
  BY <1>1, <1>2, <1>5, <1>6 DEF Idle
<1>8. Len(down') = 1 /\ down'[1].type = "FEATURE"
  BY <1>4, <1>7
<1>9. At' = At /\ Calm'
  BY <1>1 DEF At, Lead, OnBoard, Calm, InSession, Sessions
<1>10. Idle' /\ ~Sending' /\ ~Answered' /\ ~Lost'
  BY <1>1, <1>2, <1>7, <1>8, <1>9 DEF Idle, Framish, Sending, Answered, Lost
<1>11. Place' = At
  BY <1>9, <1>10 DEF Place
<1>12. Placed'
  BY <1>1, <1>5, <1>11 DEF Placed
<1>13. CalmInv'
  BY <1>1, <1>4, <1>10, <1>12 DEF CalmInv
<1> QED
  BY <1>1, <1>2, <1>4, <1>5, <1>7, <1>8, <1>9, <1>10, <1>11, <1>13

\* PumpEnds, after it.
LEMMA CalmPump ==
  ASSUME TypeOK, Control, Calm, CalmInv, PumpEnds
  PROVE  /\ Calm' /\ CalmInv' /\ At = FRAMES + 7 /\ At' = FRAMES + 8 /\ Place = At /\ Place' = At' /\ Idle /\ Idle'
         /\ ~Sending /\ ~Sending' /\ ~Answered' /\ ~Lost' /\ pc = "pump" /\ pc' = "step"
         /\ UNCHANGED <<dev, down, up, script, g_ref, evt_matched, g_errors, dev_evts, ref_evts, faults>>
<1>1. /\ pc = "pump" /\ i' = i + 1 /\ pc' = "step"
      /\ UNCHANGED <<dev, down, up, script, g_ref, evt_matched, g_errors, dev_evts, ref_evts, faults>>
  BY DEF PumpEnds, Advance, linkVars, histVars
<1>2. At = FRAMES + 7
  BY <1>1, Outside DEF Control
<1>3. FRAMES \in Nat \ {0}
  BY ScenarioAssumption
<1>4. At' = FRAMES + 8
  <2>1. At' = i' - Lead
    BY <1>1 DEF At, Lead, OnBoard
  <2>2. At = i - Lead /\ Lead \in {2, 3} /\ i \in Nat
    BY Everywhere DEF TypeOK
  <2> QED
    BY <1>1, <1>2, <1>3, <2>1, <2>2
<1>5. Calm'
  <2>1. Calm' <=> \A b \in {2, FRAMES + 15} : At' \notin b + 1 .. b + FRAMES + 2
    BY DEF Calm, InSession, Sessions
  <2> QED
    BY <1>3, <1>4, <2>1
<1>6. Idle /\ ~Sending /\ Placed /\ Place = At
  BY <1>1, CalmShape
<1>7. Idle' /\ ~Sending' /\ ~Answered' /\ ~Lost'
  <2>1. up = <<>> /\ dev.rsp = NoResponse /\ (down = <<>> \/ (Len(down) = 1 /\ Framish(down[1])))
    BY <1>6 DEF Idle
  <2> QED
    BY <1>1, <1>4, <2>1 DEF Idle, Sending, Answered, Lost
<1>8. Place' = FRAMES + 8
  BY <1>4, <1>7 DEF Place
<1>9. Placed'
  <2>1. ~dev.stream
    BY <1>2, <1>6 DEF Placed
  <2>2. FRAMES + 8 \notin Sessions
    BY <1>3 DEF Sessions
  <2> QED
    BY <1>1, <1>8, <2>1, <2>2 DEF Placed
<1>10. CalmInv'
  BY <1>1, <1>7, <1>9 DEF CalmInv
<1> QED
  BY <1>1, <1>2, <1>4, <1>5, <1>6, <1>7, <1>8, <1>10

\* RefResetStep: a session begins, on both sides.
LEMMA SessionBegins ==
  ASSUME TypeOK, Control, Calm, CalmInv, RefResetStep, TypeOK', Control'
  PROVE  /\ At \in Sessions /\ At' = At + 1 /\ Place = At /\ Idle
         /\ dev.stream /\ dev.commits = 0 /\ dev.window = <<>> /\ dev.decided = 0 /\ dev.job = NoJob
         /\ down = <<>> /\ up = <<>> /\ g_ref' = EmptyRef /\ before' = evt_matched /\ dev_evts = ref_evts
         /\ evt_matched = Len(ref_evts) /\ dev.rsp = NoResponse /\ pc' = "step"
         /\ UNCHANGED <<dev, down, up, script, evt_matched, g_errors, dev_evts, ref_evts, faults>>
<1>1. /\ pc = "step" /\ ~Done /\ Step.op = "ref_reset" /\ pc' = "step" /\ i' = i + 1
      /\ g_ref' = EmptyRef /\ before' = evt_matched
      /\ UNCHANGED <<dev, down, up, script, evt_matched, g_errors, dev_evts, ref_evts, faults>>
  BY DEF RefResetStep, Begin, Advance, linkVars, histVars
<1>2. At \in Sessions
  BY <1>1, Outside
<1>3. FRAMES \in Nat \ {0}
  BY ScenarioAssumption
<1>4. Idle /\ Placed /\ Place = At
  BY <1>1, CalmShape
<1>5. /\ dev.stream /\ dev.commits = 0 /\ dev.window = <<>> /\ dev.decided = 0
  BY <1>2, <1>4 DEF Placed
<1>6. At # FRAMES + 7 /\ At # FRAMES + 8
  BY <1>2, <1>3 DEF Sessions
<1>7. down = <<>> /\ up = <<>> /\ dev.rsp = NoResponse
  BY <1>4, <1>6 DEF Idle
<1>8. At' = At + 1
  <2>1. At' = i' - Lead
    BY <1>1 DEF At, Lead, OnBoard
  <2>2. At = i - Lead /\ Lead \in {2, 3} /\ i \in Nat
    BY Everywhere DEF TypeOK
  <2> QED
    BY <1>1, <2>1, <2>2
<1>9. dev.job = NoJob /\ dev_evts = ref_evts /\ evt_matched = Len(ref_evts)
  BY DEF CalmInv
<1> QED
  BY <1>1, <1>2, <1>4, <1>5, <1>7, <1>8, <1>9

\* The step that resets the reference opens a session.
LEMMA SessionOpens ==
  ASSUME TypeOK, Control, Calm, CalmInv, RefResetStep, TypeOK', Control', NEW base \in Sessions, At = base
  PROVE  InSession(base)' /\ SessionAt(base)' /\ Sent(base)' = 0
<1>1. /\ At' = At + 1 /\ dev.stream /\ dev.commits = 0 /\ dev.window = <<>> /\ dev.decided = 0 /\ dev.job = NoJob
      /\ down = <<>> /\ up = <<>> /\ g_ref' = EmptyRef /\ before' = evt_matched /\ dev_evts = ref_evts
      /\ evt_matched = Len(ref_evts) /\ dev.rsp = NoResponse /\ pc' = "step"
      /\ UNCHANGED <<dev, down, up, evt_matched, dev_evts, ref_evts>>
  BY SessionBegins
<1>2. base \in Nat /\ FRAMES \in Nat \ {0}
  BY SessionFacts, ScenarioAssumption
<1>3. InSession(base)' /\ Sent(base)' = 0 /\ At' # base + FRAMES + 2
  <2>1. /\ InSession(base)' <=> At' \in base + 1 .. base + FRAMES + 2
        /\ Sent(base)' = IF At' - base > FRAMES THEN FRAMES
                         ELSE IF pc' = "pump" THEN At' - base ELSE (At' - base) - 1
    BY DEF InSession, Sent
  <2> QED
    BY <1>1, <1>2, <2>1
<1>4. /\ g_ref'.commits = 0 /\ g_ref'.nth = 0 /\ g_ref'.evt = <<>>
  BY <1>1 DEF EmptyRef
<1>5. Flow(First(base), Cor(base), 0, dev', down', g_ref')
  <2>1. Len(down) = 0
    BY <1>1
  <2>2. Carried(First(base), Cor(base), 0, down)
    BY <2>1 DEF Carried
  <2>3. Good(Cor(base), 0) = 0 /\ 0 - Len(down) = 0
    BY <2>1, SessionFacts, GoodGrows
  <2>4. Good(Cor(base), 0 - Len(down)) = 0
    BY <2>3
  <2> QED
    BY <1>1, <1>4, <2>2, <2>3, <2>4 DEF Flow
<1>6. Windowed(dev', g_ref')
  BY <1>1, <1>4, CountedNone DEF Windowed, Ended
<1>7. Len(ref_evts) \in Nat /\ evt_matched \in Nat
  BY LenProperties DEF TypeOK
<1>8. Behind(dev', g_ref', before', dev_evts', ref_evts')
  <2>1. Lists(evt_matched, ref_evts, 0)
    <3>1. evt_matched + 1 .. Len(ref_evts) = {}
      BY <1>1, <1>7
    <3>2. \A q \in FIRING : ~(1 <= q /\ q <= 0)
      BY DeviceAssumption
    <3> QED
      BY <3>1, <3>2 DEF Lists
  <2>2. Len(dev_evts) <= Len(ref_evts) /\ evt_matched + 1 .. Len(dev_evts) = {}
    BY <1>1, <1>7
  <2> QED
    BY <1>1, <1>4, <2>1, <2>2 DEF Behind
<1>9. Matched(g_ref', evt_matched', before', dev_evts', ref_evts')
  <2>1. Len(g_ref'.evt) = 0
    BY <1>4
  <2>2. evt_matched <= evt_matched /\ evt_matched <= Len(dev_evts) /\ Len(ref_evts) = evt_matched + Len(g_ref'.evt)
    BY <1>1, <1>7, <2>1
  <2>3. 1 .. Len(g_ref'.evt) = {}
    BY <2>1
  <2> QED
    BY <1>1, <2>2, <2>3 DEF Matched
<1>10. Coming(evt_matched', dev_evts', up')
  <2>1. 1 .. Len(up) = {}
    BY <1>1
  <2> QED
    BY <1>1, <2>1 DEF Coming
<1>11. SessionInv(First(base), Cor(base), 0)'
  BY <1>5, <1>6, <1>8, <1>9, <1>10 DEF SessionInv
<1>12. SessionInv(First(base), Cor(base), Sent(base))'
  BY <1>3, <1>11 DEF SessionInv
<1> QED
  BY <1>3, <1>12 DEF SessionAt

\* Whatever happens between sessions without an error, the sides stay in agreement.
LEMMA CalmStep ==
  ASSUME TypeOK, Control, Calm, CalmInv, [Next]_vars, ~g_errors', TypeOK', Control'
  PROVE  \/ Calm' /\ CalmInv'
         \/ At \in Sessions /\ RefResetStep
<1>1. CASE DevTake
  BY <1>1, CalmTake
<1>2. CASE DevAnswer
  BY <1>2, CalmAnswer
<1>3. CASE DevDecide
  BY <1>3 DEF DevDecide, CalmInv
<1>4. CASE Lose
  BY <1>4, CalmLose
<1>5. CASE AskStep
  BY <1>5, CalmAsk
<1>6. CASE TakeEvent
  <2>1. up # <<>> /\ Head(up).type = "EVT"
    BY <1>6 DEF TakeEvent
  <2>2. up[1].type # "EVT"
    BY <2>1, CalmShape
  <2>3. Head(up) = up[1]
    BY <2>1, Heads DEF TypeOK
  <2> QED
    BY <2>1, <2>2, <2>3
<1>7. CASE TakeReply
  BY <1>7, CalmReply
<1>8. CASE TakeOther \/ Timeout
  BY <1>8 DEF TakeOther, Timeout, Check
<1>9. CASE FeatureStep
  BY <1>9, CalmFeature
<1>10. CASE DrainStep \/ MatchedStep
  BY <1>10, Outside DEF DrainStep, MatchedStep, Begin
<1>11. CASE PumpEnds
  BY <1>11, CalmPump
<1>12. CASE RefResetStep
  BY <1>12, SessionBegins
<1>13. CASE Finished \/ UNCHANGED vars
  <2>1. UNCHANGED vars
    BY <1>13 DEF Finished
  <2>2. Calm' <=> Calm
    BY <2>1, CalmStays DEF vars, testVars
  <2>3. CalmInv'
    BY <2>1 DEF vars, linkVars, testVars, histVars, CalmInv, Lost, Idle, Sending, Answered, Placed, Place, At, Lead,
                OnBoard, Command, CommandFrame, Step
  <2> QED
    BY <2>2, <2>3
<1> QED
  BY <1>1, <1>2, <1>3, <1>4, <1>5, <1>6, <1>7, <1>8, <1>9, <1>10, <1>11, <1>12, <1>13 DEF Next, Run

-----------------------------------------------------------------------------
(* No false pass. *)

\* No step takes an error back.
LEMMA ErrorsStay ==
  ASSUME [Next]_vars, g_errors
  PROVE  g_errors'
<1>1. CASE TakeEvent \/ TakeReply \/ TakeOther \/ Timeout \/ MatchedStep
  BY <1>1 DEF TakeEvent, TakeReply, TakeOther, Timeout, MatchedStep, HandleEvent, Check
<1>2. CASE DevTake \/ DevAnswer \/ DevDecide \/ Lose
  BY <1>2 DEF DevTake, DevAnswer, DevDecide, Lose, testVars
<1>3. CASE AskStep \/ FeatureStep \/ DrainStep \/ PumpEnds \/ RefResetStep
  BY <1>3 DEF AskStep, FeatureStep, DrainStep, PumpEnds, RefResetStep
<1>4. CASE Finished \/ UNCHANGED vars
  BY <1>4 DEF Finished, vars, testVars
<1> QED
  BY <1>1, <1>2, <1>3, <1>4 DEF Next, Run

\* What the device is when a test begins: nothing is under way on it.
LEMMA DeviceFirst ==
  ASSUME Init
  PROVE  /\ dev.job = NoJob /\ dev.rsp = NoResponse
         /\ ~OnBoard => dev.stats = NoStats
<1>1. DevPowerUp.job = NoJob /\ DevPowerUp.rsp = NoResponse /\ DevPowerUp.stats = NoStats
  BY DEF DevPowerUp
<1>2. CASE dev = DevPowerUp
  BY <1>1, <1>2
<1>3. CASE OnBoard /\ dev = Commit([DevPowerUp EXCEPT !.stream = TRUE], STOPPED)
  <2> DEFINE d == [DevPowerUp EXCEPT !.stream = TRUE]
  <2>1. d.stream = TRUE /\ d.job = NoJob /\ d.rsp = NoResponse /\ d.commits = 0
    BY DEF DevPowerUp
  <2>2. DevOK(d)
    BY PowerUpTypes
  <2>3. STOPPED \in Nat
    BY ScenarioAssumption DEF STOPPED
  <2>4. ~EndsWindow(1)
    <3>1. WINDOW_LEN \in Nat /\ WINDOW_LEN > 1
      BY DeviceAssumption, ScenarioAssumption
    <3> QED
      BY <3>1 DEF EndsWindow
  <2>5. dev = Commit(d, STOPPED)
    BY <1>3
  <2> HIDE DEF d
  <2>6. Commit(d, STOPPED).rsp = d.rsp /\ Commit(d, STOPPED).job = IF EndsWindow(d.commits + 1) THEN Commit(d, STOPPED).window ELSE d.job
    BY <2>1, <2>2, <2>3, CommitIs
  <2>7. d.commits + 1 = 1
    BY <2>1
  <2> QED
    BY <1>3, <2>1, <2>4, <2>5, <2>6, <2>7
<1> QED
  BY <1>2, <1>3 DEF Init

\* A test begins between the sessions.
LEMMA CalmFirst ==
  ASSUME Init
  PROVE  Calm /\ CalmInv /\ Idle /\ ~Sending /\ ~Answered /\ ~Lost /\ down = <<>> /\ Place = At
         /\ At = IF OnBoard THEN -2 ELSE -1
<1>1. TypeOK /\ Control
  BY TypesFirst
<1>2. /\ down = <<>> /\ up = <<>> /\ i = 1 /\ pc = "step" /\ g_ref = EmptyRef
      /\ evt_matched = 0 /\ dev_evts = <<>> /\ ref_evts = <<>>
  BY DEF Init
<1>3. FRAMES \in Nat \ {0}
  BY ScenarioAssumption
<1>4. At = IF OnBoard THEN -2 ELSE -1
  BY <1>2 DEF At, Lead
<1>5. Calm
  <2>1. \A b \in {2, FRAMES + 15} : At \notin b + 1 .. b + FRAMES + 2
    BY <1>3, <1>4
  <2> QED
    BY <2>1 DEF Calm, InSession, Sessions
<1>6. Idle /\ ~Sending /\ ~Answered /\ ~Lost
  BY <1>2, DeviceFirst DEF Idle, Sending, Answered, Lost
<1>7. Place = At
  BY <1>6 DEF Place
<1>8. Placed
  <2>1. Place \notin {FRAMES + 7, FRAMES + 8} /\ Place \notin Sessions
    BY <1>3, <1>4, <1>7 DEF Sessions
  <2> QED
    BY <2>1 DEF Placed
<1>9. Len(ref_evts) = 0 /\ g_ref.evt = <<>>
  BY <1>2 DEF EmptyRef
<1> QED
  BY <1>2, <1>4, <1>5, <1>6, <1>7, <1>8, <1>9, DeviceFirst DEF CalmInv

\* In or after a session the other one says nothing.
LEMMA AgreeInSession ==
  ASSUME NEW base \in Sessions, InSession(base)', SessionAt(base)'
  PROVE  Agree'
<1>1. base \in {2, FRAMES + 15} /\ FRAMES \in Nat
  BY ScenarioAssumption DEF Sessions
<1>2. /\ At' \in base + 1 .. base + FRAMES + 2
  BY DEF InSession
<1>3. ~Calm'
  BY <1>2 DEF Calm, InSession
<1>4. ASSUME NEW b \in Sessions, b # base PROVE SessionAt(b)'
  <2>1. At' \notin b + 1 .. b + FRAMES + 2 /\ b \in Nat
    BY <1>1, <1>2, <1>4 DEF Sessions
  <2>2. ~InSession(b)'
    BY <2>1 DEF InSession
  <2>3. At' # b + FRAMES + 2
    BY <1>1, <2>1
  <2> QED
    BY <2>2, <2>3 DEF SessionAt
<1>5. SessionAt(2)'
  BY <1>4 DEF Sessions
<1>6. SessionAt(FRAMES + 15)'
  BY <1>4 DEF Sessions
<1> QED
  BY <1>3, <1>5, <1>6 DEF Agree

\* Between sessions the calm part is all there is to keep.
LEMMA AgreeInCalm ==
  ASSUME Calm', CalmInv'
  PROVE  Agree'
<1>1. FRAMES \in Nat
  BY ScenarioAssumption
<1>2. ASSUME NEW b \in Sessions PROVE SessionAt(b)'
  <2>1. At' \notin b + 1 .. b + FRAMES + 2
    BY DEF Calm, InSession
  <2>2. b + FRAMES + 2 \in b + 1 .. b + FRAMES + 2
    BY <1>1 DEF Sessions
  <2>3. ~InSession(b)' /\ At' # b + FRAMES + 2
    BY <2>1, <2>2 DEF InSession
  <2> QED
    BY <2>3 DEF SessionAt
<1>3. SessionAt(2)'
  BY <1>2 DEF Sessions
<1>4. SessionAt(FRAMES + 15)'
  BY <1>2 DEF Sessions
<1> QED
  BY <1>3, <1>4 DEF Agree

\* A step that finds no error keeps the sides in agreement.
LEMMA AgreeKept ==
  ASSUME TypeOK, Control, Agree, [Next]_vars, ~g_errors', TypeOK', Control'
  PROVE  Agree'
<1>1. ASSUME NEW base \in Sessions, InSession(base), SessionAt(base) PROVE Agree'
  BY <1>1, SessionStep, AgreeInSession, AgreeInCalm
<1>2. CASE Calm
  <2>1. CalmInv
    BY <1>2 DEF Agree
  <2>2. CASE At \in Sessions /\ RefResetStep
    <3>1. PICK base \in Sessions : At = base
      BY <2>2
    <3> QED
      BY <1>2, <2>1, <2>2, <3>1, SessionOpens, AgreeInSession
  <2> QED
    BY <1>2, <2>1, <2>2, CalmStep, AgreeInCalm
<1>3. SessionAt(2) /\ SessionAt(FRAMES + 15)
  BY DEF Agree
<1>4. Calm \/ InSession(2) \/ InSession(FRAMES + 15)
  BY Between
<1> QED
  BY <1>1, <1>2, <1>3, <1>4 DEF Sessions

\* The invariant holds at the start.
LEMMA PassFirst == Init => PassInv
<1> SUFFICES ASSUME Init PROVE PassInv
  OBVIOUS
<1>1. TypeOK /\ Control /\ Calm /\ CalmInv
  BY TypesFirst, CalmFirst
<1>2. FRAMES \in Nat
  BY ScenarioAssumption
<1>3. ASSUME NEW b \in Sessions PROVE SessionAt(b)
  <2>1. ~InSession(b)
    BY <1>1 DEF Calm
  <2>2. b + FRAMES + 2 \in b + 1 .. b + FRAMES + 2
    BY <1>2 DEF Sessions
  <2>3. At # b + FRAMES + 2
    BY <2>1, <2>2 DEF InSession
  <2> QED
    BY <2>1, <2>3 DEF SessionAt
<1>4. SessionAt(2) /\ SessionAt(FRAMES + 15)
  BY <1>3 DEF Sessions
<1> QED
  BY <1>1, <1>4 DEF PassInv, Agree

\* Every step keeps it.
LEMMA PassKept == PassInv /\ [Next]_vars => PassInv'
<1> SUFFICES ASSUME PassInv, [Next]_vars PROVE PassInv'
  OBVIOUS
<1>1. TypeOK /\ Control /\ (~g_errors => Agree)
  BY DEF PassInv
<1>2. TypeOK' /\ Control'
  BY <1>1, TypesKept
<1>3. ~g_errors' => Agree'
  BY <1>1, <1>2, ErrorsStay, AgreeKept
<1> QED
  BY <1>2, <1>3 DEF PassInv

\* At the end it is the agreement that a pass means.
LEMMA PassEnds == PassInv => PassMeansAgreed
<1> SUFFICES ASSUME PassInv, Done, ~g_errors PROVE dev_evts = ref_evts /\ evt_matched = Len(ref_evts)
  BY DEF PassMeansAgreed
<1>1. TypeOK /\ Control /\ (Calm => CalmInv)
  BY DEF PassInv, Agree
<1>2. At >= 2 * FRAMES + 18 /\ At \in Int /\ FRAMES \in Nat
  BY <1>1, Everywhere
<1>3. Calm
  BY <1>2 DEF Calm, InSession, Sessions
<1> QED
  BY <1>1, <1>3 DEF CalmInv

\* The invariant that makes a pass mean something: types, the place in the script and,
\* without an error, agreement of the device and the mirror.
THEOREM PassInvariant == Spec => []PassInv
<1> QED
  BY PassFirst, PassKept, PTL DEF Spec

\* main() of hwtest.c and the bench: a test that ends without an error has seen the
\* device detect just what the reference detects, whatever was lost on the way.
THEOREM AgreedAtPass == Spec => []PassMeansAgreed
<1> QED
  BY PassInvariant, PassEnds, PTL

-----------------------------------------------------------------------------
(* In a session, while nothing is lost. *)

StatsAre(k) == StatsExact(k, dev, down, g_ref, dev_evts)

\* Exactness is about the state outside the script only.
LEMMA ExactStays ==
  ASSUME NEW first, NEW cor, NEW k, UNCHANGED Both
  PROVE  /\ SessionExact(first, cor, k) => SessionExact(first, cor, k)'
         /\ StatsAre(k) => StatsAre(k)'
BY DEF SessionExact, StatsAre, Both

\* DevTake.
LEMMA ExactTakes ==
  ASSUME NEW first \in Nat, NEW cor \in SUBSET (0 .. FRAMES - 1), NEW k \in 0 .. FRAMES, TypeOK,
         SessionInv(first, cor, k), SessionExact(first, cor, k), DevTake
  PROVE  SessionExact(first, cor, k)' /\ (StatsAre(k) => StatsAre(k)')
<1>1. /\ DevOK(dev) /\ down \in Seq(Requests) /\ k \in Nat /\ k <= FRAMES
  BY ScenarioAssumption DEF TypeOK
<1>2. /\ down # <<>> /\ Ready(dev, Head(down)) /\ down' = Tail(down) /\ dev' = Receive(dev, Head(down))
      /\ UNCHANGED <<up, g_ref, evt_matched, before, dev_evts, ref_evts>>
  BY DEF DevTake, testVars, histVars
<1>3. Flow(first, cor, k, dev, down, g_ref) /\ Windowed(dev, g_ref)
  BY DEF SessionInv
<1>4. /\ FlowExact(cor, k, dev, down) /\ WindowExact(first, cor, dev) /\ RingExact(first, cor, g_ref)
      /\ EventsExact(first, cor, before, dev_evts) /\ EventsExact(first, cor, before, ref_evts)
      /\ UpExact(evt_matched, dev_evts, up)
  BY DEF SessionExact
<1>5. /\ FlowExact(cor, k, dev', down') /\ WindowExact(first, cor, dev')
      /\ StatsExact(k, dev, down, g_ref, dev_evts) => StatsExact(k, dev', down', g_ref, dev_evts)
  BY <1>1, <1>2, <1>3, <1>4, ExactTake
<1> QED
  BY <1>2, <1>4, <1>5 DEF SessionExact, StatsAre

\* DevDecide.
LEMMA ExactDecides ==
  ASSUME NEW first \in Nat, NEW cor \in SUBSET (0 .. FRAMES - 1), NEW k \in 0 .. FRAMES, TypeOK,
         SessionInv(first, cor, k), SessionExact(first, cor, k), DevDecide
  PROVE  SessionExact(first, cor, k)' /\ (StatsAre(k) => StatsAre(k)')
<1> DEFINE df == IF Fires(dev) THEN Append(dev_evts, Event(dev)) ELSE dev_evts
           v == IF Fires(dev) THEN Append(up, Event(dev)) ELSE up
<1>1. /\ DevOK(dev) /\ up \in Seq(Replies \cup Events) /\ dev_evts \in Seq(Events)
      /\ before \in Nat /\ evt_matched \in Nat
  BY DEF TypeOK
<1>2. /\ dev.job # NoJob /\ dev' = Decide(dev) /\ up' = v /\ dev_evts' = df
      /\ UNCHANGED <<down, g_ref, evt_matched, before, ref_evts>>
  BY DEF DevDecide, testVars
<1>3. evt_matched <= Len(dev_evts)
  BY DEF SessionInv, Matched
<1>4. /\ FlowExact(cor, k, dev, down) /\ WindowExact(first, cor, dev) /\ RingExact(first, cor, g_ref)
      /\ EventsExact(first, cor, before, dev_evts) /\ EventsExact(first, cor, before, ref_evts)
      /\ UpExact(evt_matched, dev_evts, up)
  BY DEF SessionExact
<1>5. /\ WindowExact(first, cor, Decide(dev))
      /\ FlowExact(cor, k, dev, down) => FlowExact(cor, k, Decide(dev), down)
      /\ EventsExact(first, cor, before, dev_evts) => EventsExact(first, cor, before, df)
      /\ UpExact(evt_matched, dev_evts, up) /\ evt_matched <= Len(dev_evts) => UpExact(evt_matched, df, v)
      /\ StatsExact(k, dev, down, g_ref, dev_evts) => StatsExact(k, Decide(dev), down, g_ref, df)
  BY <1>1, <1>2, <1>4, ExactDecide
<1> HIDE DEF df, v
<1> QED
  BY <1>2, <1>3, <1>4, <1>5 DEF SessionExact, StatsAre

\* TakeEvent: the event is the one that is expected.
LEMMA ExactEvent ==
  ASSUME NEW first \in Nat, NEW cor \in SUBSET (0 .. FRAMES - 1), NEW k \in 0 .. FRAMES, TypeOK,
         SessionInv(first, cor, k), SessionExact(first, cor, k), TakeEvent
  PROVE  SessionExact(first, cor, k)' /\ (StatsAre(k) => StatsAre(k)') /\ g_errors' = g_errors
<1>1. /\ DevOK(dev) /\ g_ref \in Mirrors /\ up \in Seq(Replies \cup Events) /\ g_errors \in BOOLEAN
      /\ dev_evts \in Seq(Events) /\ ref_evts \in Seq(Events) /\ before \in Nat /\ evt_matched \in Nat
  BY DEF TypeOK
<1>2. /\ up # <<>> /\ HandleEvent(Head(up)) /\ up' = Tail(up)
      /\ UNCHANGED <<dev, down, before, dev_evts, ref_evts>>
  BY DEF TakeEvent, histVars
<1>3. /\ Behind(dev, g_ref, before, dev_evts, ref_evts)
      /\ Matched(g_ref, evt_matched, before, dev_evts, ref_evts)
      /\ Coming(evt_matched, dev_evts, up)
  BY DEF SessionInv
<1>4. /\ FlowExact(cor, k, dev, down) /\ WindowExact(first, cor, dev) /\ RingExact(first, cor, g_ref)
      /\ EventsExact(first, cor, before, dev_evts) /\ EventsExact(first, cor, before, ref_evts)
      /\ UpExact(evt_matched, dev_evts, up)
  BY DEF SessionExact
<1>5. g_ref.evt # <<>> /\ Head(up) = Head(g_ref.evt) /\ UpExact(evt_matched + 1, dev_evts, Tail(up))
  BY <1>1, <1>2, <1>3, <1>4, ExactHandle
<1>6. /\ g_ref'.win = g_ref.win /\ g_ref'.commits = g_ref.commits /\ g_ref'.nth = g_ref.nth
      /\ g_ref'.inferences = g_ref.inferences /\ evt_matched' = evt_matched + 1 /\ g_errors' = g_errors
  BY <1>1, <1>2, <1>5, HandleIs
<1>7. RingExact(first, cor, g_ref')
  BY <1>4, <1>6 DEF RingExact
<1>8. StatsAre(k) => StatsAre(k)'
  BY <1>2, <1>6 DEF StatsAre, StatsExact
<1> QED
  BY <1>2, <1>4, <1>5, <1>6, <1>7, <1>8 DEF SessionExact

\* FeatureStep.
LEMMA ExactSends ==
  ASSUME NEW first \in Nat, NEW cor \in SUBSET (0 .. FRAMES - 1), NEW k \in 0 .. FRAMES - 1, TypeOK,
         SessionInv(first, cor, k), SessionExact(first, cor, k), Sends(first, cor, k)
  PROVE  SessionExact(first, cor, k + 1)' /\ (StatsAre(k) => StatsAre(k + 1)')
<1> DEFINE p == [type |-> IF k \in cor THEN "GARBLED" ELSE "FEATURE", fn |-> first + k, id |-> 0]
           x == Observed(g_ref', g_ref.nth + 1, first + k)
<1>1. /\ DevOK(dev) /\ down \in Seq(Requests) /\ g_ref \in Mirrors /\ k \in Nat
      /\ ref_evts \in Seq(Events) /\ before \in Nat
  BY ScenarioAssumption DEF TypeOK
<1>2. /\ down' = Append(down, p) /\ UNCHANGED <<dev, up, evt_matched, before, dev_evts>>
      /\ k \notin cor => RefCommit(first + k)
      /\ k \in cor => UNCHANGED <<g_ref, ref_evts>>
  BY DEF Sends
<1>3. Flow(first, cor, k, dev, down, g_ref) /\ Windowed(dev, g_ref)
  BY DEF SessionInv
<1>4. /\ FlowExact(cor, k, dev, down) /\ WindowExact(first, cor, dev) /\ RingExact(first, cor, g_ref)
      /\ EventsExact(first, cor, before, dev_evts) /\ EventsExact(first, cor, before, ref_evts)
      /\ UpExact(evt_matched, dev_evts, up)
  BY DEF SessionExact
<1>5. /\ p \in Requests /\ p.type = IF k \in cor THEN "GARBLED" ELSE "FEATURE"
      /\ first + k \in Nat
  BY <1>1 DEF Requests, Types
<1> HIDE DEF p
<1>6. FlowExact(cor, k + 1, dev, Append(down, p))
  BY <1>1, <1>4, <1>5, FlowExactSend
<1>7. Len(down') = Len(down) + 1 /\ Len(down) \in Nat /\ dev.commits \in Nat
  BY <1>1, <1>2, <1>5, Appended, Fields
<1>8. g_ref'.inferences = g_ref'.nth \/ g_ref.inferences # g_ref.nth => (StatsAre(k) => StatsAre(k + 1)')
  <2>1. ((k + 1) - Len(down')) - dev.commits = (k - Len(down)) - dev.commits
    BY <1>1, <1>7
  <2> QED
    BY <1>2, <2>1 DEF StatsAre, StatsExact
<1>9. CASE k \in cor
  <2>1. g_ref' = g_ref /\ ref_evts' = ref_evts
    BY <1>2, <1>9
  <2> QED
    BY <1>2, <1>4, <1>6, <1>8, <2>1 DEF SessionExact
<1>10. CASE k \notin cor
  <2>1. /\ g_ref' \in Mirrors /\ RefDone(g_ref, g_ref', x) /\ RefEvents(g_ref, g_ref', x, ref_evts, ref_evts')
        /\ g_ref'.win = [g_ref.win EXCEPT ![g_ref.commits % WINDOW_LEN] = first + k]
        /\ g_ref.inferences = g_ref.nth => g_ref'.inferences = g_ref'.nth
    BY <1>2, <1>5, <1>10, RefSends
  <2>2. g_ref.commits = Good(cor, k) /\ Counted(g_ref.commits, g_ref.nth)
    BY <1>3 DEF Flow, Windowed
  <2>3. x = Observed(g_ref', g_ref.nth + 1, first + k)
    OBVIOUS
  <2> HIDE DEF x
  <2>4. RingExact(first, cor, g_ref') /\ (EndsWindow(g_ref'.commits) => x = Due(first, cor, g_ref.nth + 1))
    <3>1. PICK r, q, fn, y : r = g_ref /\ q = g_ref' /\ fn = first + k /\ y = x
      OBVIOUS
    <3>2. /\ r \in Mirrors /\ q \in Mirrors /\ RefDone(r, q, y) /\ RingSends(r, q, fn)
          /\ y = Observed(q, r.nth + 1, fn) /\ fn = first + k
      BY <1>1, <2>1, <2>3, <3>1 DEF RingSends
    <3>3. r.commits = Good(cor, k) /\ Counted(r.commits, r.nth) /\ RingExact(first, cor, r)
      BY <1>4, <2>2, <3>1
    <3>4. RingExact(first, cor, q) /\ (EndsWindow(q.commits) => y = Due(first, cor, r.nth + 1))
      BY <1>10, <3>2, <3>3, ExactSend
    <3> QED
      BY <3>1, <3>4
  <2>5. EventsExact(first, cor, before, ref_evts')
    BY <1>1, <1>4, <2>1, <2>4, EventsExactSend
  <2> QED
    BY <1>2, <1>4, <1>6, <1>8, <2>1, <2>4, <2>5 DEF SessionExact
<1> QED
  BY <1>9, <1>10

\* MatchedStep finds no error, and the statistics are those of the session.
LEMMA MatchedExact ==
  ASSUME TypeOK, Control, NEW base \in Sessions, InSession(base), SessionAt(base), ExactAt(base), MatchedStep
  PROVE  /\ g_errors' = g_errors
         /\ base = 2 => SessionStats(dev.stats)
<1>1. /\ DevOK(dev) /\ g_ref \in Mirrors /\ before \in Nat /\ evt_matched \in Nat
      /\ dev_evts \in Seq(Events) /\ ref_evts \in Seq(Events)
  BY DEF TypeOK
<1>2. /\ First(base) \in Nat /\ Cor(base) \in SUBSET (0 .. FRAMES - 1)
      /\ FRAMES - Cardinality(CORRUPT) <= Good(Cor(base), FRAMES)
      /\ Good(CORRUPT, FRAMES) = FRAMES - Cardinality(CORRUPT) /\ Cardinality(CORRUPT) \in Nat
      /\ base \in Nat /\ FRAMES \in Nat
  BY SessionFacts, ScenarioAssumption
<1>3. Step.op = "matched"
  BY DEF MatchedStep, Begin
<1>4. At = base + FRAMES + 2 /\ At \in Int
  BY <1>3, Inside
<1>5. Sent(base) = FRAMES
  <2>1. At - base > FRAMES
    BY <1>2, <1>4
  <2> QED
    BY <2>1, SentIs
<1>6. down = <<>> /\ up = <<>> /\ dev.job = NoJob
  BY <1>4 DEF SessionAt, Quiet, DevQuiet
<1>7. SessionInv(First(base), Cor(base), FRAMES) /\ SessionExact(First(base), Cor(base), FRAMES)
  BY <1>5 DEF SessionAt, ExactAt
<1>8. /\ Flow(First(base), Cor(base), FRAMES, dev, down, g_ref) /\ Windowed(dev, g_ref)
      /\ Behind(dev, g_ref, before, dev_evts, ref_evts)
      /\ Matched(g_ref, evt_matched, before, dev_evts, ref_evts)
      /\ FlowExact(Cor(base), FRAMES, dev, down) /\ UpExact(evt_matched, dev_evts, up)
  BY <1>7 DEF SessionInv, SessionExact
<1>9. /\ g_ref.evt = <<>> /\ evt_matched > before /\ dev.commits = g_ref.commits /\ dev.decided = g_ref.nth
      /\ Len(dev_evts) = evt_matched
  BY <1>1, <1>2, <1>6, <1>8, AllMatched
<1>10. g_errors' = g_errors
  <2>1. g_errors' = (g_errors \/ ~(g_ref.evt = <<>> /\ evt_matched > before))
    BY DEF MatchedStep, Check
  <2>2. g_errors \in BOOLEAN
    BY DEF TypeOK
  <2> QED
    BY <1>9, <2>1, <2>2
<1>11. ASSUME base = 2 PROVE SessionStats(dev.stats)
  <2>1. Cor(base) = CORRUPT
    BY <1>11 DEF Cor
  <2>2. StatsExact(FRAMES, dev, down, g_ref, dev_evts)
    BY <1>5, <1>11 DEF ExactAt
  <2>3. Len(down) = 0
    BY <1>6
  <2>4. g_ref.commits = FRAMES - Cardinality(CORRUPT)
    BY <1>2, <1>8, <2>1 DEF Flow
  <2>5. /\ dev.stats.frames_rx = dev.commits /\ dev.stats.crc = (FRAMES - Len(down)) - dev.commits
        /\ dev.stats.dropped = 0 /\ dev.stats.inferences = dev.decided
        /\ dev.stats.keywords = Len(dev_evts) /\ g_ref.inferences = g_ref.nth
    BY <2>2 DEF StatsExact
  <2>6. (FRAMES - Len(down)) - dev.commits = Cardinality(CORRUPT)
    BY <1>2, <1>9, <2>3, <2>4
  <2> QED
    BY <1>9, <2>4, <2>5, <2>6 DEF SessionStats
<1> QED
  BY <1>10, <1>11

\* What is to be shown when nothing but the session's steps happens.
LEMMA ExactThere ==
  ASSUME NEW base \in Sessions, NEW k, Sent(base)' = k, SessionExact(First(base), Cor(base), k)',
         base = 2 => StatsAre(k)'
  PROVE  ExactAt(base)'
<1>1. SessionExact(First(base), Cor(base), Sent(base))'
  BY DEF SessionExact
<1>2. base = 2 => (StatsExact(Sent(2), dev, down, g_ref, dev_evts))'
  <2> SUFFICES ASSUME base = 2 PROVE (StatsExact(Sent(2), dev, down, g_ref, dev_evts))'
    OBVIOUS
  <2>1. Sent(2)' = k
    BY DEF Sent
  <2> QED
    BY <2>1 DEF StatsAre
<1> QED
  BY <1>1, <1>2 DEF ExactAt

\* While nothing is lost, whatever happens in a session is no error.
LEMMA SessionNoAlarm ==
  ASSUME TypeOK, Control, NEW base \in Sessions, InSession(base), SessionAt(base), ExactAt(base),
         faults = 0, faults' = 0, [Next]_vars, TypeOK', Control'
  PROVE  g_errors' = g_errors /\ (MatchedStep \/ ExactAt(base)')
<1>1. /\ ~Done /\ ~Calm /\ Step.op \notin {"ask", "ref_reset"} /\ pc # "wait"
  BY Inside
<1>2. /\ First(base) \in Nat /\ Cor(base) \in SUBSET (0 .. FRAMES - 1) /\ base \in Nat
  BY SessionFacts
<1>3. PICK k : k = Sent(base)
  OBVIOUS
<1>4. k \in 0 .. FRAMES
  BY <1>3, SentIs
<1>5. SessionInv(First(base), Cor(base), k)
  BY <1>3 DEF SessionAt
<1>6. SessionExact(First(base), Cor(base), k) /\ (base = 2 => StatsAre(k))
  BY <1>3 DEF ExactAt, StatsAre
<1>7. dev.rsp = NoResponse
  BY <1>5, Zenon DEF SessionInv, Flow
<1>8. UNCHANGED <<script, i, pc>> => Sent(base)' = k
  BY <1>3, PlaceStays
<1>9. CASE DevTake
  <2>1. UNCHANGED <<script, i, pc, g_errors>>
    BY <1>9 DEF DevTake, testVars
  <2>2. SessionExact(First(base), Cor(base), k)' /\ (StatsAre(k) => StatsAre(k)')
    BY <1>2, <1>4, <1>5, <1>6, <1>9, ExactTakes
  <2> QED
    BY <1>6, <1>8, <2>1, <2>2, ExactThere
<1>10. CASE DevAnswer
  BY <1>7, <1>10 DEF DevAnswer
<1>11. CASE DevDecide
  <2>1. UNCHANGED <<script, i, pc, g_errors>>
    BY <1>11 DEF DevDecide, testVars
  <2>2. SessionExact(First(base), Cor(base), k)' /\ (StatsAre(k) => StatsAre(k)')
    BY <1>2, <1>4, <1>5, <1>6, <1>11, ExactDecides
  <2> QED
    BY <1>6, <1>8, <2>1, <2>2, ExactThere
<1>12. CASE Lose
  BY <1>12 DEF Lose
<1>13. CASE AskStep
  BY <1>1, <1>13 DEF AskStep, Begin
<1>14. CASE TakeEvent
  <2>1. UNCHANGED <<script, i, pc>>
    BY <1>14 DEF TakeEvent
  <2>2. SessionExact(First(base), Cor(base), k)' /\ (StatsAre(k) => StatsAre(k)') /\ g_errors' = g_errors
    BY <1>2, <1>4, <1>5, <1>6, <1>14, ExactEvent
  <2> QED
    BY <1>6, <1>8, <2>1, <2>2, ExactThere
<1>15. CASE TakeReply \/ Timeout
  BY <1>1, <1>15 DEF TakeReply, Timeout
<1>16. CASE TakeOther
  <2>1. up # <<>> /\ Head(up).type # "EVT"
    BY <1>16 DEF TakeOther
  <2>2. up \in Seq(Replies \cup Events) /\ dev_evts \in Seq(Events) /\ evt_matched \in Nat
    BY DEF TypeOK
  <2>3. Coming(evt_matched, dev_evts, up)
    BY <1>5 DEF SessionInv
  <2>4. Head(up).type = "EVT"
    BY <2>1, <2>2, <2>3, ComingEvents
  <2> QED
    BY <2>1, <2>4
<1>17. CASE FeatureStep
  <2>1. /\ k \in 0 .. FRAMES - 1 /\ Sends(First(base), Cor(base), k) /\ UNCHANGED <<script, i, g_errors>>
        /\ pc = "step" /\ Step.op = "feature" /\ pc' = "pump"
    BY <1>3, <1>17, FeatureSends DEF FeatureStep, Begin
  <2>2. SessionExact(First(base), Cor(base), k + 1)' /\ (StatsAre(k) => StatsAre(k + 1)')
    BY <1>2, <1>5, <1>6, <2>1, ExactSends
  <2>3. PICK n : n = k + 1
    OBVIOUS
  <2>4. n = IF pc = "step" /\ Step.op = "feature" THEN Sent(base) + 1 ELSE Sent(base)
    BY <1>3, <2>1, <2>3
  <2>5. Sent(base)' = n
    BY <2>1, <2>4, SessionOn
  <2>6. SessionExact(First(base), Cor(base), n)' /\ (StatsAre(k) => StatsAre(n)')
    BY <2>2, <2>3
  <2> QED
    BY <1>6, <2>1, <2>5, <2>6, ExactThere
<1>18. CASE DrainStep \/ PumpEnds
  <2>1. /\ \/ pc' = "pump" /\ i' = i /\ pc = "step" /\ Step.op = "drain"
           \/ pc = "pump" /\ pc' = "step" /\ i' = i + 1
        /\ script' = script /\ UNCHANGED Both /\ g_errors' = g_errors
    BY <1>18 DEF DrainStep, PumpEnds, Advance, Begin, Both, linkVars, histVars
  <2>2. k = IF pc = "step" /\ Step.op = "feature" THEN Sent(base) + 1 ELSE Sent(base)
    BY <1>3, <2>1
  <2>3. Sent(base)' = k
    BY <2>1, <2>2, SessionOn
  <2>4. SessionExact(First(base), Cor(base), k)' /\ (StatsAre(k) => StatsAre(k)')
    BY <1>6, <2>1, ExactStays
  <2> QED
    BY <1>6, <2>1, <2>3, <2>4, ExactThere
<1>19. CASE RefResetStep
  BY <1>1, <1>19 DEF RefResetStep, Begin
<1>20. CASE MatchedStep
  BY <1>20, MatchedExact
<1>21. CASE Finished \/ UNCHANGED vars
  <2>1. UNCHANGED <<script, i, pc, g_errors>> /\ UNCHANGED Both
    BY <1>21 DEF Finished, vars, linkVars, testVars, histVars, Both
  <2>2. SessionExact(First(base), Cor(base), k)' /\ (StatsAre(k) => StatsAre(k)')
    BY <1>6, <2>1, ExactStays
  <2> QED
    BY <1>6, <1>8, <2>1, <2>2, ExactThere
<1> QED
  BY <1>9, <1>10, <1>11, <1>12, <1>13, <1>14, <1>15, <1>16, <1>17, <1>18, <1>19, <1>20, <1>21 DEF Next, Run

-----------------------------------------------------------------------------
(* Between sessions, while nothing is lost. *)

\* The counters are the same, and so is what they have to be.
LEMMA ToldStays ==
  ASSUME Told, Place' = Place, Dropped' = Dropped, UNCHANGED <<script, dev.stats, g_ref, evt_matched, dev_evts>>
  PROVE  Told'
BY DEF Told, OnBoard, SessionStats, Intact

\* What is checked of a reply is the same.
LEMMA ReplyStays ==
  ASSUME UNCHANGED <<script, i, g_ref, evt_matched>>, NEW p
  PROVE  /\ Awaited' = Awaited /\ (ReplyOk(p)' <=> ReplyOk(p)) /\ Step' = Step /\ CommandFrame' = CommandFrame
         /\ Command' = Command
<1>1. Step' = Step /\ CommandFrame' = CommandFrame /\ OnBoard' = OnBoard
  BY DEF Step, CommandFrame, OnBoard
<1>2. SessionStats(p.stats)' <=> SessionStats(p.stats)
  BY DEF SessionStats
<1> QED
  BY <1>1, <1>2 DEF Awaited, ReplyOk, Command

\* DevAnswer.
LEMMA ExactAnswer ==
  ASSUME TypeOK, Control, Calm, CalmInv, CalmExact, DevAnswer
  PROVE  CalmExact'
<1>1. /\ Answered /\ Answered' /\ ~Idle' /\ ~Sending' /\ ~Lost' /\ Place' = Place
      /\ up = <<>> /\ up' # <<>> /\ up'[1] = dev.rsp
      /\ UNCHANGED <<down, dev.stats, script, i, pc, g_ref, evt_matched, dev_evts>>
  BY CalmAnswer
<1>2. ~Sending
  BY <1>1, CalmShape DEF Answered, Sending
<1>3. Reply.type = Awaited /\ ReplyOk(Reply)
  BY <1>1 DEF CalmExact, OnWay
<1>4. PICK p : p = Reply
  OBVIOUS
<1>5. Reply' = p
  BY <1>1, <1>4 DEF Reply
<1>6. Awaited' = Awaited /\ (ReplyOk(p)' <=> ReplyOk(p))
  BY <1>1, ReplyStays
<1>7. Reply'.type = Awaited' /\ ReplyOk(Reply)'
  BY <1>3, <1>4, <1>5, <1>6 DEF ReplyOk, SessionStats
<1>8. OnWay'
  BY <1>1, <1>7 DEF OnWay
<1>9. Dropped' = Dropped
  BY <1>1, <1>2 DEF Dropped
<1>10. Told'
  BY <1>1, <1>9, ToldStays DEF CalmExact
<1> QED
  BY <1>8, <1>10 DEF CalmExact

\* AskStep.
LEMMA ExactAsk ==
  ASSUME TypeOK, Control, Calm, CalmInv, CalmExact, AskStep
  PROVE  CalmExact'
<1>1. /\ At' = At /\ Idle /\ Sending' /\ ~Idle' /\ ~Answered' /\ ~Lost' /\ Place' = Place
      /\ Asking /\ Command' = Command /\ Place = At
      /\ \/ down = <<>> /\ Len(down') = 1 /\ down'[1] = Command
         \/ At = FRAMES + 8 /\ Len(down) = 1 /\ Len(down') = 2 /\ down'[1] = down[1] /\ down'[2] = Command
      /\ UNCHANGED <<dev, up, script, i, g_ref, evt_matched, dev_evts>>
  BY CalmAsk
<1>2. down'[Len(down')] = Command' /\ (Len(down') = 2 => down'[1].type = "FEATURE")
  <2>1. Len(down) = 1 => down[1].type = "FEATURE"
    BY <1>1 DEF CalmExact, OnWay
  <2>2. CASE down = <<>> /\ Len(down') = 1 /\ down'[1] = Command
    BY <1>1, <2>2
  <2>3. CASE Len(down) = 1 /\ Len(down') = 2 /\ down'[1] = down[1] /\ down'[2] = Command
    BY <1>1, <2>1, <2>3
  <2> QED
    BY <1>1, <2>2, <2>3
<1>3. OnWay'
  BY <1>1, <1>2 DEF OnWay
<1>4. At # FRAMES + 7 /\ ~Sending
  BY <1>1, Asked, CalmShape
<1>5. Len(down') - 1 = Len(down)
  <2>1. down = <<>> => Len(down) = 0
    OBVIOUS
  <2>2. \/ Len(down) = 0 /\ Len(down') = 1
        \/ Len(down) = 1 /\ Len(down') = 2
    BY <1>1, <2>1
  <2>3. PICK a, b : a = Len(down) /\ b = Len(down')
    OBVIOUS
  <2>4. (a = 0 /\ b = 1) \/ (a = 1 /\ b = 2)
    BY <2>2, <2>3
  <2>5. b - 1 = a
    BY <2>4
  <2> QED
    BY <2>3, <2>5
<1>6. Dropped' = Dropped
  BY <1>1, <1>4, <1>5 DEF Dropped
<1>7. Told'
  BY <1>1, <1>6, ToldStays DEF CalmExact
<1> QED
  BY <1>3, <1>7 DEF CalmExact

\* TakeReply: the reply is as it has to be.
LEMMA ExactReply ==
  ASSUME TypeOK, Control, Calm, CalmInv, CalmExact, TakeReply, TypeOK', Control'
  PROVE  CalmExact' /\ g_errors' = g_errors
<1>1. /\ Place' = Place /\ Answered /\ Idle' /\ ~Sending' /\ ~Answered' /\ ~Lost' /\ down' = <<>> /\ pc' = "step"
      /\ up # <<>> /\ g_errors' = (g_errors \/ ~ReplyOk(up[1]))
      /\ UNCHANGED <<dev, script, g_ref, evt_matched, dev_evts>>
  BY CalmReply
<1>2. ~Sending /\ down = <<>> /\ pc = "wait"
  BY <1>1, CalmShape
<1>3. ReplyOk(up[1])
  <2>1. Reply = up[1]
    BY <1>1 DEF Reply
  <2> QED
    BY <1>1, <2>1 DEF CalmExact, OnWay
<1>4. g_errors' = g_errors
  <2>1. g_errors \in BOOLEAN
    BY DEF TypeOK
  <2> QED
    BY <1>1, <1>3, <2>1
<1>5. OnWay'
  <2>1. Len(down') = 0
    BY <1>1
  <2> QED
    BY <1>1, <2>1 DEF OnWay
<1>6. Dropped' = Dropped
  BY <1>1, <1>2 DEF Dropped
<1>7. Told'
  BY <1>1, <1>6, ToldStays DEF CalmExact
<1> QED
  BY <1>4, <1>5, <1>7 DEF CalmExact

\* FeatureStep.
LEMMA ExactFeature ==
  ASSUME TypeOK, Control, Calm, CalmInv, CalmExact, FeatureStep
  PROVE  CalmExact' /\ g_errors' = g_errors
<1>1. /\ At = FRAMES + 7 /\ Place = At /\ Place' = At /\ down = <<>> /\ pc # "pump"
      /\ Len(down') = 1 /\ down'[1].type = "FEATURE" /\ pc' = "pump" /\ Idle' /\ ~Sending' /\ ~Answered' /\ ~Lost'
      /\ Idle /\ ~Sending
      /\ UNCHANGED <<dev, up, script, i, g_ref, evt_matched, g_errors, dev_evts, ref_evts, faults>>
  BY CalmFeature
<1>2. FRAMES \in Nat
  BY ScenarioAssumption
<1>3. OnWay'
  BY <1>1 DEF OnWay
<1>4. Dropped = 0 /\ Dropped' = 0
  BY <1>1, <1>2 DEF Dropped
<1>5. Told'
  BY <1>1, <1>4, ToldStays DEF CalmExact
<1> QED
  BY <1>1, <1>3, <1>5 DEF CalmExact

\* PumpEnds.
LEMMA ExactPump ==
  ASSUME TypeOK, Control, Calm, CalmInv, CalmExact, PumpEnds
  PROVE  CalmExact' /\ g_errors' = g_errors
<1>1. /\ At = FRAMES + 7 /\ At' = FRAMES + 8 /\ Place = At /\ Place' = At' /\ Idle /\ Idle'
      /\ ~Sending /\ ~Sending' /\ ~Answered' /\ ~Lost' /\ pc = "pump" /\ pc' = "step"
      /\ UNCHANGED <<dev, down, up, script, g_ref, evt_matched, g_errors, dev_evts, ref_evts, faults>>
  BY CalmPump
<1>2. FRAMES \in Nat \ {0}
  BY ScenarioAssumption
<1>3. OnWay'
  BY <1>1 DEF OnWay, CalmExact
<1>4. Dropped = 1 - Len(down) /\ Dropped' = 1 - Len(down)
  BY <1>1, <1>2 DEF Dropped
<1>5. dev.stats.frames_rx = Intact /\ dev.stats.dropped = Dropped
  BY <1>1, <1>2 DEF CalmExact, Told
<1>6. Told'
  BY <1>1, <1>2, <1>4, <1>5 DEF Told, Intact
<1> QED
  BY <1>1, <1>3, <1>6 DEF CalmExact

\* What is asked, what is checked of the reply, and where.
AskedFor(t, c) ==
  \/ c = "echo" /\ t \in CommandTypes
  \/ c = "geometry" /\ t = "READ_VERSION"
  \/ c = "session" /\ t = "READ_STATS" /\ At = FRAMES + 5
  \/ c = "stopped" /\ t = "READ_STATS" /\ At = FRAMES + 8
  \/ c = "cleared" /\ t = "READ_STATS" /\ At = FRAMES + 10
  \/ c = "error" /\ t \notin CommandTypes

\* Every request carries the check made of its reply.
LEMMA AskedForIt ==
  ASSUME TypeOK, Control, Asking
  PROVE  /\ AskedFor(Step.type, Step.check)
         /\ At = FRAMES + 9 \/ (i = 2 /\ OnBoard) => Step.type = "RESET"
         /\ At \in {FRAMES + 5, FRAMES + 6} => Step.type # "RESET"
         /\ At \notin 2 .. FRAMES + 4 /\ At # FRAMES + 7 /\ At \in Int
<1>1. /\ FRAMES \in Nat \ {0} /\ At \in Int /\ (i = 1 => At \in {-2, -1})
      /\ (i = 2 /\ OnBoard => At = -1)
  BY Everywhere
<1>2. /\ "PING" \in CommandTypes /\ "RESET" \in CommandTypes /\ "START" \in CommandTypes /\ "STOP" \in CommandTypes
      /\ "UNKNOWN_TYPE" \notin CommandTypes /\ "BAD_LENGTH" \notin CommandTypes /\ "BAD_VERSION" \notin CommandTypes
  BY DEF CommandTypes
<1>3. \A t, c : Step = Ask(t, c) => Step.type = t /\ Step.check = c
  BY StepKinds
<1>4. /\ i = 1 => Step.type = "PING" /\ Step.check = "echo"
      /\ i = 2 /\ OnBoard => Step.type = "RESET" /\ Step.check = "echo"
      /\ At = 0 => Step.type = "READ_VERSION" /\ Step.check = "geometry"
      /\ At = FRAMES + 5 => Step.type = "READ_STATS" /\ Step.check = "session"
      /\ At = FRAMES + 6 => Step.type = "STOP" /\ Step.check = "echo"
      /\ At = FRAMES + 8 => Step.type = "READ_STATS" /\ Step.check = "stopped"
      /\ At = FRAMES + 9 => Step.type = "RESET" /\ Step.check = "echo"
      /\ At = FRAMES + 10 => Step.type = "READ_STATS" /\ Step.check = "cleared"
      /\ At = FRAMES + 11 => Step.type = "UNKNOWN_TYPE" /\ Step.check = "error"
      /\ At = FRAMES + 12 => Step.type = "BAD_LENGTH" /\ Step.check = "error"
      /\ At = FRAMES + 13 => Step.type = "BAD_VERSION" /\ Step.check = "error"
      /\ At = 2 * FRAMES + 18 /\ OnBoard => Step.type = "STOP" /\ Step.check = "echo"
  BY <1>3, StepIs
<1>5. At = 1 \/ At = FRAMES + 14 => Step.type = "START" /\ Step.check = "echo"
  <2>1. \A b \in Sessions : At = b - 1 => Step = Ask("START", "echo")
    BY StepIs DEF StepAt
  <2>2. At = 1 => At = 2 - 1
    OBVIOUS
  <2>3. At = FRAMES + 14 => At = (FRAMES + 15) - 1
    BY <1>1
  <2> QED
    BY <1>3, <2>1, <2>2, <2>3 DEF Sessions
<1>6. \/ i = 1 \/ (i = 2 /\ OnBoard) \/ (At = 2 * FRAMES + 18 /\ OnBoard)
      \/ At \in {0, 1, FRAMES + 5, FRAMES + 6, FRAMES + 8, FRAMES + 9, FRAMES + 10, FRAMES + 11, FRAMES + 12,
                 FRAMES + 13, FRAMES + 14}
  BY DEF Asking
<1>7. AskedFor(Step.type, Step.check)
  <2>1. CASE i = 1 \/ (i = 2 /\ OnBoard) \/ (At = 2 * FRAMES + 18 /\ OnBoard)
    BY <1>2, <1>4, <2>1 DEF AskedFor
  <2>2. CASE At \in {0, 1, FRAMES + 5, FRAMES + 6, FRAMES + 8}
    BY <1>2, <1>4, <1>5, <2>2 DEF AskedFor
  <2>3. CASE At \in {FRAMES + 9, FRAMES + 10, FRAMES + 11, FRAMES + 12, FRAMES + 13, FRAMES + 14}
    BY <1>2, <1>4, <1>5, <2>3 DEF AskedFor
  <2> QED
    BY <1>6, <2>1, <2>2, <2>3
<1>8. At \notin 2 .. FRAMES + 4 /\ At # FRAMES + 7
  BY <1>1, <1>6
<1> QED
  BY <1>1, <1>4, <1>7, <1>8

\* The counters between sessions, all that DevTake needs of them.
LEMMA CountersTold ==
  ASSUME Told
  PROVE  /\ Place = FRAMES + 10 => dev.stats = NoStats
         /\ Place = FRAMES + 5 => SessionStats(dev.stats)
         /\ Place \in FRAMES + 5 .. FRAMES + 8 => dev.stats.frames_rx = Intact /\ dev.stats.dropped = Dropped
BY DEF Told

\* The reply to a command passes its check.
LEMMA ReplyIsOk ==
  ASSUME TypeOK, Control, Asking, Told, Place = At, Sending, Len(down) = 1, NEW r,
         r.cmd = Step.type, r.fn = CommandFrame,
         r.type = IF Step.type \in CommandTypes THEN ResponseType(Step.type) ELSE "ERROR",
         r.stats = IF Step.type = "READ_STATS" THEN dev.stats ELSE NoStats
  PROVE  r.type = Awaited /\ ReplyOk(r)
<1>1. AskedFor(Step.type, Step.check)
  BY AskedForIt
<1>2. "READ_STATS" \in CommandTypes /\ "READ_VERSION" \in CommandTypes
  BY DEF CommandTypes
<1>3. CASE Step.check = "echo" /\ Step.type \in CommandTypes
  BY <1>3 DEF Awaited, ReplyOk
<1>4. CASE Step.check = "geometry" /\ Step.type = "READ_VERSION"
  BY <1>2, <1>4 DEF Awaited, ReplyOk
<1>5. CASE Step.check = "session" /\ Step.type = "READ_STATS" /\ At = FRAMES + 5
  BY <1>2, <1>5, CountersTold DEF Awaited, ReplyOk
<1>6. CASE Step.check = "stopped" /\ Step.type = "READ_STATS" /\ At = FRAMES + 8
  <2>1. FRAMES \in Nat
    BY ScenarioAssumption
  <2>2. At \in FRAMES + 5 .. FRAMES + 8
    BY <1>6, <2>1
  <2>3. Dropped = 1
    BY <1>6, <2>1 DEF Dropped
  <2>4. dev.stats.frames_rx = Intact /\ dev.stats.dropped = 1
    BY <2>2, <2>3, CountersTold
  <2>5. r.stats.dropped = 1 /\ r.stats.frames_rx = FRAMES - Cardinality(CORRUPT)
    BY <1>6, <2>4 DEF Intact
  <2> QED
    BY <1>2, <1>6, <2>5 DEF Awaited, ReplyOk
<1>7. CASE Step.check = "cleared" /\ Step.type = "READ_STATS" /\ At = FRAMES + 10
  <2>1. r.stats = NoStats
    BY <1>7, CountersTold
  <2>2. r.stats.frames_rx = 0 /\ r.stats.keywords = 0 /\ r.stats.inferences = 0
    BY <2>1 DEF NoStats
  <2> QED
    BY <1>2, <1>7, <2>2 DEF Awaited, ReplyOk
<1>8. CASE Step.check = "error" /\ Step.type \notin CommandTypes
  BY <1>8 DEF Awaited, ReplyOk
<1> QED
  BY <1>1, <1>3, <1>4, <1>5, <1>6, <1>7, <1>8 DEF AskedFor

\* What the counters show when a command has been taken.
LEMMA CommandTold ==
  ASSUME TypeOK, Control, Asking, Told, Place = At, Place' = At + 1, pc' = "wait",
         dev'.stats = IF Step.type = "RESET" THEN NoStats ELSE dev.stats,
         UNCHANGED <<script, i, g_ref, evt_matched, dev_evts>>
  PROVE  Told'
<1>1. /\ At \notin 2 .. FRAMES + 4 /\ At # FRAMES + 7 /\ At \in Int
      /\ At = FRAMES + 9 \/ (i = 2 /\ OnBoard) => Step.type = "RESET"
      /\ At \in {FRAMES + 5, FRAMES + 6} => Step.type # "RESET"
  BY AskedForIt
<1>2. /\ FRAMES \in Nat \ {0} /\ (~OnBoard => At >= -1) /\ (i = 2 /\ OnBoard <=> At = -1 /\ OnBoard)
  <2>1. At = i - Lead /\ Lead = (IF OnBoard THEN 3 ELSE 2) /\ i \in 1 .. Len(script) + 1 /\ i \in Nat
    BY Everywhere DEF Control, TypeOK
  <2>2. i >= 1
    BY <2>1
  <2> QED
    BY <2>1, <2>2, ScenarioAssumption
<1>3. OnBoard' = OnBoard
  BY DEF OnBoard
<1>4. Place' <= 2 => dev_evts' = <<>>
  BY <1>1 DEF Told
<1>5. Place' \in (IF OnBoard THEN 0 ELSE -1) .. 2 => dev'.stats = NoStats
  <2> SUFFICES ASSUME Place' \in (IF OnBoard THEN 0 ELSE -1) .. 2 PROVE dev'.stats = NoStats
    OBVIOUS
  <2>1. CASE At \in (IF OnBoard THEN 0 ELSE -1) .. 2
    BY <2>1 DEF Told
  <2>2. CASE At \notin (IF OnBoard THEN 0 ELSE -1) .. 2
    <3>1. OnBoard /\ At = -1
      <4>1. CASE OnBoard
        BY <1>1, <2>2, <4>1
      <4>2. CASE ~OnBoard
        BY <1>1, <1>2, <2>2, <4>2
      <4> QED
        BY <4>1, <4>2
    <3> QED
      BY <1>1, <1>2, <3>1
  <2> QED
    BY <2>1, <2>2
<1>6. Place' = FRAMES + 10 => dev'.stats = NoStats
  <2>1. Place' = FRAMES + 10 => At = FRAMES + 9
    BY <1>1, <1>2
  <2> QED
    BY <1>1, <2>1
<1>7. Place' # FRAMES + 5
  BY <1>1, <1>2
<1>8. ASSUME Place' \in FRAMES + 5 .. FRAMES + 8
      PROVE  dev'.stats.frames_rx = Intact /\ dev'.stats.dropped = Dropped'
  <2>1. At \in {FRAMES + 5, FRAMES + 6} /\ At \in FRAMES + 5 .. FRAMES + 8
    BY <1>1, <1>2, <1>8
  <2>2. dev'.stats = dev.stats
    BY <1>1, <2>1
  <2>3. Dropped = 0 /\ Dropped' = 0
    <3>1. At # FRAMES + 7 /\ At # FRAMES + 8 /\ Place' # FRAMES + 8
      BY <1>2, <2>1
    <3> QED
      BY <3>1 DEF Dropped
  <2>4. dev.stats.frames_rx = Intact /\ dev.stats.dropped = Dropped
    BY <2>1, CountersTold
  <2> QED
    BY <2>2, <2>3, <2>4
<1> QED
  BY <1>3, <1>4, <1>5, <1>6, <1>7, <1>8 DEF Told, Intact

\* A frame that came after the STOP is counted, and it is the one that is expected.
LEMMA FrameTold ==
  ASSUME Told, Place' = Place, At' = At, Place = At, At \in {FRAMES + 7, FRAMES + 8}, At = FRAMES + 7 => pc = "pump",
         Dropped = 0, Dropped' = 1, SameBut(dev', dev), Counts(dev', dev, "dropped"),
         UNCHANGED <<script, pc, g_ref, evt_matched, dev_evts>>
  PROVE  Told'
<1>1. FRAMES \in Nat \ {0}
  BY ScenarioAssumption
<1>2. Place \in FRAMES + 5 .. FRAMES + 8 /\ Place # FRAMES + 10 /\ Place # FRAMES + 5 /\ ~(Place <= 2)
      /\ Place \notin (IF OnBoard THEN 0 ELSE -1) .. 2
  BY <1>1
<1>3. dev.stats.frames_rx = Intact /\ dev.stats.dropped = 0
  BY <1>2, CountersTold
<1>4. dev'.stats["frames_rx"] = dev.stats["frames_rx"] /\ dev'.stats["dropped"] = dev.stats["dropped"] + 1
  BY DEF Counts, Names
<1>5. dev'.stats.frames_rx = Intact /\ dev'.stats.dropped = 1
  BY <1>3, <1>4
<1>6. OnBoard' = OnBoard
  BY DEF OnBoard
<1> QED
  BY <1>2, <1>5, <1>6 DEF Told, Intact

\* DevTake.
LEMMA ExactCalmTake ==
  ASSUME TypeOK, Control, Calm, CalmInv, CalmExact, DevTake
  PROVE  CalmExact' /\ g_errors' = g_errors
<1>1. /\ UNCHANGED <<up, script, i, pc, g_ref, evt_matched, g_errors, dev_evts, ref_evts, faults>>
      /\ DevOK(dev) /\ down \in Seq(Requests) /\ Placed /\ Place = At /\ dev' = Receive(dev, down[1])
  BY CalmTakes
<1>2. At' = At /\ Command' = Command
  BY <1>1, CalmStays
<1>3. OnWay /\ Told
  BY DEF CalmExact
<1>4. FRAMES \in Nat
  BY ScenarioAssumption
<1>5. Len(down) # 0 => down[1] \in Requests
  BY <1>1
<1>6. CASE /\ Idle /\ Len(down) = 1 /\ Framish(down[1]) /\ down' = <<>> /\ Idle'
           /\ At \in {FRAMES + 7, FRAMES + 8} /\ ~dev.stream /\ SameBut(dev', dev)
  <2>1. /\ pc # "wait" /\ (At = FRAMES + 7 => pc = "pump")
    <3>1. down # <<>>
      BY <1>6
    <3> QED
      BY <1>4, <1>6, <3>1 DEF Idle
  <2>2. ~Sending /\ ~Sending' /\ ~Answered' /\ ~Lost'
    BY <1>1, <2>1 DEF Sending, Answered, Lost
  <2>3. down[1].type = "FEATURE"
    BY <1>3, <1>6 DEF OnWay
  <2>4. Counts(dev', dev, "dropped")
    BY <1>1, <1>5, <1>6, <2>3, FrameDropped
  <2>5. Place' = Place
    BY <1>1, <1>2, <2>2 DEF Place
  <2>6. Len(down') = 0
    BY <1>6
  <2>7. OnWay'
    BY <1>6, <2>2, <2>6 DEF OnWay
  <2>8. Dropped = 0 /\ Dropped' = 1
    <3>1. Place = FRAMES + 8 \/ (Place = FRAMES + 7 /\ pc = "pump")
      BY <1>1, <1>6, <2>1
    <3>2. 1 - Len(down) = 0 /\ 1 - Len(down') = 1
      BY <1>6, <2>6
    <3> QED
      BY <1>1, <2>2, <2>5, <3>1, <3>2 DEF Dropped
  <2>9. Told'
    BY <1>1, <1>2, <1>3, <1>6, <2>1, <2>4, <2>5, <2>8, FrameTold
  <2> QED
    BY <1>1, <2>7, <2>9 DEF CalmExact
<1>7. CASE Sending /\ Len(down) = 1 /\ down[1] = Command /\ Answered' /\ Asking /\ down' = <<>>
  <2>1. /\ Command \in Requests /\ Command.type = Step.type /\ Command.fn = CommandFrame
        /\ Step.type \notin {"FEATURE", "GARBLED"}
    BY <1>7, Asked DEF Command
  <2>2. PICK p : p = Command
    OBVIOUS
  <2>3. /\ p \in Requests /\ p.type \notin {"GARBLED", "FEATURE"} /\ dev' = Receive(dev, p)
    BY <1>1, <1>7, <2>1, <2>2
  <2>4. LET e == Receive(dev, p)
        IN  /\ e.rsp \in Replies /\ e.rsp.cmd = p.type /\ e.rsp.fn = p.fn
            /\ e.rsp.type = IF p.type \in CommandTypes THEN ResponseType(p.type) ELSE "ERROR"
            /\ e.rsp.stats = IF p.type = "READ_STATS" THEN dev.stats ELSE NoStats
            /\ e.stats = IF p.type = "RESET" THEN NoStats ELSE dev.stats
    BY <1>1, <2>3, CommandIs, Zenon
  <2>5. PICK r : r = dev'.rsp
    OBVIOUS
  <2>6. /\ r.cmd = Step.type /\ r.fn = CommandFrame
        /\ r.type = IF Step.type \in CommandTypes THEN ResponseType(Step.type) ELSE "ERROR"
        /\ r.stats = IF Step.type = "READ_STATS" THEN dev.stats ELSE NoStats
        /\ dev'.stats = IF Step.type = "RESET" THEN NoStats ELSE dev.stats
    BY <2>1, <2>2, <2>3, <2>4, <2>5
  <2>7. r.type = Awaited /\ ReplyOk(r)
    BY <1>1, <1>3, <1>7, <2>6, ReplyIsOk
  <2>8. up = <<>> /\ pc = "wait"
    BY <1>7 DEF Sending
  <2>9. Reply' = r
    BY <1>1, <2>5, <2>8 DEF Reply
  <2>10. Reply'.type = Awaited' /\ ReplyOk(Reply)'
    <3>1. Awaited' = Awaited /\ (ReplyOk(r)' <=> ReplyOk(r))
      BY <1>1, ReplyStays
    <3> QED
      BY <2>7, <2>9, <3>1 DEF ReplyOk, SessionStats
  <2>11. ~Lost' /\ ~Sending' /\ ~Idle'
    <3>1. Len(down') = 0
      BY <1>7
    <3> QED
      BY <1>1, <1>7, <2>8, <3>1 DEF Lost, Sending, Idle, Answered
  <2>12. OnWay'
    BY <1>7, <2>10, <2>11 DEF OnWay
  <2>13. Place' = At + 1
    BY <1>2, <1>7 DEF Place
  <2>14. Told'
    BY <1>1, <1>3, <1>7, <2>6, <2>8, <2>13, CommandTold
  <2> QED
    BY <1>1, <2>12, <2>14 DEF CalmExact
<1>8. CASE Sending /\ Len(down) = 1 /\ down[1].type = "GARBLED"
  <2>1. Asking
    BY <1>8, Kinds DEF Sending, Control
  <2>2. Command.type # "GARBLED"
    BY <2>1, Asked DEF Command
  <2>3. down[Len(down)] = Command
    BY <1>3, <1>8 DEF OnWay
  <2> QED
    BY <1>8, <2>2, <2>3
<1>9. CASE /\ Sending /\ Len(down) = 2 /\ Framish(down[1]) /\ Len(down') = 1 /\ down'[1] = down[2] /\ Sending'
           /\ At = FRAMES + 8 /\ ~dev.stream /\ SameBut(dev', dev)
  <2>1. down[2] = Command /\ down[1].type = "FEATURE"
    BY <1>3, <1>9 DEF OnWay
  <2>2. Counts(dev', dev, "dropped")
    BY <1>1, <1>5, <1>9, <2>1, FrameDropped
  <2>3. ~Idle' /\ ~Answered' /\ ~Lost'
    <3>1. down' # <<>> /\ pc = "wait"
      BY <1>9 DEF Sending
    <3> QED
      BY <1>1, <3>1 DEF Idle, Answered, Lost
  <2>4. OnWay'
    BY <1>2, <1>9, <2>1, <2>3 DEF OnWay
  <2>5. Place' = Place
    BY <1>1, <1>2, <2>3 DEF Place
  <2>6. Dropped = 0 /\ Dropped' = 1
    <3>1. 1 - (Len(down) - 1) = 0 /\ 1 - (Len(down') - 1) = 1
      BY <1>9
    <3> QED
      BY <1>1, <1>9, <2>5, <3>1 DEF Dropped
  <2>7. Told'
    BY <1>1, <1>2, <1>3, <1>4, <1>9, <2>2, <2>5, <2>6, FrameTold
  <2> QED
    BY <1>1, <2>4, <2>7 DEF CalmExact
<1> QED
  BY <1>6, <1>7, <1>8, <1>9, CalmTakes

\* RefResetStep: nothing has been counted of the session, and before the first one nothing at all.
LEMMA SessionOpensExact ==
  ASSUME TypeOK, Control, Calm, CalmInv, CalmExact, RefResetStep, TypeOK', Control', NEW base \in Sessions, At = base
  PROVE  ExactAt(base)'
<1>1. /\ At' = At + 1 /\ Place = At /\ dev.commits = 0 /\ dev.window = <<>> /\ dev.decided = 0 /\ dev.job = NoJob
      /\ down = <<>> /\ up = <<>> /\ g_ref' = EmptyRef /\ before' = evt_matched /\ dev_evts = ref_evts
      /\ evt_matched = Len(ref_evts)
      /\ UNCHANGED <<dev, down, up, evt_matched, dev_evts, ref_evts>>
  BY SessionBegins
<1>2. Sent(base)' = 0
  BY SessionOpens
<1>3. /\ First(base) \in Nat /\ Cor(base) \in SUBSET (0 .. FRAMES - 1)
  BY SessionFacts
<1>4. Len(down) = 0 /\ Len(up) = 0 /\ Len(dev.window) = 0
  BY <1>1
<1>5. g_ref'.commits = 0 /\ g_ref'.nth = 0 /\ g_ref'.inferences = 0
  BY <1>1 DEF EmptyRef
<1>6. Len(ref_evts) \in Nat
  BY LenProperties DEF TypeOK
<1>7. FlowExact(Cor(base), 0, dev', down')
  <2>1. Good(Cor(base), 0) = 0 /\ 0 - Len(down) = 0 /\ 1 .. Len(down) = {}
    BY <1>3, <1>4, GoodGrows
  <2>2. Good(Cor(base), 0 - Len(down)) = 0
    BY <2>1
  <2> QED
    BY <1>1, <2>1, <2>2 DEF FlowExact
<1>8. WindowExact(First(base), Cor(base), dev')
  <2>1. 1 .. Len(dev.window) = {}
    BY <1>4
  <2> QED
    BY <1>1, <2>1 DEF WindowExact
<1>9. RingExact(First(base), Cor(base), g_ref')
  <2>1. 1 .. g_ref'.commits = {}
    BY <1>5
  <2> QED
    BY <2>1 DEF RingExact
<1>10. evt_matched + 1 .. Len(ref_evts) = {}
  BY <1>1, <1>6
<1>11. /\ EventsExact(First(base), Cor(base), before', dev_evts')
       /\ EventsExact(First(base), Cor(base), before', ref_evts')
  BY <1>1, <1>10 DEF EventsExact
<1>12. UpExact(evt_matched', dev_evts', up')
  <2>1. Len(up) = Len(dev_evts) - evt_matched /\ 1 .. Len(up) = {}
    BY <1>1, <1>4, <1>6
  <2> QED
    BY <1>1, <2>1 DEF UpExact
<1>13. SessionExact(First(base), Cor(base), 0)'
  BY <1>7, <1>8, <1>9, <1>11, <1>12 DEF SessionExact
<1>14. base = 2 => StatsAre(0)'
  <2> SUFFICES ASSUME base = 2 PROVE StatsAre(0)'
    OBVIOUS
  <2>1. dev.stats = NoStats /\ dev_evts = <<>>
    BY <1>1 DEF CalmExact, Told
  <2>2. Len(dev_evts) = 0 /\ (0 - Len(down)) - dev.commits = 0
    <3>1. dev_evts = <<>> => Len(dev_evts) = 0
      OBVIOUS
    <3>2. PICK a, c : a = Len(down) /\ c = dev.commits
      OBVIOUS
    <3>3. a = 0 /\ c = 0
      BY <1>1, <1>4, <3>2
    <3>4. (0 - a) - c = 0
      BY <3>3
    <3> QED
      BY <2>1, <3>1, <3>2, <3>4
  <2>3. StatsExact(0, dev, down, g_ref', dev_evts)
    BY <1>1, <1>5, <2>1, <2>2 DEF StatsExact, NoStats
  <2> QED
    BY <1>1, <2>3 DEF StatsAre
<1> QED
  BY <1>2, <1>13, <1>14, ExactThere

\* While nothing is lost, whatever happens between sessions is no error.
LEMMA CalmNoAlarm ==
  ASSUME TypeOK, Control, Calm, CalmInv, CalmExact, faults = 0, faults' = 0, [Next]_vars, TypeOK', Control'
  PROVE  g_errors' = g_errors /\ (CalmExact' \/ (At \in Sessions /\ RefResetStep))
<1>1. CASE DevTake
  BY <1>1, ExactCalmTake
<1>2. CASE DevAnswer
  BY <1>2, ExactAnswer DEF DevAnswer, testVars
<1>3. CASE DevDecide
  BY <1>3 DEF DevDecide, CalmInv
<1>4. CASE Lose
  BY <1>4 DEF Lose
<1>5. CASE AskStep
  BY <1>5, ExactAsk DEF AskStep
<1>6. CASE TakeEvent
  <2>1. up # <<>> /\ Head(up).type = "EVT"
    BY <1>6 DEF TakeEvent
  <2>2. up[1].type # "EVT"
    BY <2>1, CalmShape
  <2>3. Head(up) = up[1]
    BY <2>1, Heads DEF TypeOK
  <2> QED
    BY <2>1, <2>2, <2>3
<1>7. CASE TakeReply
  BY <1>7, ExactReply
<1>8. CASE TakeOther
  <2>1. up # <<>> /\ (pc = "pump" \/ (pc = "wait" /\ Head(up).type # Awaited))
    BY <1>8 DEF TakeOther
  <2>2. Answered /\ pc = "wait"
    BY <2>1, CalmShape
  <2>3. Reply.type = Awaited
    BY <2>2 DEF CalmExact, OnWay
  <2>4. Reply = Head(up)
    BY <2>1, Heads DEF Reply, TypeOK
  <2> QED
    BY <2>1, <2>2, <2>3, <2>4
<1>9. CASE Timeout
  <2>1. pc = "wait" /\ Quiet
    BY <1>9 DEF Timeout
  <2>2. Lost
    BY <2>1 DEF Quiet, DevQuiet, Lost
  <2> QED
    BY <2>2 DEF CalmExact, OnWay
<1>10. CASE FeatureStep
  BY <1>10, ExactFeature
<1>11. CASE DrainStep \/ MatchedStep
  BY <1>11, Outside DEF DrainStep, MatchedStep, Begin
<1>12. CASE PumpEnds
  BY <1>12, ExactPump
<1>13. CASE RefResetStep
  BY <1>13, SessionBegins
<1>14. CASE Finished \/ UNCHANGED vars
  <2>1. UNCHANGED vars
    BY <1>14 DEF Finished
  <2>2. UNCHANGED <<dev, down, up, script, i, pc, g_ref, evt_matched, g_errors, dev_evts>>
    BY <2>1 DEF vars, linkVars, testVars, histVars
  <2>3. At' = At /\ OnBoard' = OnBoard
    BY <2>2, CalmStays
  <2>4. /\ Command' = Command /\ Awaited' = Awaited /\ Step' = Step /\ CommandFrame' = CommandFrame
    BY <2>2, ReplyStays
  <2>5. (Idle' <=> Idle) /\ (Sending' <=> Sending) /\ (Answered' <=> Answered) /\ (Lost' <=> Lost)
    BY <2>2, <2>3, <2>4 DEF Idle, Sending, Answered, Lost
  <2>6. Place' = Place /\ Reply' = Reply
    BY <2>2, <2>3, <2>5 DEF Place, Reply
  <2>7. Dropped' = Dropped
    BY <2>2, <2>5, <2>6 DEF Dropped
  <2>8. Told'
    BY <2>2, <2>6, <2>7, ToldStays DEF CalmExact
  <2>9. ReplyOk(Reply)' <=> ReplyOk(Reply)
    <3>1. PICK p : p = Reply
      OBVIOUS
    <3>2. ReplyOk(p)' <=> ReplyOk(p)
      BY <2>2, ReplyStays
    <3> QED
      BY <2>6, <3>1, <3>2 DEF ReplyOk, SessionStats
  <2>10. OnWay'
    BY <2>2, <2>4, <2>5, <2>6, <2>9 DEF OnWay, CalmExact
  <2> QED
    BY <2>2, <2>8, <2>10 DEF CalmExact
<1> QED
  BY <1>1, <1>2, <1>3, <1>4, <1>5, <1>6, <1>7, <1>8, <1>9, <1>10, <1>11, <1>12, <1>13, <1>14 DEF Next, Run

\* After a session the counters show what it was.
LEMMA CalmAfter ==
  ASSUME TypeOK, Control, NEW base \in Sessions, InSession(base), SessionAt(base), ExactAt(base), MatchedStep,
         ~g_errors', TypeOK', Control'
  PROVE  CalmExact'
<1>1. At' = base + FRAMES + 3
  BY MatchedAgrees
<1>2. /\ pc' = "step" /\ UNCHANGED <<dev, down, up, g_ref, evt_matched>> /\ Step.op = "matched"
  BY DEF MatchedStep, Begin, Advance, linkVars, histVars
<1>3. /\ base \in {2, FRAMES + 15} /\ FRAMES \in Nat \ {0}
  BY ScenarioAssumption DEF Sessions
<1>4. At = base + FRAMES + 2
  BY <1>2, Inside
<1>5. down = <<>>
  BY <1>4 DEF SessionAt, Quiet, DevQuiet
<1>6. ~Lost' /\ ~Sending' /\ ~Answered'
  BY <1>2 DEF Lost, Sending, Answered
<1>7. Place' = base + FRAMES + 3
  BY <1>1, <1>6 DEF Place
<1>8. OnWay'
  <2>1. Len(down') = 0
    BY <1>2, <1>5
  <2> QED
    BY <1>6, <2>1 DEF OnWay
<1>9. Told'
  <2>1. CASE base = 2
    <3>1. SessionStats(dev.stats)
      BY <2>1, MatchedExact
    <3>2. SessionStats(dev.stats)'
      BY <1>2, <3>1 DEF SessionStats
    <3>3. dev'.stats.frames_rx = Intact /\ dev'.stats.dropped = 0
      BY <1>2, <3>1 DEF SessionStats, Intact
    <3>4. Place' = FRAMES + 5
      BY <1>3, <1>7, <2>1
    <3>5. Dropped' = 0
      BY <1>3, <3>4 DEF Dropped
    <3>6. /\ ~(Place' <= 2) /\ Place' # FRAMES + 10 /\ \A l \in {0, -1} : Place' \notin l .. 2
      BY <1>3, <3>4
    <3> QED
      BY <3>2, <3>3, <3>5, <3>6 DEF Told, Intact
  <2>2. CASE base = FRAMES + 15
    <3>1. Place' = 2 * FRAMES + 18
      BY <1>3, <1>7, <2>2
    <3>2. /\ ~(Place' <= 2) /\ Place' # FRAMES + 10 /\ Place' # FRAMES + 5 /\ Place' \notin FRAMES + 5 .. FRAMES + 8
          /\ \A l \in {0, -1} : Place' \notin l .. 2
      BY <1>3, <3>1
    <3> QED
      BY <3>2 DEF Told
  <2> QED
    BY <1>3, <2>1, <2>2
<1> QED
  BY <1>8, <1>9 DEF CalmExact

-----------------------------------------------------------------------------
(* No false alarm. *)

\* Exactness at a place of a session is exactness.
LEMMA ExactInSession ==
  ASSUME NEW base \in Sessions, InSession(base)', ExactAt(base)'
  PROVE  Exact'
<1>1. base \in {2, FRAMES + 15} /\ FRAMES \in Nat
  BY ScenarioAssumption DEF Sessions
<1>2. At' \in base + 1 .. base + FRAMES + 2
  BY DEF InSession
<1>3. ~Calm'
  BY <1>2 DEF Calm, InSession
<1>4. ASSUME NEW b \in Sessions, b # base PROVE ExactAt(b)'
  <2>1. At' \notin b + 1 .. b + FRAMES + 2
    BY <1>1, <1>2, <1>4 DEF Sessions
  <2>2. ~InSession(b)'
    BY <2>1 DEF InSession
  <2> QED
    BY <2>2 DEF ExactAt
<1>5. ExactAt(2)'
  BY <1>4 DEF Sessions
<1>6. ExactAt(FRAMES + 15)'
  BY <1>4 DEF Sessions
<1> QED
  BY <1>3, <1>5, <1>6 DEF Exact

\* Between sessions only the calm part is to be exact.
LEMMA ExactInCalm ==
  ASSUME Calm', CalmExact'
  PROVE  Exact'
<1>1. ASSUME NEW b \in Sessions PROVE ExactAt(b)'
  <2>1. ~InSession(b)'
    BY DEF Calm, InSession
  <2> QED
    BY <2>1 DEF ExactAt
<1>2. ExactAt(2)'
  BY <1>1 DEF Sessions
<1>3. ExactAt(FRAMES + 15)'
  BY <1>1 DEF Sessions
<1> QED
  BY <1>2, <1>3 DEF Exact

\* A step that loses nothing finds no error.
LEMMA AlarmKeeps ==
  ASSUME TypeOK, Control, Agree, Exact, ~g_errors, faults = 0, faults' = 0, [Next]_vars, TypeOK', Control'
  PROVE  ~g_errors' /\ Exact'
<1>1. ASSUME NEW base \in Sessions, InSession(base), SessionAt(base), ExactAt(base) PROVE ~g_errors' /\ Exact'
  <2>1. ~g_errors' /\ (MatchedStep \/ ExactAt(base)')
    BY <1>1, SessionNoAlarm
  <2>2. \/ InSession(base)' /\ SessionAt(base)'
        \/ Calm' /\ MatchedStep
    BY <1>1, <2>1, SessionStep
  <2>3. CASE MatchedStep
    <3>1. Calm'
      BY <1>1, <2>1, <2>3, MatchedAgrees
    <3>2. CalmExact'
      BY <1>1, <2>1, <2>3, CalmAfter
    <3> QED
      BY <2>1, <3>1, <3>2, ExactInCalm
  <2>4. CASE ~MatchedStep
    BY <1>1, <2>1, <2>2, <2>4, ExactInSession
  <2> QED
    BY <2>3, <2>4
<1>2. CASE Calm
  <2>1. CalmInv /\ CalmExact
    BY <1>2 DEF Agree, Exact
  <2>2. ~g_errors' /\ (CalmExact' \/ (At \in Sessions /\ RefResetStep))
    BY <1>2, <2>1, CalmNoAlarm
  <2>3. CASE At \in Sessions /\ RefResetStep
    <3>1. PICK base \in Sessions : At = base
      BY <2>3
    <3>2. InSession(base)' /\ ExactAt(base)'
      BY <1>2, <2>1, <2>3, <3>1, SessionOpens, SessionOpensExact
    <3> QED
      BY <2>2, <3>2, ExactInSession
  <2>4. CASE ~(At \in Sessions /\ RefResetStep)
    <3>1. Calm'
      BY <1>2, <2>1, <2>2, <2>4, CalmStep
    <3> QED
      BY <2>2, <2>4, <3>1, ExactInCalm
  <2> QED
    BY <2>3, <2>4
<1>3. SessionAt(2) /\ SessionAt(FRAMES + 15) /\ ExactAt(2) /\ ExactAt(FRAMES + 15)
  BY DEF Agree, Exact
<1>4. Calm \/ InSession(2) \/ InSession(FRAMES + 15)
  BY Between
<1> QED
  BY <1>1, <1>2, <1>3, <1>4 DEF Sessions

\* With nothing lost the start is exact.
LEMMA AlarmFirst == Init => AlarmInv
<1> SUFFICES ASSUME Init PROVE ~g_errors /\ Exact
  BY DEF AlarmInv
<1>1. /\ Calm /\ CalmInv /\ Idle /\ ~Sending /\ ~Answered /\ ~Lost /\ down = <<>> /\ Place = At
      /\ At = IF OnBoard THEN -2 ELSE -1
  BY CalmFirst
<1>2. FRAMES \in Nat
  BY ScenarioAssumption
<1>3. OnWay
  <2>1. Len(down) = 0
    BY <1>1
  <2> QED
    BY <1>1, <2>1 DEF OnWay
<1>4. Told
  <2>1. dev_evts = <<>> /\ (~OnBoard => dev.stats = NoStats)
    BY DeviceFirst DEF Init
  <2>2. /\ Place # FRAMES + 10 /\ Place # FRAMES + 5 /\ Place \notin FRAMES + 5 .. FRAMES + 8
        /\ OnBoard => Place \notin 0 .. 2
    BY <1>1, <1>2
  <2> QED
    BY <2>1, <2>2 DEF Told
<1>5. ExactAt(2) /\ ExactAt(FRAMES + 15)
  BY <1>1 DEF Calm, Sessions, ExactAt
<1>6. ~g_errors
  BY DEF Init
<1> QED
  BY <1>3, <1>4, <1>5, <1>6 DEF Exact, CalmExact

\* Packets that are lost stay lost.
LEMMA FaultsStay ==
  ASSUME TypeOK, [Next]_vars, faults' = 0
  PROVE  faults = 0
<1>1. faults \in Nat
  BY DEF TypeOK
<1>2. faults' = faults \/ faults' = faults + 1
  <2>1. CASE DevTake \/ DevAnswer \/ DevDecide \/ Lose
    BY <2>1 DEF DevTake, DevAnswer, DevDecide, Lose, histVars
  <2>2. CASE AskStep \/ TakeEvent \/ TakeReply \/ TakeOther \/ Timeout
    BY <2>2 DEF AskStep, TakeEvent, TakeReply, TakeOther, Timeout, histVars
  <2>3. CASE FeatureStep \/ DrainStep \/ PumpEnds \/ RefResetStep \/ MatchedStep
    BY <2>3 DEF FeatureStep, DrainStep, PumpEnds, RefResetStep, MatchedStep, histVars
  <2>4. CASE Finished \/ UNCHANGED vars
    BY <2>4 DEF Finished, vars, histVars
  <2> QED
    BY <2>1, <2>2, <2>3, <2>4 DEF Next, Run
<1> QED
  BY <1>1, <1>2

\* With nothing lost every step is exact and raises no alarm.
LEMMA AlarmKept == PassInv /\ AlarmInv /\ [Next]_vars => AlarmInv'
<1> SUFFICES ASSUME PassInv, AlarmInv, [Next]_vars, faults' = 0 PROVE ~g_errors' /\ Exact'
  BY DEF AlarmInv
<1>1. TypeOK /\ Control /\ (~g_errors => Agree)
  BY DEF PassInv
<1>2. TypeOK' /\ Control'
  BY <1>1, TypesKept
<1>3. faults = 0
  BY <1>1, FaultsStay
<1>4. ~g_errors /\ Exact
  BY <1>3 DEF AlarmInv
<1> QED
  BY <1>1, <1>2, <1>3, <1>4, AlarmKeeps

\* The invariant behind it: with nothing lost every packet on the way, every counter of
\* the device and every expected event is what the script has made it.
THEOREM AlarmInvariant == Spec => []AlarmInv
<1> QED
  BY PassInvariant, AlarmFirst, AlarmKept, PTL DEF Spec

\* The checks of hwtest.c and the bench never fail on a link that loses nothing and
\* answers in time.
THEOREM NeverAnAlarm == Spec => []NoFalseAlarm
<1>1. AlarmInv => NoFalseAlarm
  BY DEF AlarmInv, NoFalseAlarm
<1> QED
  BY <1>1, AlarmInvariant, PTL
=============================================================================
